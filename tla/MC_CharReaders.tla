-------------------------- MODULE MC_CharReaders --------------------------
(***************************************************************************)
(* All three readers and every kind of ATR: none but T0, one to four       *)
(* groups, with and without historical bytes, with and without TCK, of the *)
(* greatest length the driver takes and of one byte more.                  *)
(***************************************************************************)
EXTENDS CharReaders

G(y, t) == [y |-> y, t |-> t]
Ys == {{}, {"A", "B", "C"}}
McGroups ==
  {<<G(y, -1)>> : y \in Ys}
  \cup {<<G({"A"}, 0), G(y, -1)>> : y \in Ys}
  \cup {<<G({}, 1), G(y, -1)>> : y \in {{}, {"C"}}}
  \cup {<<G({}, p), G({"C"}, t), G(y, -1)>> :
          p \in {0, 1}, t \in {1, 15}, y \in {{"A"}, {"A", "B", "C"}}}
  \cup {<<G({}, 1), G({}, 1), G({"A", "B"}, 15), G({}, -1)>>}
McReaders == {"dumbmouse", "easycheck", "towitoko"}
McCards ==
  [inverse : BOOLEAN, groups : McGroups, hist : {0, 3}, known : {"no"}]
  \cup [inverse : {FALSE}, groups : {<<G({"A"}, 1), G({}, 1), G({"A", "B"}, -1)>>},
        hist : {0}, known : {"constants"}]
  \cup [inverse : {FALSE}, groups : {<<G({"A", "B", "C"}, 0), G({"A", "B", "C"}, 0),
                                       G({"A", "B", "C"}, 1), G(y, -1)>> : y \in {{"A", "B"}, {"A", "B", "C"}}},
        hist : {15}, known : {"no"}]
=============================================================================
