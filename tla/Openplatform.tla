---------------------------- MODULE Openplatform ----------------------------
(***************************************************************************)
(* scopenplatform.c: the Open Platform card manager.  One definition per   *)
(* driver function that sends a command.                                   *)
(***************************************************************************)
EXTENDS Apdu

CONSTANTS Lens      \* lengths a caller may give as an int

Bytes == Lens \cap 0..255
WithLe(n, answer) == Cmd(TRUE, 4, n, 6 + n, 262, answer)
NoLe(n)           == Cmd(TRUE, 3, n, 5 + n, 262, NoData)

Delete(n)     == WithLe(n, NoData)
GetData       == Fixed(2, 0, 5, Data)
GetStatus(n)  == WithLe(n, Data)
Install(n)    == WithLe(n, NoData)
Load(n)       == WithLe(n, NoData)
PutKey(n)     == WithLe(n, Data)
Select(n)     == WithLe(n, Data)
SetStatus(n)  == NoLe(n)
InitUpdate    == Fixed(4, 8, 14, Data)
ExtAuth(n)    == NoLe(n)

Commands ==
  {GetData, InitUpdate}
    \cup (UNION {{Delete(n), GetStatus(n), Install(n), Load(n), PutKey(n), Select(n),
                  SetStatus(n), ExtAuth(n)} : n \in Bytes})
=============================================================================
