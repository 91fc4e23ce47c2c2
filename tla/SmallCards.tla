----------------------------- MODULE SmallCards -----------------------------
(***************************************************************************)
(* The small drivers: scgeldkarte.c (T=1 only), scproton.c, scquick.c and  *)
(* sccarteb.c.  One definition per driver function that sends a command,   *)
(* named after its card.                                                   *)
(***************************************************************************)
EXTENDS Apdu

CONSTANTS Lens      \* lengths a caller may give as an int

Bytes == Lens \cap 0..255

GeldkarteGetChall       == KeepsSw(Fixed(2, 8, 5, Either(8)))
\* Version 3 of the card has no such command.
GeldkarteGetStat(third) == KeepsSw(Cmd(~third, 2, 64, 5, 5, Data))
GeldkarteReadRecord(mode, n) == Cmd(mode \in {1, 2} /\ n <= 256, 2, Byte(n), 5, 5, Data)
\* asked: the caller wants control information, and so an Le is sent.
GeldkarteSelectFile(type, asked, n) ==
  LET cse == IF asked THEN 4 ELSE 3
      le  == IF asked THEN 1 ELSE 0
  IN  CASE type = "mf"  -> Cmd(TRUE, IF asked THEN 2 ELSE 1, 0, 4 + le, 21, Data)
        [] type = "fid" -> Cmd(TRUE, cse, 2, 7 + le, 21, Data)
        [] type = "aid" -> Cmd(n \in 5..15, cse, n, 5 + n + le, 21, Data)
        [] OTHER        -> Cmd(FALSE, 3, 0, 4, 21, Data)
\* The limit is the size of the data and not the largest Lc.
GeldkarteVerifyPIN(pin, n) == KeepsSw(Cmd(n <= 256 /\ pin <= 1, 3, Byte(n), 5 + n, 261, NoData))

ProtonLookupBalance(n)  == Cmd(n <= 256, 2, 5, 5, 5, Data)
ProtonReadBinary(n)     == Read(n)
ProtonReadRecord(n)     == Read(n)
ProtonSelectFile        == Fixed(4, 2, 8, Data)

QuickGetChall           == KeepsSw(Fixed(2, 8, 5, Either(8)))
QuickReadBinary(n)      == Cmd(n <= 70, 2, Byte(n), 5, 5, Data)
QuickReadRecord(n)      == Read(n)
QuickSelectFile         == Fixed(3, 2, 7, NoData)

CartebRead(n)           == Read(n)

GeldkarteCommands ==
  {GeldkarteGetChall} \cup {GeldkarteGetStat(b) : b \in BOOLEAN}
    \cup {GeldkarteReadRecord(k, n) : k \in 0..3, n \in Lens}
    \cup {GeldkarteSelectFile(t, b, n) :
            t \in {"mf", "fid", "aid", "none"}, b \in BOOLEAN, n \in Bytes}
    \cup {GeldkarteVerifyPIN(k, n) : k \in 0..2, n \in Lens \cap 0..256}

Commands ==
  {ProtonSelectFile, QuickGetChall, QuickSelectFile}
    \cup (UNION {{ProtonLookupBalance(n), ProtonReadBinary(n), ProtonReadRecord(n),
                  QuickReadBinary(n), QuickReadRecord(n), CartebRead(n)} : n \in Lens})
=============================================================================
