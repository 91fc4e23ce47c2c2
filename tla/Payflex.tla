------------------------------ MODULE Payflex -------------------------------
(***************************************************************************)
(* scpayflex.c: the Payflex cards.  One definition per driver function     *)
(* that sends a command.                                                   *)
(***************************************************************************)
EXTENDS Apdu

CONSTANTS Lens,     \* lengths a caller may give as an int
          Sw2s      \* values ci->sw[1] may have

Bytes == Lens \cap 0..255

Change            == Fixed(3, 16, 21, Status)
CreateFile(ftype) ==
  IF ftype \in {2, 6} THEN Cmd(TRUE, 3, 17, 22, 22, Status) ELSE Cmd(TRUE, 3, 16, 21, 22, Status)
ExtAuth           == Fixed(3, 7, 12, Status)
GetChall(n)       == Cmd(n \in -1..255, 2, Byte(IF n = -1 THEN 8 ELSE n), 5, 5, Data)
GetResp(sw2)      == Follow(Fixed(2, sw2, 5, Data))
IntAuth           == Fixed(4, 8, 14, Proof(6))
ReadRecord(n)     == Read(n)
Select            == Fixed(4, 2, 8, Data)
Unblock           == Fixed(3, 16, 21, Status)
UpdateRecord(n)   == Write(n, Status)
Verify            == Fixed(3, 8, 13, Status)

Commands ==
  {Change, ExtAuth, IntAuth, Select, Unblock, Verify}
    \cup {CreateFile(k) : k \in 0..6}
    \cup (UNION {{GetChall(n), ReadRecord(n)} : n \in Lens})
    \cup {UpdateRecord(n) : n \in Bytes}
    \cup {GetResp(s) : s \in Sw2s}
=============================================================================
