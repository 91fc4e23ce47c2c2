-------------------------------- MODULE Mfc ---------------------------------
(***************************************************************************)
(* scmfc.c: the MFC and MPCOS style cards of IBM.  One definition per      *)
(* driver function that sends a command.                                   *)
(***************************************************************************)
EXTENDS Apdu

CONSTANTS Lens      \* lengths a caller may give as an int

Bytes == Lens \cap 0..255
Amount             == 3
\* A caller who names no length is given all.
UpTo(n)            == IF n = 0 THEN Data ELSE Cut(n)

AppendRecord(n)    == Write(n, NoData)
CardBlock          == Fixed(1, 0, 4, NoData)
ChangeCHV(num)     == Cmd(num <= 2, 3, 16, 21, 21, Status)
CloseAppl          == Fixed(1, 0, 4, NoData)
\* Lc is that of a file without initial data, whatever the file.
CreateFile(records, n) ==
  Cmd(n <= 240, 3, 14, (IF records THEN 20 ELSE 19) + n, 261, Status)
Decrease(n)        == Cmd(n >= 0, 4, Amount, 9, 9, UpTo(n))
DecreaseStamp(n)   == Cmd(n >= 0, 4, Amount, 9, 9, UpTo(n))
Delete             == Fixed(3, 2, 7, NoData)
\* With a key number Lc counts it, and the length of the command does not.
ExtAuth(keynum) ==
  IF keynum THEN Cmd(TRUE, 3, 9, 13, 14, NoData) ELSE Cmd(TRUE, 3, 8, 13, 14, NoData)
GetChall(n)        == Cmd(n <= 24, 2, Byte(n), 5, 5, Data)
GiveRand           == Fixed(3, 8, 13, NoData)
Increase(n)        == Cmd(n >= 0, 4, Amount, 9, 9, UpTo(n))
IncreaseStamp(n)   == Cmd(n >= 0, 4, Amount, 9, 9, UpTo(n))
IntAuth            == Fixed(4, 9, 15, Proof(6))
Invalidate         == Fixed(1, 0, 4, NoData)
LoadKeyFile(n)     == Write(n, Status)
Lock               == Fixed(3, 2, 7, NoData)
ModBaudRate        == Fixed(1, 0, 4, NoData)
ReadBinary(n)      == Read(n)
ReadBinStamp(n)    == Read(n)
ReadRecord(n)      == Read(n)
ReadRecStamp(n)    == Read(n)
ReadStat(n)        == Read(n)
Rehabilitate       == Fixed(1, 0, 4, NoData)
Seek(asked, n) ==
  IF asked THEN Cmd(TRUE, 4, n, 6 + n, 262, Cut(1)) ELSE Cmd(TRUE, 3, n, 5 + n, 262, NoData)
\* asked is whether the caller wants the answer; the parent is selected by a
\* command without a fifth byte either way.
Select(type, asked, n) ==
  LET answer == IF asked THEN Data ELSE NoData
      cse    == IF asked THEN 4 ELSE 3
      le     == IF asked THEN 1 ELSE 0
  IN  CASE type = "parent" -> Cmd(TRUE, IF asked THEN 2 ELSE 1, 0, 4, 22, answer)
        [] type = "fid"    -> Cmd(TRUE, cse, 2, 7 + le, 22, answer)
        [] type = "path"   -> Cmd(n <= 16, cse, n, 5 + n + le, 22, answer)
        [] OTHER           -> Cmd(FALSE, 3, 0, 4, 22, answer)
SetExec            == Fixed(3, 2, 7, NoData)
UnblockCHV(num)    == Cmd(num <= 2, 3, 16, 21, 21, Status)
UpdateBinary(n)    == Write(n, NoData)
UpdateRecord(n)    == Write(n, NoData)
VerifyCHV(num)     == Cmd(num <= 2, 3, 8, 13, 13, Status)

Commands ==
  {CardBlock, CloseAppl, Delete, GiveRand, IntAuth, Invalidate, Lock, ModBaudRate, Rehabilitate,
   SetExec}
    \cup (UNION {{ChangeCHV(k), UnblockCHV(k), VerifyCHV(k)} : k \in 0..3})
    \cup {ExtAuth(b) : b \in BOOLEAN}
    \cup (UNION {{Decrease(n), DecreaseStamp(n), Increase(n), IncreaseStamp(n), GetChall(n),
                  ReadBinary(n), ReadBinStamp(n), ReadRecord(n), ReadRecStamp(n), ReadStat(n)} :
                    n \in Lens})
    \cup (UNION {{AppendRecord(n), LoadKeyFile(n), UpdateBinary(n), UpdateRecord(n)} : n \in Bytes})
    \cup (UNION {{CreateFile(b, n), Seek(b, n)} : b \in BOOLEAN, n \in Bytes})
    \cup {Select(t, b, n) : t \in {"parent", "fid", "path", "none"}, b \in BOOLEAN, n \in Bytes}
=============================================================================
