------------------------------ MODULE Cyberflex -----------------------------
(***************************************************************************)
(* sccyberflex.c: the Cyberflex Access cards, T=0 only.  One definition    *)
(* per driver function that sends a command.                               *)
(***************************************************************************)
EXTENDS Apdu

CONSTANTS Lens,     \* lengths a caller may give as an int
          Sw2s      \* values ci->sw[1] may have

Bytes == Lens \cap 0..255

AppendRecord(n)    == Cmd(TRUE, 3, Byte(n), 5 + Byte(n), 5 + 255, Status)
ChangeCHV          == Fixed(3, 16, 21, Status)
ChangeFileACL      == Fixed(3, 8, 13, Status)
ChangeJavaATR(n)   == Cmd(n <= 12, 3, n, 5 + n, 17, Status)
CreateFile         == Fixed(3, 16, 21, Status)
\* The file identifier FFFF stands for all files.
DeleteFile(all)    == IF all THEN Cmd(TRUE, 1, 0, 5, 7, Status) ELSE Fixed(3, 2, 7, Status)
Directory(n)       == Cmd(n \in {0, 15, 23, 40}, 2, Byte(n), 5, 5, Data)
ExecuteMethod(n)   == Write(n, Status)
GetData            == Fixed(2, 22, 5, DataUpTo(22))
GetFileACL         == Fixed(2, 8, 5, DataUpTo(8))
GetResp(sw2)       == Follow(Fixed(2, sw2, 5, Data))
Invalidate         == Fixed(1, 0, 5, Status)
LogOutAll          == Fixed(1, 0, 5, Status)
ManageInstance     == Fixed(1, 0, 5, Status)
\* Without data the program is validated, with data it is loaded.
ManageProgram(load, n) ==
  IF load THEN Write(n, Status) ELSE Cmd(TRUE, 1, 0, 5, 261, Status)
ReadBinary(n)      == Read(n)
ReadRecord(n)      == Read(n)
Rehabilitate       == Fixed(1, 0, 5, Status)
\* type 0 selects by file identifier, 3 the parent, 4 by name or without one
Select(type, named, n) ==
  CASE type = 0 -> Cmd(TRUE, 4, 2, 8, 22, Data)
    [] type = 3 -> Cmd(TRUE, 2, 0, 5, 22, Data)
    [] type = 4 /\ named  -> Cmd(n \in 5..16, 4, n, 6 + n, 22, Data)
    [] type = 4 /\ ~named -> Cmd(TRUE, 1, 0, 5, 22, Data)
    [] OTHER -> Cmd(FALSE, 2, 0, 5, 22, Data)
UnblockCHV         == Fixed(3, 16, 5 + 8 + 8, Status)
UpdateBinary(n)    == Write(n, Status)
UpdateRecord(n)    == Write(n, Status)
VerifyCHV          == Fixed(3, 8, 13, Status)
VerifyKey(key, n)  == Cmd(key <= 4, 3, n, 5 + n, 261, Status)
AskRandom(n)       == Cmd(n \in 4..255, 2, Byte(n), 5, 5, Data)
ExtAuth(n)         == Write(n, Status)
ExtAuthDES(des)    == Cmd(des, 3, 8, 13, 13, Status)
IntAuth(n)         == Cmd(TRUE, 4, n, 5 + n + 1, 261, Data)
IntAuthDES(des)    == Cmd(des, 4, 8, 14, 14, Proof(0))
DisableCHV         == Fixed(3, 8, 13, Status)
EnableCHV          == Fixed(3, 8, 13, Status)
Increase           == Fixed(4, 3, 9, Data)
\* The record number is asked for by a pointer for it.
Seek(asked, n) ==
  IF asked THEN Cmd(TRUE, 4, n, 5 + n + 1, 261, Data) ELSE Cmd(TRUE, 3, n, 5 + n, 261, NoData)
Sleep              == Fixed(1, 0, 5, Status)
GetStatus(n)       == Cmd(n \in {0, 23, 40}, 2, Byte(n), 5, 5, Data)

Commands ==
  {ChangeCHV, ChangeFileACL, CreateFile, GetData, GetFileACL, Invalidate, LogOutAll,
   ManageInstance, Rehabilitate, UnblockCHV, VerifyCHV, DisableCHV, EnableCHV, Increase, Sleep}
    \cup (UNION {{DeleteFile(b), ExtAuthDES(b), IntAuthDES(b)} : b \in BOOLEAN})
    \cup (UNION {{AppendRecord(n), Directory(n), ReadBinary(n), ReadRecord(n), AskRandom(n),
                  GetStatus(n)} : n \in Lens})
    \cup (UNION {{ChangeJavaATR(n), ExecuteMethod(n), UpdateBinary(n), UpdateRecord(n),
                  VerifyKey(n % 8, n), ExtAuth(n), IntAuth(n)} : n \in Bytes})
    \cup (UNION {{ManageProgram(b, n), Seek(b, n)} : b \in BOOLEAN, n \in Bytes})
    \cup {Select(t, b, n) : t \in 0..5, b \in BOOLEAN, n \in Bytes}
    \cup {GetResp(s) : s \in Sw2s}
=============================================================================
