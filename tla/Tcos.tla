-------------------------------- MODULE Tcos --------------------------------
(***************************************************************************)
(* sctcos.c: the TCOS cards, T=1 only.  One definition per driver function *)
(* that sends a command; ExtAuth and IntAuth send none and report success. *)
(***************************************************************************)
EXTENDS Apdu

CONSTANTS Lens      \* lengths a caller may give as an int

Bytes   == Lens \cap 0..255
MaxNum  == 31       \* password numbers
Optional(asked, lc, room, answer) ==      \* with and without an Le
  IF asked THEN Cmd(TRUE, 4, lc, 6 + lc, room, answer) ELSE Cmd(TRUE, 3, lc, 5 + lc, room, answer)

AppendRecord(n)      == Write(n, NoData)
AskRandom(n)         == Cmd(n <= 24, 2, Byte(n), 5, 5, Data)
\* The buffer holds 32 bytes of passwords; the two lengths are not limited.
ChangePassword(num, old, new) ==
  Cmd(num <= MaxNum, 3, Byte(old + new), 5 + old + new, 37, Status)
Create(n)            == Write(n, NoData)
Delete               == Fixed(3, 2, 7, NoData)
ExcludeSFI           == Fixed(3, 1, 6, NoData)
GetSessionkey        == Fixed(2, 0, 5, Data)
\* Mutant: the data limited as if it were all of the command's data
IncludeSFIWide(n)    == Cmd(n <= 255, 3, Byte(3 + n), 8 + n, 261, NoData)
IncludeSFI(n)        == Cmd(n <= 252, 3, Byte(3 + n), 8 + n, 261, NoData)
Invalidate           == Fixed(1, 0, 4, NoData)
ListDir              == Fixed(2, 0, 5, Data)
ManageSecEnv(n)      == Write(n, NoData)
PerformSecOp(out, n) == Optional(out, n, 261, Data)
ReadBinary(n)        == Read(n)
ReadRecord(n)        == Read(n)
Rehabilitate         == Fixed(1, 0, 4, NoData)
Select(type, asked, n) ==
  LET top == IF asked THEN Cmd(TRUE, 2, 0, 5, 22, Data) ELSE Cmd(TRUE, 1, 0, 4, 22, NoData)
      answer == IF asked THEN Data ELSE NoData
  IN  CASE type = "top"  -> top
        [] type = "fid"  -> Optional(asked, 2, 22, answer)
        [] type = "path" -> [Optional(asked, n, 22, answer) EXCEPT !.guard = n <= 16]
        [] OTHER         -> [top EXCEPT !.guard = FALSE]
SetPermanent         == Fixed(1, 0, 4, NoData)
\* given: which of unblocking and new password are there; both lengths count
\* for the limit.
UnblockPassword(num, given, puk, new) ==
  LET lc    == (IF "puk" \in given THEN puk ELSE 0) + (IF "new" \in given THEN new ELSE 0)
      legal == num <= MaxNum /\ puk + new <= 255
  IN  IF given = {} THEN Cmd(legal, 1, 0, 4, 261, Status)
                    ELSE Cmd(legal, 3, lc, 5 + lc, 261, Status)
UpdateBinary(n)      == Write(n, NoData)
UpdateRecord(n)      == Write(n, NoData)
\* The buffer holds 16 bytes of password; the length is not limited.
VerifyPassword(num, n) == Cmd(num <= MaxNum, 3, n, 5 + n, 21, Status)

Commands ==
  {Delete, ExcludeSFI, GetSessionkey, Invalidate, ListDir, Rehabilitate, SetPermanent}
    \cup (UNION {{AskRandom(n), ReadBinary(n), ReadRecord(n)} : n \in Lens})
    \cup (UNION {{AppendRecord(n), Create(n), IncludeSFI(n), ManageSecEnv(n), UpdateBinary(n),
                  UpdateRecord(n)} : n \in Bytes})
    \cup {PerformSecOp(b, n) : b \in BOOLEAN, n \in Bytes}
    \cup {Select(t, b, n) : t \in {"top", "fid", "path", "none"}, b \in BOOLEAN, n \in Bytes}
    \cup {VerifyPassword(k, n) : k \in {0, 31, 32}, n \in Bytes}
    \cup {ChangePassword(k, m, n) : k \in {0, 31, 32}, m \in Bytes, n \in Bytes}
    \cup {UnblockPassword(k, g, m, n) :
            k \in {0, 31, 32}, g \in SUBSET {"puk", "new"}, m \in Bytes, n \in Bytes}
=============================================================================
