----------------------------- MODULE Multiflex ------------------------------
(***************************************************************************)
(* scmultiflex.c: the Multiflex cards, T=0 only.  Most functions call the  *)
(* one of the Cryptoflex driver with the algorithm set to DES; the 3K card *)
(* does not know all of them.                                              *)
(***************************************************************************)
EXTENDS Apdu

CONSTANTS Lens,     \* lengths a caller may give as an int
          Sw2s      \* values ci->sw[1] may have

CF    == INSTANCE Cryptoflex
Types == {"3K", "8K", "8K DES"}
Bytes == Lens \cap 0..255

\* scCryptoflexCmd* never sees one of its own card types here.
Foreign      == "MULTIFLEX"
Not3K(t, c)  == [c EXCEPT !.guard = @ /\ t # "3K"]
\* A card that has no such command is refused before ci->sw is cleared.
OnlyOn(types, t, c) == IF t \in types THEN c ELSE KeepsSw([c EXCEPT !.guard = FALSE])

ChangePIN           == CF!ChangePIN(Foreign, 1)
CreateFile(ftype)   == CF!CreateFile(ftype)
CreateFileMAC(ftype) == CF!CreateFileMAC(ftype)
CreateRecord(n)     == CF!CreateRecord(n)
CreateRecordMAC(n)  == CF!CreateRecordMAC(n)
Decrease            == CF!Decrease
DecreaseMAC         == CF!DecreaseMAC
DecreaseSt(t)       == Not3K(t, Fixed(4, 3, 9, Data))
DecreaseStMAC(t)    == Not3K(t, CF!MacedLe(5 + 3))
DeleteFile          == CF!DeleteFile
DeleteFileMAC       == CF!DeleteFileMAC
Directory(t)        == OnlyOn({"8K", "8K DES"}, t, CF!Directory(Foreign))
ExtAuth             == CF!ExtAuth
GetChall            == CF!GetChall(8)
GiveChall(t)        == Not3K(t, Fixed(3, 8, 13, Status))
GetResp(sw2)        == CF!GetResp(sw2)
Increase            == CF!Increase
IncreaseMAC         == CF!IncreaseMAC
IncreaseSt(t)       == Not3K(t, Fixed(4, 3, 9, Data))
IncreaseStMAC(t)    == Not3K(t, CF!MacedLe(5 + 3))
IntAuth             == CF!IntAuth
Invalidate          == CF!Invalidate
InvalidateMAC       == CF!InvalidateMAC
ReadBinary(n)       == CF!ReadBinary(n)
ReadRecord(n)       == CF!ReadRecord(n)
Rehabilitate        == CF!Rehabilitate
RehabilitateMAC     == CF!RehabilitateMAC
Seek(n)             == CF!Seek(n)
SelectFile          == CF!SelectFile
UnblockPIN          == CF!UnblockPIN(Foreign, 1)
UpdateBinary(n)     == CF!UpdateBinary(n)
UpdateBinaryMAC(n)  == CF!UpdateBinaryMAC(n)
UpdateRecord(n)     == CF!UpdateRecord(n)
UpdateRecordMAC(n)  == CF!UpdateRecordMAC(n)
VerifyKey(n)        == CF!VerifyKey(n)
VerifyPIN           == CF!VerifyPIN(Foreign, 1)
DesCrypt(t, mode)   == OnlyOn({"8K DES"}, t, CF!DesCrypt(Foreign, mode))

Commands ==
  {ChangePIN, Decrease, DecreaseMAC, DeleteFile, DeleteFileMAC, ExtAuth, GetChall, Increase,
   IncreaseMAC, IntAuth, Invalidate, InvalidateMAC, Rehabilitate, RehabilitateMAC, SelectFile,
   UnblockPIN, VerifyPIN}
    \cup (UNION {{CreateFile(k), CreateFileMAC(k), DesCrypt(t, k), Directory(t), DecreaseSt(t),
                  DecreaseStMAC(t), GiveChall(t), IncreaseSt(t), IncreaseStMAC(t)} :
                    t \in Types, k \in 0..6})
    \cup (UNION {{CreateRecord(n), CreateRecordMAC(n), ReadBinary(n), ReadRecord(n)} : n \in Lens})
    \cup (UNION {{Seek(n), UpdateBinary(n), UpdateBinaryMAC(n), UpdateRecord(n),
                  UpdateRecordMAC(n), VerifyKey(n)} : n \in Bytes})
    \cup {GetResp(s) : s \in Sw2s}
=============================================================================
