----------------------------- MODULE Cryptoflex -----------------------------
(***************************************************************************)
(* sccryptoflex.c: the Cryptoflex and Multiflex cards of Schlumberger, T=0 *)
(* only.  One definition per driver function that sends a command; its     *)
(* arguments are those the lengths depend on.  type is ci->type, n a       *)
(* length the caller gives (a byte where the code takes a BYTE).           *)
(***************************************************************************)
EXTENDS Apdu

CONSTANTS Lens,     \* lengths a caller may give as an int
          Sw2s      \* values ci->sw[1] may have

Types == {"CRYPTOFLEX", "DES", "KEYGEN", "8K"}
Bytes == Lens \cap 0..255

\* MACed form of the n bytes of an unMACed APDU: padded to DES blocks
MacBody(n) == IF n - 1 > 24 THEN 24 ELSE n - 1
Padded(n)  == 8 * ((MacBody(n) + 7) \div 8)
MacLc(n)   == Byte(Padded(n) - 3 + 6)
MacLen(n)  == Padded(n) - 3 + 6 + 5
Maced(guard, n) == Cmd(guard, 3, MacLc(n), MacLen(n), 32, Status)
MacedLe(n) == Cmd(TRUE, 4, MacLc(n), MacLen(n) + 1, 32, Data)

Linear(ftype) == ftype \in {2, 6}     \* record files
PinNum(type, num) == type = "8K" => num \in {1, 2}

ChangePIN(type, num)  == Cmd(PinNum(type, num), 3, 16, 21, 21, Status)
UnblockPIN(type, num) == Cmd(PinNum(type, num), 3, 16, 5 + 8 + 8, 21, Status)
VerifyPIN(type, num)  == Cmd(PinNum(type, num), 3, 8, 13, 13, Status)
CreateFile(ftype) ==
  IF Linear(ftype) THEN Cmd(TRUE, 3, 17, 22, 22, Status) ELSE Cmd(TRUE, 3, 16, 21, 22, Status)
CreateFileMAC(ftype) == Maced(TRUE, IF Linear(ftype) THEN 22 ELSE 21)
CreateRecord(n)      == Cmd(TRUE, 3, Byte(n), 5 + Byte(n), 5 + 255, Status)
CreateRecordMAC(n)   == Maced(n <= 20, 5 + n)
Decrease             == Fixed(4, 3, 9, Data)
DecreaseMAC          == MacedLe(5 + 3)
DeleteFile           == Fixed(3, 2, 7, Status)
DeleteFileMAC        == Maced(TRUE, 5 + 2)
Directory(type) ==
  IF type = "8K" THEN Cmd(TRUE, 2, 15, 5, 6, Data) ELSE Cmd(TRUE, 4, 0, 6, 6, Data)
ExtAuth              == Fixed(3, 7, 12, Status)
GetChall(n)          == Cmd(n \in -1..255, 2, Byte(IF n = -1 THEN 8 ELSE n), 5, 5, Data)
GetResp(sw2)         == Follow(Fixed(2, sw2, 5, Data))
Increase             == Fixed(4, 3, 9, Data)
IncreaseMAC          == MacedLe(5 + 3)
IntAuth              == Fixed(4, 8, 14, Proof(6))
Invalidate           == Fixed(1, 0, 5, Status)
InvalidateMAC        == Maced(TRUE, 5)
ReadBinary(n)        == Read(n)
ReadRecord(n)        == Read(n)
Rehabilitate         == Fixed(1, 0, 5, Status)
RehabilitateMAC      == Maced(TRUE, 5)
Seek(n)              == Write(n, Status)
SelectFile           == Fixed(4, 2, 8, Data)
UpdateBinary(n)      == Write(n, Status)
UpdateBinaryMAC(n)   == Maced(n <= 20, 5 + n)
UpdateRecord(n)      == Write(n, Status)
UpdateRecordMAC(n)   == Maced(n <= 20, 5 + n)
VerifyKey(n)         == Write(n, Status)
DesCrypt(type, mode) == Cmd(type # "CRYPTOFLEX" /\ mode \in {0, 1}, 4, 8, 14, 14, Data)
LoadCert             == Fixed(3, 128, 133, Status)
\* The key is made after the answer, or after none: it is fetched later.
RsaKeyGen(type)      == Cmd(type = "KEYGEN", 1, 0, 5, 5, Answer("fetch", 128))
RsaKeyGenUpd(type)   == Cmd(type = "8K", 3, 4, 5 + 4, 9, NoData)
RsaSign              == Fixed(4, 128, 134, Data)
SHA1Interm           == Fixed(3, 64, 5 + 64, NoData)
SHA1Last(n)          == Cmd(n <= 64, 4, n, 5 + n, 5 + 64, Data)
UpdateEnc(n)         == Cmd(n % 8 = 0 /\ n <= 248, 3, n, 5 + n, 261, NoData)
VerifyData           == Fixed(4, 128, 134, Data)
VerifyPubKey         == Fixed(3, 128, 133, Status)

Commands ==
  {Decrease, DecreaseMAC, DeleteFile, DeleteFileMAC, ExtAuth, Increase, IncreaseMAC, IntAuth,
   Invalidate, InvalidateMAC, Rehabilitate, RehabilitateMAC, SelectFile, LoadCert, RsaSign,
   SHA1Interm, VerifyData, VerifyPubKey}
    \cup (UNION {{ChangePIN(t, k), UnblockPIN(t, k), VerifyPIN(t, k), CreateFile(k),
                  CreateFileMAC(k), DesCrypt(t, k), Directory(t), RsaKeyGen(t), RsaKeyGenUpd(t)} :
                    t \in Types, k \in 0..6})
    \cup (UNION {{CreateRecord(n), CreateRecordMAC(n), GetChall(n), ReadBinary(n), ReadRecord(n),
                  SHA1Last(n)} : n \in Lens})
    \cup (UNION {{Seek(n), UpdateBinary(n), UpdateBinaryMAC(n), UpdateRecord(n),
                  UpdateRecordMAC(n), VerifyKey(n), UpdateEnc(n)} : n \in Bytes})
    \cup {GetResp(s) : s \in Sw2s}
=============================================================================
