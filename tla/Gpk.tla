-------------------------------- MODULE Gpk ---------------------------------
(***************************************************************************)
(* scgpk4000.c: the GPK cards of Gemplus.  One definition per driver       *)
(* function that sends a command.  A name that ends in Crycks or Encr is a *)
(* command protected with the session key that SelFk or SelPk agree on:    *)
(* three bytes of a checksum follow the data, and the card answers with    *)
(* the other half of it.                                                   *)
(***************************************************************************)
EXTENDS Apdu

CONSTANTS Lens,     \* lengths a caller may give as an int
          Sw2s      \* values ci->sw[1] may have

Bytes == Lens \cap 0..255
Infos == {5, 6, 160, 161, 162, 163, 164}

\* scGpk4000GenCrycks takes 64 bytes at most into the checksum.
Summed(n) == IF n > 64 THEN 64 ELSE n

\* A command of lc bytes of data, its checksum and Le for the card's checksum
WithCrycks(guard, lc, room) ==
  Secured(Summing(Cmd(guard, 4, Byte(lc + 3), 5 + lc + 3 + 1, room, Crycks(3)), 5 + lc))

ApdRec(n)         == Cmd(TRUE, 3, n, 5 + n, 5 + 256, Status)
\* Mutant: no limit of its own, as in UpdRecCrycks
ApdRecCrycksAny(n) == WithCrycks(TRUE, n, 64 + 5 + 3 + 1)
ApdRecCrycks(n)   == WithCrycks(n <= 61, n, 64 + 5 + 3 + 1)
CrtFile           == Fixed(3, 12, 17, Status)
CrtFileCrycks     == WithCrycks(TRUE, 12, 5 + 12 + 3 + 1)
CrtDir(n)         == Cmd(n <= 16, 3, Byte(12 + n), 17 + n, 5 + 28, Status)
CrtDirCrycks(n)   == WithCrycks(n <= 16, 12 + n, 5 + 28 + 3 + 1)
ExtAuth           == Fixed(3, 6, 11, Status)
FreezeAc          == Fixed(3, 5, 10, Status)
FreezeAcCrycks    == WithCrycks(TRUE, 5, 14)
GetChall(long) ==
  IF long THEN Cmd(TRUE, 2, 32, 5, 5, Exactly(32)) ELSE Cmd(TRUE, 2, 8, 5, 5, Exactly(8))
\* The limit of the caller's length is 256 written as 0x256.
GetInfo(info, n) ==
  LET le == CASE info = 5 -> Byte(n)
              [] info = 6 -> 2
              [] info \in 160..162 -> 8
              [] info = 163 -> 4
              [] info = 164 -> 13
              [] OTHER -> 0
  IN  Cmd(info \in Infos /\ (info = 5 => n <= 598), 2, le, 5, 5, Data)
GetResp(sw2)      == Follow(Fixed(2, sw2, 5, Data))
IntAuth           == Fixed(4, 10, 16, Proof(0))
RdBin(n)          == Read(n)
RdBinCrycks(n)    == Secured(Cmd(n <= 61, 2, Byte(n + 3), 5, 5 + 64, Sealed(3)))
RdRec(n)          == Read(n)
RdRecCrycks(n)    == Secured(Cmd(n <= 61, 2, Byte(n + 3), 5, 5 + 64, Sealed(3)))
\* type 4 selects by name; 3, the parent, is known to the Bradesco card only
\* and goes out as case 4; asked is whether the caller wants the answer.
SelFil(type, bradesco, asked, n) ==
  LET answer == IF asked THEN Data ELSE NoData
      cse    == IF asked THEN 4 ELSE 3
      le     == IF asked THEN 1 ELSE 0
  IN  CASE type = 4 -> Cmd(n <= 16, cse, n, 5 + n + le, 22, answer)
        [] type = 3 -> Cmd(bradesco, 4, 0, 5, 22, answer)
        [] OTHER    -> Cmd(type < 3, cse, 2, 7 + le, 22, answer)
SelFk             == Cmd(TRUE, 4, 8, 14, 15, Key(12))
SetCardStatus     == Fixed(3, 1, 6, Status)
SetCod            == Fixed(3, 8, 5 + 4 + 4, Status)
SetCodCrycks      == Secured(Fixed(3, 8, 5 + 4 + 4, NoData))
SwtSpd            == Fixed(1, 0, 4, Status)
UpdBin(n)         == Write(n, Status)
UpdBinCrycks(n)   == WithCrycks(n <= 61, n, 64 + 5 + 1)
UpdBinEncr        == Secured(Fixed(4, 16, 5 + 16 + 1, Crycks(3)))
UpdRec(n)         == Write(n, Status)
\* Unlike the other three, this one has no limit of its own.
UpdRecCrycks(n)   == WithCrycks(TRUE, n, 64 + 5 + 1)
Verify            == Fixed(3, 8, 5 + 8, Status)
VerifyEncr        == Secured(Fixed(3, 8, 5 + 8, Status))
WrBin(n)          == Write(n, Status)
WrBinCrycks(n)    == WithCrycks(n <= 61, n, 64 + 5 + 1)
WrBinEncr         == Secured(Fixed(4, 16, 5 + 16 + 1, Crycks(3)))

\* Payment
CanDeb            == Secured(Fixed(4, 12, 18, Data))
Credit            == Secured(Fixed(3, 12, 17, Status))
Debit             == Secured(Cmd(TRUE, 4, 8, 14, 14, Crycks(2)))
RdBal             == Secured(Fixed(4, 4, 10, Crycks(6)))
SelPk             == Fixed(4, 10, 16, Key(8))
SetOpts           == Fixed(1, 0, 4, Status)
\* Says four bytes and gives two of them
Sign              == Fixed(2, 4, 5, Answer("half", 4))

\* Public keys
\* Takes two bytes off twice: once more than there are when only SW came
CompDesKey(n)     == Cmd(n <= 64, 2, n, 5, 5, Answer("short", 2))
CrtPrivKeyFile    == Fixed(1, 0, 4, Status)
DesEnc            == Fixed(4, 64, 5 + 64 + 1, Data)
EraseCard         == Fixed(1, 0, 4, Status)
InitHashed(n)     == Cmd(n <= 36, 3, n, 5 + n, 5 + 36, Status)
LoadPrivKey(n)    == Write(n, Status)
PkDir             == Fixed(2, 0, 5, Data)
PkIntAuth(n)      == Cmd(TRUE, 2, n, 5, 5, Data)
PkSend(n)         == Write(n, Status)
PkSign(n)         == Cmd(TRUE, 2, n, 5, 5, Data)
PkVerify(n)       == Cmd(TRUE, 4, n, 5 + n + 1, 261, Data)
PutCryptoData(n)  == Cmd(n <= 64, 3, n, 5 + n, 261, Status)
SelCryptoContext  == Fixed(1, 0, 4, Status)

Commands ==
  {CrtFile, CrtFileCrycks, ExtAuth, FreezeAc, FreezeAcCrycks, IntAuth, SelFk, SetCardStatus,
   SetCod, SetCodCrycks, SwtSpd, UpdBinEncr, Verify, VerifyEncr, WrBinEncr, CanDeb, Credit, Debit,
   RdBal, SelPk, SetOpts, Sign, CrtPrivKeyFile, DesEnc, EraseCard, PkDir, SelCryptoContext}
    \cup {GetChall(b) : b \in BOOLEAN}
    \cup {GetInfo(i, n) : i \in Infos \cup {0}, n \in Lens}
    \cup {SelFil(t, b, a, n) : t \in 0..5, b \in BOOLEAN, a \in BOOLEAN, n \in Bytes}
    \cup (UNION {{RdBin(n), RdBinCrycks(n), RdRec(n), RdRecCrycks(n)} : n \in Lens})
    \cup (UNION {{ApdRec(n), ApdRecCrycks(n), CrtDir(n), CrtDirCrycks(n), UpdBin(n),
                  UpdBinCrycks(n), UpdRec(n), UpdRecCrycks(n), WrBin(n), WrBinCrycks(n),
                  CompDesKey(n), InitHashed(n), LoadPrivKey(n), PkIntAuth(n), PkSend(n), PkSign(n),
                  PkVerify(n), PutCryptoData(n)} : n \in Bytes})
    \cup {GetResp(s) : s \in Sw2s}
=============================================================================
