------------------------- MODULE CardSession_proofs -------------------------
(***************************************************************************)
(* Every set of lengths, status words and keys.  First HostKeyIsCards, for *)
(* which nothing is used of the commands, so that it holds of those a      *)
(* driver may be given later as well; then what every driver's commands    *)
(* have in common, and with it the other properties of the session.        *)
(***************************************************************************)
EXTENDS CardSession, TLAPS

Inv ==
  /\ ci = [sw2 |-> ci.sw2, encrypt |-> ci.encrypt, key |-> ci.key]
  /\ card = [sw2 |-> card.sw2, key |-> card.key]
  /\ ci.encrypt \in BOOLEAN

KeyStep ==
  ci'.encrypt /\ ci'.key # card'.key =>
    \/ ci.encrypt /\ ci.key # card.key
    \/ call'.ret = "IO_ERROR" /\ call'.cmd.answer.kind = "key"
    \/ call'.ret = "BAD_SW" /\ call'.cmd.answer.kind = "key"

(***************************************************************************)
(* A function that clears ci->sw, sets it from the answer, or goes on to   *)
(* fetch, leaves the session key alone.                                    *)
(***************************************************************************)
SameKey(now) == now = [sw2 |-> now.sw2, encrypt |-> ci.encrypt, key |-> ci.key]

LEMMA BegunSameKey ==
  ASSUME Inv, NEW c
  PROVE  SameKey(Begun(c))
  BY DEF Inv, SameKey, Begun

LEMMA ThenFetchSameKey ==
  ASSUME NEW c, NEW now, SameKey(now)
  PROVE  SameKey(ThenFetch(c, now))
  BY DEF SameKey, ThenFetch

LEMMA SetCiSameKey ==
  ASSUME Inv, NEW c, NEW n, NEW s
  PROVE  SameKey(SetCi(c, n, s))
  BY BegunSameKey DEF SameKey, SetCi

\* A step that leaves both keys alone cannot part them.
LEMMA KeysStay ==
  ASSUME Inv, SameKey(ci'), card' = [sw2 |-> card'.sw2, key |-> card.key]
  PROVE  Inv' /\ KeyStep
  BY DEF Inv, SameKey, KeyStep

LEMMA RefuseStep ==
  ASSUME Inv, NEW c, Refuse(c) \/ Reject(c)
  PROVE  Inv' /\ KeyStep
  <1>1. SameKey(ci') /\ card' = card
    BY BegunSameKey DEF Refuse, Reject
  <1> QED BY <1>1, KeysStay DEF Inv

LEMMA LoseStep ==
  ASSUME Inv, NEW c, Lose(c)
  PROVE  Inv' /\ KeyStep
  <1>1. SameKey(ci')
    <2>1. SameKey(Begun(c))
      BY BegunSameKey
    <2> QED BY <2>1, ThenFetchSameKey DEF Lose
  <1>2. CASE card' = card
    BY <1>1, <1>2, KeysStay DEF Inv
  <1>3. CASE card' # card
    <2>1. PICK s \in Sw2s, k \in Keys \ {ci.key, card.key} :
            card' = [sw2 |-> s, key |-> IF c.answer.kind = "key" THEN k ELSE card.key]
      BY <1>3 DEF Lose
    <2>2. CASE c.answer.kind # "key"
      BY <1>1, <2>1, <2>2, KeysStay
    <2>3. CASE c.answer.kind = "key"
      <3>1. call'.ret = "IO_ERROR" /\ call'.cmd = c
        BY <2>3 DEF Lose, Ended
      <3> QED BY <1>1, <2>1, <2>3, <3>1 DEF Inv, SameKey, KeyStep
    <2> QED BY <2>2, <2>3
  <1> QED BY <1>2, <1>3

LEMMA AnsweredStep ==
  ASSUME Inv, NEW c, Answered(c)
  PROVE  Inv' /\ KeyStep
  <1>1. PICK n \in Sizes(c), s \in Sw2s :
          ci' = ThenFetch(c, SetCi(c, n, s)) /\ card' = [card EXCEPT !.sw2 = s]
    BY DEF Answered
  <1>2. SameKey(SetCi(c, n, s))
    BY SetCiSameKey
  <1>3. SameKey(ci')
    BY <1>1, <1>2, ThenFetchSameKey
  <1> QED BY <1>1, <1>3, KeysStay DEF Inv

(***************************************************************************)
(* The host's key is new only if the answer is right, and then it is the   *)
(* card's; any other whole answer ends the protection.  An answer without  *)
(* a status word leaves the host its old key, and is BAD_SW.               *)
(***************************************************************************)
LEMMA NewKeyStep ==
  ASSUME Inv, NEW c, NewKey(c)
  PROVE  Inv' /\ KeyStep
  <1>1. PICK n \in Sizes(c), s \in Sw2s, right \in BOOLEAN, k \in Keys \ {ci.key, card.key} :
          /\ n = c.answer.bytes \/ ~right
          /\ ci' = IF n < 0 THEN Begun(c)
                   ELSE [sw2 |-> s, encrypt |-> n = c.answer.bytes /\ right,
                         key |-> CASE n # c.answer.bytes -> ci.key [] right -> k [] OTHER -> NoKey]
          /\ card' = [sw2 |-> s, key |-> IF n = c.answer.bytes THEN k ELSE card.key]
          /\ call' = Ended(c, Result(c.answer, n, right), TRUE, n)
    BY DEF NewKey
  <1>2. c.answer.kind = "key"
    BY DEF NewKey
  <1>3. CASE n < 0
    <2>1. SameKey(ci')
      BY <1>1, <1>3, BegunSameKey
    <2>2. Result(c.answer, n, right) = "BAD_SW"
      BY <1>2, <1>3 DEF Result, Wants, Complaint
    <2>3. call'.ret = "BAD_SW" /\ call'.cmd = c
      BY <1>1, <2>2 DEF Ended
    <2>4. Inv'
      BY <1>1, <2>1 DEF Inv, SameKey
    <2> QED BY <1>2, <2>3, <2>4 DEF KeyStep
  <1>4. CASE ~(n < 0)
    <2>1. ci'.encrypt = (n = c.answer.bytes /\ right)
      BY <1>1, <1>4
    <2>2. ci'.encrypt => ci'.key = card'.key
      <3> SUFFICES ASSUME ci'.encrypt PROVE ci'.key = card'.key
        OBVIOUS
      <3>1. n = c.answer.bytes /\ right
        BY <2>1
      <3>2. ci'.key = k
        BY <1>1, <1>4, <3>1
      <3> QED BY <1>1, <3>1, <3>2
    <2>3. Inv'
      BY <1>1, <1>4 DEF Inv
    <2> QED BY <2>2, <2>3 DEF KeyStep
  <1> QED BY <1>3, <1>4

LEMMA ResetCardStep ==
  ASSUME Inv, ResetCard
  PROVE  Inv' /\ KeyStep
  BY DEF Inv, ResetCard, KeyStep

(***************************************************************************)
(* Host and card part only over a lost or mutilated answer to a command    *)
(* that makes a key.                                                       *)
(***************************************************************************)
THEOREM HostKeyFollowsCards == Spec => HostKeyIsCards
  <1>1. Init => Inv
    BY DEF Init, Inv
  <1>2. Inv /\ [Next]_vars => Inv' /\ [KeyStep]_vars
    <2> SUFFICES ASSUME Inv, [Next]_vars
                 PROVE  Inv' /\ [KeyStep]_vars
      OBVIOUS
    <2>1. CASE UNCHANGED vars
      BY <2>1 DEF vars, Inv
    <2>2. CASE Next
      <3>1. ASSUME NEW c, Refuse(c) \/ Reject(c) \/ Lose(c) \/ Answered(c) \/ NewKey(c)
            PROVE  Inv' /\ KeyStep
        BY <3>1, RefuseStep, LoseStep, AnsweredStep, NewKeyStep
      <3>2. CASE ResetCard
        BY <3>2, ResetCardStep
      <3>3. CASE Return
        BY <3>3 DEF Return, Inv, KeyStep
      <3> QED BY <2>2, <3>1, <3>2, <3>3 DEF Next
    <2> QED BY <2>1, <2>2
  <1> QED BY <1>1, <1>2, PTL DEF Spec, HostKeyIsCards, KeyStep

-----------------------------------------------------------------------------
(***************************************************************************)
(* The five properties of a session that depend on each command of each    *)
(* driver: Sound says what is asked of one command, with a lemma for every *)
(* driver that all its commands are sound when their guard holds, for all  *)
(* lengths the caller may give.  The exceptions are those CardSession      *)
(* lists.                                                                  *)
(***************************************************************************)
SpeaksT0 == driver.t0
Name == driver.name

\* The three numbers of a command fit its case (scReaderCheckAPDU).
Agrees(c) ==
  \/ c.cse = 1 /\ c.cmdlen = 4
  \/ c.cse = 1 /\ c.cmdlen = 5 /\ SpeaksT0
  \/ c.cse = 2 /\ c.cmdlen = 5
  \/ c.cse = 3 /\ c.cmdlen = 5 + c.p3
  \/ c.cse = 4 /\ c.cmdlen = 6 + c.p3
  \/ c.cse = 4 /\ c.cmdlen = 5 + c.p3 /\ SpeaksT0

\* The two that tell their caller another number than they give.
Mistold == {GpkCard!Sign} \cup {GpkCard!CompDesKey(n) : n \in Lens}

\* What the session needs to know of a command that is sent.
Sound(c) ==
  /\ Agrees(c) \/ c \in Misbuilt
  /\ c.cse = 4 => c.p3 \in Int
  /\ c.cmdlen <= c.room \/ c \in Overlong
  /\ c.answer.bytes \in Int /\ (c.answer.kind \in {"cut", "sealed"} => c.answer.bytes >= 0)
  /\ c.answer.kind \in {"half", "short"} => c \in Mistold
  /\ c.answer.kind \in {"crycks", "sealed"} => c.secured
  /\ c.clears \/ Name \in {"smartcafe", "geldkarte", "others"}
  /\ Name \in {"geldkarte", "others"} => ~c.follow

LEMMA BytesFacts ==
  /\ \A n \in Lens : n \in Int /\ n >= -1 /\ n <= 256
  /\ \A n \in Bytes : n \in Lens /\ n \in Nat /\ n <= 255
  /\ \A n \in Lens : n \in Nat /\ n <= 255 => n \in Bytes
  /\ \A n \in Sw2s : n \in Nat /\ n <= 255
  BY LensAssumption, Sw2Assumption DEF Bytes

\* scpayflex.c
LEMMA PayflexSound ==
  ASSUME Name = "payflex", NEW c \in PayflexCard!Commands, c.guard
  PROVE  Sound(c)
  <1> USE DEF Sound, Agrees, PayflexCard!Cmd, PayflexCard!Answer, PayflexCard!Fixed,
              PayflexCard!Status, PayflexCard!Data, PayflexCard!Proof, PayflexCard!Follow,
              PayflexCard!Read, PayflexCard!Write, PayflexCard!Byte
  <1>1. CASE c \in {PayflexCard!Change, PayflexCard!ExtAuth, PayflexCard!IntAuth,
                    PayflexCard!Select, PayflexCard!Unblock, PayflexCard!Verify}
    BY <1>1 DEF PayflexCard!Change, PayflexCard!ExtAuth, PayflexCard!IntAuth, PayflexCard!Select,
                PayflexCard!Unblock, PayflexCard!Verify
  <1>2. ASSUME NEW k, c = PayflexCard!CreateFile(k)
        PROVE  Sound(c)
    BY <1>2 DEF PayflexCard!CreateFile
  <1>3. ASSUME NEW n \in Int, c \in {PayflexCard!GetChall(n), PayflexCard!ReadRecord(n)}
        PROVE  Sound(c)
    BY <1>3 DEF PayflexCard!GetChall, PayflexCard!ReadRecord
  <1>4. ASSUME NEW n \in Nat, n <= 255, c = PayflexCard!UpdateRecord(n)
        PROVE  Sound(c)
    BY <1>4 DEF PayflexCard!UpdateRecord
  <1>5. ASSUME NEW s \in Nat, s <= 255, c = PayflexCard!GetResp(s)
        PROVE  Sound(c)
    BY <1>5 DEF PayflexCard!GetResp
  <1>6. PayflexCard!Bytes = Bytes
    BY DEF PayflexCard!Bytes, Bytes
  <1> HIDE DEF Sound
  <1> QED BY <1>1, <1>2, <1>3, <1>4, <1>5, <1>6, BytesFacts DEF PayflexCard!Commands

\* scopenplatform.c
LEMMA OpenplatformSound ==
  ASSUME Name = "openplatform", NEW c \in OpenplatformCard!Commands, c.guard
  PROVE  Sound(c)
  <1> USE DEF Sound, Agrees, OpenplatformCard!Cmd, OpenplatformCard!Answer, OpenplatformCard!Fixed,
              OpenplatformCard!NoData, OpenplatformCard!Data
  <1>1. CASE c \in {OpenplatformCard!GetData, OpenplatformCard!InitUpdate}
    BY <1>1 DEF OpenplatformCard!GetData, OpenplatformCard!InitUpdate
  <1>2. ASSUME NEW n \in Nat, n <= 255, c \in {OpenplatformCard!Delete(n),
                                               OpenplatformCard!GetStatus(n),
                                               OpenplatformCard!Install(n),
                                               OpenplatformCard!Load(n), OpenplatformCard!PutKey(n),
                                               OpenplatformCard!Select(n),
                                               OpenplatformCard!SetStatus(n),
                                               OpenplatformCard!ExtAuth(n)}
        PROVE  Sound(c)
    BY <1>2 DEF OpenplatformCard!Delete, OpenplatformCard!GetStatus, OpenplatformCard!Install,
                OpenplatformCard!Load, OpenplatformCard!PutKey, OpenplatformCard!Select,
                OpenplatformCard!SetStatus, OpenplatformCard!ExtAuth, OpenplatformCard!WithLe,
                OpenplatformCard!NoLe
  <1>3. OpenplatformCard!Bytes = Bytes
    BY DEF OpenplatformCard!Bytes, Bytes
  <1> HIDE DEF Sound
  <1> QED BY <1>1, <1>2, <1>3, BytesFacts DEF OpenplatformCard!Commands

\* scgsmsim.c: SEEK and ENVELOPE have no length at all, and three commands lack the Le
\* that T=1 wants.
LEMMA GsmSound ==
  ASSUME Name = "gsm", NEW c \in GsmCard!Commands, c.guard
  PROVE  Sound(c)
  <1> USE DEF Sound, Agrees, GsmCard!Cmd, GsmCard!Answer, GsmCard!Fixed, GsmCard!NoData,
              GsmCard!Data, GsmCard!Either, GsmCard!Follow, GsmCard!Read, GsmCard!Write,
              GsmCard!Byte
  <1>1. CASE c \in {GsmCard!Status_, GsmCard!VerifyCHV, GsmCard!ChangeCHV, GsmCard!DisableCHV,
                    GsmCard!EnableCHV, GsmCard!UnblockCHV, GsmCard!Invalidate, GsmCard!Rehabilitate,
                    GsmCard!Sleep}
    BY <1>1 DEF GsmCard!Status_, GsmCard!VerifyCHV, GsmCard!ChangeCHV, GsmCard!DisableCHV,
                GsmCard!EnableCHV, GsmCard!UnblockCHV, GsmCard!Invalidate, GsmCard!Rehabilitate,
                GsmCard!Sleep
  <1>2. CASE c \in {GsmCard!Select, GsmCard!Increase, GsmCard!RunGsmAlgo}
    <2>1. SpeaksT0 \/ c \in Misbuilt
      BY ONLY <1>2, Name = "gsm" DEF Misbuilt, SpeaksT0, Name
    <2> QED BY <1>2, <2>1 DEF GsmCard!Select, GsmCard!Increase, GsmCard!RunGsmAlgo
  <1>3. ASSUME NEW n \in Int, c \in {GsmCard!ReadBin(n), GsmCard!ReadRec(n)}
        PROVE  Sound(c)
    BY <1>3 DEF GsmCard!ReadBin, GsmCard!ReadRec
  <1>4. ASSUME NEW n \in Nat, n <= 255, c \in {GsmCard!UpdateBin(n), GsmCard!UpdateRec(n),
                                               GsmCard!TermProf(n), GsmCard!TermResp(n)}
        PROVE  Sound(c)
    BY <1>4 DEF GsmCard!UpdateBin, GsmCard!UpdateRec, GsmCard!TermProf, GsmCard!TermResp
  <1>5. ASSUME NEW n \in Nat, n <= 255, n \in Bytes, c \in {GsmCard!Seek(n), GsmCard!Envelope(n)}
        PROVE  Sound(c)
    <2>1. c \in Misbuilt
      BY ONLY <1>5, Name = "gsm" DEF Misbuilt, Name
    <2> QED BY <1>5, <2>1 DEF GsmCard!Seek, GsmCard!Envelope
  <1>6. ASSUME NEW s \in Nat, s <= 255, c \in {GsmCard!GetResp(s), GsmCard!Fetch(s)}
        PROVE  Sound(c)
    BY <1>6 DEF GsmCard!GetResp, GsmCard!Fetch
  <1>7. GsmCard!Bytes = Bytes
    BY DEF GsmCard!Bytes, Bytes
  <1> HIDE DEF Sound
  <1> QED BY <1>1, <1>2, <1>3, <1>4, <1>5, <1>6, <1>7, BytesFacts DEF GsmCard!Commands

\* scsmartcafe.c: Install limits the identifier and the parameter, and not their sum.
LEMMA SmartcafeSound ==
  ASSUME Name = "smartcafe", NEW c \in SmartcafeCard!Commands, c.guard
  PROVE  Sound(c)
  <1> USE DEF Sound, Agrees, SmartcafeCard!Cmd, SmartcafeCard!Answer, SmartcafeCard!Fixed,
              SmartcafeCard!NoData, SmartcafeCard!Data, SmartcafeCard!KeepsSw, SmartcafeCard!Follow,
              SmartcafeCard!Write, SmartcafeCard!Byte
  <1>1. CASE c \in {SmartcafeCard!ClearMem, SmartcafeCard!DeleteML, SmartcafeCard!GetData}
    BY <1>1 DEF SmartcafeCard!ClearMem, SmartcafeCard!DeleteML, SmartcafeCard!GetData
  <1>2. CASE c \in {SmartcafeCard!CreateML(TRUE), SmartcafeCard!CreateML(FALSE)}
    BY <1>2 DEF SmartcafeCard!CreateML
  <1>3. ASSUME NEW k \in {"load", "install", "heap", "other"}, NEW a \in Nat, NEW n \in Nat,
               a \in Bytes, n \in Bytes, c = SmartcafeCard!Install(k, a, n)
        PROVE  Sound(c)
    <2>1. c.guard <=> k # "other" /\ a <= 16 /\ (k # "load" => n <= 240)
      BY ONLY <1>3 DEF SmartcafeCard!Install, Cmd
    <2>2. CASE k = "load"
      BY <1>3, <2>1, <2>2 DEF SmartcafeCard!Install
    <2>3. CASE k \in {"install", "heap"}
      <3>1. c \in Overlong /\ (c.cmdlen > 260 => c \in Misbuilt)
        BY ONLY <1>3, <2>3, Name = "smartcafe" DEF Overlong, Misbuilt, Name
      <3> QED BY <1>3, <2>1, <2>3, <3>1 DEF SmartcafeCard!Install
    <2> QED BY <1>3, <2>1, <2>2, <2>3
  <1>4. ASSUME NEW n \in Nat, n <= 255, c = SmartcafeCard!LoadApplet(n)
        PROVE  Sound(c)
    BY <1>4 DEF SmartcafeCard!LoadApplet
  <1>5. ASSUME NEW n \in Nat, n <= 255, c = SmartcafeCard!PutKey(n)
        PROVE  Sound(c)
    <2>1. c.guard <=> n \in {8, 16}
      BY <1>5 DEF SmartcafeCard!PutKey
    <2> QED BY <1>5, <2>1 DEF SmartcafeCard!PutKey
  <1>6. ASSUME NEW n \in Nat, n <= 255, c = SmartcafeCard!Select(n)
        PROVE  Sound(c)
    <2>1. c.guard <=> n <= 16
      BY <1>6 DEF SmartcafeCard!Select
    <2> QED BY <1>6, <2>1 DEF SmartcafeCard!Select
  <1>7. ASSUME NEW n \in Nat, n <= 255, c = SmartcafeCard!SetPIN(n)
        PROVE  Sound(c)
    <2>1. c.guard <=> n <= 8
      BY <1>7 DEF SmartcafeCard!SetPIN
    <2> QED BY <1>7, <2>1 DEF SmartcafeCard!SetPIN
  <1>8. ASSUME NEW n \in Nat, n <= 255, c = SmartcafeCard!VerifyPIN(n)
        PROVE  Sound(c)
    <2>1. c.guard <=> n <= 8
      BY <1>8 DEF SmartcafeCard!VerifyPIN
    <2> QED BY <1>8, <2>1 DEF SmartcafeCard!VerifyPIN
  <1>9. ASSUME NEW s \in Nat, s <= 255, c = SmartcafeCard!GetResp(s)
        PROVE  Sound(c)
    BY <1>9 DEF SmartcafeCard!GetResp
  <1>10. SmartcafeCard!Bytes = Bytes
    BY DEF SmartcafeCard!Bytes, Bytes
  <1> HIDE DEF Sound
  <1> QED BY <1>1, <1>2, <1>3, <1>4, <1>5, <1>6, <1>7, <1>8, <1>9, <1>10, BytesFacts DEF
             SmartcafeCard!Commands, SmartcafeCard!CreateML

\* scproton.c, scquick.c, sccarteb.c
LEMMA SmallSound ==
  ASSUME Name = "others", NEW c \in OtherCard!Commands, c.guard
  PROVE  Sound(c)
  <1> USE DEF Sound, Agrees, OtherCard!Cmd, OtherCard!Answer, OtherCard!Fixed, OtherCard!NoData,
              OtherCard!Data, OtherCard!Either, OtherCard!KeepsSw, OtherCard!Read, OtherCard!Byte
  <1>1. CASE c \in {OtherCard!ProtonSelectFile, OtherCard!QuickGetChall, OtherCard!QuickSelectFile}
    BY <1>1 DEF OtherCard!ProtonSelectFile, OtherCard!QuickGetChall, OtherCard!QuickSelectFile
  <1>2. ASSUME NEW n \in Int, c \in {OtherCard!ProtonLookupBalance(n),
                                     OtherCard!ProtonReadBinary(n), OtherCard!ProtonReadRecord(n),
                                     OtherCard!QuickReadBinary(n), OtherCard!QuickReadRecord(n),
                                     OtherCard!CartebRead(n)}
        PROVE  Sound(c)
    BY <1>2 DEF OtherCard!ProtonLookupBalance, OtherCard!ProtonReadBinary,
                OtherCard!ProtonReadRecord, OtherCard!QuickReadBinary, OtherCard!QuickReadRecord,
                OtherCard!CartebRead
  <1>3. OtherCard!Bytes = Bytes
    BY DEF OtherCard!Bytes, Bytes
  <1> HIDE DEF Sound
  <1> QED BY <1>1, <1>2, <1>3, BytesFacts DEF OtherCard!Commands

\* scgeldkarte.c: VerifyPIN takes 256 bytes, whose number is no Lc.
LEMMA GeldkarteSound ==
  ASSUME Name = "geldkarte", ~SpeaksT0, NEW c \in OtherCard!GeldkarteCommands, c.guard
  PROVE  Sound(c)
  <1> USE DEF Sound, Agrees, OtherCard!Cmd, OtherCard!Answer, OtherCard!Fixed, OtherCard!NoData,
              OtherCard!Data, OtherCard!Either, OtherCard!KeepsSw, OtherCard!Read, OtherCard!Byte
  <1>1. CASE c = OtherCard!GeldkarteGetChall
    BY <1>1 DEF OtherCard!GeldkarteGetChall
  <1>2. ASSUME NEW b \in BOOLEAN, c = OtherCard!GeldkarteGetStat(b)
        PROVE  Sound(c)
    BY <1>2 DEF OtherCard!GeldkarteGetStat
  <1>3. ASSUME NEW k, NEW n \in Int, c = OtherCard!GeldkarteReadRecord(k, n)
        PROVE  Sound(c)
    BY <1>3 DEF OtherCard!GeldkarteReadRecord
  <1>4. ASSUME NEW t \in {"mf", "fid", "aid", "none"}, NEW b \in BOOLEAN,
               NEW n \in Nat, c = OtherCard!GeldkarteSelectFile(t, b, n)
        PROVE  Sound(c)
    <2>1. c.guard => t # "none" /\ (t = "aid" => n \in 5..15)
      BY ONLY <1>4 DEF OtherCard!GeldkarteSelectFile, Cmd
    <2>2. CASE t = "mf"
      BY <1>4, <2>2 DEF OtherCard!GeldkarteSelectFile
    <2>3. CASE t = "fid"
      BY <1>4, <2>3 DEF OtherCard!GeldkarteSelectFile
    <2>4. CASE t = "aid"
      BY <1>4, <2>1, <2>4 DEF OtherCard!GeldkarteSelectFile
    <2> QED BY <1>4, <2>1, <2>2, <2>3, <2>4
  <1>5. ASSUME NEW k \in 0..2, NEW n \in Int, n >= 0, n <= 256, c = OtherCard!GeldkarteVerifyPIN(k,
     n)
        PROVE  Sound(c)
    <2> DEFINE legal == n <= 256 /\ k <= 1
    <2>1. c = OtherCard!KeepsSw(OtherCard!Cmd(legal, 3, n % 256, 5 + n, 261, OtherCard!NoData))
      BY <1>5 DEF OtherCard!GeldkarteVerifyPIN
    <2> HIDE DEF legal
    <2>2. legal
      BY <2>1
    <2>3. Misbuilt = {OtherCard!GeldkarteVerifyPIN(0, 256)}
      BY ONLY Name = "geldkarte" DEF Misbuilt, Name
    <2>4. n = 256 => c = OtherCard!GeldkarteVerifyPIN(0, 256)
      <3>1. legal = (256 <= 256 /\ 0 <= 1)
        BY <2>2 DEF legal
      <3> QED BY <2>1, <3>1 DEF OtherCard!GeldkarteVerifyPIN
    <2>5. n = 256 => c \in Misbuilt
      BY ONLY <2>3, <2>4
    <2> QED BY <1>5, <2>1, <2>5
  <1>6. OtherCard!Bytes = Bytes
    BY DEF OtherCard!Bytes, Bytes
  <1> HIDE DEF Sound
  <1> QED BY <1>1, <1>2, <1>3, <1>4, <1>5, <1>6, BytesFacts DEF OtherCard!GeldkarteCommands

LEMMA MfcMisbuilt ==
  ASSUME Name = "mfc"
  PROVE  /\ \A b \in BOOLEAN, n \in Bytes : MfcCard!CreateFile(b, n) \in Misbuilt
         /\ MfcCard!ExtAuth(TRUE) \in Misbuilt
         /\ \A n \in Bytes : MfcCard!Select("parent", TRUE, n) \in Misbuilt
  <1>1. Misbuilt = {MfcCard!CreateFile(b, n) : b \in BOOLEAN, n \in Bytes}
                     \cup {MfcCard!ExtAuth(TRUE)}
                     \cup {MfcCard!Select("parent", TRUE, n) : n \in Bytes}
    BY DEF Misbuilt, Name
  <1>2. ASSUME NEW b \in BOOLEAN, NEW n \in Bytes
        PROVE  MfcCard!CreateFile(b, n) \in Misbuilt
    BY ONLY <1>1, <1>2 DEF MfcCard!ExtAuth, MfcCard!Select, MfcCard!Cmd
  <1>3. MfcCard!ExtAuth(TRUE) \in Misbuilt
    BY ONLY <1>1
  <1>4. ASSUME NEW n \in Bytes
        PROVE  MfcCard!Select("parent", TRUE, n) \in Misbuilt
    BY ONLY <1>1, <1>4 DEF MfcCard!ExtAuth, MfcCard!Select, MfcCard!Cmd
  <1> QED BY <1>2, <1>3, <1>4

\* scmfc.c: the Lc of CreateFile and of ExtAuth with a key number is not that of the
\* data, and the parent is selected without Le.
LEMMA MfcSound ==
  ASSUME Name = "mfc", NEW c \in MfcCard!Commands, c.guard
  PROVE  Sound(c)
  <1> USE DEF Sound, Agrees, MfcCard!Cmd, MfcCard!Answer, MfcCard!Fixed, MfcCard!Status,
              MfcCard!NoData, MfcCard!Data, MfcCard!Proof, MfcCard!Cut, MfcCard!Read, MfcCard!Write,
              MfcCard!Byte
  <1>1. CASE c \in {MfcCard!CardBlock, MfcCard!CloseAppl, MfcCard!Delete, MfcCard!GiveRand,
                    MfcCard!IntAuth, MfcCard!Invalidate, MfcCard!Lock, MfcCard!ModBaudRate,
                    MfcCard!Rehabilitate, MfcCard!SetExec}
    BY <1>1 DEF MfcCard!CardBlock, MfcCard!CloseAppl, MfcCard!Delete, MfcCard!GiveRand,
                MfcCard!IntAuth, MfcCard!Invalidate, MfcCard!Lock, MfcCard!ModBaudRate,
                MfcCard!Rehabilitate, MfcCard!SetExec
  <1>2. ASSUME NEW k, c \in {MfcCard!ChangeCHV(k), MfcCard!UnblockCHV(k), MfcCard!VerifyCHV(k)}
        PROVE  Sound(c)
    BY <1>2 DEF MfcCard!ChangeCHV, MfcCard!UnblockCHV, MfcCard!VerifyCHV
  <1>3. ASSUME NEW n \in Int, c = MfcCard!Decrease(n)
        PROVE  Sound(c)
    <2>1. c.guard <=> n >= 0
      BY <1>3 DEF MfcCard!Decrease, MfcCard!Amount, MfcCard!UpTo
    <2> QED BY <1>3, <2>1 DEF MfcCard!Decrease, MfcCard!Amount, MfcCard!UpTo
  <1>4. ASSUME NEW n \in Int, c = MfcCard!DecreaseStamp(n)
        PROVE  Sound(c)
    <2>1. c.guard <=> n >= 0
      BY <1>4 DEF MfcCard!DecreaseStamp, MfcCard!Amount, MfcCard!UpTo
    <2> QED BY <1>4, <2>1 DEF MfcCard!DecreaseStamp, MfcCard!Amount, MfcCard!UpTo
  <1>5. ASSUME NEW n \in Int, c = MfcCard!Increase(n)
        PROVE  Sound(c)
    <2>1. c.guard <=> n >= 0
      BY <1>5 DEF MfcCard!Increase, MfcCard!Amount, MfcCard!UpTo
    <2> QED BY <1>5, <2>1 DEF MfcCard!Increase, MfcCard!Amount, MfcCard!UpTo
  <1>6. ASSUME NEW n \in Int, c = MfcCard!IncreaseStamp(n)
        PROVE  Sound(c)
    <2>1. c.guard <=> n >= 0
      BY <1>6 DEF MfcCard!IncreaseStamp, MfcCard!Amount, MfcCard!UpTo
    <2> QED BY <1>6, <2>1 DEF MfcCard!IncreaseStamp, MfcCard!Amount, MfcCard!UpTo
  <1>7. ASSUME NEW n \in Int, c \in {MfcCard!GetChall(n), MfcCard!ReadBinary(n),
                                     MfcCard!ReadBinStamp(n), MfcCard!ReadRecord(n),
                                     MfcCard!ReadRecStamp(n), MfcCard!ReadStat(n)}
        PROVE  Sound(c)
    BY <1>7 DEF MfcCard!GetChall, MfcCard!ReadBinary, MfcCard!ReadBinStamp, MfcCard!ReadRecord,
                MfcCard!ReadRecStamp, MfcCard!ReadStat
  <1>8. ASSUME NEW n \in Nat, n <= 255, c \in {MfcCard!AppendRecord(n), MfcCard!LoadKeyFile(n),
                                               MfcCard!UpdateBinary(n), MfcCard!UpdateRecord(n)}
        PROVE  Sound(c)
    BY <1>8 DEF MfcCard!AppendRecord, MfcCard!LoadKeyFile, MfcCard!UpdateBinary,
                MfcCard!UpdateRecord
  <1>9. ASSUME NEW b \in BOOLEAN, NEW n \in Nat, n <= 255, c = MfcCard!Seek(b, n)
        PROVE  Sound(c)
    BY <1>9 DEF MfcCard!Seek
  <1>10. ASSUME NEW b \in BOOLEAN, NEW n \in Nat, n \in Bytes, c = MfcCard!CreateFile(b, n)
        PROVE  Sound(c)
    <2>1. c.guard <=> n <= 240
      BY ONLY <1>10 DEF MfcCard!CreateFile, MfcCard!Cmd
    <2>2. c \in Misbuilt
      BY <1>10, MfcMisbuilt
    <2> QED BY <1>10, <2>1, <2>2 DEF MfcCard!CreateFile
  <1>11. ASSUME NEW b \in BOOLEAN, c = MfcCard!ExtAuth(b)
        PROVE  Sound(c)
    <2>1. b => c \in Misbuilt
      <3> SUFFICES ASSUME b = TRUE PROVE c \in Misbuilt
        BY <1>11
      <3> QED BY <1>11, b = TRUE, MfcMisbuilt
    <2> QED BY <1>11, <2>1 DEF MfcCard!ExtAuth
  <1>12. ASSUME NEW t \in {"parent", "fid", "path", "none"}, NEW b \in BOOLEAN,
               NEW n \in Nat, n \in Bytes, c = MfcCard!Select(t, b, n)
        PROVE  Sound(c)
    <2>1. c.guard => t # "none" /\ (t = "path" => n <= 16)
      BY ONLY <1>12 DEF MfcCard!Select, MfcCard!Cmd
    <2>2. CASE t = "parent"
      <3>1. b => c \in Misbuilt
        <4> SUFFICES ASSUME b = TRUE PROVE c \in Misbuilt
          BY <1>12
        <4>1. c = MfcCard!Select("parent", TRUE, n)
          BY ONLY <1>12, <2>2, b = TRUE
        <4> QED BY <1>12, <4>1, MfcMisbuilt DEF MfcCard!Select
      <3> QED BY <1>12, <2>2, <3>1 DEF MfcCard!Select
    <2>3. CASE t = "fid"
      BY <1>12, <2>3 DEF MfcCard!Select
    <2>4. CASE t = "path"
      BY <1>12, <2>1, <2>4 DEF MfcCard!Select
    <2> QED BY <1>12, <2>1, <2>2, <2>3, <2>4
  <1>13. MfcCard!Bytes = Bytes
    BY DEF MfcCard!Bytes, Bytes
  <1> HIDE DEF Sound
  <1> QED BY <1>1, <1>2, <1>3, <1>4, <1>5, <1>6, <1>7, <1>8, <1>9, <1>10, <1>11, <1>12, <1>13,
             BytesFacts DEF MfcCard!Commands

\* sctcos.c: the passwords are not limited to their buffers.
LEMMA TcosSound ==
  ASSUME Name = "tcos", ~SpeaksT0, NEW c \in TcosCard!Commands, c.guard
  PROVE  Sound(c)
  <1> USE DEF Sound, Agrees, TcosCard!Cmd, TcosCard!Answer, TcosCard!Fixed, TcosCard!Status,
              TcosCard!NoData, TcosCard!Data, TcosCard!Read, TcosCard!Write, TcosCard!Byte
  <1>1. CASE c \in {TcosCard!Delete, TcosCard!ExcludeSFI, TcosCard!GetSessionkey,
                    TcosCard!Invalidate, TcosCard!ListDir, TcosCard!Rehabilitate,
                    TcosCard!SetPermanent}
    BY <1>1 DEF TcosCard!Delete, TcosCard!ExcludeSFI, TcosCard!GetSessionkey, TcosCard!Invalidate,
                TcosCard!ListDir, TcosCard!Rehabilitate, TcosCard!SetPermanent
  <1>2. ASSUME NEW n \in Int, c \in {TcosCard!AskRandom(n), TcosCard!ReadBinary(n),
                                     TcosCard!ReadRecord(n)}
        PROVE  Sound(c)
    BY <1>2 DEF TcosCard!AskRandom, TcosCard!ReadBinary, TcosCard!ReadRecord
  <1>3. ASSUME NEW n \in Nat, n <= 255, c \in {TcosCard!AppendRecord(n), TcosCard!Create(n),
                                               TcosCard!ManageSecEnv(n), TcosCard!UpdateBinary(n),
                                               TcosCard!UpdateRecord(n)}
        PROVE  Sound(c)
    BY <1>3 DEF TcosCard!AppendRecord, TcosCard!Create, TcosCard!ManageSecEnv,
                TcosCard!UpdateBinary, TcosCard!UpdateRecord
  <1>4. ASSUME NEW n \in Nat, n <= 255, c = TcosCard!IncludeSFI(n)
        PROVE  Sound(c)
    <2>1. c.guard <=> n <= 252
      BY <1>4 DEF TcosCard!IncludeSFI
    <2> QED BY <1>4, <2>1 DEF TcosCard!IncludeSFI
  <1>5. ASSUME NEW b \in BOOLEAN, NEW n \in Nat, n <= 255, c = TcosCard!PerformSecOp(b, n)
        PROVE  Sound(c)
    BY <1>5 DEF TcosCard!PerformSecOp, TcosCard!Optional
  <1>6. ASSUME NEW t \in {"top", "fid", "path", "none"}, NEW b \in BOOLEAN,
               NEW n \in Nat, c = TcosCard!Select(t, b, n)
        PROVE  Sound(c)
    <2>1. c.guard => t # "none"
      BY ONLY <1>6 DEF TcosCard!Select, TcosCard!Cmd
    <2>2. CASE t = "top"
      BY <1>6, <2>2 DEF TcosCard!Select
    <2>3. CASE t = "fid"
      BY <1>6, <2>3 DEF TcosCard!Select, TcosCard!Optional
    <2>4. CASE t = "path"
      <3> DEFINE legal == n <= 16
      <3>1. c = [TcosCard!Optional(b, n, 22, IF b THEN TcosCard!Data ELSE TcosCard!NoData) EXCEPT
         !.guard = legal]
        BY <1>6, <2>4 DEF TcosCard!Select
      <3> HIDE DEF legal
      <3>2. legal
        BY <1>6, <3>1 DEF TcosCard!Optional
      <3> QED BY <1>6, <3>1, <3>2 DEF TcosCard!Optional, legal
    <2> QED BY <1>6, <2>1, <2>2, <2>3, <2>4
  <1>7. ASSUME NEW k \in {0, 31, 32}, NEW n \in Nat, n <= 255, n \in Bytes,
               c = TcosCard!VerifyPassword(k, n)
        PROVE  Sound(c)
    <2> DEFINE legal == k <= 31
    <2>1. c = TcosCard!Cmd(legal, 3, n, 5 + n, 21, TcosCard!Status)
      BY <1>7 DEF TcosCard!VerifyPassword, TcosCard!MaxNum
    <2> HIDE DEF legal
    <2>2. legal
      BY <2>1
    <2>3. c = TcosCard!VerifyPassword(31, n)
      <3>1. legal = (31 <= 31)
        BY <2>2 DEF legal
      <3> QED BY <2>1, <3>1 DEF TcosCard!VerifyPassword, TcosCard!MaxNum
    <2>4. n >= 17 => c \in Overlong
      BY ONLY <1>7, <2>3, Name = "tcos" DEF Overlong, Name
    <2> QED BY <1>7, <2>1, <2>4
  <1>8. ASSUME NEW k \in {0, 31, 32}, NEW m \in Nat, NEW n \in Nat, m \in Bytes, n \in Bytes,
               c = TcosCard!ChangePassword(k, m, n)
        PROVE  Sound(c)
    <2> DEFINE legal == k <= 31
    <2>1. c = TcosCard!Cmd(legal, 3, TcosCard!Byte(m + n), 5 + m + n, 37, TcosCard!Status)
      BY <1>8 DEF TcosCard!ChangePassword, TcosCard!MaxNum
    <2> HIDE DEF legal
    <2>2. legal
      BY <2>1
    <2>3. c = TcosCard!ChangePassword(31, m, n)
      <3>1. legal = (31 <= 31)
        BY <2>2 DEF legal
      <3> QED BY <2>1, <3>1 DEF TcosCard!ChangePassword, TcosCard!MaxNum
    <2>4. c \in Overlong /\ (c.cmdlen > 260 => c \in Misbuilt)
      BY ONLY <1>8, <2>3, Name = "tcos" DEF Overlong, Misbuilt, Name
    <2> QED BY <1>8, <2>1, <2>4
  <1>9. ASSUME NEW k, NEW g \in SUBSET {"puk", "new"}, NEW m \in Nat, NEW n \in Nat,
               c = TcosCard!UnblockPassword(k, g, m, n)
        PROVE  Sound(c)
    <2> DEFINE legal == k <= TcosCard!MaxNum /\ m + n <= 255
               lc == (IF "puk" \in g THEN m ELSE 0) + (IF "new" \in g THEN n ELSE 0)
    <2>1. c = IF g = {} THEN TcosCard!Cmd(legal, 1, 0, 4, 261, TcosCard!Status)
                        ELSE TcosCard!Cmd(legal, 3, lc, 5 + lc, 261, TcosCard!Status)
      BY ONLY <1>9 DEF TcosCard!UnblockPassword
    <2>2. lc \in Nat /\ lc <= m + n
      BY <1>9
    <2> HIDE DEF legal, lc
    <2>3. legal
      BY <2>1
    <2>4. lc <= 255
      BY <1>9, <2>2, <2>3 DEF legal
    <2> QED BY ONLY <1>9, <2>1, <2>2, <2>4
  <1>10. TcosCard!Bytes = Bytes
    BY DEF TcosCard!Bytes, Bytes
  <1> HIDE DEF Sound
  <1> QED BY <1>1, <1>2, <1>3, <1>4, <1>5, <1>6, <1>7, <1>8, <1>9, <1>10, BytesFacts DEF
             TcosCard!Commands

\* sccyberflex.c
LEMMA CyberflexSound ==
  ASSUME Name = "cyberflex", SpeaksT0, NEW c \in CyberflexCard!Commands, c.guard
  PROVE  Sound(c)
  <1> USE DEF Sound, Agrees, CyberflexCard!Cmd, CyberflexCard!Answer, CyberflexCard!Fixed,
              CyberflexCard!Status, CyberflexCard!NoData, CyberflexCard!Data,
              CyberflexCard!DataUpTo, CyberflexCard!Proof, CyberflexCard!Follow, CyberflexCard!Read,
              CyberflexCard!Write, CyberflexCard!Byte
  <1>1. CASE c \in {CyberflexCard!ChangeCHV, CyberflexCard!ChangeFileACL, CyberflexCard!CreateFile,
                    CyberflexCard!GetData, CyberflexCard!GetFileACL, CyberflexCard!Invalidate,
                    CyberflexCard!LogOutAll, CyberflexCard!ManageInstance}
    BY <1>1 DEF CyberflexCard!ChangeCHV, CyberflexCard!ChangeFileACL, CyberflexCard!CreateFile,
                CyberflexCard!GetData, CyberflexCard!GetFileACL, CyberflexCard!Invalidate,
                CyberflexCard!LogOutAll, CyberflexCard!ManageInstance
  <1>2. CASE c \in {CyberflexCard!Rehabilitate, CyberflexCard!UnblockCHV, CyberflexCard!VerifyCHV,
                    CyberflexCard!DisableCHV, CyberflexCard!EnableCHV, CyberflexCard!Increase,
                    CyberflexCard!Sleep}
    BY <1>2 DEF CyberflexCard!Rehabilitate, CyberflexCard!UnblockCHV, CyberflexCard!VerifyCHV,
                CyberflexCard!DisableCHV, CyberflexCard!EnableCHV, CyberflexCard!Increase,
                CyberflexCard!Sleep
  <1>3. ASSUME NEW b \in BOOLEAN, c \in {CyberflexCard!DeleteFile(b), CyberflexCard!ExtAuthDES(b),
                                         CyberflexCard!IntAuthDES(b)}
        PROVE  Sound(c)
    BY <1>3 DEF CyberflexCard!DeleteFile, CyberflexCard!ExtAuthDES, CyberflexCard!IntAuthDES
  <1>4. ASSUME NEW n \in Int, c \in {CyberflexCard!Directory(n), CyberflexCard!ReadBinary(n),
                                     CyberflexCard!ReadRecord(n), CyberflexCard!AskRandom(n),
                                     CyberflexCard!GetStatus(n)}
        PROVE  Sound(c)
    BY <1>4 DEF CyberflexCard!Directory, CyberflexCard!ReadBinary, CyberflexCard!ReadRecord,
                CyberflexCard!AskRandom, CyberflexCard!GetStatus
  <1>5. ASSUME NEW n \in Int, c = CyberflexCard!AppendRecord(n)
        PROVE  Sound(c)
    <2>1. CyberflexCard!Byte(n) \in Nat /\ CyberflexCard!Byte(n) <= 255
      BY ONLY <1>5 DEF CyberflexCard!Byte
    <2> HIDE DEF CyberflexCard!Byte
    <2> QED BY <1>5, <2>1 DEF CyberflexCard!AppendRecord
  <1>6. ASSUME NEW n \in Nat, n <= 255, c \in {CyberflexCard!ExecuteMethod(n),
                                               CyberflexCard!UpdateBinary(n),
                                               CyberflexCard!UpdateRecord(n),
                                               CyberflexCard!ExtAuth(n), CyberflexCard!IntAuth(n)}
        PROVE  Sound(c)
    BY <1>6 DEF CyberflexCard!ExecuteMethod, CyberflexCard!UpdateBinary, CyberflexCard!UpdateRecord,
                CyberflexCard!ExtAuth, CyberflexCard!IntAuth
  <1>7. ASSUME NEW n \in Nat, n <= 255, c = CyberflexCard!ChangeJavaATR(n)
        PROVE  Sound(c)
    <2>1. c.guard <=> n <= 12
      BY <1>7 DEF CyberflexCard!ChangeJavaATR
    <2> QED BY <1>7, <2>1 DEF CyberflexCard!ChangeJavaATR
  <1>8. ASSUME NEW n \in Nat, n <= 255, NEW k, c = CyberflexCard!VerifyKey(k, n)
        PROVE  Sound(c)
    BY <1>8 DEF CyberflexCard!VerifyKey
  <1>9. ASSUME NEW b \in BOOLEAN, NEW n \in Nat, n <= 255, c \in {CyberflexCard!ManageProgram(b, n),
                                                                  CyberflexCard!Seek(b, n)}
        PROVE  Sound(c)
    BY <1>9 DEF CyberflexCard!ManageProgram, CyberflexCard!Seek
  <1>10. ASSUME NEW t \in 0..5, NEW b \in BOOLEAN, NEW n \in Nat, c = CyberflexCard!Select(t, b, n)
        PROVE  Sound(c)
    <2>1. CASE t = 0
      BY <1>10, <2>1 DEF CyberflexCard!Select
    <2>2. CASE t = 3
      BY <1>10, <2>2 DEF CyberflexCard!Select
    <2>3. CASE t = 4 /\ b
      <3> DEFINE legal == n \in 5..16
      <3>1. c = CyberflexCard!Cmd(legal, 4, n, 6 + n, 22, CyberflexCard!Data)
        BY <1>10, <2>3 DEF CyberflexCard!Select
      <3> HIDE DEF legal
      <3>2. legal
        BY <3>1
      <3> QED BY <1>10, <3>1, <3>2 DEF legal
    <2>4. CASE t = 4 /\ ~b
      BY <1>10, <2>4 DEF CyberflexCard!Select
    <2>5. CASE t \notin {0, 3, 4}
      <3>1. c = CyberflexCard!Cmd(FALSE, 2, 0, 5, 22, CyberflexCard!Data)
        BY <1>10, <2>5 DEF CyberflexCard!Select
      <3> QED BY <3>1
    <2> QED BY <1>10, <2>1, <2>2, <2>3, <2>4, <2>5
  <1>11. ASSUME NEW s \in Nat, s <= 255, c = CyberflexCard!GetResp(s)
        PROVE  Sound(c)
    BY <1>11 DEF CyberflexCard!GetResp
  <1>12. CyberflexCard!Bytes = Bytes
    BY DEF CyberflexCard!Bytes, Bytes
  <1> HIDE DEF Sound
  <1> QED BY <1>1, <1>2, <1>3, <1>4, <1>5, <1>6, <1>7, <1>8, <1>9, <1>10, <1>11, <1>12, BytesFacts
             DEF CyberflexCard!Commands

\* A MACed command is filled up to whole DES blocks, three at most.
LEMMA CryptoflexMacShape ==
  ASSUME NEW m \in Int, m >= 1
  PROVE  /\ CryptoflexCard!MacLc(m) \in Nat /\ CryptoflexCard!MacLc(m) <= 27
         /\ CryptoflexCard!MacLen(m) = CryptoflexCard!MacLc(m) + 5
         /\ m <= 9 => CryptoflexCard!MacLc(m) <= 11
  <1>1. CryptoflexCard!MacBody(m) \in Nat /\ CryptoflexCard!MacBody(m) <= 24 /\ (m <= 9 =>
     CryptoflexCard!MacBody(m) <= 8)
    BY DEF CryptoflexCard!MacBody
  <1>2. CryptoflexCard!Padded(m) \in Nat /\ CryptoflexCard!Padded(m) <= 24 /\ (m <= 9 =>
     CryptoflexCard!Padded(m) <= 8)
    BY <1>1 DEF CryptoflexCard!Padded
  <1> QED BY <1>2 DEF CryptoflexCard!MacLc, CryptoflexCard!MacLen, CryptoflexCard!Byte

\* sccryptoflex.c
LEMMA CryptoflexSound ==
  ASSUME Name = "cryptoflex", SpeaksT0, NEW c \in CryptoflexCard!Commands, c.guard
  PROVE  Sound(c)
  <1> USE DEF Sound, Agrees, CryptoflexCard!Cmd, CryptoflexCard!Answer, CryptoflexCard!Fixed,
              CryptoflexCard!Status, CryptoflexCard!NoData, CryptoflexCard!Data,
              CryptoflexCard!Proof, CryptoflexCard!Follow, CryptoflexCard!Read,
              CryptoflexCard!Write, CryptoflexCard!Byte
  <1>1. CASE c \in {CryptoflexCard!Decrease, CryptoflexCard!DeleteFile, CryptoflexCard!ExtAuth,
                    CryptoflexCard!Increase, CryptoflexCard!IntAuth, CryptoflexCard!Invalidate,
                    CryptoflexCard!Rehabilitate, CryptoflexCard!SelectFile}
    BY <1>1 DEF CryptoflexCard!Decrease, CryptoflexCard!DeleteFile, CryptoflexCard!ExtAuth,
                CryptoflexCard!Increase, CryptoflexCard!IntAuth, CryptoflexCard!Invalidate,
                CryptoflexCard!Rehabilitate, CryptoflexCard!SelectFile
  <1>2. CASE c \in {CryptoflexCard!LoadCert, CryptoflexCard!RsaSign, CryptoflexCard!SHA1Interm,
                    CryptoflexCard!VerifyData, CryptoflexCard!VerifyPubKey}
    BY <1>2 DEF CryptoflexCard!LoadCert, CryptoflexCard!RsaSign, CryptoflexCard!SHA1Interm,
                CryptoflexCard!VerifyData, CryptoflexCard!VerifyPubKey
  <1>3. CASE c \in {CryptoflexCard!DecreaseMAC, CryptoflexCard!IncreaseMAC,
                    CryptoflexCard!DeleteFileMAC, CryptoflexCard!InvalidateMAC,
                    CryptoflexCard!RehabilitateMAC}
    <2>1. PICK m \in {5, 7, 8} :
            \/ c = CryptoflexCard!Cmd(TRUE, 3, CryptoflexCard!MacLc(m), CryptoflexCard!MacLen(m),
               32, CryptoflexCard!Status)
            \/ c = CryptoflexCard!Cmd(TRUE, 4, CryptoflexCard!MacLc(m), CryptoflexCard!MacLen(m) +
               1, 32, CryptoflexCard!Data)
      BY <1>3 DEF CryptoflexCard!DecreaseMAC, CryptoflexCard!IncreaseMAC,
         CryptoflexCard!DeleteFileMAC, CryptoflexCard!InvalidateMAC, CryptoflexCard!RehabilitateMAC,
         CryptoflexCard!Maced, CryptoflexCard!MacedLe
    <2> QED BY <2>1, CryptoflexMacShape
  <1>4. ASSUME NEW t, NEW k, c \in {CryptoflexCard!ChangePIN(t, k), CryptoflexCard!UnblockPIN(t, k),
                                    CryptoflexCard!VerifyPIN(t, k), CryptoflexCard!DesCrypt(t, k)}
        PROVE  Sound(c)
    BY <1>4 DEF CryptoflexCard!ChangePIN, CryptoflexCard!UnblockPIN, CryptoflexCard!VerifyPIN,
                CryptoflexCard!DesCrypt
  <1>5. ASSUME NEW k, c = CryptoflexCard!CreateFile(k)
        PROVE  Sound(c)
    BY <1>5 DEF CryptoflexCard!CreateFile
  <1>6. ASSUME NEW k, c = CryptoflexCard!CreateFileMAC(k)
        PROVE  Sound(c)
    <2>1. PICK m \in {21, 22} : c = CryptoflexCard!Maced(TRUE, m)
      BY <1>6 DEF CryptoflexCard!CreateFileMAC
    <2> QED BY <2>1, CryptoflexMacShape DEF CryptoflexCard!Maced
  <1>7. ASSUME NEW t, c \in {CryptoflexCard!Directory(t), CryptoflexCard!RsaKeyGen(t),
                             CryptoflexCard!RsaKeyGenUpd(t)}
        PROVE  Sound(c)
    BY <1>7 DEF CryptoflexCard!Directory, CryptoflexCard!RsaKeyGen, CryptoflexCard!RsaKeyGenUpd
  <1>8. ASSUME NEW n \in Int, c = CryptoflexCard!CreateRecord(n)
        PROVE  Sound(c)
    <2>1. CryptoflexCard!Byte(n) \in Nat /\ CryptoflexCard!Byte(n) <= 255
      BY ONLY <1>8 DEF CryptoflexCard!Byte
    <2> HIDE DEF CryptoflexCard!Byte
    <2> QED BY <1>8, <2>1 DEF CryptoflexCard!CreateRecord
  <1>9. ASSUME NEW n \in Int, n >= -1,
               c \in {CryptoflexCard!CreateRecordMAC(n), CryptoflexCard!UpdateBinaryMAC(n),
                  CryptoflexCard!UpdateRecordMAC(n)}
        PROVE  Sound(c)
    <2>1. c = CryptoflexCard!Maced(n <= 20, 5 + n)
      BY <1>9 DEF CryptoflexCard!CreateRecordMAC, CryptoflexCard!UpdateBinaryMAC,
         CryptoflexCard!UpdateRecordMAC
    <2> QED BY <1>9, <2>1, CryptoflexMacShape DEF CryptoflexCard!Maced
  <1>10. ASSUME NEW n \in Int, c \in {CryptoflexCard!GetChall(n), CryptoflexCard!ReadBinary(n),
                                      CryptoflexCard!ReadRecord(n)}
        PROVE  Sound(c)
    BY <1>10 DEF CryptoflexCard!GetChall, CryptoflexCard!ReadBinary, CryptoflexCard!ReadRecord
  <1>11. ASSUME NEW n \in Int, c = CryptoflexCard!SHA1Last(n)
        PROVE  Sound(c)
    <2>1. c.guard <=> n <= 64
      BY <1>11 DEF CryptoflexCard!SHA1Last
    <2> QED BY <1>11, <2>1 DEF CryptoflexCard!SHA1Last
  <1>12. ASSUME NEW n \in Nat, n <= 255, c \in {CryptoflexCard!Seek(n),
                                                CryptoflexCard!UpdateBinary(n),
                                                CryptoflexCard!UpdateRecord(n),
                                                CryptoflexCard!VerifyKey(n)}
        PROVE  Sound(c)
    BY <1>12 DEF CryptoflexCard!Seek, CryptoflexCard!UpdateBinary, CryptoflexCard!UpdateRecord,
                 CryptoflexCard!VerifyKey
  <1>13. ASSUME NEW n \in Nat, n <= 255, c = CryptoflexCard!UpdateEnc(n)
        PROVE  Sound(c)
    BY <1>13 DEF CryptoflexCard!UpdateEnc
  <1>14. ASSUME NEW s \in Nat, s <= 255, c = CryptoflexCard!GetResp(s)
        PROVE  Sound(c)
    BY <1>14 DEF CryptoflexCard!GetResp
  <1>15. CryptoflexCard!Bytes = Bytes
    BY DEF CryptoflexCard!Bytes, Bytes
  <1> HIDE DEF Sound
  <1> QED BY <1>1, <1>2, <1>3, <1>4, <1>5, <1>6, <1>7, <1>8, <1>9, <1>10, <1>11, <1>12, <1>13,
             <1>14, <1>15, BytesFacts DEF CryptoflexCard!Commands

\* scgpk4000.c: UpdRecCrycks has no limit of its own, the parent is selected as case 4
\* without Le, and Sign and CompDesKey tell another number of bytes than they give.
LEMMA GpkSound ==
  ASSUME Name = "gpk", NEW c \in GpkCard!Commands, c.guard
  PROVE  Sound(c)
  <1> USE DEF Sound, Agrees, GpkCard!Cmd, GpkCard!Answer, GpkCard!Fixed, GpkCard!Status,
              GpkCard!NoData, GpkCard!Data, GpkCard!Exactly, GpkCard!Proof, GpkCard!Crycks,
              GpkCard!Sealed, GpkCard!Key, GpkCard!Secured, GpkCard!Follow, GpkCard!Summing,
              GpkCard!Read, GpkCard!Write, GpkCard!Byte
  <1>1. CASE c \in {GpkCard!CrtFile, GpkCard!ExtAuth, GpkCard!FreezeAc, GpkCard!IntAuth,
                    GpkCard!SelFk, GpkCard!SetCardStatus, GpkCard!SetCod, GpkCard!SwtSpd,
                    GpkCard!Verify, GpkCard!SelPk}
    BY <1>1 DEF GpkCard!CrtFile, GpkCard!ExtAuth, GpkCard!FreezeAc, GpkCard!IntAuth, GpkCard!SelFk,
                GpkCard!SetCardStatus, GpkCard!SetCod, GpkCard!SwtSpd, GpkCard!Verify, GpkCard!SelPk
  <1>2. CASE c \in {GpkCard!SetOpts, GpkCard!CrtPrivKeyFile, GpkCard!DesEnc, GpkCard!EraseCard,
                    GpkCard!PkDir, GpkCard!SelCryptoContext}
    BY <1>2 DEF GpkCard!SetOpts, GpkCard!CrtPrivKeyFile, GpkCard!DesEnc, GpkCard!EraseCard,
                GpkCard!PkDir, GpkCard!SelCryptoContext
  <1>3. CASE c \in {GpkCard!CrtFileCrycks, GpkCard!FreezeAcCrycks}
    <2>1. PICK m \in {5, 12} :
            c = GpkCard!Secured(GpkCard!Summing(GpkCard!Cmd(TRUE, 4, GpkCard!Byte(m + 3), 9 + m, 9 +
               m, GpkCard!Crycks(3)), 5 + m))
      BY <1>3 DEF GpkCard!CrtFileCrycks, GpkCard!FreezeAcCrycks, GpkCard!WithCrycks
    <2> QED BY <2>1 DEF GpkCard!WithCrycks
  <1>4. CASE c \in {GpkCard!SetCodCrycks, GpkCard!UpdBinEncr, GpkCard!VerifyEncr, GpkCard!WrBinEncr,
                    GpkCard!CanDeb, GpkCard!Credit, GpkCard!Debit, GpkCard!RdBal}
    BY <1>4 DEF GpkCard!SetCodCrycks, GpkCard!UpdBinEncr, GpkCard!VerifyEncr, GpkCard!WrBinEncr,
                GpkCard!CanDeb, GpkCard!Credit, GpkCard!Debit, GpkCard!RdBal
  <1>5. CASE c = GpkCard!Sign
    <2>1. c \in Mistold
      BY <1>5 DEF Mistold
    <2> QED BY <1>5, <2>1 DEF GpkCard!Sign
  <1>6. ASSUME NEW b \in BOOLEAN, c = GpkCard!GetChall(b)
        PROVE  Sound(c)
    BY <1>6 DEF GpkCard!GetChall
  <1>7. ASSUME NEW k, NEW n \in Int, c = GpkCard!GetInfo(k, n)
        PROVE  Sound(c)
    BY <1>7 DEF GpkCard!GetInfo
  <1>8. ASSUME NEW n \in Int, c \in {GpkCard!RdBin(n), GpkCard!RdRec(n), GpkCard!RdBinCrycks(n),
                                     GpkCard!RdRecCrycks(n)}
        PROVE  Sound(c)
    BY <1>8 DEF GpkCard!RdBin, GpkCard!RdRec, GpkCard!RdBinCrycks, GpkCard!RdRecCrycks
  <1>9. ASSUME NEW n \in Nat, n <= 255, c \in {GpkCard!ApdRec(n), GpkCard!UpdBin(n),
                                               GpkCard!UpdRec(n), GpkCard!LoadPrivKey(n),
                                               GpkCard!PkIntAuth(n), GpkCard!PkSend(n),
                                               GpkCard!PkSign(n), GpkCard!WrBin(n),
                                               GpkCard!PkVerify(n), GpkCard!PutCryptoData(n)}
        PROVE  Sound(c)
    BY <1>9 DEF GpkCard!ApdRec, GpkCard!UpdBin, GpkCard!UpdRec, GpkCard!LoadPrivKey,
                GpkCard!PkIntAuth, GpkCard!PkSend, GpkCard!PkSign, GpkCard!WrBin, GpkCard!PkVerify,
                GpkCard!PutCryptoData
  <1>10. ASSUME NEW n \in Nat, n <= 255, c = GpkCard!CrtDir(n)
        PROVE  Sound(c)
    <2>1. c.guard <=> n <= 16
      BY <1>10 DEF GpkCard!CrtDir
    <2> QED BY <1>10, <2>1 DEF GpkCard!CrtDir
  <1>11. ASSUME NEW n \in Nat, n <= 255, c = GpkCard!InitHashed(n)
        PROVE  Sound(c)
    <2>1. c.guard <=> n <= 36
      BY <1>11 DEF GpkCard!InitHashed
    <2> QED BY <1>11, <2>1 DEF GpkCard!InitHashed
  <1>12. ASSUME NEW n \in Nat, n \in Lens, c = GpkCard!CompDesKey(n)
        PROVE  Sound(c)
    <2>1. c \in Mistold
      BY <1>12 DEF Mistold
    <2> QED BY <1>12, <2>1 DEF GpkCard!CompDesKey
  <1>13. ASSUME NEW n \in Nat, c \in {GpkCard!UpdBinCrycks(n), GpkCard!WrBinCrycks(n),
     GpkCard!ApdRecCrycks(n)}
        PROVE  Sound(c)
    <2> DEFINE legal == n <= 61
    <2>1. PICK r \in {70, 73} : c = GpkCard!WithCrycks(legal, n, r)
      BY ONLY <1>13 DEF GpkCard!UpdBinCrycks, GpkCard!WrBinCrycks, GpkCard!ApdRecCrycks
    <2> HIDE DEF legal
    <2>2. legal
      BY <2>1 DEF GpkCard!WithCrycks
    <2> QED BY <1>13, <2>1, <2>2 DEF GpkCard!WithCrycks, legal
  <1>14. ASSUME NEW n \in Nat, c = GpkCard!CrtDirCrycks(n)
        PROVE  Sound(c)
    <2> DEFINE legal == n <= 16
    <2>1. c = GpkCard!WithCrycks(legal, 12 + n, 37)
      BY ONLY <1>14 DEF GpkCard!CrtDirCrycks
    <2> HIDE DEF legal
    <2>2. legal
      BY <2>1 DEF GpkCard!WithCrycks
    <2> QED BY <1>14, <2>1, <2>2 DEF GpkCard!WithCrycks, legal
  <1>15. ASSUME NEW n \in Nat, n <= 255, n \in Bytes, c = GpkCard!UpdRecCrycks(n)
        PROVE  Sound(c)
    <2>1. (n >= 253 => n \in Bytes \cap 253..255) /\ (n >= 62 => n \in Bytes \cap 62..255)
      BY <1>15
    <2>2. n >= 253 => c \in Misbuilt
      BY ONLY <1>15, <2>1, Name = "gpk" DEF Misbuilt, Name, GpkCard!SelFil, GpkCard!Cmd
    <2>3. n >= 62 => c \in Overlong
      BY ONLY <1>15, <2>1, Name = "gpk" DEF Overlong, Name
    <2> QED BY <1>15, <2>2, <2>3 DEF GpkCard!UpdRecCrycks, GpkCard!WithCrycks
  <1>16. ASSUME NEW t \in 0..5, NEW b \in BOOLEAN, NEW a \in BOOLEAN, NEW n \in Nat,
               c = GpkCard!SelFil(t, b, a, n)
        PROVE  Sound(c)
    <2>1. CASE t = 4
      <3> DEFINE legal == n <= 16
      <3>1. c = GpkCard!Cmd(legal, IF a THEN 4 ELSE 3, n, 5 + n + (IF a THEN 1 ELSE 0), 22,
                     IF a THEN GpkCard!Data ELSE GpkCard!NoData)
        BY <1>16, <2>1 DEF GpkCard!SelFil
      <3> HIDE DEF legal
      <3>2. legal
        BY <3>1
      <3> QED BY <1>16, <3>1, <3>2 DEF legal
    <2>2. CASE t = 3
      <3>1. c = GpkCard!Cmd(b, 4, 0, 5, 22, IF a THEN GpkCard!Data ELSE GpkCard!NoData)
        BY <1>16, <2>2 DEF GpkCard!SelFil
      <3>2. b
        BY <3>1
      <3>3. c = GpkCard!SelFil(3, TRUE, a, 0)
        BY <3>1, <3>2 DEF GpkCard!SelFil
      <3>4. SpeaksT0 \/ c \in Misbuilt
        BY ONLY <3>3, Name = "gpk", a \in BOOLEAN
        DEF Misbuilt, SpeaksT0, Name, GpkCard!SelFil, GpkCard!Cmd
      <3> QED BY <3>1, <3>4
    <2>3. CASE t \notin {3, 4}
      BY <1>16, <2>3 DEF GpkCard!SelFil
    <2> QED BY <2>1, <2>2, <2>3
  <1>17. ASSUME NEW s \in Nat, s <= 255, c = GpkCard!GetResp(s)
        PROVE  Sound(c)
    BY <1>17 DEF GpkCard!GetResp
  <1>18. GpkCard!Bytes = Bytes
    BY DEF GpkCard!Bytes, Bytes
  <1> HIDE DEF Sound
  <1> QED BY <1>1, <1>2, <1>3, <1>4, <1>5, <1>6, <1>7, <1>8, <1>9, <1>10, <1>11, <1>12, <1>13,
             <1>14, <1>15, <1>16, <1>17, <1>18, BytesFacts DEF GpkCard!Commands

\* A MACed command is filled up to whole DES blocks, three at most.
LEMMA MultiflexMacShape ==
  ASSUME NEW m \in Int, m >= 1
  PROVE  /\ MultiflexCard!CF!MacLc(m) \in Nat /\ MultiflexCard!CF!MacLc(m) <= 27
         /\ MultiflexCard!CF!MacLen(m) = MultiflexCard!CF!MacLc(m) + 5
         /\ m <= 9 => MultiflexCard!CF!MacLc(m) <= 11
  <1>1. /\ MultiflexCard!CF!MacBody(m) \in Nat /\ MultiflexCard!CF!MacBody(m) <= 24
        /\ m <= 9 => MultiflexCard!CF!MacBody(m) <= 8
    BY DEF MultiflexCard!CF!MacBody
  <1>2. /\ MultiflexCard!CF!Padded(m) \in Nat /\ MultiflexCard!CF!Padded(m) <= 24
        /\ m <= 9 => MultiflexCard!CF!Padded(m) <= 8
    BY <1>1 DEF MultiflexCard!CF!Padded
  <1> QED BY <1>2 DEF MultiflexCard!CF!MacLc, MultiflexCard!CF!MacLen, MultiflexCard!CF!Byte

\* scmultiflex.c: the commands are those of sccryptoflex.c, of which each card has its own.
LEMMA MultiflexSound ==
  ASSUME Name = "multiflex", SpeaksT0, NEW c \in MultiflexCard!Commands, c.guard
  PROVE  Sound(c)
  <1> USE DEF Sound, Agrees, MultiflexCard!Cmd, MultiflexCard!Answer, MultiflexCard!Fixed,
              MultiflexCard!Status, MultiflexCard!NoData, MultiflexCard!Data, MultiflexCard!Proof,
              MultiflexCard!KeepsSw, MultiflexCard!Follow, MultiflexCard!Read, MultiflexCard!Write,
              MultiflexCard!Byte, MultiflexCard!CF!Cmd, MultiflexCard!CF!Answer,
              MultiflexCard!CF!Fixed, MultiflexCard!CF!Status, MultiflexCard!CF!NoData,
              MultiflexCard!CF!Data, MultiflexCard!CF!Proof, MultiflexCard!CF!KeepsSw,
              MultiflexCard!CF!Follow, MultiflexCard!CF!Read, MultiflexCard!CF!Write,
              MultiflexCard!CF!Byte
  <1>1. CASE c \in {MultiflexCard!ChangePIN, MultiflexCard!UnblockPIN, MultiflexCard!VerifyPIN,
                    MultiflexCard!GetChall}
    BY <1>1 DEF MultiflexCard!ChangePIN, MultiflexCard!UnblockPIN, MultiflexCard!VerifyPIN,
                MultiflexCard!GetChall, MultiflexCard!CF!ChangePIN, MultiflexCard!CF!UnblockPIN,
                MultiflexCard!CF!VerifyPIN, MultiflexCard!CF!GetChall
  <1>2. CASE c \in {MultiflexCard!Decrease, MultiflexCard!DeleteFile, MultiflexCard!ExtAuth,
                    MultiflexCard!Increase, MultiflexCard!IntAuth, MultiflexCard!Invalidate,
                    MultiflexCard!Rehabilitate, MultiflexCard!SelectFile}
    BY <1>2 DEF MultiflexCard!Decrease, MultiflexCard!DeleteFile, MultiflexCard!ExtAuth,
                MultiflexCard!Increase, MultiflexCard!IntAuth, MultiflexCard!Invalidate,
                MultiflexCard!Rehabilitate, MultiflexCard!SelectFile, MultiflexCard!CF!Decrease,
                MultiflexCard!CF!DeleteFile, MultiflexCard!CF!ExtAuth, MultiflexCard!CF!Increase,
                MultiflexCard!CF!IntAuth, MultiflexCard!CF!Invalidate,
                MultiflexCard!CF!Rehabilitate, MultiflexCard!CF!SelectFile
  <1>3. CASE c \in {MultiflexCard!DecreaseMAC, MultiflexCard!IncreaseMAC,
                    MultiflexCard!DeleteFileMAC, MultiflexCard!InvalidateMAC,
                    MultiflexCard!RehabilitateMAC}
    <2>1. PICK m \in {5, 7, 8} :
            \/ c = MultiflexCard!CF!Cmd(TRUE, 3, MultiflexCard!CF!MacLc(m),
               MultiflexCard!CF!MacLen(m), 32, MultiflexCard!CF!Status)
            \/ c = MultiflexCard!CF!Cmd(TRUE, 4, MultiflexCard!CF!MacLc(m),
               MultiflexCard!CF!MacLen(m) + 1, 32, MultiflexCard!CF!Data)
      BY <1>3 DEF MultiflexCard!DecreaseMAC, MultiflexCard!IncreaseMAC, MultiflexCard!DeleteFileMAC,
         MultiflexCard!InvalidateMAC, MultiflexCard!RehabilitateMAC,
         MultiflexCard!CF!DecreaseMAC, MultiflexCard!CF!IncreaseMAC, MultiflexCard!CF!DeleteFileMAC,
            MultiflexCard!CF!InvalidateMAC,
         MultiflexCard!CF!RehabilitateMAC, MultiflexCard!CF!Maced, MultiflexCard!CF!MacedLe
    <2> QED BY <2>1, MultiflexMacShape
  <1>4. ASSUME NEW k, c = MultiflexCard!CreateFile(k)
        PROVE  Sound(c)
    BY <1>4 DEF MultiflexCard!CreateFile, MultiflexCard!CF!CreateFile
  <1>5. ASSUME NEW k, c = MultiflexCard!CreateFileMAC(k)
        PROVE  Sound(c)
    <2>1. PICK m \in {21, 22} : c = MultiflexCard!CF!Cmd(TRUE, 3, MultiflexCard!CF!MacLc(m),
       MultiflexCard!CF!MacLen(m), 32, MultiflexCard!CF!Status)
      BY <1>5 DEF MultiflexCard!CreateFileMAC, MultiflexCard!CF!CreateFileMAC,
         MultiflexCard!CF!Maced
    <2> QED BY <2>1, MultiflexMacShape
  <1>6. ASSUME NEW t, c \in {MultiflexCard!DecreaseSt(t), MultiflexCard!IncreaseSt(t),
                             MultiflexCard!GiveChall(t)}
        PROVE  Sound(c)
    BY <1>6 DEF MultiflexCard!DecreaseSt, MultiflexCard!IncreaseSt, MultiflexCard!GiveChall,
                MultiflexCard!Not3K
  <1>7. ASSUME NEW t, c \in {MultiflexCard!DecreaseStMAC(t), MultiflexCard!IncreaseStMAC(t)}
        PROVE  Sound(c)
    <2>1. /\ c.cse = 4 /\ c.p3 = MultiflexCard!CF!MacLc(8)
          /\ c.cmdlen = MultiflexCard!CF!MacLen(8) + 1 /\ c.room = 32
          /\ c.answer = MultiflexCard!CF!Data /\ c.clears /\ ~c.secured /\ ~c.follow
      BY <1>7 DEF MultiflexCard!DecreaseStMAC, MultiflexCard!IncreaseStMAC, MultiflexCard!Not3K,
         MultiflexCard!CF!MacedLe
    <2> QED BY <2>1, MultiflexMacShape
  <1>8. ASSUME NEW t \in MultiflexCard!Types, c = MultiflexCard!Directory(t)
        PROVE  Sound(c)
    <2>1. CASE t \in {"8K", "8K DES"}
      <3>1. c = MultiflexCard!CF!Directory(MultiflexCard!Foreign)
        BY ONLY <1>8, <2>1 DEF MultiflexCard!Directory, MultiflexCard!OnlyOn
      <3> QED BY <1>8, <3>1 DEF MultiflexCard!CF!Directory, MultiflexCard!Foreign
    <2>2. CASE t \notin {"8K", "8K DES"}
      <3>1. c.guard = FALSE
        BY <1>8, <2>2 DEF MultiflexCard!Directory, MultiflexCard!OnlyOn, MultiflexCard!CF!Directory
      <3> QED BY <3>1
    <2> QED BY <2>1, <2>2
  <1>9. ASSUME NEW t \in MultiflexCard!Types, NEW k, c = MultiflexCard!DesCrypt(t, k)
        PROVE  Sound(c)
    <2>1. CASE t \in {"8K DES"}
      <3>1. c = MultiflexCard!CF!DesCrypt(MultiflexCard!Foreign, k)
        BY ONLY <1>9, <2>1 DEF MultiflexCard!DesCrypt, MultiflexCard!OnlyOn
      <3> QED BY <1>9, <3>1 DEF MultiflexCard!CF!DesCrypt, MultiflexCard!Foreign
    <2>2. CASE t \notin {"8K DES"}
      <3>1. c.guard = FALSE
        BY <1>9, <2>2 DEF MultiflexCard!DesCrypt, MultiflexCard!OnlyOn, MultiflexCard!CF!DesCrypt
      <3> QED BY <3>1
    <2> QED BY <2>1, <2>2
  <1>10. ASSUME NEW n \in Int, c = MultiflexCard!CreateRecord(n)
        PROVE  Sound(c)
    <2>1. MultiflexCard!CF!Byte(n) \in Nat /\ MultiflexCard!CF!Byte(n) <= 255
      BY ONLY <1>10 DEF MultiflexCard!CF!Byte
    <2> HIDE DEF MultiflexCard!CF!Byte
    <2> QED BY <1>10, <2>1 DEF MultiflexCard!CreateRecord, MultiflexCard!CF!CreateRecord
  <1>11. ASSUME NEW n \in Int, n >= -1,
               c \in {MultiflexCard!CreateRecordMAC(n), MultiflexCard!UpdateBinaryMAC(n),
                  MultiflexCard!UpdateRecordMAC(n)}
        PROVE  Sound(c)
    <2>1. c = MultiflexCard!CF!Maced(n <= 20, 5 + n)
      BY <1>11 DEF MultiflexCard!CreateRecordMAC, MultiflexCard!UpdateBinaryMAC,
         MultiflexCard!UpdateRecordMAC, MultiflexCard!CF!CreateRecordMAC,
         MultiflexCard!CF!UpdateBinaryMAC, MultiflexCard!CF!UpdateRecordMAC
    <2> QED BY <1>11, <2>1, MultiflexMacShape DEF MultiflexCard!CF!Maced
  <1>12. ASSUME NEW n \in Int, c \in {MultiflexCard!ReadBinary(n), MultiflexCard!ReadRecord(n)}
        PROVE  Sound(c)
    BY <1>12 DEF MultiflexCard!ReadBinary, MultiflexCard!ReadRecord, MultiflexCard!CF!ReadBinary,
                 MultiflexCard!CF!ReadRecord
  <1>13. ASSUME NEW n \in Nat, n <= 255, c \in {MultiflexCard!Seek(n),
                                                MultiflexCard!UpdateBinary(n),
                                                MultiflexCard!UpdateRecord(n),
                                                MultiflexCard!VerifyKey(n)}
        PROVE  Sound(c)
    BY <1>13 DEF MultiflexCard!Seek, MultiflexCard!UpdateBinary, MultiflexCard!UpdateRecord,
                 MultiflexCard!VerifyKey, MultiflexCard!CF!Seek, MultiflexCard!CF!UpdateBinary,
                 MultiflexCard!CF!UpdateRecord, MultiflexCard!CF!VerifyKey
  <1>14. ASSUME NEW s \in Nat, s <= 255, c = MultiflexCard!GetResp(s)
        PROVE  Sound(c)
    BY <1>14 DEF MultiflexCard!GetResp, MultiflexCard!CF!GetResp
  <1>15. MultiflexCard!Bytes = Bytes
    BY DEF MultiflexCard!Bytes, Bytes
  <1> HIDE DEF Sound
  <1> QED BY <1>1, <1>2, <1>3, <1>4, <1>5, <1>6, <1>7, <1>8, <1>9, <1>10, <1>11, <1>12, <1>13,
             <1>14, <1>15, BytesFacts DEF MultiflexCard!Commands
-----------------------------------------------------------------------------
(***************************************************************************)
(* The session: every command that is sent is one of its driver's, or the  *)
(* GET RESPONSE that RsaKeyGen goes on with.                               *)
(***************************************************************************)
Known == driver.name \in DOMAIN CommandsOf /\ driver.t0 \in Protocols(driver.name)

LEMMA OfferedSound ==
  ASSUME Known, NEW c \in Offered, c.guard
  PROVE  Sound(c)
  <1>1. CASE Fetching
    <2>1. c = Fixed(2, ci.sw2, 5, Data)
      BY <1>1 DEF Offered
    <2> QED BY <2>1 DEF Sound, Agrees, Fixed, Cmd, Data, Answer
  <1>2. CASE ~Fetching
    <2>1. c \in CommandsOf[Name]
      BY <1>2 DEF Offered, Name
    <2>2. Name \in {"cryptoflex", "multiflex", "cyberflex", "gpk", "gsm", "mfc", "tcos",
                    "payflex", "smartcafe", "openplatform", "geldkarte", "others"}
      BY DEF Known, CommandsOf, Name
    <2>3. Name \in T0Only => SpeaksT0
      <3> SUFFICES ASSUME Name \in T0Only PROVE driver.t0 \in {TRUE}
        BY DEF SpeaksT0
      <3>1. Name \notin T1Only
        BY DEF T0Only, T1Only
      <3> QED BY <3>1 DEF Known, Protocols, Name
    <2>4. Name \in T1Only => ~SpeaksT0
      <3> SUFFICES ASSUME Name \in T1Only PROVE driver.t0 \in {FALSE}
        BY DEF SpeaksT0
      <3>1. Name \notin T0Only
        BY DEF T0Only, T1Only
      <3> QED BY <3>1 DEF Known, Protocols, Name
    <2>5. CASE Name = "cryptoflex"
      <3>1. c \in CryptoflexCard!Commands
        BY ONLY <2>1, <2>5 DEF CommandsOf
      <3> QED BY <2>5, <3>1, CryptoflexSound, <2>3 DEF T0Only
    <2>6. CASE Name = "multiflex"
      <3>1. c \in MultiflexCard!Commands
        BY ONLY <2>1, <2>6 DEF CommandsOf
      <3> QED BY <2>6, <3>1, MultiflexSound, <2>3 DEF T0Only
    <2>7. CASE Name = "cyberflex"
      <3>1. c \in CyberflexCard!Commands
        BY ONLY <2>1, <2>7 DEF CommandsOf
      <3> QED BY <2>7, <3>1, CyberflexSound, <2>3 DEF T0Only
    <2>8. CASE Name = "gpk"
      <3>1. c \in GpkCard!Commands
        BY ONLY <2>1, <2>8 DEF CommandsOf
      <3> QED BY <2>8, <3>1, GpkSound
    <2>9. CASE Name = "gsm"
      <3>1. c \in GsmCard!Commands
        BY ONLY <2>1, <2>9 DEF CommandsOf
      <3> QED BY <2>9, <3>1, GsmSound
    <2>10. CASE Name = "mfc"
      <3>1. c \in MfcCard!Commands
        BY ONLY <2>1, <2>10 DEF CommandsOf
      <3> QED BY <2>10, <3>1, MfcSound
    <2>11. CASE Name = "tcos"
      <3>1. c \in TcosCard!Commands
        BY ONLY <2>1, <2>11 DEF CommandsOf
      <3> QED BY <2>11, <3>1, TcosSound, <2>4 DEF T1Only
    <2>12. CASE Name = "payflex"
      <3>1. c \in PayflexCard!Commands
        BY ONLY <2>1, <2>12 DEF CommandsOf
      <3> QED BY <2>12, <3>1, PayflexSound
    <2>13. CASE Name = "smartcafe"
      <3>1. c \in SmartcafeCard!Commands
        BY ONLY <2>1, <2>13 DEF CommandsOf
      <3> QED BY <2>13, <3>1, SmartcafeSound
    <2>14. CASE Name = "openplatform"
      <3>1. c \in OpenplatformCard!Commands
        BY ONLY <2>1, <2>14 DEF CommandsOf
      <3> QED BY <2>14, <3>1, OpenplatformSound
    <2>15. CASE Name = "geldkarte"
      <3>1. c \in OtherCard!GeldkarteCommands
        BY ONLY <2>1, <2>15 DEF CommandsOf
      <3> QED BY <2>15, <3>1, GeldkarteSound, <2>4 DEF T1Only
    <2>16. CASE Name = "others"
      <3>1. c \in OtherCard!Commands
        BY ONLY <2>1, <2>16 DEF CommandsOf
      <3> QED BY <2>16, <3>1, SmallSound
    <2> QED BY <2>2, <2>5, <2>6, <2>7, <2>8, <2>9, <2>10,
              <2>11, <2>12, <2>13, <2>14, <2>15, <2>16
  <1> QED BY <1>1, <1>2
(***************************************************************************)
(* What a driver may say of ci->sw: that GET RESPONSE finds there what the *)
(* card has announced last, except in a function that is going on to fetch *)
(* and after the functions that do not clear it, which only drivers have   *)
(* whose GET RESPONSE is not there or not held to it.                      *)
(***************************************************************************)
Fresh ==
  \/ Name \in {"smartcafe", "geldkarte", "others"}
  \/ card.sw2 = NoSw \/ Fetching
  \/ ci.sw2 \in {0, card.sw2}

FollowStep ==
  call'.ret \notin {"NONE", "BAD_PARAM"} /\ call'.cmd.follow /\ card.sw2 # NoSw
      /\ driver.name # "smartcafe" =>
    call'.cmd.p3 \in {0, card.sw2}

SessionInv ==
  /\ Known /\ Inv
  /\ CommandsAccepted /\ BuiltInBuffer /\ ToldIsGiven /\ ProtectedIsChecked
  /\ Fresh

\* The exceptions depend on the driver only.
LEMMA DriverStays ==
  ASSUME driver' = driver
  PROVE  Known' = Known /\ Misbuilt' = Misbuilt /\ Overlong' = Overlong /\ Name' = Name
  BY DEF Known, Protocols, Misbuilt, Overlong, Name

LEMMA AgreesAccepted ==
  ASSUME NEW c, Agrees(c), c.cse = 4 => c.p3 \in Int
  PROVE  Accepted(c, driver.t0)
  BY DEF Agrees, Accepted, Lengths, SpeaksT0

LEMMA MistoldKinds ==
  ASSUME NEW c \in Mistold
  PROVE  c.answer.kind \in {"half", "short"}
  BY DEF Mistold, GpkCard!Sign, GpkCard!CompDesKey, GpkCard!Fixed, GpkCard!Cmd, GpkCard!Answer

LEMMA SoundTold ==
  ASSUME NEW c, Sound(c), c \notin Mistold, NEW n \in Int, NEW right,
         Result(c.answer, n, right) = "OK"
  PROVE  /\ Told(c.answer, n) = Given(c.answer, n)
         /\ Given(c.answer, n) \in 0..n
         /\ c.answer.kind \in {"crycks", "sealed"} => right /\ c.secured
  <1>1. n >= 0 /\ Wants(c.answer, n, right)
    BY DEF Result, Complaint
  <1>2. /\ c.answer.kind \notin {"half", "short"} /\ c.answer.bytes \in Int
        /\ c.answer.kind \in {"cut", "sealed"} => c.answer.bytes >= 0
        /\ c.answer.kind \in {"crycks", "sealed"} => c.secured
    BY DEF Sound
  <1>3. c.answer.kind = "sealed" => n >= c.answer.bytes
    BY <1>1 DEF Wants
  <1>4. Given(c.answer, n) \in 0..n
    BY <1>1, <1>2, <1>3 DEF Given
  <1>5. Told(c.answer, n) = Given(c.answer, n)
    BY <1>2 DEF Told
  <1>6. c.answer.kind \in {"crycks", "sealed"} => right
    BY <1>1 DEF Wants
  <1> QED BY <1>2, <1>4, <1>5, <1>6

\* The command of a function that goes on to fetch is always sent and accepted.
LEMMA FetchSent ==
  ASSUME Fetching, NEW c \in Offered
  PROVE  ~Refused(c) /\ Accepted(c, driver.t0) /\ c.clears /\ ~c.follow
  BY DEF Offered, Refused, Accepted, Lengths, Fixed, Cmd

LEMMA SentSound ==
  ASSUME Known, NEW c \in Offered, ~Refused(c)
  PROVE  Sound(c)
  BY OfferedSound DEF Refused

\* What is asked for after the last answer.
LEMMA Follows ==
  ASSUME SessionInv, NEW c \in Offered, ~Refused(c), call'.cmd = c
  PROVE  FollowStep
  <1>1. SUFFICES ASSUME c.follow, card.sw2 # NoSw, driver.name # "smartcafe"
                 PROVE  c.p3 \in {0, card.sw2}
    BY DEF FollowStep
  <1>2. ~Fetching
    BY <1>1, FetchSent
  <1>3. Name \notin {"geldkarte", "others"}
    BY <1>1, SentSound DEF SessionInv, Sound
  <1>4. c.p3 = ci.sw2
    BY <1>1, <1>2 DEF Offered
  <1> QED BY <1>1, <1>2, <1>3, <1>4 DEF SessionInv, Fresh, Name

LEMMA SessionRefuse ==
  ASSUME SessionInv, NEW c \in Offered, Refuse(c)
  PROVE  SessionInv' /\ FollowStep
  <1>1. call'.ret = "BAD_PARAM" /\ UNCHANGED <<driver, card>> /\ ci' = Begun(c) /\ Refused(c)
    BY DEF Refuse, Ended
  <1>2. ~Fetching
    BY <1>1, FetchSent
  <1>3. ci'.sw2 \in {0, ci.sw2}
    BY <1>1 DEF Begun, SessionInv, Inv
  <1>4. Inv'
    BY RefuseStep DEF SessionInv
  <1>5. Fresh'
    BY <1>1, <1>2, <1>3, DriverStays DEF SessionInv, Fresh
  <1> QED BY <1>1, <1>4, <1>5, DriverStays
          DEF SessionInv, FollowStep, CommandsAccepted, BuiltInBuffer, ToldIsGiven,
              ProtectedIsChecked

LEMMA SessionReject ==
  ASSUME SessionInv, NEW c \in Offered, Reject(c)
  PROVE  SessionInv' /\ FollowStep
  <1>1. /\ call'.ret = "CMD_LENGTH" /\ call'.cmd = c /\ UNCHANGED <<driver, card>>
        /\ ci' = Begun(c) /\ ~Refused(c) /\ ~Accepted(c, driver.t0)
    BY DEF Reject, Ended
  <1>2. ~Fetching
    BY <1>1, FetchSent
  <1>3. ci'.sw2 \in {0, ci.sw2}
    BY <1>1 DEF Begun, SessionInv, Inv
  <1>4. Inv'
    BY RefuseStep DEF SessionInv
  <1>5. Fresh'
    BY <1>1, <1>2, <1>3, DriverStays DEF SessionInv, Fresh
  <1>6. Sound(c)
    BY <1>1, SentSound DEF SessionInv
  <1>7. c \in Misbuilt /\ (c.cmdlen <= c.room \/ c \in Overlong)
    BY <1>1, <1>6, AgreesAccepted DEF Sound
  <1>8. FollowStep
    BY <1>1, Follows
  <1> QED BY <1>1, <1>4, <1>5, <1>7, <1>8, DriverStays
          DEF SessionInv, CommandsAccepted, BuiltInBuffer, ToldIsGiven, ProtectedIsChecked

LEMMA SessionLose ==
  ASSUME SessionInv, NEW c \in Offered, Lose(c)
  PROVE  SessionInv' /\ FollowStep
  <1>1. /\ call'.ret = IF c.answer.kind = "fetch" THEN "FETCH" ELSE "IO_ERROR"
        /\ call'.cmd = c /\ driver' = driver /\ ci' = ThenFetch(c, Begun(c)) /\ ~Refused(c)
    BY DEF Lose, Ended
  <1>2. Inv'
    BY LoseStep DEF SessionInv
  <1>3. Sound(c)
    BY <1>1, SentSound DEF SessionInv
  <1>4. Fresh'
    <2>1. CASE c.answer.kind = "fetch"
      BY <1>1, <2>1 DEF Fresh, Fetching
    <2>2. CASE c.answer.kind # "fetch" /\ c.clears
      <3>1. ci'.sw2 = 0
        BY <1>1, <2>2 DEF ThenFetch, Begun, SessionInv, Inv
      <3> QED BY <3>1 DEF Fresh
    <2>3. CASE ~c.clears
      BY <1>1, <1>3, <2>3, DriverStays DEF Sound, Fresh
    <2> QED BY <2>1, <2>2, <2>3
  <1>5. c.cmdlen <= c.room \/ c \in Overlong
    BY <1>3 DEF Sound
  <1>6. FollowStep
    BY <1>1, Follows
  <1>7. call'.ret \in {"FETCH", "IO_ERROR"}
    BY <1>1
  <1> QED BY <1>1, <1>2, <1>4, <1>5, <1>6, <1>7, DriverStays
          DEF SessionInv, CommandsAccepted, BuiltInBuffer, ToldIsGiven, ProtectedIsChecked

\* What a call returns that has got an answer
LEMMA Results ==
  ASSUME NEW a, NEW n, NEW right
  PROVE  Result(a, n, right) \in
           {"FETCH", "BAD_SW", "OK", "RSP_TOO_LONG", "UNKNOWN_ERROR", "BAD_CHECKSUM"}
  BY DEF Result, Complaint

LEMMA SizesAreInt ==
  ASSUME NEW c, c.answer.bytes \in Int, NEW n \in Sizes(c)
  PROVE  n \in Int
  BY DEF Sizes

LEMMA SessionAnswered ==
  ASSUME SessionInv, NEW c \in Offered, Answered(c)
  PROVE  SessionInv' /\ FollowStep
  <1>1. driver' = driver /\ ~Refused(c)
    BY DEF Answered
  <1>2. PICK n \in Sizes(c), s \in Sw2s, right \in BOOLEAN :
          /\ right => (c.secured => CardAgrees(c))
          /\ ci' = ThenFetch(c, SetCi(c, n, s))
          /\ card' = [card EXCEPT !.sw2 = s]
          /\ call' = Ended(c, Result(c.answer, n, right), TRUE, n)
    BY DEF Answered
  <1>3. call'.cmd = c /\ call'.ret = Result(c.answer, n, right) /\ call'.reached /\ call'.n = n
    BY <1>2 DEF Ended
  <1>4. Inv'
    BY AnsweredStep DEF SessionInv
  <1>5. Sound(c)
    BY <1>1, SentSound DEF SessionInv
  <1>6. FollowStep
    BY <1>1, <1>3, Follows
  <1>7. c.cmdlen <= c.room \/ c \in Overlong
    BY <1>5 DEF Sound
  <1>8. n \in Int
    BY <1>5, SizesAreInt DEF Sound
  <1>9. Fresh'
    <2>1. CASE c.answer.kind = "fetch"
      BY <1>3, <2>1 DEF Fresh, Fetching, Result
    <2>2. CASE c.answer.kind # "fetch" /\ SetsSw(c.answer, n)
      <3>1. ci'.sw2 = s /\ card'.sw2 = s
        BY <1>2, <2>2 DEF ThenFetch, SetCi, Begun, SessionInv, Inv
      <3> QED BY <3>1 DEF Fresh
    <2>3. CASE c.answer.kind # "fetch" /\ ~SetsSw(c.answer, n) /\ c.clears
      <3>1. ci'.sw2 = 0
        BY <1>2, <2>3 DEF ThenFetch, SetCi, Begun, SessionInv, Inv
      <3> QED BY <3>1 DEF Fresh
    <2>4. CASE ~c.clears
      BY <1>1, <1>5, <2>4, DriverStays DEF Sound, Fresh
    <2> QED BY <2>1, <2>2, <2>3, <2>4
  <1>10. SameKey(ci') /\ card'.key = card.key
    <2>1. SameKey(SetCi(c, n, s))
      BY SetCiSameKey DEF SessionInv
    <2> QED BY <1>2, <2>1, ThenFetchSameKey DEF SessionInv, Inv
  <1>11. ToldIsGiven'
    BY <1>3, <1>5, <1>8, SoundTold DEF ToldIsGiven, Mistold
  <1>12. ProtectedIsChecked'
    <2> SUFFICES ASSUME call'.ret = "OK", c.answer.kind \in {"crycks", "sealed"}
                 PROVE  ci.encrypt /\ CardAgrees(c)
      BY <1>3, <1>10 DEF ProtectedIsChecked, CardAgrees, SameKey
    <2>1. right /\ c.secured
      <3>1. c \notin Mistold
        BY MistoldKinds
      <3> QED BY <1>3, <1>5, <1>8, <3>1, SoundTold
    <2> QED BY <1>1, <1>2, <2>1 DEF Refused
  <1>13. call'.ret # "CMD_LENGTH"
    BY <1>3, Results
  <1> QED BY <1>1, <1>3, <1>4, <1>6, <1>7, <1>9, <1>11, <1>12, <1>13, DriverStays
          DEF SessionInv, CommandsAccepted, BuiltInBuffer

LEMMA SessionNewKey ==
  ASSUME SessionInv, NEW c \in Offered, NewKey(c)
  PROVE  SessionInv' /\ FollowStep
  <1>1. driver' = driver /\ ~Refused(c) /\ c.answer.kind = "key"
    BY DEF NewKey
  <1>2. PICK n \in Sizes(c), s \in Sw2s, right \in BOOLEAN, k \in Keys \ {ci.key, card.key} :
          /\ n = c.answer.bytes \/ ~right
          /\ ci' = IF n < 0 THEN Begun(c)
                   ELSE [sw2 |-> s, encrypt |-> n = c.answer.bytes /\ right,
                         key |-> CASE n # c.answer.bytes -> ci.key [] right -> k [] OTHER -> NoKey]
          /\ card' = [sw2 |-> s, key |-> IF n = c.answer.bytes THEN k ELSE card.key]
          /\ call' = Ended(c, Result(c.answer, n, right), TRUE, n)
    BY DEF NewKey
  <1>3. call'.cmd = c /\ call'.ret = Result(c.answer, n, right) /\ call'.reached /\ call'.n = n
    BY <1>2 DEF Ended
  <1>4. Inv'
    BY NewKeyStep DEF SessionInv
  <1>5. Sound(c)
    BY <1>1, SentSound DEF SessionInv
  <1>6. FollowStep
    BY <1>1, <1>3, Follows
  <1>7. c.cmdlen <= c.room \/ c \in Overlong
    BY <1>5 DEF Sound
  <1>8. n \in Int
    BY <1>5, SizesAreInt DEF Sound
  <1>9. Fresh'
    <2>1. CASE n < 0 /\ c.clears
      <3>1. ci'.sw2 = 0
        BY <1>2, <2>1 DEF Begun, SessionInv, Inv
      <3> QED BY <3>1 DEF Fresh
    <2>2. CASE ~c.clears
      BY <1>1, <1>5, <2>2, DriverStays DEF Sound, Fresh
    <2>3. CASE ~(n < 0)
      <3>1. ci'.sw2 = s /\ card'.sw2 = s
        BY <1>2, <2>3
      <3> QED BY <3>1 DEF Fresh
    <2> QED BY <2>1, <2>2, <2>3
  <1>10. ToldIsGiven'
    BY <1>3, <1>5, <1>8, SoundTold DEF ToldIsGiven, Mistold
  <1>11. ProtectedIsChecked'
    BY <1>1, <1>3 DEF ProtectedIsChecked
  <1>12. call'.ret # "CMD_LENGTH"
    BY <1>3, Results
  <1> QED BY <1>1, <1>3, <1>4, <1>6, <1>7, <1>9, <1>10, <1>11, <1>12, DriverStays
          DEF SessionInv, CommandsAccepted, BuiltInBuffer

LEMMA SessionQuiet ==
  ASSUME SessionInv, ResetCard \/ Return
  PROVE  SessionInv' /\ FollowStep
  <1>1. call'.ret = "NONE" /\ driver' = driver /\ ~Fetching
    BY DEF ResetCard, Return, Idle, Fetching
  <1>2. Inv'
    BY ResetCardStep DEF SessionInv, Return, Inv
  <1>3. ci'.sw2 = ci.sw2 /\ card'.sw2 \in {card.sw2, NoSw}
    <2>1. CASE ResetCard
      <3>1. ci' = [sw2 |-> ci.sw2, encrypt |-> FALSE, key |-> NoKey]
        BY <2>1 DEF ResetCard, SessionInv, Inv
      <3>2. card'.sw2 \in {card.sw2, NoSw}
        BY <2>1 DEF ResetCard
      <3> QED BY <3>1, <3>2
    <2>2. CASE Return
      BY <2>2 DEF Return
    <2> QED BY <2>1, <2>2
  <1>4. Fresh'
    BY <1>1, <1>3, DriverStays DEF SessionInv, Fresh
  <1> QED BY <1>1, <1>2, <1>4, DriverStays
          DEF SessionInv, FollowStep, CommandsAccepted, BuiltInBuffer, ToldIsGiven,
              ProtectedIsChecked

LEMMA SessionInit == Init => SessionInv
  <1> SUFFICES ASSUME Init PROVE SessionInv
    OBVIOUS
  <1>1. Known /\ Inv
    BY DEF Init, Known, Inv
  <1>2. call.ret = "NONE" /\ card.sw2 = NoSw
    BY DEF Init, Idle
  <1> QED BY <1>1, <1>2
          DEF SessionInv, CommandsAccepted, BuiltInBuffer, ToldIsGiven, ProtectedIsChecked, Fresh

LEMMA SessionNext == SessionInv /\ [Next]_vars => SessionInv' /\ [FollowStep]_vars
  <1> SUFFICES ASSUME SessionInv, [Next]_vars
               PROVE  SessionInv' /\ [FollowStep]_vars
    OBVIOUS
  <1>1. CASE UNCHANGED vars
    <2>1. UNCHANGED <<driver, ci, card, call>>
      BY <1>1 DEF vars
    <2>2. /\ Inv' /\ CommandsAccepted' /\ BuiltInBuffer' /\ ToldIsGiven' /\ ProtectedIsChecked'
          /\ Fresh'
      BY <2>1, DriverStays
         DEF SessionInv, Inv, CommandsAccepted, BuiltInBuffer, ToldIsGiven, ProtectedIsChecked,
             Fresh, Fetching
    <2> QED BY <1>1, <2>1, <2>2, DriverStays DEF SessionInv
  <1>2. CASE Next
    BY <1>2, SessionRefuse, SessionReject, SessionLose, SessionAnswered, SessionNewKey,
       SessionQuiet DEF Next
  <1> QED BY <1>1, <1>2
LEMMA SessionStays == Spec => []SessionInv /\ [][FollowStep]_vars
  BY SessionInit, SessionNext, PTL DEF Spec

(***************************************************************************)
(* Cases, Lc and lengths of every command any driver function can build    *)
(* agree, whatever its arguments (scReaderCheckAPDU), but for those of     *)
(* Misbuilt.                                                               *)
(***************************************************************************)
THEOREM CommandsAlwaysAccepted == Spec => []CommandsAccepted
  <1>1. SessionInv => CommandsAccepted
    BY DEF SessionInv
  <1> QED BY <1>1, SessionStays, PTL

(***************************************************************************)
(* No driver function builds more than its local buffer holds, but for     *)
(* those of Overlong.                                                      *)
(***************************************************************************)
THEOREM AlwaysBuiltInBuffer == Spec => []BuiltInBuffer
  <1>1. SessionInv => BuiltInBuffer
    BY DEF SessionInv
  <1> QED BY <1>1, SessionStays, PTL

(***************************************************************************)
(* The number a caller is told is that of the bytes it was given, and not  *)
(* more than the card sent, whatever the card answers.                     *)
(***************************************************************************)
THEOREM ToldIsAlwaysGiven == Spec => []ToldIsGiven
  <1>1. SessionInv => ToldIsGiven
    BY DEF SessionInv
  <1> QED BY <1>1, SessionStays, PTL

(***************************************************************************)
(* SC_EXIT_OK of a protected command of the GPK driver means that the card *)
(* has the host's key and that the checksum covered the whole command.     *)
(***************************************************************************)
THEOREM ProtectedIsAlwaysChecked == Spec => []ProtectedIsChecked
  <1>1. SessionInv => ProtectedIsChecked
    BY DEF SessionInv
  <1> QED BY <1>1, SessionStays, PTL

(***************************************************************************)
(* GET RESPONSE asks for what the last answer announced.  It rests on      *)
(* ci->sw being cleared first and set last in every function (Fresh), and  *)
(* on the one function that fetches by itself not being interrupted.       *)
(***************************************************************************)
THEOREM FollowIsAlwaysFresh == Spec => FollowIsFresh
  BY SessionStays, PTL DEF FollowStep, FollowIsFresh
=============================================================================
