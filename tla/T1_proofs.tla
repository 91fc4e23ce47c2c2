------------------------------- MODULE T1_proofs -------------------------------
(***************************************************************************)
(* What holds of scT1SendCmd for every choice of the constants, for every  *)
(* length of command and response, any number of line faults and late      *)
(* answers: the types (TypeOK), the bound on the response buffer           *)
(* (ResponseFitsBuffer) and the identity of the repeated I-block           *)
(* (BlockIsWindow), in the first part.  The second relates both ends: what *)
(* may be on the line in either direction, in the manner of the            *)
(* alternating-bit protocol, and with it that commands are executed whole  *)
(* and once, and answered with their own answers (Synced).  The third maps *)
(* the session to the abstract channel; the last is about lines that bring *)
(* no answer late, where one block at most is on its way (Alone), and ends *)
(* with the recovery from a fault (MadeGood).                              *)
(***************************************************************************)
EXTENDS T1Link, TLAPS

(* The inductive invariant: the three properties and what the locals of    *)
(* scT1SendCmd hold before its loop.                                       *)
Fresh ==
    pc \in {"idle", "ifsd"} => /\ sendptr = 0 /\ sendlen = 0
                               /\ more = TRUE /\ lastiicc = FALSE
                               /\ rsp = << >>

HostInv == HostTypeOK /\ ResponseFitsBuffer /\ BlockIsWindow /\ Fresh

IInv == TypeOK /\ HostInv

-------------------------------------------------------------------------------
(* The operators the actions are built from.                               *)

LEMMA FlipType == ASSUME NEW b \in {0, 1} PROVE Flip(b) \in {0, 1}
  BY DEF Flip

LEMMA EmptyType == ASSUME NEW S PROVE << >> \in Seq(S)
  OBVIOUS

LEMMA SubSeqType ==
  ASSUME NEW S, NEW s \in Seq(S), NEW m \in Nat, NEW n \in Nat,
         m >= 1, n <= Len(s)
  PROVE  SubSeq(s, m, n) \in Seq(S)
  OBVIOUS

LEMMA IBlockType ==
  ASSUME NEW n \in Nat, NEW m \in BOOLEAN, NEW d \in Seq(Byte)
  PROVE  IBlock(n, m, d) \in Block
  BY DEF IBlock, Block

LEMMA RBlockType ==
  ASSUME NEW n \in Nat
  PROVE  RBlock(n) \in Block /\ RBlock(n).type = "R"
  BY DEF RBlock, Block

LEMMA SBlockType ==
  ASSUME NEW t \in STypes, NEW n \in Nat
  PROVE  SBlock(t, n) \in Block /\ SBlock(t, n).type = t /\ t # "I"
  BY DEF SBlock, Block, STypes, RequestTypes, ResponseTypes

LEMMA GarbledType == Garbled \in Block /\ Garbled.type = "bad"
  BY DEF Garbled, Block

LEMMA DrainType ==
  ASSUME NEW unread \in Seq(Block), DrainFrom(unread)
  PROVE  toHost' \in Seq(Block)
  <1>1. PICK k \in 0..Len(unread) : toHost' = SubSeq(unread, k + 1, Len(unread))
    BY DEF DrainFrom
  <1>2. k + 1 \in Nat /\ k + 1 >= 1 /\ Len(unread) \in Nat
    OBVIOUS
  <1> QED BY <1>1, <1>2, SubSeqType

LEMMA WriteType ==
  ASSUME NEW b \in Block, NEW unread \in Seq(Block), toCard \in Seq(Block),
         Write(b, unread)
  PROVE  block' = b /\ toCard' \in Seq(Block) /\ toHost' \in Seq(Block)
  BY DrainType DEF Write

LEMMA UnreadType ==
  ASSUME toHost \in Seq(Block), toHost # << >>
  PROVE  Received \in Block /\ Unread \in Seq(Block)
  BY DEF Received, Unread

LEMMA MakeIBlockType ==
  ASSUME NEW seq \in Seq(Byte), NEW p \in Nat, p <= Len(seq),
         NEW m \in BOOLEAN, NEW n \in {0, 1}, NEW unread \in Seq(Block),
         toCard \in Seq(Block), ifsc \in Nat,
         MakeIBlock(p, seq, m, n, unread)
  PROVE  /\ sendlen' \in Nat /\ sendptr' \in Nat /\ more' \in BOOLEAN
         /\ sendlen' <= sendptr' /\ sendptr' <= Len(seq)
         /\ block' \in Block
         /\ block' = IBlock(n, more', SubSeq(seq, sendptr' - sendlen' + 1, sendptr'))
         /\ toCard' \in Seq(Block) /\ toHost' \in Seq(Block)
  <1> DEFINE left == Len(seq) - p
             len == IF left < ifsc THEN left ELSE ifsc
             mm == m /\ len # left
             b == IBlock(n, mm, SubSeq(seq, p + 1, p + len))
  <1>1. left \in Nat /\ len \in Nat /\ len <= left /\ mm \in BOOLEAN
    OBVIOUS
  <1>2. sendlen' = len /\ more' = mm /\ sendptr' = p + len /\ Write(b, unread)
    BY DEF MakeIBlock
  <1>3. SubSeq(seq, p + 1, p + len) \in Seq(Byte)
    <2>1. p + 1 \in Nat /\ p + 1 >= 1 /\ p + len \in Nat /\ p + len <= Len(seq)
      BY <1>1
    <2> HIDE DEF len
    <2> QED BY <2>1, SubSeqType
  <1>4. b \in Block
    <2> HIDE DEF len, mm
    <2> QED BY <1>1, <1>3, IBlockType
  <1> HIDE DEF b
  <1>5. block' = b /\ toCard' \in Seq(Block) /\ toHost' \in Seq(Block)
    BY <1>2, <1>4, WriteType
  <1>6. sendptr' - sendlen' + 1 = p + 1 /\ sendptr' = p + len
    <2> HIDE DEF len
    <2> QED BY <1>1, <1>2
  <1>7. b = IBlock(n, more', SubSeq(seq, sendptr' - sendlen' + 1, sendptr'))
    BY <1>2, <1>6 DEF b
  <1> QED
    <2> HIDE DEF len, mm
    <2> QED BY <1>1, <1>2, <1>4, <1>5, <1>7

-------------------------------------------------------------------------------
(* A return from scT1SendCmd.                                              *)
LEMMA FinishInv ==
  ASSUME HostInv, NEW r \in ErrorCodes \cup {"OK"}, NEW unread \in Seq(Block),
         Finish(r, unread),
         ns' \in {0, 1}, nr' \in {0, 1}, UNCHANGED <<ifsc, ifsreq, cmd, wantData>>,
         apduRsp' \in Seq(Byte)
  PROVE  HostInv'
  <1>1. HostTypeOK'
    <2>1. rsp' \in Seq(Byte)
      BY EmptyType DEF Finish
    <2>2. block' \in Block
      BY GarbledType DEF Finish
    <2>3. /\ timeouts' \in 0..Retries /\ errcntr' \in 0..Retries
          /\ rerrcntr' \in 0..Retries /\ errors' \in 0..IfsdErrors
      BY LimitsAssumption DEF Finish
    <2> QED BY <2>1, <2>2, <2>3 DEF HostInv, HostTypeOK, Finish
  <1>2. ResponseFitsBuffer' /\ BlockIsWindow' /\ Fresh'
    BY LimitsAssumption
    DEF HostInv, HostTypeOK, Finish, ResponseFitsBuffer, BlockIsWindow, Fresh
  <1> QED BY <1>1, <1>2 DEF HostInv

(* An error counter below its limit may be raised by one.                  *)
LEMMA CountUp ==
  ASSUME NEW n \in 0..Retries, ~(n + 1 > Retries)
  PROVE  n + 1 \in 0..Retries
  BY LimitsAssumption

(* A pass of the loop that writes a block other than an I-block.           *)
LEMMA ReplyInv ==
  ASSUME HostInv, NEW b \in Block, b.type # "I" \/ b = block,
         NEW unread \in Seq(Block), Write(b, unread),
         pc = "xfer", pc' \in {"xfer", "abort"},
         b.type = "I" => lastiicc' = lastiicc /\ ns' = ns,
         ns' \in {0, 1}, nr' \in {0, 1}, ifsc' \in Nat, lastiicc' \in BOOLEAN,
         timeouts' \in 0..Retries, errcntr' \in 0..Retries,
         rerrcntr' \in 0..Retries, wtxcntr' \in Nat,
         rsp' \in Seq(Byte), Len(rsp') <= MaxRsp,
         UNCHANGED <<ifsreq, apduVars, sendVars, errors, ret>>
  PROVE  HostInv'
  <1>1. block' = b /\ toCard' \in Seq(Block) /\ toHost' \in Seq(Block)
    BY WriteType DEF HostInv, HostTypeOK
  <1>2. HostTypeOK'
    BY <1>1 DEF HostInv, HostTypeOK, apduVars, sendVars
  <1>3. BlockIsWindow'
    BY <1>1 DEF HostInv, BlockIsWindow, apduVars, sendVars
  <1>4. ResponseFitsBuffer' /\ Fresh'
    BY DEF ResponseFitsBuffer, Fresh
  <1> QED BY <1>2, <1>3, <1>4 DEF HostInv

(* A step that makes an I-block.                                           *)
LEMMA IBlockInv ==
  ASSUME HostInv, NEW p \in Nat, p <= Len(cmd'), NEW m \in BOOLEAN,
         NEW n \in {0, 1}, NEW unread \in Seq(Block),
         MakeIBlock(p, cmd', m, n, unread),
         cmd' \in Seq(Byte), wantData' \in BOOLEAN, apduRsp' \in Seq(Byte),
         pc' = "xfer", ns' = n, ifsreq' \in BOOLEAN,
         ~lastiicc,
         timeouts' \in 0..Retries, errcntr' \in 0..Retries,
         rerrcntr' \in 0..Retries, errors' \in 0..IfsdErrors,
         ret' \in {"busy", ret},
         UNCHANGED <<nr, ifsc, lastiicc, wtxcntr, rsp>>
  PROVE  HostInv'
  <1>1. /\ sendlen' \in Nat /\ sendptr' \in Nat /\ more' \in BOOLEAN
        /\ sendlen' <= sendptr' /\ sendptr' <= Len(cmd')
        /\ block' \in Block
        /\ block' = IBlock(n, more', SubSeq(cmd', sendptr' - sendlen' + 1, sendptr'))
        /\ toCard' \in Seq(Block) /\ toHost' \in Seq(Block)
    BY MakeIBlockType DEF HostInv, HostTypeOK
  <1>2. HostTypeOK'
    BY <1>1 DEF HostInv, HostTypeOK
  <1>3. BlockIsWindow'
    BY <1>1 DEF HostInv, BlockIsWindow
  <1>4. ResponseFitsBuffer' /\ Fresh'
    BY DEF HostInv, ResponseFitsBuffer, Fresh
  <1> QED BY <1>2, <1>3, <1>4 DEF HostInv

-------------------------------------------------------------------------------
(* Every step of the reader keeps the invariant, whatever it reads.        *)

LEMMA CallsInv ==
  ASSUME HostInv
  PROVE  /\ \A r \in ErrorCodes : RefuseCmd(r) => HostInv'
         /\ \A c \in Seq(Byte), d \in BOOLEAN : SendCmd(c, d) => HostInv'
         /\ ResetCard => HostInv'
         /\ ResetFails => HostInv'
         /\ \A i \in Nat : ProcessATR(i) => HostInv'
  <1> USE DEF HostInv
  <1>1. ASSUME NEW r \in ErrorCodes, RefuseCmd(r) PROVE HostInv'
    <2>1. toHost' \in Seq(Block)
      BY <1>1, DrainType DEF RefuseCmd, HostTypeOK
    <2>2. HostTypeOK'
      BY <1>1, <2>1 DEF RefuseCmd, HostTypeOK, t1Vars, apduVars, sendVars, countVars
    <2>3. (ResponseFitsBuffer /\ BlockIsWindow /\ Fresh)'
      BY <1>1 DEF RefuseCmd, ResponseFitsBuffer, BlockIsWindow, Fresh, t1Vars,
                  apduVars, sendVars, countVars
    <2> QED BY <2>2, <2>3
  <1>2. ASSUME NEW c \in Seq(Byte), NEW d \in BOOLEAN, SendCmd(c, d)
        PROVE  HostInv'
    <2>1. CASE ifsreq
      <3>1. MakeIBlock(0, cmd', TRUE, ns, toHost) /\ pc' = "xfer"
        BY <1>2, <2>1 DEF SendCmd
      <3>2. /\ cmd' \in Seq(Byte) /\ wantData' \in BOOLEAN
            /\ apduRsp' \in Seq(Byte) /\ ret' = "busy" /\ ~lastiicc
            /\ UNCHANGED <<t1Vars, lastiicc, countVars, errors, rsp>>
        BY <1>2 DEF SendCmd, Fresh, HostTypeOK
      <3>3. toHost \in Seq(Block) /\ 0 <= Len(cmd') /\ HostTypeOK
        BY <3>2
        DEF HostTypeOK
      <3> QED BY <3>1, <3>2, <3>3, IBlockInv DEF HostTypeOK, t1Vars, countVars
    <2>2. CASE ~ifsreq
      <3>1. SBlock("IFSreq", 254) \in Block /\ SBlock("IFSreq", 254).type = "IFSreq"
        BY SBlockType DEF STypes, RequestTypes
      <3>2. Write(SBlock("IFSreq", 254), toHost) /\ pc' = "ifsd" /\ UNCHANGED sendVars
        BY <1>2, <2>2 DEF SendCmd
      <3>3. /\ block' = SBlock("IFSreq", 254)
            /\ toCard' \in Seq(Block) /\ toHost' \in Seq(Block)
        BY <3>1, <3>2, WriteType DEF HostTypeOK
      <3>4. HostTypeOK'
        BY <1>2, <3>1, <3>2, <3>3
        DEF SendCmd, HostTypeOK, t1Vars, sendVars, countVars
      <3>5. (ResponseFitsBuffer /\ BlockIsWindow /\ Fresh)'
        BY <1>2, <3>2 DEF SendCmd, ResponseFitsBuffer, BlockIsWindow, Fresh,
                          sendVars, HostTypeOK
      <3> QED BY <3>4, <3>5
    <2> QED BY <2>1, <2>2
  <1>3. ASSUME ResetCard \/ ResetFails PROVE HostInv'
    <2>1. /\ ns' \in {0, 1} /\ nr' \in {0, 1} /\ ifsreq' \in BOOLEAN
          /\ ret' \in ErrorCodes \cup {"OK", "busy", "reset"}
          /\ UNCHANGED <<pc, ifsc, apduVars, sendVars, lastiicc, countVars,
                         errors, block, rsp>>
      BY <1>3 DEF ResetCard, ResetFails, ErrorCodes
    <2>2. toCard' \in Seq(Block) /\ toHost' \in Seq(Block)
      BY <1>3, EmptyType DEF ResetCard, ResetFails, HostTypeOK, lineVars
    <2>3. HostTypeOK'
      BY <2>1, <2>2 DEF HostTypeOK, apduVars, sendVars, countVars
    <2>4. (ResponseFitsBuffer /\ BlockIsWindow /\ Fresh)'
      BY <1>3 DEF ResetCard, ResetFails, ResponseFitsBuffer, BlockIsWindow, Fresh,
                  apduVars, sendVars, countVars
    <2> QED BY <2>3, <2>4
  <1>4. ASSUME NEW i \in Nat, ProcessATR(i) PROVE HostInv'
    BY <1>4 DEF ProcessATR, HostTypeOK, ResponseFitsBuffer, BlockIsWindow, Fresh,
                apduVars, sendVars, countVars, lineVars
  <1> QED BY <1>1, <1>2, <1>3, <1>4

LEMMA NothingReadInv ==
  ASSUME HostInv, NothingRead
  PROVE  HostInv'
  <1>1. HostTypeOK /\ toHost \in Seq(Block) /\ nr \in Nat
    BY DEF HostInv, HostTypeOK
  <1>2. CASE IfsdIoError \/ AbortIoError
    BY <1>1, <1>2, FinishInv
    DEF IfsdIoError, AbortIoError, t1Vars, apduVars, HostTypeOK, ErrorCodes
  <1>3. CASE IoError
    <2>1. CASE timeouts + 1 > Retries
      BY <1>1, <1>3, <2>1, FinishInv
      DEF IoError, t1Vars, apduVars, HostTypeOK, ErrorCodes
    <2>2. CASE ~(timeouts + 1 > Retries)
      <3>1. RBlock(nr) \in Block /\ RBlock(nr).type = "R"
        BY <1>1, RBlockType
      <3>2. timeouts + 1 \in 0..Retries
        <4>1. timeouts \in 0..Retries
          BY <1>1 DEF HostTypeOK
        <4> QED BY <4>1, <2>2, CountUp
      <3> QED BY <1>1, <1>3, <2>2, <3>1, <3>2, ReplyInv
              DEF IoError, t1Vars, HostTypeOK, HostInv, ResponseFitsBuffer
    <2> QED BY <2>1, <2>2
  <1> QED BY <1>2, <1>3 DEF NothingRead

(* The answers of scT1ChangeIFSD.                                          *)
LEMMA IfsdInv ==
  ASSUME HostInv, IfsdDone \/ IfsdAgain
  PROVE  HostInv'
  <1>1. HostTypeOK /\ toHost # << >> /\ Unread \in Seq(Block) /\ block \in Block
    BY UnreadType DEF HostInv, HostTypeOK, IfsdDone, IfsdAgain
  <1>2. CASE IfsdDone
    <2>1. /\ MakeIBlock(0, cmd', TRUE, ns, Unread)
          /\ ~lastiicc
          /\ UNCHANGED <<ns, cmd, wantData, apduRsp, nr, ifsc, lastiicc, rsp, ret,
                         timeouts, errcntr, rerrcntr, wtxcntr>>
          /\ pc' = "xfer" /\ ifsreq' = TRUE /\ errors' = 0
      BY <1>2 DEF IfsdDone, HostInv, Fresh, apduVars, countVars
    <2>2. 0 <= Len(cmd') /\ cmd' \in Seq(Byte) /\ ns \in {0, 1}
      BY <1>1, <2>1 DEF HostTypeOK
    <2>3. errors' \in 0..IfsdErrors
      BY <2>1, LimitsAssumption
    <2> QED BY <1>1, <2>1, <2>2, <2>3, IBlockInv DEF HostTypeOK
  <1>3. CASE IfsdAgain
    <2>1. block' = block /\ toCard' \in Seq(Block) /\ toHost' \in Seq(Block)
      BY <1>1, <1>3, WriteType DEF IfsdAgain, HostTypeOK
    <2>2. errors' \in 0..IfsdErrors
      BY <1>1, <1>3, LimitsAssumption DEF IfsdAgain, HostTypeOK
    <2>3. HostTypeOK'
      BY <1>1, <1>3, <2>1, <2>2
      DEF IfsdAgain, HostTypeOK, t1Vars, apduVars, sendVars, countVars
    <2>4. (ResponseFitsBuffer /\ BlockIsWindow /\ Fresh)'
      BY <1>3 DEF IfsdAgain, HostInv, ResponseFitsBuffer, BlockIsWindow, Fresh,
                  t1Vars, apduVars, sendVars, countVars
    <2> QED BY <2>3, <2>4 DEF HostInv
  <1> QED BY <1>2, <1>3

(* What every pass of the loop that has read a block starts from.          *)
LEMMA LoopFacts ==
  ASSUME HostInv, toHost # << >>
  PROVE  /\ HostTypeOK
         /\ Received \in Block /\ Unread \in Seq(Block)
         /\ GetN(Received) \in Nat /\ GetParam(Received) \in Nat
         /\ Flip(ns) \in {0, 1} /\ Flip(nr) \in {0, 1}
         /\ RBlock(nr) \in Block /\ RBlock(nr).type # "I"
         /\ RBlock(Flip(nr)) \in Block /\ RBlock(Flip(nr)).type # "I"
         /\ 0 \in 0..Retries
         /\ Len(rsp) <= MaxRsp
         /\ Received.data \in Seq(Byte)
  <1>1. HostTypeOK /\ ns \in {0, 1} /\ nr \in {0, 1}
    BY DEF HostInv, HostTypeOK
  <1>2. Received \in Block /\ Unread \in Seq(Block)
    BY <1>1, UnreadType DEF HostTypeOK
  <1>3. GetN(Received) \in Nat /\ GetParam(Received) \in Nat
        /\ Received.data \in Seq(Byte)
    BY <1>2 DEF GetN, GetParam, Block
  <1>4. Flip(ns) \in {0, 1} /\ Flip(nr) \in {0, 1} /\ Flip(nr) \in Nat /\ nr \in Nat
    BY <1>1, FlipType
  <1>5. 0 \in 0..Retries
    BY LimitsAssumption
  <1> QED BY <1>1, <1>2, <1>3, <1>4, <1>5, RBlockType DEF HostInv, ResponseFitsBuffer

LEMMA RcErrorInv ==
  ASSUME HostInv, RcError
  PROVE  HostInv'
  <1>1. toHost # << >>
    BY DEF RcError
  <1>2. CASE errcntr + 1 > Retries
    BY <1>1, <1>2, LoopFacts, FinishInv
    DEF RcError, t1Vars, apduVars, HostTypeOK, ErrorCodes
  <1>3. CASE ~(errcntr + 1 > Retries)
    <2>1. errcntr + 1 \in 0..Retries
      <3>1. errcntr \in 0..Retries
        BY <1>1, LoopFacts DEF HostTypeOK
      <3> QED BY <3>1, <1>3, CountUp
    <2> QED BY <1>1, <1>3, <2>1, LoopFacts, ReplyInv
            DEF RcError, t1Vars, HostTypeOK
  <1> QED BY <1>2, <1>3

LEMMA RBlockInv ==
  ASSUME HostInv,
         \/ RBlockTooMany \/ RBlockWhileReceiving \/ RBlockResend
         \/ RBlockNext \/ RBlockUnexpected
  PROVE  HostInv'
  <1>1. toHost # << >> /\ pc = "xfer"
    BY DEF RBlockTooMany, RBlockWhileReceiving, RBlockResend, RBlockNext,
           RBlockUnexpected, Reads
  <1>2. CASE RBlockTooMany \/ RBlockUnexpected
    BY <1>1, <1>2, LoopFacts, FinishInv
    DEF RBlockTooMany, RBlockUnexpected, t1Vars, apduVars, HostTypeOK, ErrorCodes
  <1>3. rerrcntr + 1 <= Retries => rerrcntr + 1 \in 0..Retries
    <2>1. rerrcntr \in 0..Retries
      BY <1>1, LoopFacts DEF HostTypeOK
    <2> QED BY <2>1, LimitsAssumption
  <1>4. CASE RBlockWhileReceiving
    BY <1>1, <1>3, <1>4, LoopFacts, ReplyInv
    DEF RBlockWhileReceiving, GoodBlock, t1Vars, HostTypeOK
  <1>5. sendptr - sendlen \in Nat /\ sendptr - sendlen <= Len(cmd) /\ sendptr <= Len(cmd)
    BY <1>1, LoopFacts DEF HostInv, BlockIsWindow, HostTypeOK
  <1>6. CASE RBlockResend
    <2>1. /\ MakeIBlock(sendptr - sendlen, cmd', more, ns, Unread)
          /\ ~lastiicc /\ cmd' = cmd /\ timeouts' = 0 /\ errcntr' = 0
          /\ rerrcntr' \in 0..Retries
          /\ UNCHANGED <<pc, ns, nr, ifsc, ifsreq, wantData, apduRsp, lastiicc,
                         wtxcntr, errors, rsp, ret>>
      BY <1>3, <1>6 DEF RBlockResend, GoodBlock, t1Vars, apduVars
    <2> QED BY <1>1, <1>5, <2>1, LoopFacts, IBlockInv DEF HostTypeOK
  <1>7. CASE RBlockNext
    <2>1. /\ MakeIBlock(sendptr, cmd', more, Flip(ns), Unread) /\ ns' = Flip(ns)
          /\ ~lastiicc /\ cmd' = cmd /\ timeouts' = 0 /\ errcntr' = 0
          /\ rerrcntr' = 0
          /\ UNCHANGED <<pc, nr, ifsc, ifsreq, wantData, apduRsp, lastiicc,
                         wtxcntr, errors, rsp, ret>>
      BY <1>7 DEF RBlockNext, GoodBlock, apduVars
    <2> QED BY <1>1, <1>5, <2>1, LoopFacts, IBlockInv DEF HostTypeOK
  <1> QED BY <1>2, <1>4, <1>6, <1>7

LEMMA ResponseInv ==
  ASSUME HostInv, \/ IBlockWrongNumber \/ IBlockTooLong \/ IBlockMore \/ IBlockLast
  PROVE  HostInv'
  <1>1. toHost # << >> /\ pc = "xfer"
    BY DEF IBlockWrongNumber, IBlockTooLong, IBlockMore, IBlockLast, IBlockFits, Reads
  <1>2. CASE IBlockWrongNumber
    <2>1. /\ Write(RBlock(nr), Unread) /\ ns' \in {0, 1} /\ lastiicc' = TRUE
          /\ rerrcntr' = 0 /\ timeouts' = 0 /\ errcntr' = 0
          /\ UNCHANGED <<pc, nr, ifsc, ifsreq, apduVars, sendVars, wtxcntr,
                         errors, rsp, ret>>
      BY <1>1, <1>2, LoopFacts DEF IBlockWrongNumber, TurnToCard, GoodBlock, HostTypeOK
    <2> QED BY <1>1, <2>1, LoopFacts, ReplyInv DEF HostTypeOK
  <1>3. CASE IBlockTooLong
    <2>1. /\ Finish("PROTOCOL_ERROR", Unread) /\ ns' \in {0, 1}
          /\ UNCHANGED <<nr, ifsc, ifsreq, apduVars>>
      BY <1>1, <1>3, LoopFacts DEF IBlockTooLong, HostTypeOK
    <2> QED BY <1>1, <2>1, LoopFacts, FinishInv DEF HostTypeOK, apduVars, ErrorCodes
  <1>4. ASSUME IBlockFits
        PROVE  /\ rsp \o Received.data \in Seq(Byte)
               /\ Len(rsp \o Received.data) <= MaxRsp
    <2>1. rsp \in Seq(Byte) /\ Received.data \in Seq(Byte)
      BY <1>1, LoopFacts DEF HostTypeOK
    <2>2. Len(Received.data) <= MaxRsp - Len(rsp)
      BY <1>4 DEF IBlockFits
    <2>3. Len(rsp \o Received.data) = Len(rsp) + Len(Received.data)
      BY <2>1
    <2> QED BY <2>1, <2>2, <2>3, LimitsAssumption
  <1>5. CASE IBlockMore
    <2>1. /\ Write(RBlock(Flip(nr)), Unread) /\ ns' \in {0, 1} /\ lastiicc' = TRUE
          /\ nr' = Flip(nr) /\ rsp' = rsp \o Received.data
          /\ rerrcntr' = 0 /\ timeouts' = 0 /\ errcntr' = 0 /\ IBlockFits
          /\ UNCHANGED <<pc, ifsc, ifsreq, apduVars, sendVars, wtxcntr, errors, ret>>
      BY <1>1, <1>5, LoopFacts DEF IBlockMore, TurnToCard, GoodBlock, HostTypeOK
    <2> QED BY <1>1, <1>4, <2>1, LoopFacts, ReplyInv DEF HostTypeOK
  <1>6. CASE IBlockLast
    <2> DEFINE all == rsp \o Received.data
               len == Len(all)
    <2>1. ns' \in {0, 1} /\ nr' \in {0, 1} /\ UNCHANGED <<ifsc, ifsreq, cmd, wantData>>
      BY <1>1, <1>6, LoopFacts DEF IBlockLast, HostTypeOK
    <2>2. all \in Seq(Byte) /\ len \in Nat
      BY <1>4, <1>6 DEF IBlockLast
    <2>3. CASE len < 2
      BY <1>1, <1>6, <2>1, <2>3, LoopFacts, FinishInv
      DEF IBlockLast, HostTypeOK, ErrorCodes
    <2>4. CASE ~(len < 2)
      <3>1. SubSeq(all, len - 1, len) \in Seq(Byte)
        <4> HIDE DEF all
        <4>1. len - 1 \in Nat /\ len - 1 >= 1 /\ len <= Len(all)
          BY <2>2, <2>4
        <4> QED BY <2>2, <4>1, SubSeqType
      <3>2. Finish("OK", Unread)
            /\ apduRsp' = IF wantData THEN all ELSE SubSeq(all, len - 1, len)
        BY <1>6, <2>4 DEF IBlockLast
      <3>3. apduRsp' \in Seq(Byte)
        <4> HIDE DEF all, len
        <4> QED BY <2>2, <3>1, <3>2
      <3> HIDE DEF all, len
      <3> QED BY <1>1, <2>1, <3>2, <3>3, LoopFacts, FinishInv
    <2> QED BY <2>3, <2>4
  <1> QED BY <1>2, <1>3, <1>5, <1>6

LEMMA SBlockInv ==
  ASSUME HostInv, SIfs \/ SAbort \/ AbortDone \/ SWtx \/ SOther
  PROVE  HostInv'
  <1>1. toHost # << >>
    BY DEF SIfs, SAbort, AbortDone, SWtx, SOther, Reads
  <1>2. \A t \in ResponseTypes : \A n \in Nat :
            SBlock(t, n) \in Block /\ SBlock(t, n).type # "I"
    BY SBlockType DEF STypes
  <1>3. CASE SIfs
    <2>1. SBlock("IFSrsp", GetParam(Received)) \in Block
          /\ SBlock("IFSrsp", GetParam(Received)).type # "I"
      BY <1>1, <1>2, LoopFacts DEF ResponseTypes
    <2> QED BY <1>1, <1>3, <2>1, LoopFacts, ReplyInv
            DEF SIfs, Reads, GoodBlock, HostTypeOK
  <1>4. CASE SAbort
    <2>1. SBlock("ABORTrsp", 0) \in Block /\ SBlock("ABORTrsp", 0).type # "I"
      BY <1>2 DEF ResponseTypes
    <2> QED BY <1>1, <1>4, <2>1, LoopFacts, ReplyInv
            DEF SAbort, Reads, GoodBlock, t1Vars, HostTypeOK
  <1>5. CASE AbortDone
    BY <1>1, <1>5, LoopFacts, FinishInv
    DEF AbortDone, t1Vars, apduVars, HostTypeOK, ErrorCodes
  <1>6. CASE SWtx
    <2>1. SBlock("WTXrsp", GetParam(Received)) \in Block
          /\ SBlock("WTXrsp", GetParam(Received)).type # "I"
      BY <1>1, <1>2, LoopFacts DEF ResponseTypes
    <2>2. wtxcntr + GetParam(Received) \in Nat
      BY <1>1, LoopFacts DEF HostTypeOK
    <2>3. ASSUME Finish("WAIT_ERROR", Unread) \/ Finish("PROTOCOL_ERROR", Unread),
                 UNCHANGED <<t1Vars, apduVars>>
          PROVE  HostInv'
      BY <1>1, <2>3, LoopFacts, FinishInv DEF t1Vars, apduVars, HostTypeOK, ErrorCodes
    <2>4. ASSUME pc = "xfer", wtxcntr' = wtxcntr + GetParam(Received), rerrcntr' = 0,
                 GoodBlock, Write(SBlock("WTXrsp", GetParam(Received)), Unread),
                 UNCHANGED <<pc, t1Vars, apduVars, sendVars, lastiicc, errors, rsp, ret>>
          PROVE  HostInv'
      BY <1>1, <2>1, <2>2, <2>4, LoopFacts, ReplyInv
      DEF GoodBlock, t1Vars, HostTypeOK
    <2> QED BY <1>6, <2>3, <2>4 DEF SWtx, Reads
  <1>7. CASE SOther
    <2>1. /\ Write(block, Unread) /\ block \in Block
          /\ UNCHANGED <<pc, ns, nr, ifsc, ifsreq, apduVars, sendVars, lastiicc,
                         wtxcntr, errors, rsp, ret>>
          /\ pc = "xfer" /\ rerrcntr' = 0 /\ timeouts' = 0 /\ errcntr' = 0
      BY <1>1, <1>7, LoopFacts DEF SOther, Reads, GoodBlock, t1Vars, HostTypeOK
    <2> QED BY <1>1, <2>1, LoopFacts, ReplyInv DEF HostTypeOK
  <1> QED BY <1>3, <1>4, <1>5, <1>6, <1>7

-------------------------------------------------------------------------------
(* The card and the line keep their types, and leave the reader alone.     *)

LineType == toCard \in Seq(Block) /\ toHost \in Seq(Block)

LEMMA AppendType ==
  ASSUME NEW S, NEW s \in Seq(S), NEW e \in S
  PROVE  Append(s, e) \in Seq(S)
  OBVIOUS

LEMMA CommandType ==
  ASSUME NEW n \in 1..Len(CmdLens)
  PROVE  Command(n) \in Seq(Byte) /\ Command(n)[1][1] = n
  <1>1. CmdLens \in Seq(Nat \ {0}) /\ n \in DOMAIN CmdLens
    BY CardAssumption
  <1>2. CmdLens[n] \in Nat \ {0}
    BY <1>1
  <1>3. Command(n)[1] = <<n, 1>>
    BY <1>2 DEF Command
  <1> QED BY <1>1, <1>3, ByteAssumption

LEMMA ResponseType ==
  ASSUME NEW bytes, NEW len \in RspLens
  PROVE  Response(bytes, len) \in Seq(Byte)
  <1>1. Answered(bytes) \in 0..Len(CmdLens)
    <2>1. CmdLens \in Seq(Nat \ {0})
      BY CardAssumption
    <2>2. CASE bytes \in Wholes
      <3>1. PICK n \in DOMAIN CmdLens : bytes = Command(n)
        BY <2>2 DEF Wholes
      <3>2. n \in 1..Len(CmdLens)
        BY <2>1
      <3> QED BY <2>1, <2>2, <3>1, <3>2, CommandType DEF Answered
    <2>3. CASE bytes \notin Wholes
      BY <2>1, <2>3 DEF Answered
    <2> QED BY <2>2, <2>3
  <1> QED BY <1>1, ByteAssumption DEF Response

LEMMA OutgoingType ==
  ASSUME NEW n \in {0, 1}, NEW bytes \in Seq(Byte)
  PROVE  /\ Outgoing(n, bytes) \in Block
         /\ OtherPart(bytes) \in Seq(Byte)
  <1>1. CardBlock \in Nat \ {0} /\ Len(bytes) \in Nat
    BY CardAssumption
  <1>2. FirstPart(bytes) \in Seq(Byte)
    <2> DEFINE k == IF Len(bytes) < CardBlock THEN Len(bytes) ELSE CardBlock
    <2>1. k \in Nat /\ k <= Len(bytes) /\ FirstPart(bytes) = SubSeq(bytes, 1, k)
      BY <1>1 DEF FirstPart
    <2> HIDE DEF k
    <2> QED BY <2>1, SubSeqType
  <1>3. Outgoing(n, bytes) \in Block
    <2> DEFINE m == Len(bytes) > CardBlock
    <2>1. m \in BOOLEAN /\ Outgoing(n, bytes) = IBlock(n, m, FirstPart(bytes))
      BY DEF Outgoing
    <2> HIDE DEF m
    <2> QED BY <1>2, <2>1, IBlockType
  <1>4. OtherPart(bytes) \in Seq(Byte)
    <2>1. CardBlock + 1 \in Nat /\ CardBlock + 1 >= 1 /\ Len(bytes) <= Len(bytes)
      BY <1>1
    <2> QED BY <1>1, <2>1, SubSeqType DEF OtherPart
  <1> QED BY <1>3, <1>4

LEMMA AnswerOrAskType ==
  ASSUME CardTypeOK, LineType, NEW due \in Block, NEW acc \in BOOLEAN,
         AnswerOrAsk(due, acc)
  PROVE  /\ request' \in Block /\ held' \in Block /\ cifsc' \in Nat
         /\ requests' \in 0..MaxRequests /\ toHost' \in Seq(Block)
  <1>1. ASSUME NEW s \in Block, Ask(s, due)
        PROVE  /\ request' \in Block /\ held' \in Block /\ cifsc' \in Nat
               /\ requests' \in 0..MaxRequests /\ toHost' \in Seq(Block)
    <2>1. s.n \in Nat
      BY DEF Block
    <2>2. requests' \in 0..MaxRequests
      BY <1>1, CardAssumption DEF Ask, CardTypeOK
    <2> QED BY <1>1, <2>1, <2>2, AppendType DEF Ask, CardTypeOK, LineType
  <1>2. CASE Answer(due)
    BY <1>2, GarbledType, AppendType DEF Answer, None, CardTypeOK, LineType
  <1>3. ASSUME NEW w \in WtxFactors, Ask(SBlock("WTXreq", w), due)
        PROVE  \E s \in Block : Ask(s, due)
    BY <1>3, CardAssumption, SBlockType DEF STypes, RequestTypes
  <1>4. ASSUME NEW k \in IfscValues, Ask(SBlock("IFSreq", k), due)
        PROVE  \E s \in Block : Ask(s, due)
    BY <1>4, CardAssumption, SBlockType DEF STypes, RequestTypes
  <1>5. ASSUME Ask(SBlock("ABORTreq", 0), due)
        PROVE  \E s \in Block : Ask(s, due)
    BY <1>5, SBlockType DEF STypes, RequestTypes
  <1> QED BY <1>1, <1>2, <1>3, <1>4, <1>5 DEF AnswerOrAsk

LEMMA CardInv ==
  ASSUME CardTypeOK, LineType, CardStep
  PROVE  CardTypeOK' /\ LineType'
  <1> USE DEF CardTypeOK, LineType
  <1>1. ASSUME toCard # << >>
        PROVE  /\ Incoming \in Block /\ Tail(toCard) \in Seq(Block)
               /\ Incoming.n \in Nat /\ Incoming.data \in Seq(Byte)
    <2>1. Head(toCard) \in Block /\ Tail(toCard) \in Seq(Block)
      BY <1>1
    <2>2. Incoming \in Block
      BY <2>1 DEF Incoming
    <2> QED BY <2>1, <2>2 DEF Block
  <1>2. /\ RBlock(cnr) \in Block /\ RBlock(Flip(cnr)) \in Block
        /\ Flip(cnr) \in {0, 1} /\ Flip(cns) \in {0, 1}
        /\ None \in Block /\ << >> \in Seq(Byte)
    <2>1. Flip(cnr) \in {0, 1} /\ Flip(cns) \in {0, 1}
      BY FlipType
    <2>2. cnr \in Nat /\ Flip(cnr) \in Nat
      BY <2>1
    <2> QED BY <2>1, <2>2, RBlockType, GarbledType, EmptyType DEF None
  <1>3. CASE CardGarbled \/ CardRepeatsRequest \/ CardOddResponse
    <2>1. toCard # << >> /\ toCard' = Tail(toCard)
          /\ UNCHANGED <<cardVars, faults, executed>>
      BY <1>3 DEF CardGarbled, CardRepeatsRequest, CardOddResponse, Takes
    <2>2. \E b \in {request, RBlock(cnr)} : toHost' = Append(toHost, b)
      BY <1>3 DEF CardGarbled, CardRepeatsRequest, CardOddResponse
    <2>3. toHost' \in Seq(Block)
      BY <1>2, <2>2, AppendType
    <2> QED BY <1>1, <2>1, <2>3 DEF cardVars
  <1>4. CASE CardResponse
    <2>1. toCard # << >> /\ toCard' = Tail(toCard)
          /\ UNCHANGED <<cns, cnr, cmdIn, out, restOut, faults, executed>>
      BY <1>4 DEF CardResponse, Takes
    <2>2. CASE AnswerOrAsk(held, FALSE)
      BY <1>1, <2>1, <2>2, AnswerOrAskType
    <2>3. CASE toHost' = Append(toHost, request)
               /\ UNCHANGED <<request, held, cifsc, requests>>
      BY <1>1, <2>1, <2>3, AppendType
    <2> QED BY <1>4, <2>2, <2>3 DEF CardResponse
  <1>5. CASE CardIfs
    <2>1. SBlock("IFSrsp", Incoming.n) \in Block /\ toCard # << >>
      BY <1>1, <1>5, SBlockType DEF STypes, ResponseTypes, CardIfs, Takes
    <2> QED BY <1>1, <1>2, <1>5, <2>1, AppendType DEF CardIfs, Takes, Answer
  <1>6. CASE CardWrongIBlock
    BY <1>1, <1>2, <1>6, AnswerOrAskType DEF CardWrongIBlock, Takes
  <1>7. CASE CardIBlockMore
    <2>1. cmdIn \o Incoming.data \in Seq(Byte) /\ toCard # << >>
      BY <1>1, <1>7 DEF CardIBlockMore, AcceptsIBlock, Takes
    <2> QED BY <1>1, <1>2, <1>7, <2>1, AnswerOrAskType
            DEF CardIBlockMore, AcceptsIBlock, Takes
  <1>8. CASE CardIBlockLast
    <2> DEFINE whole == cmdIn \o Incoming.data
               n == IF out # None THEN Flip(cns) ELSE cns
    <2>1. /\ toCard # << >> /\ toCard' = Tail(toCard) /\ cnr' = Flip(cnr)
          /\ cmdIn' = << >> /\ executed' = Append(executed, whole)
          /\ cns' = n /\ faults' = faults
      BY <1>8 DEF CardIBlockLast, AcceptsIBlock, Takes
    <2>2. PICK len \in RspLens :
             /\ out' = Outgoing(n, Response(whole, len))
             /\ restOut' = OtherPart(Response(whole, len))
             /\ AnswerOrAsk(Outgoing(n, Response(whole, len)), TRUE)
      BY <1>8 DEF CardIBlockLast
    <2>3. whole \in Seq(Byte) /\ n \in {0, 1}
      BY <1>1, <1>2, <2>1
    <2> HIDE DEF whole, n
    <2>4. /\ Outgoing(n, Response(whole, len)) \in Block
          /\ OtherPart(Response(whole, len)) \in Seq(Byte)
      BY <2>3, ResponseType, OutgoingType
    <2>5. Append(executed, whole) \in Seq(Seq(Byte))
      BY <2>3, AppendType
    <2>6. /\ request' \in Block /\ held' \in Block /\ cifsc' \in Nat
          /\ requests' \in 0..MaxRequests /\ toHost' \in Seq(Block)
      BY <2>2, <2>4, AnswerOrAskType
    <2> QED BY <1>1, <1>2, <2>1, <2>2, <2>3, <2>4, <2>5, <2>6
  <1>9. CASE CardRepeats
    BY <1>1, <1>9, AnswerOrAskType DEF CardRepeats, TakesRBlock, Takes
  <1>10. CASE CardContinues
    <2>1. /\ Outgoing(Flip(cns), restOut) \in Block
          /\ OtherPart(restOut) \in Seq(Byte)
      BY <1>2, OutgoingType
    <2> QED BY <1>1, <1>2, <1>10, <2>1, AnswerOrAskType
            DEF CardContinues, TakesRBlock, Takes
  <1>11. CASE CardAwaits
    BY <1>1, <1>2, <1>11, AnswerOrAskType DEF CardAwaits, TakesRBlock, Takes
  <1> QED BY <1>3, <1>4, <1>5, <1>6, <1>7, <1>8, <1>9, <1>10, <1>11, CardStep
          DEF CardStep

LEMMA LineFaultInv ==
  ASSUME CardTypeOK, LineType, LineFault
  PROVE  CardTypeOK' /\ LineType'
  <1>1. faults' \in 0..MaxFaults /\ UNCHANGED <<cardVars, executed>>
    BY CardAssumption
    DEF LineFault, GarbleToCard, GarbleToHost, LoseToCard, LoseToHost, Fault, CardTypeOK
  <1>2. CardTypeOK'
    BY <1>1 DEF CardTypeOK, cardVars
  <1>3. ASSUME NEW s \in Seq(Block), s # << >>
        PROVE  <<Garbled>> \o Tail(s) \in Seq(Block) /\ Tail(s) \in Seq(Block)
    BY <1>3, GarbledType
  <1>4. LineType'
    BY <1>3
    DEF LineFault, GarbleToCard, GarbleToHost, LoseToCard, LoseToHost, LineType
  <1> QED BY <1>2, <1>4

-------------------------------------------------------------------------------
(* The session keeps the invariant.                                        *)

LEMMA InitInv == Init => IInv
  <1> SUFFICES ASSUME Init PROVE IInv
    OBVIOUS
  <1>1. HostTypeOK
    <2>1. /\ timeouts \in 0..Retries /\ errcntr \in 0..Retries
          /\ rerrcntr \in 0..Retries /\ errors \in 0..IfsdErrors /\ ifsc \in Nat
      BY LimitsAssumption DEF Init, T1Init
    <2>2. block \in Block
      BY GarbledType DEF Init, T1Init
    <2> QED BY <2>1, <2>2, EmptyType DEF Init, T1Init, HostTypeOK
  <1>2. ResponseFitsBuffer /\ BlockIsWindow /\ Fresh
    BY LimitsAssumption DEF Init, T1Init, ResponseFitsBuffer, BlockIsWindow, Fresh
  <1>3. CardTypeOK
    BY CardAssumption, SessionAssumption, EmptyType, GarbledType
    DEF Init, CardInit, CardTypeOK, None
  <1>4. serial \in 0..Len(CmdLens) /\ lates \in 0..MaxLate
    BY CardAssumption, SessionAssumption DEF Init
  <1> QED BY <1>1, <1>2, <1>3, <1>4 DEF Init, IInv, HostInv, TypeOK

LEMMA StepInv == IInv /\ [Next]_vars => IInv'
  <1> SUFFICES ASSUME IInv, [Next]_vars PROVE IInv'
    OBVIOUS
  <1> USE DEF IInv, TypeOK
  <1>1. HostInv /\ CardTypeOK /\ LineType
    BY DEF HostInv, HostTypeOK, LineType
  <1>2. ASSUME HostInv', UNCHANGED <<cardVars, faults, executed>>
        PROVE  HostInv' /\ HostTypeOK' /\ CardTypeOK'
    BY <1>2 DEF HostInv, CardTypeOK, cardVars
  <1>3. CASE AppSend
    <2>1. serial' \in 1..Len(CmdLens) /\ Command(serial + 1) \in Seq(Byte)
      BY <1>3, CardAssumption, CommandType DEF AppSend
    <2>2. HostInv'
      BY <1>1, <1>3, <2>1, CallsInv DEF AppSend
    <2> QED BY <1>2, <1>3, <2>1, <2>2 DEF AppSend
  <1>4. CASE AppRefused
    BY <1>1, <1>2, <1>4, CallsInv DEF AppRefused, sessionVars
  <1>5. CASE AppReset
    <2>1. HostInv'
      BY <1>1, <1>5, CallsInv DEF AppReset
    <2>2. CardTypeOK'
      BY <1>1, <1>5, CardAssumption, SessionAssumption, EmptyType, GarbledType
      DEF AppReset, CardReset, CardTypeOK, None
    <2> QED BY <1>5, <2>1, <2>2 DEF AppReset, HostInv
  <1>6. CASE AppResetFails
    BY <1>1, <1>2, <1>6, CallsInv DEF AppResetFails
  <1>7. CASE AppIdentify
    <2>1. atrIfsc \in Nat
      BY SessionAssumption
    <2> QED BY <1>1, <1>2, <1>7, <2>1, CallsInv DEF AppIdentify
  <1>8. CASE HostReceives
    <2>1. HostInv'
      BY <1>1, <1>8, IfsdInv, RcErrorInv, RBlockInv, ResponseInv, SBlockInv
      DEF HostReceives, ReceiveOne
    <2>2. clean' \in BOOLEAN
      BY <1>8 DEF HostReceives, NoteFailure
    <2> QED BY <1>2, <1>8, <2>1, <2>2 DEF HostReceives
  <1>9. CASE HostTimeout
    <2>1. HostInv'
      BY <1>1, <1>9, NothingReadInv DEF HostTimeout
    <2>2. clean' \in BOOLEAN
      BY <1>9 DEF HostTimeout, NoteFailure
    <2>3. lates' \in 0..MaxLate
      BY <1>9, SessionAssumption DEF HostTimeout
    <2> QED BY <1>2, <1>9, <2>1, <2>2, <2>3 DEF HostTimeout
  <1>10. ASSUME CardTypeOK', LineType', UNCHANGED hostVars
         PROVE  HostInv'
    BY <1>1, <1>10 DEF HostInv, HostTypeOK, LineType, ResponseFitsBuffer,
                       BlockIsWindow, Fresh, hostVars
  <1>11. CASE CardMoves
    BY <1>1, <1>10, <1>11, CardInv DEF CardMoves, sessionVars, HostInv
  <1>12. CASE LineFails
    BY <1>1, <1>10, <1>12, LineFaultInv DEF LineFails, sessionVars, HostInv
  <1>13. CASE UNCHANGED vars
    BY <1>13 DEF vars, hostVars, cardVars, lineVars, HostInv, HostTypeOK, CardTypeOK,
                 ResponseFitsBuffer, BlockIsWindow, Fresh
  <1> QED BY <1>3, <1>4, <1>5, <1>6, <1>7, <1>8, <1>9, <1>11, <1>12, <1>13 DEF Next

THEOREM Invariance == Spec => []IInv
  BY InitInv, StepInv, PTL DEF Spec

(* Every variable of the session keeps its type; in particular the three   *)
(* error counters of the loop never pass the limit at which it gives up.   *)
THEOREM TypesHold == Spec => []TypeOK
  BY Invariance, PTL DEF IInv

(* scT1SendCmd never collects more bytes than its buffer has room for.     *)
THEOREM BufferHolds == Spec => []ResponseFitsBuffer
  <1>1. IInv => ResponseFitsBuffer
    BY DEF IInv, HostInv
  <1> QED BY <1>1, Invariance, PTL

(* The I-block that waits for its answer is the current stretch of the     *)
(* command, repeated as often as it may be.                                *)
THEOREM WindowHolds == Spec => []BlockIsWindow
  <1>1. IInv => BlockIsWindow
    BY DEF IInv, HostInv
  <1> QED BY <1>1, Invariance, PTL

-------------------------------------------------------------------------------
(***************************************************************************)
(* What may be on the line in one direction.  A block that was late stays  *)
(* there while newer ones are written, and may be discarded or read in     *)
(* their order, so all that can be said is which blocks are not there and  *)
(* which come before which.                                                *)
(***************************************************************************)
Avoids(q, A) == \A i \in DOMAIN q : q[i] \notin A
Precede(q, A, B) == \A i, j \in DOMAIN q : i < j /\ q[i] \in B => q[j] \notin A

(* p says no less than q, Garbled apart: reading, discarding, losing and   *)
(* garbling make a line thinner.                                           *)
Thinner(p, q) ==
    /\ \A A : Garbled \notin A /\ Avoids(q, A) => Avoids(p, A)
    /\ \A A, B : Garbled \notin A \cup B /\ Precede(q, A, B) => Precede(p, A, B)

(* What is left of a line when its first blocks are gone.                  *)
LEMMA SuffixThinner ==
  ASSUME NEW S, NEW q \in Seq(S), NEW k \in 0..Len(q)
  PROVE  /\ SubSeq(q, k + 1, Len(q)) \in Seq(S)
         /\ Thinner(SubSeq(q, k + 1, Len(q)), q)
  <1> DEFINE p == SubSeq(q, k + 1, Len(q))
  <1>1. p \in Seq(S)
    <2>1. k + 1 \in Nat /\ k + 1 >= 1 /\ Len(q) \in Nat
      OBVIOUS
    <2> QED BY <2>1, SubSeqType
  <1>2. \A i \in DOMAIN p : i + k \in DOMAIN q /\ p[i] = q[i + k] /\ i \in Nat
    OBVIOUS
  <1>3. k \in Nat
    OBVIOUS
  <1> HIDE DEF p
  <1>4. ASSUME NEW A, Avoids(q, A) PROVE Avoids(p, A)
    BY <1>2, <1>4 DEF Avoids
  <1>5. ASSUME NEW A, NEW B, Precede(q, A, B) PROVE Precede(p, A, B)
    <2> SUFFICES ASSUME NEW i \in DOMAIN p, NEW j \in DOMAIN p, i < j, p[i] \in B
                 PROVE  p[j] \notin A
      BY DEF Precede
    <2>1. i + k < j + k /\ q[i + k] \in B
      BY <1>2, <1>3
    <2> QED BY <1>2, <1>5, <2>1 DEF Precede
  <1>6. Thinner(p, q)
    BY <1>4, <1>5 DEF Thinner
  <1> QED BY <1>1, <1>6 DEF p

(* The same when one block was read.                                       *)
LEMMA TailThinner ==
  ASSUME NEW S, NEW q \in Seq(S), q # << >>
  PROVE  Tail(q) \in Seq(S) /\ Thinner(Tail(q), q)
  <1>1. Tail(q) = SubSeq(q, 1 + 1, Len(q)) /\ 1 \in 0..Len(q)
    OBVIOUS
  <1> QED BY <1>1, SuffixThinner

(* The line spoils the first block.                                        *)
LEMMA GarbledThinner ==
  ASSUME NEW S, NEW q \in Seq(S), q # << >>, Garbled \in S
  PROVE  /\ <<Garbled>> \o Tail(q) \in Seq(S)
         /\ Thinner(<<Garbled>> \o Tail(q), q)
  <1> DEFINE p == <<Garbled>> \o Tail(q)
  <1>1. p \in Seq(S)
    OBVIOUS
  <1>2. DOMAIN p = DOMAIN q /\ \A i \in DOMAIN p : p[i] = Garbled \/ p[i] = q[i]
    OBVIOUS
  <1> HIDE DEF p
  <1>3. Thinner(p, q)
    BY <1>2 DEF Thinner, Avoids, Precede
  <1> QED BY <1>1, <1>3 DEF p

LEMMA ThinnerTrans ==
  ASSUME NEW p, NEW q, NEW r, Thinner(p, q), Thinner(q, r)
  PROVE  Thinner(p, r)
  BY DEF Thinner

(* What is written at the end of a line is what it says of the line.       *)
LEMMA AppendAvoids ==
  ASSUME NEW S, NEW q \in Seq(S), NEW e \in S, NEW A, Avoids(q, A), e \notin A
  PROVE  Avoids(Append(q, e), A)
  <1>1. \A i \in DOMAIN Append(q, e) : Append(q, e)[i] = e \/ (i \in DOMAIN q /\ Append(q, e)[i] = q[i])
    OBVIOUS
  <1> QED BY <1>1 DEF Avoids

LEMMA AppendPrecede ==
  ASSUME NEW S, NEW q \in Seq(S), NEW e \in S, NEW A, NEW B, Precede(q, A, B),
         e \notin A \/ Avoids(q, B)
  PROVE  Precede(Append(q, e), A, B)
  <1>1. \A i, j \in DOMAIN Append(q, e) : i < j =>
           /\ i \in DOMAIN q /\ Append(q, e)[i] = q[i]
           /\ Append(q, e)[j] = e \/ (j \in DOMAIN q /\ Append(q, e)[j] = q[j])
    OBVIOUS
  <1> QED BY <1>1 DEF Precede, Avoids

(* When the first block is of B, none of A is behind it.                   *)
LEMMA HeadPrecedes ==
  ASSUME NEW S, NEW q \in Seq(S), q # << >>, NEW A, NEW B, Precede(q, A, B),
         Head(q) \in B
  PROVE  Avoids(Tail(q), A)
  <1>1. \A i \in DOMAIN Tail(q) : i + 1 \in DOMAIN q /\ Tail(q)[i] = q[i + 1] /\ 1 < i + 1
    OBVIOUS
  <1>2. 1 \in DOMAIN q /\ q[1] = Head(q)
    OBVIOUS
  <1> QED BY <1>1, <1>2 DEF Precede, Avoids

(* What is not there comes neither before nor after anything.              *)
LEMMA AvoidsPrecede ==
  ASSUME NEW q, NEW A, NEW B, Avoids(q, A) \/ Avoids(q, B)
  PROVE  Precede(q, A, B)
  BY DEF Avoids, Precede

LEMMA EmptyLine ==
  \A A, B : Avoids(<< >>, A) /\ Precede(<< >>, A, B)
  BY DEF Avoids, Precede

(* A block that was read was there.                                        *)
LEMMA HeadAvoided ==
  ASSUME NEW S, NEW q \in Seq(S), q # << >>, NEW A, Avoids(q, A)
  PROVE  Head(q) \notin A
  <1>1. 1 \in DOMAIN q /\ q[1] = Head(q)
    OBVIOUS
  <1> QED BY <1>1 DEF Avoids

-------------------------------------------------------------------------------
(* The kinds of blocks.                                                    *)
Info(n) == {b \in Block : b.type = "I" /\ b.n = n}
IfsRequests == {b \in Block : b.type = "IFSreq"}

(* Blocks with numbers that are one bit.                                   *)
Numbered == {b \in Block : /\ b.type = "I" => b.n \in {0, 1}
                           /\ b.type = "R" => b \in {RBlock(0), RBlock(1)}}

(* S-blocks, and what the line garbled: nobody cares where they are.       *)
Others == {b \in Block : b.type \notin {"I", "R"}}

(* Flip is the other bit.                                                  *)
LEMMA FlipFacts ==
  ASSUME NEW n \in {0, 1}
  PROVE  Flip(n) \in {0, 1} /\ Flip(n) # n /\ Flip(Flip(n)) = n
         /\ \A m \in {0, 1} : m = n \/ m = Flip(n)
  BY DEF Flip

(* The kinds of blocks are apart.                                          *)
LEMMA KindFacts ==
  /\ \A n \in {0, 1} : /\ RBlock(n) \in Numbered /\ RBlock(n) \notin IfsRequests
                       /\ RBlock(n) # RBlock(Flip(n)) /\ RBlock(n) # Garbled
                       /\ RBlock(n).n = n /\ RBlock(n).type = "R"
                       /\ Garbled \notin Info(n)
                       /\ Info(n) \subseteq Numbered
  /\ \A n, m : RBlock(n) \notin Info(m)
  /\ \A n \in {0, 1} : \A b \in Info(n) : /\ b \notin Info(Flip(n)) /\ b \notin IfsRequests
                                          /\ \A m : b # RBlock(m)
  /\ \A b \in Others : /\ b \in Numbered
                       /\ \A n \in {0, 1} : b \notin Info(n) /\ b # RBlock(n)
  /\ IfsRequests \subseteq Others
  /\ Garbled \in Others /\ Garbled \notin IfsRequests
  /\ Numbered \subseteq Block
  <1>1. \A n : RBlock(n).n = n /\ RBlock(n).type = "R"
    BY DEF RBlock
  <1>2. \A n \in {0, 1} : RBlock(n) \in Block /\ n \in Nat
    BY RBlockType
  <1>3. Garbled \in Block /\ Garbled.type = "bad"
    BY GarbledType
  <1>4. \A n \in {0, 1} : RBlock(n) \in Numbered /\ RBlock(n) \notin IfsRequests
    BY <1>1, <1>2 DEF Numbered, IfsRequests
  <1>5. \A n \in {0, 1} : RBlock(n) # RBlock(Flip(n)) /\ RBlock(n) # Garbled
                       /\ Garbled \notin Info(n)
    BY <1>1, <1>2, <1>3, FlipFacts DEF Info
  <1>6. \A n \in {0, 1} : Info(n) \subseteq Numbered
    BY DEF Numbered, Info
  <1>7. \A n, m : RBlock(n) \notin Info(m)
    BY <1>1 DEF Info
  <1>8. \A n \in {0, 1} : \A b \in Info(n) : /\ b \notin Info(Flip(n)) /\ b \notin IfsRequests
                                          /\ \A m : b # RBlock(m)
    BY <1>1, FlipFacts DEF Info, IfsRequests
  <1>9. \A b \in Others : /\ b \in Numbered
                       /\ \A n \in {0, 1} : b \notin Info(n) /\ b # RBlock(n)
    BY <1>1 DEF Others, Info, Numbered
  <1>10. IfsRequests \subseteq Others /\ Garbled \in Others /\ Garbled \notin IfsRequests
         /\ Numbered \subseteq Block
    BY <1>3 DEF IfsRequests, Others, Numbered
  <1> QED BY <1>1, <1>4, <1>5, <1>6, <1>7, <1>8, <1>9, <1>10

-------------------------------------------------------------------------------
(***************************************************************************)
(* The blocks on their way to a card that expects N(S) = exp and whose     *)
(* next or unacknowledged I-block has the number sn; the reader expects r. *)
(* An I-block with the number the card expects can only be pend, and       *)
(* nothing older comes after it; no R-block for the number before comes    *)
(* after one for this, or after that I-block.                              *)
(***************************************************************************)
ToCardLine(q, exp, r, sn, pend) ==
    /\ q \in Seq(Numbered)
    /\ Precede(q, Info(Flip(exp)), Info(exp))
    /\ Avoids(q, Info(exp) \ {pend})
    /\ Precede(q, {RBlock(Flip(r))}, {RBlock(r)} \cup Info(exp))
    /\ sn = r => Avoids(q, {RBlock(Flip(r))})

(***************************************************************************)
(* The blocks on their way to the reader, whose last I-block had the       *)
(* number cu.  Later are the blocks the card sends when it has taken that  *)
(* block: none of them is there before, no request to repeat the block     *)
(* comes after one of them, and S(IFS request) comes before the others.    *)
(* An I-block with the number the reader expects can only be live.         *)
(***************************************************************************)
Later(cu, r) == {RBlock(Flip(cu))} \cup Info(r)

ToHostLine(q, cu, exp, r, sn, live) ==
    /\ q \in Seq(Numbered)
    /\ exp = cu => Avoids(q, Later(cu, r) \cup IfsRequests)
    /\ Precede(q, {RBlock(cu)}, Later(cu, r) \cup IfsRequests)
    /\ Precede(q, IfsRequests, Later(cu, r))
    /\ Precede(q, Info(Flip(r)), Info(r))
    /\ Avoids(q, Info(r) \ {live})
    /\ sn # r => Avoids(q, IfsRequests)

(* A thinner line is as good.                                              *)
LEMMA ToCardThin ==
  ASSUME NEW exp \in {0, 1}, NEW r \in {0, 1}, NEW sn, NEW pend, NEW q,
         ToCardLine(q, exp, r, sn, pend), NEW p \in Seq(Numbered), Thinner(p, q)
  PROVE  ToCardLine(p, exp, r, sn, pend)
  <1>1. /\ Garbled \notin Info(exp) /\ Garbled \notin Info(Flip(exp))
        /\ Garbled # RBlock(r) /\ Garbled # RBlock(Flip(r))
    BY KindFacts, FlipFacts
  <1> QED BY <1>1 DEF ToCardLine, Thinner

LEMMA ToHostThin ==
  ASSUME NEW cu \in {0, 1}, NEW exp, NEW r \in {0, 1}, NEW sn, NEW live, NEW q,
         ToHostLine(q, cu, exp, r, sn, live), NEW p \in Seq(Numbered), Thinner(p, q)
  PROVE  ToHostLine(p, cu, exp, r, sn, live)
  <1>1. /\ Garbled \notin Info(r) /\ Garbled \notin Info(Flip(r))
        /\ Garbled # RBlock(cu) /\ Garbled # RBlock(Flip(cu))
        /\ Garbled \notin IfsRequests
    BY KindFacts, FlipFacts
  <1>2. Garbled \notin Later(cu, r)
    BY <1>1 DEF Later
  <1> QED BY <1>1, <1>2 DEF ToHostLine, Thinner

(* The reader writes an R-block, an S-block, or an I-block.                *)
LEMMA ToCardAppend ==
  ASSUME NEW exp \in {0, 1}, NEW r \in {0, 1}, NEW sn, NEW pend, NEW q,
         ToCardLine(q, exp, r, sn, pend),
         NEW b, \/ b = RBlock(r) \/ b \in Others
                \/ b \in Info(exp) /\ b = pend
                \/ b \in Info(Flip(exp)) /\ pend = None
  PROVE  ToCardLine(Append(q, b), exp, r, sn, pend)
  <1> DEFINE Q == Append(q, b)
  <1>1. q \in Seq(Numbered) /\ b \in Numbered /\ Q \in Seq(Numbered)
    BY KindFacts, FlipFacts DEF ToCardLine
  <1>2. b # RBlock(Flip(r)) /\ b \notin Info(exp) \ {pend}
    BY KindFacts, FlipFacts
  <1>3. b \notin Info(Flip(exp)) \/ Avoids(q, Info(exp))
    <2>1. CASE pend = None
      <3>1. Info(exp) \ {pend} = Info(exp)
        BY <2>1, KindFacts DEF None
      <3> QED BY <3>1 DEF ToCardLine
    <2>2. CASE pend # None
      BY <2>2, KindFacts, FlipFacts
    <2> QED BY <2>1, <2>2
  <1>4. Precede(Q, Info(Flip(exp)), Info(exp))
    BY <1>1, <1>3, AppendPrecede DEF ToCardLine
  <1>5. Avoids(Q, Info(exp) \ {pend})
    BY <1>1, <1>2, AppendAvoids DEF ToCardLine
  <1>6. Precede(Q, {RBlock(Flip(r))}, {RBlock(r)} \cup Info(exp))
    BY <1>1, <1>2, AppendPrecede DEF ToCardLine
  <1>7. sn = r => Avoids(Q, {RBlock(Flip(r))})
    BY <1>1, <1>2, AppendAvoids DEF ToCardLine
  <1> HIDE DEF Q
  <1>8. ToCardLine(Q, exp, r, sn, pend)
    BY <1>1, <1>4, <1>5, <1>6, <1>7 DEF ToCardLine
  <1> QED BY <1>8 DEF Q

(* The reader begins with an I-block that is not yet on the line.          *)
LEMMA ToCardPend ==
  ASSUME NEW exp \in {0, 1}, NEW r, NEW sn, NEW pend, NEW q,
         ToCardLine(q, exp, r, sn, None)
  PROVE  ToCardLine(q, exp, r, sn, pend)
  BY DEF ToCardLine, Avoids, None, Info, Garbled

(* The card takes the I-block it expects; what is unread of its own I-     *)
(* blocks is old.                                                          *)
LEMMA ToCardAccept ==
  ASSUME NEW exp \in {0, 1}, NEW r \in {0, 1}, NEW sn, NEW pend, NEW q,
         ToCardLine(q, exp, r, sn, pend), q # << >>, Head(q) \in Info(exp)
  PROVE  ToCardLine(Tail(q), Flip(exp), r, r, None)
  <1> DEFINE p == Tail(q)
  <1>1. q \in Seq(Numbered) /\ p \in Seq(Numbered)
    BY TailThinner DEF ToCardLine
  <1>2. Avoids(p, Info(Flip(exp))) /\ Avoids(p, {RBlock(Flip(r))})
    BY <1>1, HeadPrecedes DEF ToCardLine
  <1> HIDE DEF p
  <1>3. Avoids(p, Info(Flip(exp)) \ {None})
    BY <1>2 DEF Avoids
  <1>4. Precede(p, Info(Flip(Flip(exp))), Info(Flip(exp)))
        /\ Precede(p, {RBlock(Flip(r))}, {RBlock(r)} \cup Info(Flip(exp)))
    BY <1>2, AvoidsPrecede
  <1>5. ToCardLine(p, Flip(exp), r, r, None)
    BY <1>1, <1>2, <1>3, <1>4 DEF ToCardLine
  <1> QED BY <1>5 DEF p

(* The card reads that its last I-block has arrived.                       *)
LEMMA ToCardAck ==
  ASSUME NEW exp \in {0, 1}, NEW r \in {0, 1}, NEW sn \in {0, 1}, NEW pend, NEW q,
         ToCardLine(q, exp, r, sn, pend), q # << >>, Head(q) = RBlock(Flip(sn))
  PROVE  sn = Flip(r) /\ ToCardLine(Tail(q), exp, r, r, pend)
  <1>1. q \in Seq(Numbered)
    BY DEF ToCardLine
  <1>2. sn # r
    <2>1. CASE sn = r
      BY <1>1, <2>1, HeadAvoided DEF ToCardLine
    <2> QED BY <2>1
  <1>3. sn = Flip(r) /\ Flip(sn) = r
    BY <1>2, FlipFacts
  <1>4. Avoids(Tail(q), {RBlock(Flip(r))})
    BY <1>1, <1>3, HeadPrecedes DEF ToCardLine
  <1>5. Tail(q) \in Seq(Numbered) /\ Thinner(Tail(q), q)
    BY <1>1, TailThinner
  <1>6. ToCardLine(Tail(q), exp, r, sn, pend)
    BY <1>5, ToCardThin
  <1> QED BY <1>3, <1>4, <1>6 DEF ToCardLine

(* The reader has taken the card's I-block.                                *)
LEMMA ToCardTook ==
  ASSUME NEW exp \in {0, 1}, NEW r \in {0, 1}, NEW q,
         ToCardLine(q, exp, r, r, None)
  PROVE  ToCardLine(q, exp, Flip(r), r, None)
  <1>1. Flip(Flip(r)) = r /\ r # Flip(r)
    BY FlipFacts
  <1>2. Info(exp) \ {None} = Info(exp)
    BY KindFacts DEF None
  <1>3. Avoids(q, {RBlock(Flip(r))} \cup Info(exp))
    BY <1>2 DEF ToCardLine, Avoids
  <1>4. Precede(q, {RBlock(r)}, {RBlock(Flip(r))} \cup Info(exp))
    BY <1>3, AvoidsPrecede
  <1> QED BY <1>1, <1>4 DEF ToCardLine

(* What the card writes, but for S(IFS request): an R-block, its I-block   *)
(* (once more), an S-block.                                                *)
LEMMA ToHostAppend ==
  ASSUME NEW cu \in {0, 1}, NEW exp \in {0, 1}, NEW r \in {0, 1}, NEW sn \in {0, 1},
         NEW live, NEW q, ToHostLine(q, cu, exp, r, sn, live),
         NEW b, \/ b = RBlock(exp) \/ b \in Others \ IfsRequests
                \/ b \in Info(r) /\ b = live /\ exp # cu /\ sn = r
                \/ b \in Info(Flip(r)) /\ live = None
  PROVE  ToHostLine(Append(q, b), cu, exp, r, sn, live)
  <1> DEFINE Q == Append(q, b)
             New == Later(cu, r) \cup IfsRequests
  <1>1. q \in Seq(Numbered) /\ b \in Numbered /\ Q \in Seq(Numbered) /\ b \notin IfsRequests
    BY KindFacts, FlipFacts DEF ToHostLine
  <1>2. exp = cu => b \notin Later(cu, r)
    BY KindFacts, FlipFacts DEF Later
  <1>3. b # RBlock(cu) \/ exp = cu
    BY KindFacts, FlipFacts
  <1>4. exp = cu => Avoids(Q, New)
    <2> SUFFICES ASSUME exp = cu PROVE Avoids(Q, New)
      OBVIOUS
    <2>1. b \notin New /\ Avoids(q, New)
      BY <1>1, <1>2 DEF ToHostLine
    <2> HIDE DEF New
    <2> QED BY <1>1, <2>1, AppendAvoids
  <1>5. Precede(Q, {RBlock(cu)}, New)
    <2>1. Precede(q, {RBlock(cu)}, New) /\ (b \notin {RBlock(cu)} \/ Avoids(q, New))
      BY <1>3 DEF ToHostLine
    <2> HIDE DEF New
    <2> QED BY <1>1, <2>1, AppendPrecede
  <1>6. Precede(Q, IfsRequests, Later(cu, r))
    BY <1>1, AppendPrecede DEF ToHostLine
  <1>7. b \notin Info(Flip(r)) \/ Avoids(q, Info(r))
    <2>1. CASE live = None
      <3>1. Info(r) \ {live} = Info(r)
        BY <2>1, KindFacts DEF None
      <3> QED BY <3>1 DEF ToHostLine
    <2>2. CASE live # None
      BY <2>2, KindFacts, FlipFacts
    <2> QED BY <2>1, <2>2
  <1>8. Precede(Q, Info(Flip(r)), Info(r))
    BY <1>1, <1>7, AppendPrecede DEF ToHostLine
  <1>9. b \notin Info(r) \ {live}
    BY KindFacts, FlipFacts
  <1>10. Avoids(Q, Info(r) \ {live})
    BY <1>1, <1>9, AppendAvoids DEF ToHostLine
  <1>11. sn # r => Avoids(Q, IfsRequests)
    BY <1>1, AppendAvoids DEF ToHostLine
  <1> HIDE DEF Q
  <1>12. ToHostLine(Q, cu, exp, r, sn, live)
    BY <1>1, <1>4, <1>5, <1>6, <1>8, <1>10, <1>11 DEF ToHostLine
  <1> QED BY <1>12 DEF Q

LEMMA ToHostAppendIfs ==
  ASSUME NEW cu \in {0, 1}, NEW exp \in {0, 1}, NEW r \in {0, 1},
         NEW live, NEW q, ToHostLine(q, cu, exp, r, r, live), exp # cu,
         Avoids(q, Later(cu, r)), NEW b \in IfsRequests
  PROVE  /\ ToHostLine(Append(q, b), cu, exp, r, r, live)
         /\ Avoids(Append(q, b), Later(cu, r))
  <1> DEFINE Q == Append(q, b)
  <1>1. q \in Seq(Numbered) /\ b \in Numbered /\ Q \in Seq(Numbered)
        /\ b \notin Info(r) /\ b \notin Info(Flip(r)) /\ b # RBlock(cu) /\ b # RBlock(Flip(cu))
    BY KindFacts, FlipFacts DEF ToHostLine
  <1>2. Avoids(Q, Later(cu, r))
    <2>1. b \notin Later(cu, r)
      BY <1>1 DEF Later
    <2> QED BY <1>1, <2>1, AppendAvoids
  <1>3. Precede(Q, {RBlock(cu)}, Later(cu, r) \cup IfsRequests)
    BY <1>1, AppendPrecede DEF ToHostLine
  <1>4. Precede(Q, IfsRequests, Later(cu, r))
    BY <1>2, AvoidsPrecede
  <1>5. Precede(Q, Info(Flip(r)), Info(r))
    BY <1>1, AppendPrecede DEF ToHostLine
  <1>6. Avoids(Q, Info(r) \ {live})
    BY <1>1, AppendAvoids DEF ToHostLine
  <1> HIDE DEF Q
  <1>7. ToHostLine(Q, cu, exp, r, r, live)
    BY <1>1, <1>3, <1>4, <1>5, <1>6 DEF ToHostLine
  <1> QED BY <1>2, <1>7 DEF Q

(* The card takes the reader's I-block.                                    *)
LEMMA ToHostAccept ==
  ASSUME NEW cu \in {0, 1}, NEW r \in {0, 1}, NEW sn, NEW live, NEW q,
         ToHostLine(q, cu, cu, r, sn, live)
  PROVE  /\ \A new : ToHostLine(q, cu, Flip(cu), r, r, new)
         /\ Avoids(q, Later(cu, r))
  <1>1. Avoids(q, Later(cu, r)) /\ Avoids(q, Info(r))
    BY DEF ToHostLine, Later, Avoids
  <1>2. \A new : Avoids(q, Info(r) \ {new})
    BY <1>1 DEF Avoids
  <1> QED BY <1>1, <1>2, FlipFacts DEF ToHostLine

(* The card learns that its I-block has arrived, and makes the next.       *)
LEMMA ToHostNext ==
  ASSUME NEW cu, NEW exp, NEW r \in {0, 1}, NEW sn, NEW q,
         ToHostLine(q, cu, exp, r, sn, None)
  PROVE  \A new : ToHostLine(q, cu, exp, r, r, new)
  <1>1. Info(r) \ {None} = Info(r)
    BY KindFacts DEF None
  <1>2. \A new : Avoids(q, Info(r) \ {new})
    BY <1>1 DEF ToHostLine, Avoids
  <1> QED BY <1>2 DEF ToHostLine

(* The reader learns that its I-block has arrived, and makes the next.     *)
LEMMA ToHostTurn ==
  ASSUME NEW cu \in {0, 1}, NEW exp \in {0, 1}, NEW r \in {0, 1}, NEW sn, NEW q,
         ToHostLine(q, cu, exp, r, sn, None), q # << >>, Head(q) = RBlock(Flip(cu))
  PROVE  exp = Flip(cu) /\ ToHostLine(Tail(q), Flip(cu), exp, r, sn, None)
  <1> DEFINE p == Tail(q)
  <1>1. q \in Seq(Numbered) /\ p \in Seq(Numbered) /\ Thinner(p, q)
    BY TailThinner DEF ToHostLine
  <1>2. exp # cu
    <2> SUFFICES ASSUME exp = cu PROVE FALSE
      OBVIOUS
    <2>1. Avoids(q, Later(cu, r) \cup IfsRequests)
      BY DEF ToHostLine
    <2> QED BY <1>1, <2>1, HeadAvoided DEF Later
  <1>3. exp = Flip(cu) /\ Flip(Flip(cu)) = cu /\ Flip(cu) # cu
    BY <1>2, FlipFacts
  <1>4. ToHostLine(p, cu, exp, r, sn, None)
    BY <1>1, ToHostThin
  <1>5. Head(q) \in Later(cu, r)
    BY DEF Later
  <1>6. Avoids(p, {RBlock(cu)})
    <2>1. Precede(q, {RBlock(cu)}, Later(cu, r) \cup IfsRequests)
      BY DEF ToHostLine
    <2> QED BY <1>1, <1>5, <2>1, HeadPrecedes
  <1>7. Avoids(p, IfsRequests)
    <2>1. Precede(q, IfsRequests, Later(cu, r))
      BY DEF ToHostLine
    <2> QED BY <1>1, <1>5, <2>1, HeadPrecedes
  <1>8. Avoids(p, Info(r))
    <2>1. Info(r) \ {None} = Info(r)
      BY KindFacts DEF None
    <2> QED BY <1>4, <2>1 DEF ToHostLine
  <1> HIDE DEF p
  <1>9. Avoids(p, Later(Flip(cu), r) \cup IfsRequests) /\ Avoids(p, Later(Flip(cu), r))
    BY <1>3, <1>6, <1>7, <1>8 DEF Later, Avoids
  <1>10. /\ Precede(p, {RBlock(Flip(cu))}, Later(Flip(cu), r) \cup IfsRequests)
         /\ Precede(p, IfsRequests, Later(Flip(cu), r))
         /\ Precede(p, Info(Flip(r)), Info(r))
    BY <1>8, <1>9, AvoidsPrecede
  <1>11. ToHostLine(p, Flip(cu), exp, r, sn, None)
    BY <1>1, <1>4, <1>7, <1>9, <1>10 DEF ToHostLine
  <1> QED BY <1>3, <1>11 DEF p

(* The reader takes the card's I-block; what is still there is old, and of *)
(* the next I-block of the reader the card can have said nothing.          *)
LEMMA ToHostTook ==
  ASSUME NEW cu \in {0, 1}, NEW exp \in {0, 1}, NEW r \in {0, 1}, NEW sn, NEW live, NEW q,
         ToHostLine(q, cu, exp, r, sn, live), q # << >>, Head(q) \in Info(r),
         NEW c \in {0, 1}
  PROVE  /\ exp = Flip(cu) /\ Head(q) = live
         /\ ToHostLine(Tail(q), c, exp, Flip(r), r, None)
         /\ Avoids(Tail(q), {RBlock(cu)})
  <1> DEFINE p == Tail(q)
  <1>1. q \in Seq(Numbered) /\ p \in Seq(Numbered) /\ Thinner(p, q)
    BY TailThinner DEF ToHostLine
  <1>2. Head(q) \in Later(cu, r)
    BY DEF Later
  <1>3. exp # cu
    <2> SUFFICES ASSUME exp = cu PROVE FALSE
      OBVIOUS
    <2>1. Avoids(q, Later(cu, r) \cup IfsRequests)
      BY DEF ToHostLine
    <2> QED BY <1>1, <1>2, <2>1, HeadAvoided
  <1>4. exp = Flip(cu) /\ Flip(Flip(cu)) = cu /\ Flip(cu) # cu /\ Flip(Flip(r)) = r
        /\ Flip(cu) \in {0, 1} /\ \A m \in {0, 1} : m = cu \/ m = Flip(cu)
    BY <1>3, FlipFacts
  <1>5. Head(q) = live
    <2>1. Avoids(q, Info(r) \ {live})
      BY DEF ToHostLine
    <2>2. Head(q) \notin Info(r) \ {live}
      BY <1>1, <2>1, HeadAvoided
    <2> QED BY <2>2
  <1>6. Avoids(p, {RBlock(cu)})
    <2>1. Precede(q, {RBlock(cu)}, Later(cu, r) \cup IfsRequests)
      BY DEF ToHostLine
    <2> QED BY <1>1, <1>2, <2>1, HeadPrecedes
  <1>7. Avoids(p, IfsRequests)
    <2>1. Precede(q, IfsRequests, Later(cu, r))
      BY DEF ToHostLine
    <2> QED BY <1>1, <1>2, <2>1, HeadPrecedes
  <1>8. Avoids(p, Info(Flip(r)))
    BY <1>1, HeadPrecedes DEF ToHostLine
  <1> HIDE DEF p
  <1>9. Avoids(p, Later(Flip(cu), Flip(r)) \cup IfsRequests)
    BY <1>4, <1>6, <1>7, <1>8 DEF Later, Avoids
  <1>10. ToHostLine(p, c, exp, Flip(r), r, None)
    <2>1. exp = c => Avoids(p, Later(c, Flip(r)) \cup IfsRequests)
      BY <1>4, <1>9
    <2>2. Precede(p, {RBlock(c)}, Later(c, Flip(r)) \cup IfsRequests)
      <3>1. CASE c = cu
        BY <1>6, <3>1, AvoidsPrecede
      <3>2. CASE c = Flip(cu)
        BY <1>9, <3>2, AvoidsPrecede
      <3> QED BY <1>4, <3>1, <3>2
    <2>3. Precede(p, IfsRequests, Later(c, Flip(r))) /\ Precede(p, Info(Flip(Flip(r))), Info(Flip(r)))
      BY <1>7, <1>8, AvoidsPrecede
    <2>4. Avoids(p, Info(Flip(r)) \ {None})
      BY <1>8 DEF Avoids
    <2> QED BY <1>1, <1>7, <2>1, <2>2, <2>3, <2>4 DEF ToHostLine
  <1> QED BY <1>4, <1>5, <1>6, <1>10 DEF p

-------------------------------------------------------------------------------
(***************************************************************************)
(* Both ends together, as long as no command has failed.                   *)
(***************************************************************************)

(* The number of the I-block last sent, or of the next to be sent when     *)
(* there is none: N(S) turns when the first I-block of the card is read.   *)
cur == IF lastiicc THEN Flip(ns) ELSE ns

InLoop == pc \in {"xfer", "abort"}

(* The I-block the card has not taken, and that the reader has not read.   *)
Pending == IBlock(cur, more, SubSeq(cmd, sendptr - sendlen + 1, sendptr))
Pend == IF InLoop /\ cnr = cur THEN Pending ELSE None
Live == IF cns = nr THEN out ELSE None

LinesAgree ==
    /\ ToCardLine(toCard, cnr, nr, cns, Pend)
    /\ ToHostLine(toHost, cur, cnr, nr, cns, Live)

(* What the reader may write again.                                        *)
Repeatable ==
    /\ pc = "ifsd" => block.type = "IFSreq"
    /\ pc = "xfer" /\ block.type = "R" => block = RBlock(nr)

(* The I-block of the card, and what it asks.                              *)
CardAgrees ==
    /\ out = None => cns = nr
    /\ out # None => out \in Info(cns) /\ (out.more <=> restOut # << >>)
    /\ request # None => /\ request \in Others
                         /\ held \in {RBlock(cnr), out} /\ held # None
    /\ request.type = "IFSreq" =>
          cnr # cur /\ cns = nr /\ Avoids(toHost, Later(cur, nr))

(* The commands executed are among the first n, or came before n.         *)
Through(n) == \A i \in DOMAIN executed : \E k \in 1..n : executed[i] = Command(k)
Before(n) == \A i \in DOMAIN executed : \E k \in 1..n : k < n /\ executed[i] = Command(k)
InOrder == \A i, j \in DOMAIN executed :
              i < j => Answered(executed[i]) < Answered(executed[j])

(* The card owes nothing.                                                  *)
Settled == out = None \/ (cns # nr /\ ~out.more)

(* Before the command is begun and when it is answered.                    *)
Outside ==
    ~InLoop => /\ cnr = ns /\ cmdIn = << >> /\ Settled
               /\ pc = "ifsd" => Before(serial)

(* While the card has not got the whole command.                           *)
Sending ==
    InLoop /\ (cnr = cur \/ more) =>
       /\ cmdIn = SubSeq(cmd, 1, IF cnr = cur THEN sendptr - sendlen ELSE sendptr)
       /\ rsp = << >> /\ Settled /\ Before(serial)
       /\ cnr # cur => out = None

(* When it has executed it: what was read, what the last I-block holds and *)
(* what the card still has are together the response.                      *)
Responding ==
    InLoop /\ cnr # cur /\ ~more =>
       /\ cmdIn = << >>
       /\ executed # << >> /\ executed[Len(executed)] = cmd
       /\ out # None /\ (cns # nr => out.more)
       /\ \E len \in RspLens :
             rsp \o (IF cns = nr THEN out.data ELSE << >>) \o restOut = Response(cmd, len)

(* An I-block that may be asked for again would be made the same.          *)
Remade ==
    InLoop =>
       /\ more <=> sendptr # Len(cmd)
       /\ cnr = cur \/ ~Avoids(toHost, {RBlock(cur)}) =>
             LET left == Len(cmd) - (sendptr - sendlen)
             IN  sendlen = IF left < ifsc THEN left ELSE ifsc

OfSerial ==
    /\ pc # "idle" => /\ serial \in 1..Len(CmdLens) /\ cmd = Command(serial)
                      /\ ret = "busy"
    /\ Through(serial) /\ InOrder

OwnAnswer ==
    ret = "OK" =>
        /\ executed # << >> /\ executed[Len(executed)] = cmd
        /\ \E len \in {l \in RspLens : l >= 2} :
              LET whole == Response(cmd, len)
              IN  apduRsp = IF wantData THEN whole ELSE SubSeq(whole, len - 1, len)

Progress == Outside /\ Sending /\ Responding /\ Remade
History == OfSerial /\ OwnAnswer

Synced == LinesAgree /\ Repeatable /\ CardAgrees /\ Progress /\ History

-------------------------------------------------------------------------------
(* The numbers of both ends are bits.                                      *)
LEMMA NumberTypes ==
  ASSUME IInv
  PROVE  /\ ns \in {0, 1} /\ nr \in {0, 1} /\ cns \in {0, 1} /\ cnr \in {0, 1}
         /\ cur \in {0, 1}
  BY FlipFacts DEF IInv, TypeOK, HostTypeOK, CardTypeOK, cur

(* What is written is appended, what is left unread gets thinner.          *)
LEMMA WriteLines ==
  ASSUME NEW unread \in Seq(Numbered), NEW b, Write(b, unread)
  PROVE  /\ toCard' = Append(toCard, b) /\ block' = b
         /\ toHost' \in Seq(Numbered) /\ Thinner(toHost', unread)
  <1>1. PICK k \in 0..Len(unread) : toHost' = SubSeq(unread, k + 1, Len(unread))
    BY DEF Write, DrainFrom
  <1> QED BY <1>1, SuffixThinner DEF Write

LEMMA UnreadThin ==
  ASSUME toHost \in Seq(Numbered), toHost # << >>
  PROVE  Unread \in Seq(Numbered) /\ Thinner(Unread, toHost) /\ Received \in Numbered
  BY TailThinner DEF Unread, Received

(* Nothing changes but that the lines get thinner and the reader writes.   *)
LEMMA SyncReply ==
  ASSUME IInv, Synced, InLoop, InLoop',
         cur' = cur, UNCHANGED <<nr, cns, cnr, cmdIn, out, restOut, request, held,
                                 executed, serial, cmd, wantData, apduRsp, sendptr,
                                 sendlen, more, rsp, ret>>,
         toHost' \in Seq(Numbered), Thinner(toHost', toHost),
         NEW b, toCard' = Append(toCard, b),
         \/ b = RBlock(nr) \/ b \in Others
         \/ cnr = cur /\ b = Pending /\ b \in Info(cur)
         \/ cnr # cur /\ b \in Info(cur),
         Repeatable',
         ifsc' = ifsc \/ (cnr # cur /\ Avoids(toHost', {RBlock(cur)}))
  PROVE  Synced'
  <1>1. /\ nr \in {0, 1} /\ cns \in {0, 1} /\ cnr \in {0, 1} /\ cur \in {0, 1}
    BY NumberTypes
  <1>2. Pend' = Pend /\ Live' = Live
    BY DEF Pend, Live, Pending, InLoop
  <1>3. ToCardLine(toCard', cnr, nr, cns, Pend)
    <2>1. CASE b = RBlock(nr) \/ b \in Others
      BY <1>1, <2>1, ToCardAppend DEF Synced, LinesAgree
    <2>2. CASE cnr = cur /\ b = Pending /\ b \in Info(cur)
      <3>1. b = Pend
        BY <2>2 DEF Pend
      <3> QED BY <1>1, <2>2, <3>1, ToCardAppend DEF Synced, LinesAgree
    <2>3. CASE cnr # cur /\ b \in Info(cur)
      <3>1. Pend = None /\ cur = Flip(cnr)
        BY <1>1, <2>3, FlipFacts DEF Pend
      <3> QED BY <1>1, <2>3, <3>1, ToCardAppend DEF Synced, LinesAgree
    <2> QED BY <2>1, <2>2, <2>3
  <1>4. ToHostLine(toHost', cur, cnr, nr, cns, Live)
    BY <1>1, ToHostThin DEF Synced, LinesAgree
  <1>5. LinesAgree'
    BY <1>2, <1>3, <1>4 DEF LinesAgree
  <1>6. Garbled \notin Later(cur, nr) /\ Garbled \notin {RBlock(cur)}
    BY <1>1, KindFacts, FlipFacts DEF Later
  <1>7. CardAgrees'
    BY <1>6 DEF Synced, CardAgrees, Thinner
  <1>8. Outside' /\ Sending' /\ Responding'
    BY DEF Synced, Progress, Outside, Sending, Responding, Settled, Before, InLoop
  <1>9. Remade'
    <2>1. more' <=> sendptr' # Len(cmd')
      BY DEF Synced, Progress, Remade
    <2>2. ASSUME ~Avoids(toHost', {RBlock(cur)}) PROVE ~Avoids(toHost, {RBlock(cur)})
      BY <1>6, <2>2 DEF Thinner
    <2> QED BY <2>1, <2>2 DEF Synced, Progress, Remade
  <1>10. History'
    BY DEF Synced, History, OfSerial, OwnAnswer, Through, InOrder, InLoop
  <1> QED BY <1>5, <1>7, <1>8, <1>9, <1>10 DEF Synced, Progress

-------------------------------------------------------------------------------
(* A pass of the loop that goes on, in the same place.                     *)
LEMMA TimeoutSync ==
  ASSUME IInv, Synced, IoError, pc' # "idle",
         UNCHANGED <<cardVars, executed, serial>>
  PROVE  Synced'
  <1>1. /\ pc = "xfer" /\ Write(RBlock(nr), toHost)
        /\ UNCHANGED <<pc, t1Vars, apduVars, sendVars, lastiicc, rsp, ret>>
    BY DEF IoError, Finish
  <1>2. toHost \in Seq(Numbered)
    BY DEF Synced, LinesAgree, ToHostLine
  <1>3. /\ toCard' = Append(toCard, RBlock(nr)) /\ block' = RBlock(nr)
        /\ toHost' \in Seq(Numbered) /\ Thinner(toHost', toHost)
    BY <1>1, <1>2, WriteLines
  <1>4. Repeatable'
    BY <1>1, <1>3 DEF Repeatable, t1Vars
  <1> QED BY <1>1, <1>3, <1>4, SyncReply
          DEF t1Vars, apduVars, sendVars, cardVars, cur, InLoop

(* The same when a block was read.                                         *)
LEMMA ReplySync ==
  ASSUME IInv, Synced, toHost # << >>, pc = "xfer", pc' \in {"xfer", "abort"},
         NEW b, Write(b, Unread),
         cur' = cur, UNCHANGED <<nr, apduVars, sendVars, rsp, ret>>,
         UNCHANGED <<cardVars, executed, serial>>,
         \/ b = RBlock(nr)
         \/ b \in Others /\ b.type # "R"
         \/ cnr = cur /\ b = Pending /\ b \in Info(cur)
         \/ cnr # cur /\ b \in Info(cur),
         ifsc' = ifsc \/ (cnr # cur /\ Avoids(Unread, {RBlock(cur)}))
  PROVE  Synced'
  <1>1. toHost \in Seq(Numbered)
    BY DEF Synced, LinesAgree, ToHostLine
  <1>2. Unread \in Seq(Numbered) /\ Thinner(Unread, toHost)
    BY <1>1, UnreadThin
  <1>3. /\ toCard' = Append(toCard, b) /\ block' = b
        /\ toHost' \in Seq(Numbered) /\ Thinner(toHost', Unread)
    BY <1>2, WriteLines
  <1>4. Thinner(toHost', toHost)
    BY <1>2, <1>3, ThinnerTrans
  <1>5. Repeatable'
    BY <1>3, NumberTypes, KindFacts DEF Repeatable, Info
  <1>6. ifsc' = ifsc \/ (cnr # cur /\ Avoids(toHost', {RBlock(cur)}))
    <2>1. Garbled \notin {RBlock(cur)}
      BY NumberTypes, KindFacts
    <2> QED BY <1>3, <2>1 DEF Thinner
  <1> QED BY <1>3, <1>4, <1>5, <1>6, SyncReply
          DEF apduVars, sendVars, cardVars, InLoop

(* An invalid block is answered with an R-block (482-505), an R-block      *)
(* while the response is read with another (519-526).                      *)
LEMMA RcErrorSync ==
  ASSUME IInv, Synced, RcError, pc' # "idle",
         UNCHANGED <<cardVars, executed, serial>>
  PROVE  Synced'
  <1>1. /\ pc = "xfer" /\ toHost # << >> /\ Write(RBlock(nr), Unread)
        /\ UNCHANGED <<pc, t1Vars, apduVars, sendVars, lastiicc, rsp, ret>>
    BY DEF RcError, Finish
  <1>2. cur' = cur /\ UNCHANGED <<nr, ifsc>>
    BY <1>1 DEF t1Vars, cur
  <1> QED BY <1>1, <1>2, ReplySync

LEMMA WhileReceivingSync ==
  ASSUME IInv, Synced, RBlockWhileReceiving \/ IBlockWrongNumber,
         UNCHANGED <<cardVars, executed, serial>>
  PROVE  Synced'
  <1>1. /\ pc = "xfer" /\ toHost # << >> /\ Write(RBlock(nr), Unread)
        /\ UNCHANGED <<pc, nr, ifsc, apduVars, sendVars, rsp, ret>>
    BY DEF RBlockWhileReceiving, IBlockWrongNumber, Reads, t1Vars
  <1>2. cur' = cur
    <2>1. ns \in {0, 1} /\ lastiicc \in BOOLEAN
      BY NumberTypes DEF IInv, TypeOK, HostTypeOK
    <2> QED BY <2>1, FlipFacts DEF RBlockWhileReceiving, IBlockWrongNumber, TurnToCard,
                                   t1Vars, cur
  <1> QED BY <1>1, <1>2, ReplySync

(* S-blocks change neither a number nor a byte; S(IFS request) changes the *)
(* length of blocks only when none can be asked for again.                 *)
LEMMA SBlockSync ==
  ASSUME IInv, Synced, SIfs \/ SAbort \/ SWtx, pc' # "idle",
         UNCHANGED <<cardVars, executed, serial>>
  PROVE  Synced'
  <1>1. /\ pc = "xfer" /\ toHost # << >> /\ pc' \in {"xfer", "abort"}
        /\ UNCHANGED <<ns, nr, apduVars, sendVars, lastiicc, rsp, ret>>
    BY DEF SIfs, SAbort, SWtx, Finish, Reads, t1Vars
  <1>2. cur' = cur
    BY <1>1 DEF cur
  <1>3. toHost \in Seq(Numbered) /\ Received \in Numbered
    BY <1>1, UnreadThin DEF Synced, LinesAgree, ToHostLine
  <1>4. GetParam(Received) \in Nat /\ Received \in Block
    BY <1>3, KindFacts DEF GetParam, Block
  <1>5. PICK t \in ResponseTypes, n \in Nat : Write(SBlock(t, n), Unread)
    BY <1>4 DEF SIfs, SAbort, SWtx, Finish, ResponseTypes
  <1>6. SBlock(t, n) \in Others /\ SBlock(t, n).type # "R"
    BY SBlockType DEF Others, STypes, ResponseTypes
  <1>7. ifsc' = ifsc \/ (cnr # cur /\ Avoids(Unread, {RBlock(cur)}))
    <2>1. CASE SIfs
      <3>1. Head(toHost) \in IfsRequests
        BY <1>4, <2>1 DEF SIfs, Reads, IfsRequests, Received
      <3>2. cnr # cur
        <4> SUFFICES ASSUME cnr = cur PROVE FALSE
          OBVIOUS
        <4>1. Avoids(toHost, Later(cur, nr) \cup IfsRequests)
          BY DEF Synced, LinesAgree, ToHostLine
        <4> QED BY <1>1, <1>3, <3>1, <4>1, HeadAvoided
      <3>3. Avoids(Unread, {RBlock(cur)})
        <4>1. Precede(toHost, {RBlock(cur)}, Later(cur, nr) \cup IfsRequests)
          BY DEF Synced, LinesAgree, ToHostLine
        <4> QED BY <1>1, <1>3, <3>1, <4>1, HeadPrecedes DEF Unread
      <3> QED BY <3>2, <3>3
    <2>2. CASE SAbort \/ SWtx
      BY <2>2 DEF SAbort, SWtx, Finish, t1Vars
    <2> QED BY <2>1, <2>2
  <1> QED BY <1>1, <1>2, <1>5, <1>6, <1>7, ReplySync

LEMMA SOtherSync ==
  ASSUME IInv, Synced, SOther,
         UNCHANGED <<cardVars, executed, serial>>
  PROVE  Synced'
  <1>1. /\ pc = "xfer" /\ toHost # << >> /\ Write(block, Unread)
        /\ UNCHANGED <<pc, t1Vars, apduVars, sendVars, lastiicc, rsp, ret>>
    BY DEF SOther, Reads
  <1>2. cur' = cur
    BY <1>1 DEF cur, t1Vars
  <1>3. block \in Block
    BY DEF IInv, TypeOK, HostTypeOK
  <1>4. CASE block.type = "I"
    <2>1. ~lastiicc /\ block = IBlock(ns, more, SubSeq(cmd, sendptr - sendlen + 1, sendptr))
      BY <1>1, <1>4 DEF IInv, HostInv, BlockIsWindow
    <2>2. block = Pending /\ block.n = cur
      BY <2>1 DEF Pending, cur, IBlock
    <2>3. block \in Info(cur)
      BY <1>3, <1>4, <2>2 DEF Info
    <2> QED BY <1>1, <1>2, <2>2, <2>3, ReplySync DEF t1Vars
  <1>5. CASE block.type = "R"
    <2>1. block = RBlock(nr)
      BY <1>1, <1>5 DEF Synced, Repeatable
    <2> QED BY <1>1, <1>2, <2>1, ReplySync DEF t1Vars
  <1>6. CASE block.type \notin {"I", "R"}
    <2>1. block \in Others
      BY <1>3, <1>6 DEF Others
    <2> QED BY <1>1, <1>2, <1>6, <2>1, ReplySync DEF t1Vars
  <1> QED BY <1>4, <1>5, <1>6

(* An I-block that the card has asked for again is made from the same      *)
(* bytes, because the length that decides has not changed since.           *)
LEMMA ResendSync ==
  ASSUME IInv, Synced, RBlockResend,
         UNCHANGED <<cardVars, executed, serial>>
  PROVE  Synced'
  <1>1. /\ pc = "xfer" /\ toHost # << >> /\ ~lastiicc
        /\ Received.type = "R" /\ GetN(Received) = ns
        /\ MakeIBlock(sendptr - sendlen, cmd, more, ns, Unread)
        /\ UNCHANGED <<pc, t1Vars, apduVars, lastiicc, rsp, ret>>
    BY DEF RBlockResend, Reads
  <1>2. cur = ns /\ cur' = cur
    BY <1>1 DEF cur, t1Vars
  <1>3. toHost \in Seq(Numbered) /\ Received \in Numbered
    BY <1>1, UnreadThin DEF Synced, LinesAgree, ToHostLine
  <1>4. Received = RBlock(cur)
    <2>1. Received \in {RBlock(0), RBlock(1)} /\ Received.n = cur
      BY <1>1, <1>2, <1>3 DEF Numbered, GetN
    <2> QED BY <2>1, KindFacts
  <1>5. ~Avoids(toHost, {RBlock(cur)})
    BY <1>1, <1>3, <1>4, HeadAvoided DEF Received
  <1> DEFINE left == Len(cmd) - (sendptr - sendlen)
             len == IF left < ifsc THEN left ELSE ifsc
  <1>6. sendlen = len /\ (more <=> sendptr # Len(cmd))
    BY <1>1, <1>5 DEF Synced, Progress, Remade, InLoop
  <1>7. sendptr \in Nat /\ sendlen \in Nat /\ cmd \in Seq(Byte) /\ more \in BOOLEAN
        /\ Len(cmd) \in Nat /\ sendlen <= sendptr /\ sendptr <= Len(cmd)
    BY DEF IInv, TypeOK, HostTypeOK, HostInv, BlockIsWindow
  <1>8. /\ sendlen' = len /\ more' = (more /\ len # left)
        /\ sendptr' = sendptr - sendlen + len
        /\ Write(IBlock(ns, more /\ len # left,
                        SubSeq(cmd, sendptr - sendlen + 1, sendptr - sendlen + len)), Unread)
    BY <1>1 DEF MakeIBlock
  <1>9. sendptr - sendlen + len = sendptr /\ ((more /\ len # left) <=> more)
    <2>1. len # left <=> sendptr # Len(cmd)
      <3>1. left = Len(cmd) - (sendptr - sendlen)
        OBVIOUS
      <3> HIDE DEF left, len
      <3> QED BY <1>6, <1>7, <3>1
    <2> HIDE DEF left, len
    <2> QED BY <1>6, <1>7, <2>1
  <1>10. (more /\ len # left) = more
    <2> HIDE DEF left, len
    <2> QED BY <1>7, <1>9
  <1>11. UNCHANGED sendVars /\ Write(Pending, Unread)
    <2> HIDE DEF left, len
    <2> QED BY <1>2, <1>6, <1>8, <1>9, <1>10 DEF sendVars, Pending
  <1>12. Pending \in Info(cur)
    <2>1. SubSeq(cmd, sendptr - sendlen + 1, sendptr) \in Seq(Byte)
      <3>1. sendptr - sendlen + 1 \in Nat /\ sendptr - sendlen + 1 >= 1
        BY <1>7
      <3> QED BY <1>7, <3>1, SubSeqType
    <2>2. cur \in Nat /\ more \in BOOLEAN
      BY <1>7, NumberTypes
    <2>3. Pending \in Block
      BY <2>1, <2>2, IBlockType DEF Pending
    <2> QED BY <2>3 DEF Pending, Info, IBlock
  <1> QED BY <1>1, <1>2, <1>11, <1>12, ReplySync DEF t1Vars

-------------------------------------------------------------------------------
(* An I-block is made.                                                     *)
LEMMA MakeFacts ==
  ASSUME NEW seq \in Seq(Byte), NEW p \in Nat, p <= Len(seq), NEW n \in {0, 1},
         NEW unread \in Seq(Numbered), ifsc \in Nat,
         NEW start, start = TRUE, MakeIBlock(p, seq, start, n, unread)
  PROVE  /\ sendptr' - sendlen' = p
         /\ sendlen' = IF Len(seq) - p < ifsc THEN Len(seq) - p ELSE ifsc
         /\ more' <=> sendptr' # Len(seq)
         /\ block' = IBlock(n, more', SubSeq(seq, p + 1, sendptr'))
         /\ block' \in Info(n) /\ toCard' = Append(toCard, block')
         /\ toHost' \in Seq(Numbered) /\ Thinner(toHost', unread)
  <1> DEFINE left == Len(seq) - p
             len == IF left < ifsc THEN left ELSE ifsc
             m == start /\ len # left
             b == IBlock(n, m, SubSeq(seq, p + 1, p + len))
  <1>1. left \in Nat /\ len \in Nat /\ len <= left /\ m \in BOOLEAN /\ left = Len(seq) - p
        /\ (m <=> len # left)
    OBVIOUS
  <1>2. sendlen' = len /\ more' = m /\ sendptr' = p + len /\ Write(b, unread)
    BY DEF MakeIBlock
  <1>3. len = IF Len(seq) - p < ifsc THEN Len(seq) - p ELSE ifsc
    OBVIOUS
  <1>4. b = IBlock(n, m, SubSeq(seq, p + 1, p + len))
    OBVIOUS
  <1> HIDE DEF left, len, m, b
  <1>5. SubSeq(seq, p + 1, p + len) \in Seq(Byte)
    <2>1. p + 1 \in Nat /\ p + 1 >= 1 /\ p + len \in Nat /\ p + len <= Len(seq)
      BY <1>1
    <2> QED BY <2>1, SubSeqType
  <1>6. b \in Block
    BY <1>1, <1>4, <1>5, IBlockType
  <1>7. b \in Info(n)
    BY <1>4, <1>6 DEF Info, IBlock
  <1>8. /\ toCard' = Append(toCard, b) /\ block' = b
        /\ toHost' \in Seq(Numbered) /\ Thinner(toHost', unread)
    BY <1>2, WriteLines
  <1>9. sendptr' - sendlen' = p /\ (more' <=> sendptr' # Len(seq))
    BY <1>1, <1>2
  <1> QED BY <1>2, <1>3, <1>4, <1>7, <1>8, <1>9

(* The first I-block of a command.                                         *)
LEMMA BeginSync ==
  ASSUME IInv, Synced, pc \in {"idle", "ifsd"}, pc' = "xfer",
         NEW unread \in Seq(Numbered), Thinner(unread, toHost),
         MakeIBlock(0, cmd', TRUE, ns, unread), cmd' \in Seq(Byte),
         UNCHANGED <<ns, nr, ifsc, lastiicc, rsp>>,
         UNCHANGED <<cardVars, executed>>,
         serial' \in 1..Len(CmdLens), cmd' = Command(serial'), Before(serial'),
         ret' = "busy"
  PROVE  Synced'
  <1>1. /\ ns \in {0, 1} /\ nr \in {0, 1} /\ cns \in {0, 1} /\ cnr \in {0, 1}
        /\ cur \in {0, 1}
    BY NumberTypes
  <1>2. ~lastiicc /\ rsp = << >> /\ ifsc \in Nat
    BY DEF IInv, HostInv, Fresh, HostTypeOK
  <1>3. cur = ns /\ cur' = ns /\ cnr = ns /\ cmdIn = << >> /\ Settled /\ ~InLoop /\ InLoop'
    BY <1>2 DEF cur, Synced, Progress, Outside, InLoop
  <1>4. /\ sendptr' - sendlen' = 0
        /\ sendlen' = IF Len(cmd') - 0 < ifsc THEN Len(cmd') - 0 ELSE ifsc
        /\ more' <=> sendptr' # Len(cmd')
        /\ block' = IBlock(ns, more', SubSeq(cmd', 0 + 1, sendptr'))
        /\ block' \in Info(ns) /\ toCard' = Append(toCard, block')
        /\ toHost' \in Seq(Numbered) /\ Thinner(toHost', unread)
    <2> DEFINE start == TRUE
    <2>1. start = TRUE /\ MakeIBlock(0, cmd', start, ns, unread)
      OBVIOUS
    <2>2. 0 \in Nat /\ 0 <= Len(cmd')
      OBVIOUS
    <2> HIDE DEF start
    <2> QED BY <1>1, <1>2, <2>1, <2>2, MakeFacts
  <1>5. Pend' = block' /\ Pend = None /\ Live' = Live
    BY <1>3, <1>4 DEF Pend, Pending, Live, cardVars
  <1>6. ToCardLine(toCard', cnr, nr, cns, block')
    <2>1. ToCardLine(toCard, cnr, nr, cns, None)
      BY <1>5 DEF Synced, LinesAgree
    <2>2. ToCardLine(toCard, cnr, nr, cns, block')
      BY <1>1, <2>1, ToCardPend
    <2> QED BY <1>1, <1>3, <1>4, <2>2, ToCardAppend
  <1>7. ToHostLine(toHost', cur, cnr, nr, cns, Live)
    BY <1>1, <1>4, ThinnerTrans, ToHostThin DEF Synced, LinesAgree
  <1>8. LinesAgree'
    BY <1>3, <1>5, <1>6, <1>7 DEF LinesAgree, cardVars
  <1>9. CardAgrees' /\ Repeatable'
    BY <1>3, <1>4 DEF Synced, CardAgrees, Repeatable, cardVars, Info
  <1>10. Sending' /\ Responding' /\ Outside'
    <2>1. SubSeq(cmd', 1, 0) = << >>
      OBVIOUS
    <2>2. Settled' /\ Before(serial)'
      BY <1>3 DEF Before, Settled, cardVars
    <2>3. cnr' = cur' /\ cmdIn' = << >> /\ rsp' = << >>
      BY <1>2, <1>3 DEF cardVars
    <2> QED BY <1>3, <1>4, <2>1, <2>2, <2>3 DEF Sending, Responding, Outside
  <1>11. Remade'
    BY <1>4 DEF Remade
  <1>12. History'
    <2>1. Through(serial)'
      BY DEF Before, Through
    <2>2. InOrder'
      BY DEF Synced, History, OfSerial, InOrder
    <2>3. OfSerial'
      BY <2>1, <2>2 DEF OfSerial
    <2>4. OwnAnswer'
      BY DEF OwnAnswer
    <2> QED BY <2>3, <2>4 DEF History
  <1> QED BY <1>8, <1>9, <1>10, <1>11, <1>12 DEF Synced, Progress

(* The next I-block of a chain.                                            *)
LEMMA NextSync ==
  ASSUME IInv, Synced, RBlockNext, UNCHANGED <<cardVars, executed, serial>>
  PROVE  Synced'
  <1>1. /\ pc = "xfer" /\ pc' = "xfer" /\ toHost # << >> /\ ~lastiicc /\ more = TRUE
        /\ Received.type = "R" /\ GetN(Received) # ns
        /\ MakeIBlock(sendptr, cmd, more, Flip(ns), Unread)
        /\ ns' = Flip(ns) /\ UNCHANGED <<nr, ifsc, apduVars, lastiicc, rsp, ret>>
    BY DEF RBlockNext, Reads, IInv, TypeOK, HostTypeOK
  <1>2. /\ ns \in {0, 1} /\ nr \in {0, 1} /\ cns \in {0, 1} /\ cnr \in {0, 1}
        /\ cur \in {0, 1} /\ Flip(ns) \in {0, 1}
    BY NumberTypes, FlipFacts
  <1>3. cur = ns /\ cur' = Flip(cur) /\ InLoop /\ InLoop'
    BY <1>1 DEF cur, InLoop
  <1>4. toHost \in Seq(Numbered) /\ Received \in Numbered /\ Unread \in Seq(Numbered)
    BY <1>1, UnreadThin DEF Synced, LinesAgree, ToHostLine
  <1>5. Head(toHost) = RBlock(Flip(cur))
    <2>1. Received \in {RBlock(0), RBlock(1)} /\ Received.n # cur
      BY <1>1, <1>3, <1>4 DEF Numbered, GetN
    <2> QED BY <1>2, <2>1, KindFacts, FlipFacts DEF Received
  <1>6. Sending /\ InLoop /\ more /\ Settled /\ rsp = << >> /\ Before(serial)
    BY <1>1, <1>3 DEF Synced, Progress, Sending
  <1>7. Live = None
    BY <1>6 DEF Live, Settled
  <1>8. cnr = Flip(cur) /\ ToHostLine(Unread, Flip(cur), cnr, nr, cns, None)
    BY <1>1, <1>2, <1>5, <1>7, ToHostTurn DEF Synced, LinesAgree, Unread
  <1>9. cmdIn = SubSeq(cmd, 1, sendptr) /\ cnr # cur
    BY <1>2, <1>6, <1>8, FlipFacts DEF Sending
  <1>10. cmd \in Seq(Byte) /\ sendptr \in Nat /\ sendptr <= Len(cmd) /\ ifsc \in Nat
    BY DEF IInv, HostInv, HostTypeOK, BlockIsWindow
  <1>11. MakeIBlock(sendptr, cmd, more, Flip(ns), Unread)
    BY <1>1
  <1>12. /\ sendptr' - sendlen' = sendptr
         /\ sendlen' = IF Len(cmd) - sendptr < ifsc THEN Len(cmd) - sendptr ELSE ifsc
         /\ more' <=> sendptr' # Len(cmd)
         /\ block' = IBlock(Flip(ns), more', SubSeq(cmd, sendptr + 1, sendptr'))
         /\ block' \in Info(Flip(ns)) /\ toCard' = Append(toCard, block')
         /\ toHost' \in Seq(Numbered) /\ Thinner(toHost', Unread)
    BY <1>1, <1>2, <1>4, <1>10, <1>11, MakeFacts
  <1>13. Pend' = block' /\ Pend = None /\ Live' = None
    <2>1. cnr' = cur' /\ cur' = Flip(ns) /\ cmd' = cmd
      BY <1>1, <1>3, <1>8 DEF cardVars, apduVars
    <2>2. Pending' = block'
      BY <1>12, <2>1 DEF Pending
    <2>3. Pend' = block' /\ Pend = None
      BY <1>3, <1>9, <2>1, <2>2 DEF Pend
    <2>4. Live' = None
      BY <1>1, <1>7 DEF Live, cardVars
    <2> QED BY <2>3, <2>4
  <1>14. ToCardLine(toCard', cnr, nr, cns, block')
    <2>1. ToCardLine(toCard, cnr, nr, cns, None)
      BY <1>13 DEF Synced, LinesAgree
    <2>2. ToCardLine(toCard, cnr, nr, cns, block')
      BY <1>2, <2>1, ToCardPend
    <2>3. block' \in Info(cnr)
      BY <1>3, <1>8, <1>12
    <2> QED BY <1>2, <1>12, <2>2, <2>3, ToCardAppend
  <1>15. ToHostLine(toHost', Flip(cur), cnr, nr, cns, None)
    <2>1. Flip(cur) \in {0, 1} /\ toHost' \in Seq(Numbered) /\ Thinner(toHost', Unread)
      BY <1>2, <1>3, <1>12
    <2> QED BY <1>2, <1>8, <2>1, ToHostThin
  <1>16. LinesAgree'
    BY <1>1, <1>3, <1>13, <1>14, <1>15 DEF LinesAgree, cardVars
  <1>17. request.type # "IFSreq"
    <2> SUFFICES ASSUME request.type = "IFSreq" PROVE FALSE
      OBVIOUS
    <2>1. Avoids(toHost, Later(cur, nr))
      BY DEF Synced, CardAgrees
    <2>2. Head(toHost) \in Later(cur, nr)
      BY <1>5 DEF Later
    <2> QED BY <1>1, <1>4, <2>1, <2>2, HeadAvoided
  <1>18. CardAgrees' /\ Repeatable'
    BY <1>1, <1>12, <1>17 DEF Synced, CardAgrees, Repeatable, cardVars, Info
  <1>19. Sending' /\ Responding' /\ Outside'
    <2>1. cnr' = cur' /\ InLoop' /\ rsp' = << >> /\ cmdIn' = SubSeq(cmd', 1, sendptr' - sendlen')
      BY <1>1, <1>3, <1>6, <1>8, <1>9, <1>12 DEF cardVars, apduVars
    <2>2. Settled' /\ Before(serial)'
      BY <1>1, <1>6 DEF Settled, Before, cardVars
    <2> QED BY <2>1, <2>2 DEF Sending, Responding, Outside
  <1>20. Remade'
    BY <1>1, <1>12 DEF Remade, apduVars
  <1>21. History'
    BY <1>1 DEF Synced, History, OfSerial, OwnAnswer, Through, InOrder, apduVars
  <1> QED BY <1>16, <1>18, <1>19, <1>20, <1>21 DEF Synced, Progress

-------------------------------------------------------------------------------
(* The I-block the reader takes is the one the card holds.                 *)
LEMMA TakeFacts ==
  ASSUME IInv, Synced, IBlockFits
  PROVE  /\ cnr = Flip(cur) /\ cns = nr /\ out = Received /\ out # None
         /\ more = FALSE /\ cmdIn = << >> /\ request.type # "IFSreq"
         /\ Unread \in Seq(Numbered)
         /\ \A c \in {0, 1} : ToHostLine(Unread, c, cnr, Flip(nr), cns, None)
         /\ Avoids(Unread, {RBlock(cur)})
         /\ ToCardLine(toCard, cnr, Flip(nr), cns, None)
         /\ executed # << >> /\ executed[Len(executed)] = cmd
         /\ rsp \o Received.data \in Seq(Byte) /\ (Received.more <=> restOut # << >>)
         /\ \E len \in RspLens : (rsp \o Received.data) \o restOut = Response(cmd, len)
  <1>1. /\ pc = "xfer" /\ toHost # << >>
        /\ Received.type = "I" /\ GetN(Received) = nr
    BY DEF IBlockFits, Reads
  <1>2. /\ ns \in {0, 1} /\ nr \in {0, 1} /\ cns \in {0, 1} /\ cnr \in {0, 1}
        /\ cur \in {0, 1}
    BY NumberTypes
  <1>3. toHost \in Seq(Numbered) /\ Received \in Numbered /\ Unread \in Seq(Numbered)
    BY <1>1, UnreadThin DEF Synced, LinesAgree, ToHostLine
  <1>4. Received \in Block /\ Received.n = nr
    BY <1>1, <1>3, KindFacts DEF GetN
  <1>5. Received \in Info(nr)
    BY <1>1, <1>4 DEF Info
  <1>6. /\ cnr = Flip(cur) /\ Received = Live
        /\ \A c \in {0, 1} : ToHostLine(Unread, c, cnr, Flip(nr), nr, None)
        /\ Avoids(Unread, {RBlock(cur)})
    <2>1. ToHostLine(toHost, cur, cnr, nr, cns, Live) /\ Head(toHost) \in Info(nr)
      BY <1>5 DEF Synced, LinesAgree, Received
    <2>2. toHost # << >>
      BY <1>1
    <2>3. ASSUME NEW c \in {0, 1}
          PROVE  /\ cnr = Flip(cur) /\ Head(toHost) = Live
                 /\ ToHostLine(Tail(toHost), c, cnr, Flip(nr), nr, None)
                 /\ Avoids(Tail(toHost), {RBlock(cur)})
      <3>1. cnr = Flip(cur)
        BY <1>2, <2>1, <2>2, ToHostTook
      <3>2. Head(toHost) = Live
        BY <1>2, <2>1, <2>2, ToHostTook
      <3>3. ToHostLine(Tail(toHost), c, cnr, Flip(nr), nr, None)
        BY <1>2, <2>1, <2>2, ToHostTook
      <3>4. Avoids(Tail(toHost), {RBlock(cur)})
        <4>1. Precede(toHost, {RBlock(cur)}, Later(cur, nr) \cup IfsRequests)
          BY <2>1 DEF ToHostLine
        <4>2. Head(toHost) \in Later(cur, nr) \cup IfsRequests
          BY <2>1 DEF Later
        <4> QED BY <1>3, <2>2, <4>1, <4>2, HeadPrecedes
      <3> QED BY <3>1, <3>2, <3>3, <3>4
    <2> QED BY <1>2, <2>3 DEF Unread, Received
  <1>7. Received # None
    BY <1>1 DEF None, Garbled
  <1>8. cns = nr /\ out = Received
    BY <1>6, <1>7 DEF Live
  <1>9. cnr # cur /\ InLoop
    BY <1>1, <1>2, <1>6, FlipFacts DEF InLoop
  <1>10. more = FALSE
    <2>1. ~more
      BY <1>7, <1>8, <1>9 DEF Synced, Progress, Sending
    <2> QED BY <2>1 DEF IInv, HostInv, HostTypeOK
  <1>11. request.type # "IFSreq"
    <2> SUFFICES ASSUME request.type = "IFSreq" PROVE FALSE
      OBVIOUS
    <2>1. Avoids(toHost, Later(cur, nr))
      BY DEF Synced, CardAgrees
    <2>2. Head(toHost) \in Later(cur, nr)
      BY <1>5 DEF Later, Received
    <2> QED BY <1>1, <1>3, <2>1, <2>2, HeadAvoided
  <1>12. ToCardLine(toCard, cnr, Flip(nr), cns, None)
    <2>1. Pend = None
      BY <1>9 DEF Pend
    <2> QED BY <1>2, <1>8, <2>1, ToCardTook DEF Synced, LinesAgree
  <1>13. rsp \in Seq(Byte) /\ Received.data \in Seq(Byte) /\ restOut \in Seq(Byte)
    BY <1>4 DEF IInv, TypeOK, HostTypeOK, CardTypeOK, Block
  <1>14. rsp \o Received.data \in Seq(Byte)
    BY <1>13
  <1>15. /\ cmdIn = << >> /\ executed # << >> /\ executed[Len(executed)] = cmd
         /\ \E len \in RspLens : (rsp \o Received.data) \o restOut = Response(cmd, len)
    BY <1>8, <1>9, <1>10 DEF Synced, Progress, Responding
  <1>16. Received.more <=> restOut # << >>
    BY <1>7, <1>8 DEF Synced, CardAgrees
  <1> QED BY <1>3, <1>6, <1>7, <1>8, <1>10, <1>11, <1>12, <1>14, <1>15, <1>16

(* The reader takes an I-block of a chain and asks for the next (593-610). *)
LEMMA MoreSync ==
  ASSUME IInv, Synced, IBlockMore, UNCHANGED <<cardVars, executed, serial>>
  PROVE  Synced'
  <1>1. /\ IBlockFits /\ Received.more /\ TurnToCard /\ pc = "xfer" /\ pc' = "xfer"
        /\ nr' = Flip(nr) /\ rsp' = rsp \o Received.data
        /\ Write(RBlock(Flip(nr)), Unread)
        /\ UNCHANGED <<ifsc, apduVars, sendVars, ret>>
    BY DEF IBlockMore, IBlockFits, Reads
  <1>2. /\ ns \in {0, 1} /\ nr \in {0, 1} /\ cns \in {0, 1} /\ cnr \in {0, 1}
        /\ cur \in {0, 1} /\ Flip(nr) \in {0, 1} /\ Flip(nr) # nr /\ Flip(cur) # cur
    BY NumberTypes, FlipFacts
  <1>3. cur' = cur
    BY <1>1, <1>2, FlipFacts DEF TurnToCard, cur
  <1>4. /\ cnr = Flip(cur) /\ cns = nr /\ out = Received /\ out # None
        /\ more = FALSE /\ cmdIn = << >> /\ request.type # "IFSreq"
        /\ Unread \in Seq(Numbered)
        /\ ToHostLine(Unread, cur, cnr, Flip(nr), cns, None)
        /\ Avoids(Unread, {RBlock(cur)})
        /\ ToCardLine(toCard, cnr, Flip(nr), cns, None)
        /\ executed # << >> /\ executed[Len(executed)] = cmd
        /\ \E len \in RspLens : (rsp \o Received.data) \o restOut = Response(cmd, len)
        /\ rsp \o Received.data \in Seq(Byte)
    BY <1>1, <1>2, TakeFacts
  <1>5. /\ toCard' = Append(toCard, RBlock(Flip(nr))) /\ block' = RBlock(Flip(nr))
        /\ toHost' \in Seq(Numbered) /\ Thinner(toHost', Unread)
    BY <1>1, <1>4, WriteLines
  <1>6. Pend' = None /\ Live' = None
    BY <1>1, <1>2, <1>3, <1>4 DEF Pend, Live, cardVars
  <1>7. ToCardLine(toCard', cnr, Flip(nr), cns, None)
    BY <1>2, <1>4, <1>5, ToCardAppend
  <1>8. ToHostLine(toHost', cur, cnr, Flip(nr), cns, None)
    BY <1>2, <1>4, <1>5, ToHostThin
  <1>9. LinesAgree'
    BY <1>1, <1>3, <1>6, <1>7, <1>8 DEF LinesAgree, cardVars
  <1>10. Repeatable'
    BY <1>1, <1>5 DEF Repeatable
  <1>11. CardAgrees'
    BY <1>4 DEF Synced, CardAgrees, cardVars
  <1>12. Outside' /\ Sending'
    BY <1>1, <1>2, <1>3, <1>4 DEF Outside, Sending, InLoop, cardVars, sendVars
  <1>13. Responding'
    <2>1. \E len \in RspLens : (rsp' \o << >>) \o restOut' = Response(cmd', len)
      <3>1. rsp' \o << >> = rsp'
        BY <1>1, <1>4
      <3> QED BY <1>1, <1>4, <3>1 DEF apduVars, cardVars
    <2>2. out'.more
      BY <1>1, <1>4 DEF cardVars
    <2>3. cmdIn' = << >> /\ executed' # << >> /\ executed'[Len(executed')] = cmd' /\ out' # None
          /\ cns' # nr'
      BY <1>1, <1>2, <1>4 DEF cardVars, apduVars
    <2> QED BY <2>1, <2>2, <2>3 DEF Responding
  <1>14. Remade'
    <2>1. Garbled \notin {RBlock(cur)}
      BY <1>2, KindFacts
    <2>2. Avoids(toHost', {RBlock(cur')}) /\ cnr' # cur'
      BY <1>2, <1>3, <1>4, <1>5, <2>1 DEF Thinner, cardVars
    <2> QED BY <1>1, <2>2 DEF Synced, Progress, Remade, InLoop, sendVars, apduVars
  <1>15. History'
    BY <1>1 DEF Synced, History, OfSerial, OwnAnswer, Through, InOrder, apduVars
  <1> QED BY <1>9, <1>10, <1>11, <1>12, <1>13, <1>14, <1>15 DEF Synced, Progress

(* A response ends with its status word.                                   *)
LEMMA ResponseLen ==
  ASSUME NEW bytes, NEW len \in RspLens
  PROVE  Len(Response(bytes, len)) = len
  <1>1. len \in Nat
    BY CardAssumption
  <1>2. Response(bytes, len) \in Seq(Byte) /\ DOMAIN Response(bytes, len) = 1..len
    BY ResponseType DEF Response
  <1> HIDE DEF Response
  <1> QED BY <1>1, <1>2

(* The reader takes the last I-block: the response is whole (593-645).     *)
LEMMA LastSync ==
  ASSUME IInv, Synced, IBlockLast, ret' = "OK", UNCHANGED <<cardVars, executed, serial>>
  PROVE  Synced'
  <1> DEFINE all == rsp \o Received.data
  <1>1. /\ IBlockFits /\ ~Received.more /\ pc = "xfer"
        /\ ns' = IF lastiicc THEN ns ELSE Flip(ns)
        /\ nr' = Flip(nr) /\ Finish("OK", Unread) /\ ~(Len(all) < 2)
        /\ apduRsp' = IF wantData THEN all ELSE SubSeq(all, Len(all) - 1, Len(all))
        /\ UNCHANGED <<cmd, wantData>>
    BY DEF IBlockLast, IBlockFits, Reads, Finish
  <1>2. /\ ns \in {0, 1} /\ nr \in {0, 1} /\ cns \in {0, 1} /\ cnr \in {0, 1}
        /\ cur \in {0, 1} /\ Flip(nr) \in {0, 1} /\ Flip(nr) # nr /\ Flip(cur) # cur
    BY NumberTypes, FlipFacts
  <1>3. /\ cnr = Flip(cur) /\ cns = nr /\ out = Received /\ out # None
        /\ cmdIn = << >> /\ request.type # "IFSreq"
        /\ ToHostLine(Unread, cnr, cnr, Flip(nr), cns, None)
        /\ ToCardLine(toCard, cnr, Flip(nr), cns, None)
        /\ executed # << >> /\ executed[Len(executed)] = cmd
        /\ \E len \in RspLens : all \o restOut = Response(cmd, len)
        /\ all \in Seq(Byte) /\ restOut = << >>
    BY <1>1, <1>2, TakeFacts
  <1> HIDE DEF all
  <1>4. /\ pc' = "idle" /\ lastiicc' = FALSE /\ toHost' = Unread /\ toCard' = toCard
        /\ ret' = "OK"
    BY <1>1 DEF Finish
  <1>5. cur' = cnr /\ ns' = cnr
    BY <1>1, <1>2, <1>3, <1>4, FlipFacts DEF cur
  <1>6. Pend' = None /\ Live' = None /\ ~InLoop'
    BY <1>1, <1>2, <1>3, <1>4 DEF Pend, Live, InLoop, cardVars
  <1>7. LinesAgree'
    BY <1>1, <1>3, <1>4, <1>5, <1>6 DEF LinesAgree, cardVars
  <1>8. Repeatable' /\ CardAgrees'
    BY <1>3, <1>4 DEF Synced, Repeatable, CardAgrees, cardVars
  <1>9. Outside'
    BY <1>1, <1>2, <1>3, <1>4, <1>5, <1>6 DEF Outside, Settled, cardVars
  <1>10. Sending' /\ Responding' /\ Remade'
    BY <1>6 DEF Sending, Responding, Remade
  <1>11. OfSerial'
    BY <1>4 DEF Synced, History, OfSerial, Through, InOrder
  <1>12. OwnAnswer'
    <2>1. PICK len \in RspLens : all = Response(cmd, len)
      BY <1>3
    <2>2. Len(all) = len /\ len \in Nat
      BY <2>1, ResponseLen, CardAssumption
    <2>3. len >= 2
      BY <1>1, <2>2
    <2>4. apduRsp' = IF wantData' THEN Response(cmd', len)
                     ELSE SubSeq(Response(cmd', len), len - 1, len)
      BY <1>1, <2>1, <2>2
    <2>5. executed' # << >> /\ executed'[Len(executed')] = cmd'
      BY <1>1, <1>3
    <2> QED BY <2>3, <2>4, <2>5 DEF OwnAnswer
  <1> QED BY <1>7, <1>8, <1>9, <1>10, <1>11, <1>12 DEF Synced, Progress, History

-------------------------------------------------------------------------------
(* Outside the loop nothing happens but that the lines get thinner and an  *)
(* S-block is written.                                                     *)
LEMMA QuietSync ==
  ASSUME IInv, Synced, ~InLoop, ~InLoop', UNCHANGED <<ns, nr, lastiicc>>,
         UNCHANGED <<cardVars, executed>>,
         toHost' \in Seq(Numbered), Thinner(toHost', toHost),
         toCard' = toCard \/ \E b \in Others : toCard' = Append(toCard, b),
         Repeatable', History', pc' = "ifsd" => Before(serial')
  PROVE  Synced'
  <1>1. /\ nr \in {0, 1} /\ cns \in {0, 1} /\ cnr \in {0, 1} /\ cur \in {0, 1}
    BY NumberTypes
  <1>2. Pend' = None /\ Pend = None /\ Live' = Live /\ cur' = cur
    BY DEF Pend, Live, cur, cardVars
  <1>3. ToCardLine(toCard', cnr, nr, cns, None)
    <2>1. ToCardLine(toCard, cnr, nr, cns, None)
      BY <1>2 DEF Synced, LinesAgree
    <2>2. ASSUME NEW b \in Others
          PROVE  ToCardLine(Append(toCard, b), cnr, nr, cns, None)
      BY <1>1, <2>1, ToCardAppend
    <2> QED BY <2>1, <2>2
  <1>4. ToHostLine(toHost', cur, cnr, nr, cns, Live)
    BY <1>1, ToHostThin DEF Synced, LinesAgree
  <1>5. LinesAgree'
    BY <1>2, <1>3, <1>4 DEF LinesAgree, cardVars
  <1>6. CardAgrees'
    <2>1. Garbled \notin Later(cur, nr)
      BY <1>1, KindFacts, FlipFacts DEF Later
    <2> QED BY <1>2, <2>1 DEF Synced, CardAgrees, Thinner, cardVars
  <1>7. Outside'
    <2>1. Before(serial') => Before(serial)'
      BY DEF Before
    <2> QED BY <2>1 DEF Synced, Progress, Outside, Settled, cardVars
  <1>8. Sending' /\ Responding' /\ Remade'
    BY DEF Sending, Responding, Remade
  <1> QED BY <1>5, <1>6, <1>7, <1>8 DEF Synced, Progress

(* A new command comes after all that were executed.                       *)
LEMMA ThroughBefore ==
  ASSUME IInv, Synced, serial < Len(CmdLens)
  PROVE  serial + 1 \in 1..Len(CmdLens) /\ Before(serial + 1)
  <1>1. CmdLens \in Seq(Nat \ {0})
    BY CardAssumption
  <1>2. Len(CmdLens) \in Nat /\ serial \in Nat
    BY <1>1 DEF IInv, TypeOK
  <1>3. serial + 1 \in 1..Len(CmdLens)
    BY <1>2
  <1>4. \A k \in 1..serial : k \in 1..(serial + 1) /\ k < serial + 1
    BY <1>2
  <1>5. Before(serial + 1)
    BY <1>4 DEF Synced, History, OfSerial, Through, Before
  <1> QED BY <1>3, <1>5

(* The application sends its next command.                                 *)
LEMMA SendSync ==
  ASSUME IInv, Synced, AppSend
  PROVE  Synced'
  <1>1. serial' \in 1..Len(CmdLens) /\ Before(serial') /\ serial' = serial + 1
    BY ThroughBefore DEF AppSend
  <1>2. PICK d \in BOOLEAN : SendCmd(Command(serial + 1), d)
    BY DEF AppSend
  <1>3. cmd' = Command(serial') /\ cmd' \in Seq(Byte) /\ pc = "idle" /\ ret' = "busy"
    BY <1>1, <1>2, CommandType DEF SendCmd
  <1>4. UNCHANGED <<ns, nr, ifsc, lastiicc, rsp>> /\ UNCHANGED <<cardVars, executed>>
    BY <1>2 DEF SendCmd, AppSend, t1Vars
  <1>5. toHost \in Seq(Numbered) /\ Thinner(toHost, toHost)
    BY DEF Synced, LinesAgree, ToHostLine, Thinner
  <1>6. CASE ifsreq
    <2>1. pc' = "xfer" /\ MakeIBlock(0, cmd', TRUE, ns, toHost)
      BY <1>2, <1>6 DEF SendCmd
    <2> QED BY <1>1, <1>3, <1>4, <1>5, <2>1, BeginSync
  <1>7. CASE ~ifsreq
    <2>1. pc' = "ifsd" /\ Write(SBlock("IFSreq", 254), toHost)
      BY <1>2, <1>7 DEF SendCmd
    <2>2. SBlock("IFSreq", 254) \in Others /\ SBlock("IFSreq", 254).type = "IFSreq"
      BY SBlockType DEF Others, STypes, RequestTypes
    <2>3. /\ toCard' = Append(toCard, SBlock("IFSreq", 254))
          /\ block' = SBlock("IFSreq", 254)
          /\ toHost' \in Seq(Numbered) /\ Thinner(toHost', toHost)
      BY <1>5, <2>1, WriteLines
    <2>4. Repeatable' /\ ~InLoop /\ ~InLoop'
      BY <1>3, <2>1, <2>2, <2>3 DEF Repeatable, InLoop
    <2>5. History'
      <3>1. Through(serial)'
        BY <1>1, <1>4 DEF Before, Through
      <3>2. InOrder'
        BY <1>4 DEF Synced, History, OfSerial, InOrder
      <3>3. OfSerial'
        BY <1>1, <1>3, <3>1, <3>2 DEF OfSerial
      <3>4. OwnAnswer'
        BY <1>3 DEF OwnAnswer
      <3> QED BY <3>3, <3>4 DEF History
    <2> QED BY <1>1, <1>4, <2>2, <2>3, <2>4, <2>5, QuietSync
  <1> QED BY <1>6, <1>7

(* The exchange of IFSD before it (335-375).                               *)
LEMMA IfsdSync ==
  ASSUME IInv, Synced, IfsdDone \/ IfsdAgain, UNCHANGED <<cardVars, executed, serial>>
  PROVE  Synced'
  <1>1. pc = "ifsd" /\ toHost # << >>
    BY DEF IfsdDone, IfsdAgain
  <1>2. /\ Unread \in Seq(Numbered) /\ Thinner(Unread, toHost)
    BY <1>1, UnreadThin DEF Synced, LinesAgree, ToHostLine
  <1>3. serial \in 1..Len(CmdLens) /\ cmd = Command(serial) /\ ret = "busy" /\ Before(serial)
        /\ ~InLoop
    BY <1>1 DEF Synced, History, OfSerial, Progress, Outside, InLoop
  <1>4. cmd \in Seq(Byte)
    BY DEF IInv, HostInv, HostTypeOK
  <1>5. CASE IfsdDone
    <2>1. /\ pc' = "xfer" /\ MakeIBlock(0, cmd', TRUE, ns, Unread)
          /\ UNCHANGED <<ns, nr, ifsc, lastiicc, rsp>> /\ cmd' = cmd /\ ret' = ret
      BY <1>5 DEF IfsdDone, apduVars
    <2>2. UNCHANGED <<cardVars, executed>> /\ serial' = serial
      OBVIOUS
    <2>3. /\ cmd' \in Seq(Byte) /\ serial' \in 1..Len(CmdLens) /\ cmd' = Command(serial')
          /\ Before(serial') /\ ret' = "busy"
      BY <1>3, <1>4, <2>1, <2>2
    <2> QED BY <1>1, <1>2, <2>1, <2>2, <2>3, BeginSync
  <1>6. CASE IfsdAgain
    <2>1. /\ Write(block, Unread)
          /\ UNCHANGED <<pc, ns, nr, lastiicc, cmd, wantData, apduRsp, ret>>
      BY <1>6 DEF IfsdAgain, t1Vars, apduVars
    <2>2. block \in Others /\ block.type = "IFSreq"
      BY <1>1 DEF Synced, Repeatable, IInv, HostInv, HostTypeOK, Others
    <2>3. /\ toCard' = Append(toCard, block) /\ block' = block
          /\ toHost' \in Seq(Numbered) /\ Thinner(toHost', Unread)
      BY <1>2, <2>1, WriteLines
    <2>4. Thinner(toHost', toHost)
      BY <1>2, <2>3, ThinnerTrans
    <2>5. Repeatable' /\ ~InLoop'
      BY <1>1, <2>1, <2>2, <2>3 DEF Repeatable, InLoop
    <2>6. History'
      BY <2>1 DEF Synced, History, OfSerial, OwnAnswer, Through, InOrder
    <2>7. Before(serial')
      BY <1>3
    <2>8. UNCHANGED <<cardVars, executed>> /\ UNCHANGED <<ns, nr, lastiicc>>
      BY <2>1
    <2> QED BY <1>3, <2>2, <2>3, <2>4, <2>5, <2>6, <2>7, <2>8, QuietSync
  <1> QED BY <1>5, <1>6

(* A command that is refused, and the evaluation of the ATR.               *)
LEMMA AsideSync ==
  ASSUME IInv, Synced, AppRefused \/ AppIdentify
  PROVE  Synced'
  <1>1. /\ pc = "idle" /\ UNCHANGED <<pc, ns, nr, cmd, wantData, apduRsp, lastiicc, block>>
        /\ UNCHANGED <<cardVars, executed, serial, toCard>>
        /\ ret' = ret \/ ret' # "OK"
    BY DEF AppRefused, AppIdentify, RefuseCmd, ProcessATR, t1Vars, apduVars, lineVars,
           sessionVars
  <1>2. toHost \in Seq(Numbered)
    BY DEF Synced, LinesAgree, ToHostLine
  <1>3. toHost' \in Seq(Numbered) /\ Thinner(toHost', toHost)
    <2>1. CASE toHost' = toHost
      BY <1>2, <2>1 DEF Thinner
    <2>2. CASE DrainFrom(toHost)
      <3>1. PICK k \in 0..Len(toHost) : toHost' = SubSeq(toHost, k + 1, Len(toHost))
        BY <2>2 DEF DrainFrom
      <3> QED BY <1>2, <3>1, SuffixThinner
    <2> QED BY <2>1, <2>2 DEF AppRefused, AppIdentify, RefuseCmd, ProcessATR, lineVars
  <1>4. Repeatable' /\ ~InLoop /\ ~InLoop'
    BY <1>1 DEF Repeatable, InLoop
  <1>5. History'
    BY <1>1 DEF Synced, History, OfSerial, OwnAnswer, Through, InOrder
  <1> QED BY <1>1, <1>3, <1>4, <1>5, QuietSync

(* The line garbles or loses a block.                                      *)
LEMMA FaultSync ==
  ASSUME IInv, Synced, LineFails
  PROVE  Synced'
  <1>1. UNCHANGED <<hostVars, cardVars, executed, serial>>
    BY DEF LineFails, LineFault, GarbleToCard, GarbleToHost, LoseToCard, LoseToHost,
           sessionVars
  <1>2. toHost \in Seq(Numbered) /\ toCard \in Seq(Numbered) /\ Garbled \in Numbered
    BY KindFacts DEF Synced, LinesAgree, ToHostLine, ToCardLine
  <1>3. \A q : Thinner(q, q)
    BY DEF Thinner
  <1>4. /\ toCard' \in Seq(Numbered) /\ Thinner(toCard', toCard)
        /\ toHost' \in Seq(Numbered) /\ Thinner(toHost', toHost)
    BY <1>2, <1>3, TailThinner, GarbledThinner
    DEF LineFails, LineFault, GarbleToCard, GarbleToHost, LoseToCard, LoseToHost
  <1>5. /\ nr \in {0, 1} /\ cns \in {0, 1} /\ cnr \in {0, 1} /\ cur \in {0, 1}
    BY NumberTypes
  <1>6. Pend' = Pend /\ Live' = Live /\ cur' = cur
    BY <1>1 DEF Pend, Pending, Live, cur, InLoop, hostVars, cardVars
  <1>7. ToCardLine(toCard', cnr, nr, cns, Pend) /\ ToHostLine(toHost', cur, cnr, nr, cns, Live)
    BY <1>4, <1>5, ToCardThin, ToHostThin DEF Synced, LinesAgree
  <1>8. LinesAgree'
    BY <1>1, <1>6, <1>7 DEF LinesAgree, hostVars, cardVars
  <1>9. Garbled \notin Later(cur, nr) /\ Garbled \notin {RBlock(cur)}
    BY <1>5, KindFacts, FlipFacts DEF Later
  <1>10. CardAgrees' /\ Repeatable'
    BY <1>1, <1>4, <1>6, <1>9
    DEF Synced, CardAgrees, Repeatable, Thinner, hostVars, cardVars
  <1>11. Outside' /\ Sending' /\ Responding'
    BY <1>1, <1>6 DEF Synced, Progress, Outside, Sending, Responding, Settled, Before, InLoop,
                      hostVars, cardVars
  <1>12. Remade'
    <2>1. ASSUME ~Avoids(toHost', {RBlock(cur)}) PROVE ~Avoids(toHost, {RBlock(cur)})
      BY <1>4, <1>9, <2>1 DEF Thinner
    <2> QED BY <1>1, <1>6, <2>1 DEF Synced, Progress, Remade, InLoop, hostVars, cardVars
  <1>13. History'
    BY <1>1 DEF Synced, History, OfSerial, OwnAnswer, Through, InOrder, hostVars
  <1> QED BY <1>8, <1>10, <1>11, <1>12, <1>13 DEF Synced, Progress

(* A card and a reader that have just been reset.                          *)
NewSession ==
    /\ pc = "idle" /\ ns = 0 /\ nr = 0 /\ cns = 0 /\ cnr = 0 /\ lastiicc = FALSE
    /\ cmdIn = << >> /\ out = None /\ request = None /\ executed = << >>
    /\ toCard = << >> /\ toHost = << >> /\ ret = "reset"

LEMMA NewSync == NewSession => Synced
  <1> SUFFICES ASSUME NewSession PROVE Synced
    OBVIOUS
  <1>1. << >> \in Seq(Numbered)
    OBVIOUS
  <1>2. cur = 0 /\ ~InLoop /\ None.type = "bad"
    BY DEF NewSession, cur, InLoop, None, Garbled
  <1>3. LinesAgree
    BY <1>1, EmptyLine DEF NewSession, LinesAgree, ToCardLine, ToHostLine
  <1>4. Repeatable /\ CardAgrees
    BY <1>2 DEF NewSession, Repeatable, CardAgrees
  <1>5. Progress
    BY <1>2 DEF NewSession, Progress, Outside, Sending, Responding, Remade, Settled
  <1>6. History
    BY DEF NewSession, History, OfSerial, OwnAnswer, Through, InOrder
  <1> QED BY <1>3, <1>4, <1>5, <1>6 DEF Synced

(* A reset empties the line and sets both ends back (scgeneral.c:303-311). *)
LEMMA ResetSync ==
  ASSUME IInv, AppReset
  PROVE  Synced'
  <1>1. NewSession'
    BY DEF AppReset, ResetCard, CardReset, NewSession, IInv, HostInv, Fresh
  <1> QED BY <1>1, NewSync, PTL

-------------------------------------------------------------------------------
(* What the card sends: the block due, or an S-request before it, of which *)
(* S(IFS request) is a case of its own.                                    *)
Says(due) ==
    \E e : /\ toHost' = Append(toHost, e)
           /\ \/ e = due /\ request' = None
              \/ e \in Others \ IfsRequests /\ request' = e /\ held' = due
AsksIfs(due) ==
    \E e \in IfsRequests : toHost' = Append(toHost, e) /\ request' = e /\ held' = due

(* There is no third thing the card may send.                              *)
LEMMA SaysOrAsks ==
  ASSUME ~IfsAnyTime, NEW due
  PROVE  /\ AnswerOrAsk(due, FALSE) => Says(due)
         /\ AnswerOrAsk(due, TRUE) => Says(due) \/ AsksIfs(due)
  <1>1. Answer(due) => Says(due)
    BY DEF Answer, Says
  <1>2. ASSUME NEW t \in {"WTXreq", "ABORTreq"}, NEW n \in Nat, Ask(SBlock(t, n), due)
        PROVE  Says(due)
    <2>1. SBlock(t, n) \in Others \ IfsRequests
      BY SBlockType DEF Others, IfsRequests, STypes, RequestTypes
    <2> QED BY <1>2, <2>1 DEF Ask, Says
  <1>3. ASSUME NEW n \in Nat, Ask(SBlock("IFSreq", n), due)
        PROVE  AsksIfs(due)
    <2>1. SBlock("IFSreq", n) \in IfsRequests
      BY SBlockType DEF IfsRequests, STypes, RequestTypes
    <2> QED BY <1>3, <2>1 DEF Ask, AsksIfs
  <1>4. WtxFactors \subseteq Nat /\ IfscValues \subseteq Nat /\ 0 \in Nat
    BY CardAssumption
  <1>5. ASSUME NEW w \in WtxFactors, Ask(SBlock("WTXreq", w), due) PROVE Says(due)
    BY <1>2, <1>4, <1>5
  <1>6. ASSUME NEW i \in IfscValues, Ask(SBlock("IFSreq", i), due) PROVE AsksIfs(due)
    BY <1>3, <1>4, <1>6
  <1>7. Ask(SBlock("ABORTreq", 0), due) => Says(due)
    BY <1>2, <1>4
  <1> QED BY <1>1, <1>5, <1>6, <1>7 DEF AnswerOrAsk

(* The I-block of the card that the reader waits for is there only once    *)
(* the card has the whole command.                                         *)
LEMMA OutFacts ==
  ASSUME IInv, Synced, out # None
  PROVE  /\ out \in Info(cns)
         /\ \/ cns = nr /\ cnr # cur /\ Live = out
            \/ cns = Flip(nr) /\ Live = None
  <1>1. /\ nr \in {0, 1} /\ cns \in {0, 1} /\ cnr \in {0, 1} /\ cur \in {0, 1}
    BY NumberTypes
  <1>2. cns = nr => InLoop /\ cnr # cur
    BY DEF Synced, Progress, Outside, Sending, Settled
  <1>3. out \in Info(cns)
    BY DEF Synced, CardAgrees
  <1>4. CASE cns = nr
    BY <1>2, <1>3, <1>4 DEF Live
  <1>5. CASE cns # nr
    BY <1>1, <1>3, <1>5, FlipFacts DEF Live
  <1> QED BY <1>4, <1>5

(* The card says something again.                                          *)
LEMMA AgainSync ==
  ASSUME IInv, Synced, toCard # << >>, toCard' = Tail(toCard), UNCHANGED <<hostVars, serial>>,
         UNCHANGED <<cns, cnr, cmdIn, out, restOut, executed>>,
         NEW e, toHost' = Append(toHost, e),
         \/ (e \in {RBlock(cnr), out} \/ e \in Others \ IfsRequests) /\ request' = None
         \/ /\ e \in Others \ IfsRequests /\ request' = e
            /\ held' \in {RBlock(cnr), out} /\ held' # None
         \/ e = request /\ request # None /\ request' = request /\ held' = held
  PROVE  Synced'
  <1>1. /\ nr \in {0, 1} /\ cns \in {0, 1} /\ cnr \in {0, 1} /\ cur \in {0, 1}
    BY NumberTypes
  <1>2. Pend' = Pend /\ Live' = Live /\ cur' = cur
    BY DEF Pend, Pending, Live, cur, InLoop, hostVars
  <1>3. ToCardLine(toCard', cnr, nr, cns, Pend)
    <2>1. ToCardLine(toCard, cnr, nr, cns, Pend)
      BY DEF Synced, LinesAgree
    <2>2. toCard' \in Seq(Numbered) /\ Thinner(toCard', toCard)
      BY <2>1, TailThinner DEF ToCardLine
    <2> QED BY <1>1, <2>1, <2>2, ToCardThin
  <1>4. ToHostLine(toHost, cur, cnr, nr, cns, Live)
    BY DEF Synced, LinesAgree
  <1>5. e \in IfsRequests => e = request /\ request # None /\ request' = request /\ held' = held
    BY <1>1, KindFacts, OutFacts DEF None
  <1>6. request # None => request \in Others
    BY DEF Synced, CardAgrees
  <1>7. CASE e \in IfsRequests
    <2>1. request.type = "IFSreq" /\ e \in Others /\ e \in Block
      BY <1>5, <1>7, KindFacts DEF IfsRequests
    <2>2. cnr # cur /\ cns = nr /\ Avoids(toHost, Later(cur, nr))
      BY <2>1 DEF Synced, CardAgrees
    <2>3. /\ ToHostLine(toHost', cur, cnr, nr, nr, Live)
          /\ Avoids(toHost', Later(cur, nr))
      BY <1>1, <1>4, <1>7, <2>2, ToHostAppendIfs
    <2>4. ToHostLine(toHost', cur, cnr, nr, cns, Live)
      BY <2>2, <2>3
    <2>5. LinesAgree'
      BY <1>2, <1>3, <2>4 DEF LinesAgree, hostVars
    <2>6. CardAgrees'
      BY <1>2, <1>5, <1>7, <2>2, <2>3 DEF Synced, CardAgrees, hostVars
    <2>7. Repeatable' /\ Outside' /\ Sending' /\ Responding'
      BY <1>2 DEF Synced, Repeatable, Progress, Outside, Sending, Responding, Settled,
                  Before, InLoop, hostVars
    <2>8. Remade'
      <3>1. toHost \in Seq(Numbered) /\ e \in Numbered /\ e \notin {RBlock(cur)}
        BY <1>1, <1>4, <2>1, KindFacts DEF ToHostLine
      <3>2. Avoids(toHost, {RBlock(cur)}) => Avoids(toHost', {RBlock(cur)})
        BY <3>1, AppendAvoids
      <3> QED BY <1>2, <3>2 DEF Synced, Progress, Remade, InLoop, hostVars
    <2>9. History'
      BY DEF Synced, History, OfSerial, OwnAnswer, Through, InOrder, hostVars
    <2> QED BY <2>5, <2>6, <2>7, <2>8, <2>9 DEF Synced, Progress
  <1>8. CASE e \notin IfsRequests
    <2>1. \/ e = RBlock(cnr) \/ e \in Others \ IfsRequests
          \/ e \in Info(nr) /\ e = Live /\ cnr # cur /\ cns = nr
          \/ e \in Info(Flip(nr)) /\ Live = None
      <3>1. CASE e = out /\ out # None
        BY <3>1, OutFacts
      <3>2. CASE e = out /\ out = None
        BY <3>2, KindFacts DEF None
      <3> QED BY <1>6, <1>8, <3>1, <3>2
    <2>2. ToHostLine(toHost', cur, cnr, nr, cns, Live)
      BY <1>1, <1>4, <2>1, ToHostAppend
    <2>3. LinesAgree'
      BY <1>2, <1>3, <2>2 DEF LinesAgree, hostVars
    <2>4. request'.type # "IFSreq" /\ (request' # None => request' \in Others)
      BY <1>6, <1>8, KindFacts DEF None, Garbled, IfsRequests, Others
    <2>5. CardAgrees'
      BY <2>4 DEF Synced, CardAgrees, hostVars
    <2>6. Repeatable' /\ Outside' /\ Sending' /\ Responding'
      BY <1>2 DEF Synced, Repeatable, Progress, Outside, Sending, Responding, Settled,
                  Before, InLoop, hostVars
    <2>7. Remade'
      <3>1. cnr # cur /\ Avoids(toHost, {RBlock(cur)}) => Avoids(toHost', {RBlock(cur)})
        <4> SUFFICES ASSUME cnr # cur, Avoids(toHost, {RBlock(cur)})
                     PROVE  Avoids(toHost', {RBlock(cur)})
          OBVIOUS
        <4>1. e \notin {RBlock(cur)} /\ e \in Numbered
          BY <1>1, <2>1, KindFacts, FlipFacts
        <4>2. toHost \in Seq(Numbered)
          BY <1>4 DEF ToHostLine
        <4> QED BY <4>1, <4>2, AppendAvoids
      <3> QED BY <1>2, <3>1 DEF Synced, Progress, Remade, InLoop, hostVars
    <2>8. History'
      BY DEF Synced, History, OfSerial, OwnAnswer, Through, InOrder, hostVars
    <2> QED BY <2>3, <2>5, <2>6, <2>7, <2>8 DEF Synced, Progress
  <1> QED BY <1>7, <1>8

(* The steps of the card that change nothing but what it says.             *)
LEMMA CardAgainSync ==
  ASSUME ~IfsAnyTime, IInv, Synced,
         \/ CardGarbled \/ CardRepeatsRequest \/ CardOddResponse \/ CardResponse
         \/ CardIfs \/ CardWrongIBlock \/ CardRepeats,
         UNCHANGED <<hostVars, serial>>
  PROVE  Synced'
  <1>1. /\ toCard # << >> /\ toCard' = Tail(toCard)
        /\ UNCHANGED <<cns, cnr, cmdIn, out, restOut, executed>>
    BY DEF CardGarbled, CardRepeatsRequest, CardOddResponse, CardResponse, CardIfs,
           CardWrongIBlock, CardRepeats, TakesRBlock, Takes, cardVars
  <1>2. ASSUME NEW due \in {RBlock(cnr), out}, due # None, Says(due)
        PROVE  Synced'
    BY <1>1, <1>2, AgainSync DEF Says
  <1>3. RBlock(cnr) # None
    BY NumberTypes, KindFacts DEF None
  <1>4. request # None => held \in {RBlock(cnr), out} /\ held # None
    BY DEF Synced, CardAgrees
  <1>5. ASSUME request # None, toHost' = Append(toHost, request),
               UNCHANGED <<request, held>>
        PROVE  Synced'
    BY <1>1, <1>5, AgainSync
  <1>6. ASSUME request = None, toHost' = Append(toHost, RBlock(cnr)), request' = request
        PROVE  Synced'
    BY <1>1, <1>6, AgainSync
  <1>7. CASE CardGarbled
    <2>1. CASE request # None
      BY <1>5, <1>7, <2>1 DEF CardGarbled, cardVars
    <2>2. CASE request = None
      BY <1>6, <1>7, <2>2 DEF CardGarbled, cardVars
    <2> QED BY <2>1, <2>2
  <1>8. CASE CardRepeatsRequest
    BY <1>5, <1>8 DEF CardRepeatsRequest, cardVars
  <1>9. CASE CardOddResponse
    BY <1>6, <1>9 DEF CardOddResponse, cardVars
  <1>10. CASE CardResponse
    <2>1. request # None
      BY <1>10 DEF CardResponse
    <2>2. CASE AnswerOrAsk(held, FALSE)
      <3>1. Says(held)
        BY <2>2, SaysOrAsks
      <3> QED BY <1>2, <1>4, <2>1, <3>1
    <2>3. CASE toHost' = Append(toHost, request) /\ UNCHANGED <<request, held, cifsc, requests>>
      BY <1>5, <2>1, <2>3
    <2> QED BY <1>10, <2>2, <2>3 DEF CardResponse
  <1>11. CASE CardIfs
    <2>1. toCard \in Seq(Numbered)
      BY DEF Synced, LinesAgree, ToCardLine
    <2>2. Incoming \in Block
      BY <1>1, <2>1, KindFacts DEF Incoming
    <2>3. Incoming.n \in Nat
      BY <2>2 DEF Block
    <2>4. SBlock("IFSrsp", Incoming.n) \in Others \ IfsRequests
      BY <2>3, SBlockType DEF Others, IfsRequests, STypes, ResponseTypes, RequestTypes
    <2>5. toHost' = Append(toHost, SBlock("IFSrsp", Incoming.n)) /\ request' = None
      BY <1>11 DEF CardIfs, Answer
    <2> QED BY <1>1, <2>4, <2>5, AgainSync
  <1>12. CASE CardWrongIBlock
    <2>1. AnswerOrAsk(RBlock(cnr), FALSE)
      BY <1>12 DEF CardWrongIBlock
    <2>2. Says(RBlock(cnr))
      BY <2>1, SaysOrAsks
    <2> QED BY <1>2, <1>3, <2>2
  <1>13. CASE CardRepeats
    <2>1. AnswerOrAsk(out, FALSE) /\ out # None
      BY <1>13 DEF CardRepeats
    <2>2. Says(out)
      BY <2>1, SaysOrAsks
    <2> QED BY <1>2, <2>1, <2>2
  <1> QED BY <1>7, <1>8, <1>9, <1>10, <1>11, <1>12, <1>13

-------------------------------------------------------------------------------
(* How the reader cuts a command, and the card its response.               *)
LEMMA ConcatJoin ==
  ASSUME NEW S, NEW a \in Seq(S), NEW b \in Seq(S), NEW c \in Seq(S)
  PROVE  (a \o b) \o c = a \o (b \o c) /\ a \o << >> = a
  OBVIOUS

LEMMA SubSeqJoin ==
  ASSUME NEW S, NEW s \in Seq(S), NEW m \in Nat, NEW n \in Nat, m <= n, n <= Len(s)
  PROVE  SubSeq(s, 1, m) \o SubSeq(s, m + 1, n) = SubSeq(s, 1, n)
  OBVIOUS

(* A command cut at one place, a response cut into the data of an I-block  *)
(* and the rest.                                                           *)
LEMMA PartsJoin ==
  ASSUME NEW n \in {0, 1}, NEW bytes \in Seq(Byte)
  PROVE  /\ Outgoing(n, bytes) \in Info(n)
         /\ Outgoing(n, bytes).more <=> OtherPart(bytes) # << >>
         /\ Outgoing(n, bytes).data \o OtherPart(bytes) = bytes
         /\ Outgoing(n, bytes).data \in Seq(Byte) /\ OtherPart(bytes) \in Seq(Byte)
  <1>1. CardBlock \in Nat \ {0} /\ Len(bytes) \in Nat
    BY CardAssumption
  <1>2. Outgoing(n, bytes) \in Block /\ OtherPart(bytes) \in Seq(Byte)
    BY OutgoingType
  <1>3. /\ Outgoing(n, bytes).type = "I" /\ Outgoing(n, bytes).n = n
        /\ Outgoing(n, bytes).data = FirstPart(bytes)
        /\ Outgoing(n, bytes).more <=> Len(bytes) > CardBlock
    BY DEF Outgoing, IBlock
  <1>4. Outgoing(n, bytes) \in Info(n) /\ Outgoing(n, bytes).data \in Seq(Byte)
    BY <1>2, <1>3 DEF Info, Block
  <1> DEFINE k == IF Len(bytes) < CardBlock THEN Len(bytes) ELSE CardBlock
  <1>5. k \in Nat /\ k <= Len(bytes) /\ FirstPart(bytes) = SubSeq(bytes, 1, k)
        /\ (k = Len(bytes) \/ k = CardBlock)
        /\ (k = Len(bytes) => ~(Len(bytes) > CardBlock))
        /\ (k # Len(bytes) => Len(bytes) > CardBlock)
    BY <1>1 DEF FirstPart
  <1> HIDE DEF k
  <1>6. CASE Len(bytes) > CardBlock
    <2>1. k = CardBlock /\ k < Len(bytes)
      BY <1>1, <1>5, <1>6
    <2>2. OtherPart(bytes) = SubSeq(bytes, k + 1, Len(bytes))
      BY <2>1 DEF OtherPart
    <2>3. OtherPart(bytes) # << >>
      <3>1. Len(SubSeq(bytes, k + 1, Len(bytes))) = Len(bytes) - k
        BY <1>1, <1>5, <2>1
      <3>2. Len(bytes) - k # 0 /\ Len(<< >>) = 0
        BY <1>1, <1>5, <2>1
      <3> QED BY <2>2, <3>1, <3>2
    <2>4. SubSeq(bytes, 1, k) \o SubSeq(bytes, k + 1, Len(bytes)) = bytes
      <3>1. SubSeq(bytes, 1, Len(bytes)) = bytes
        OBVIOUS
      <3>2. Len(bytes) <= Len(bytes)
        BY <1>1
      <3> QED BY <1>1, <1>5, <3>1, <3>2, SubSeqJoin
    <2> QED BY <1>2, <1>3, <1>4, <1>5, <1>6, <2>2, <2>3, <2>4
  <1>7. CASE ~(Len(bytes) > CardBlock)
    <2>1. k = Len(bytes)
      BY <1>5, <1>7
    <2>2. OtherPart(bytes) = << >>
      BY <1>1, <1>7 DEF OtherPart
    <2>3. SubSeq(bytes, 1, k) = bytes /\ bytes \o << >> = bytes
      BY <2>1
    <2> QED BY <1>2, <1>3, <1>4, <1>5, <1>7, <2>2, <2>3
  <1> QED BY <1>6, <1>7

-------------------------------------------------------------------------------
(* The card's I-block has arrived: it sends the next one of its chain.     *)
LEMMA ContinueSync ==
  ASSUME ~IfsAnyTime, IInv, Synced, CardContinues, UNCHANGED <<hostVars, serial>>
  PROVE  Synced'
  <1>1. /\ toCard # << >> /\ toCard' = Tail(toCard) /\ Incoming.type = "R"
        /\ out # None /\ GetN(Incoming) # cns /\ out.more
        /\ cns' = Flip(cns) /\ out' = Outgoing(Flip(cns), restOut)
        /\ restOut' = OtherPart(restOut) /\ UNCHANGED <<cnr, cmdIn, executed>>
    BY DEF CardContinues, TakesRBlock, Takes
  <1>2. /\ nr \in {0, 1} /\ cns \in {0, 1} /\ cnr \in {0, 1} /\ cur \in {0, 1}
    BY NumberTypes
  <1>3. Head(toCard) = RBlock(Flip(cns))
    <2>1. toCard \in Seq(Numbered)
      BY DEF Synced, LinesAgree, ToCardLine
    <2>2. Incoming \in Numbered
      BY <1>1, <2>1 DEF Incoming
    <2>3. Incoming \in {RBlock(0), RBlock(1)} /\ Incoming.n # cns
      BY <1>1, <2>2 DEF Numbered, GetN
    <2> QED BY <1>2, <2>3, KindFacts, FlipFacts DEF Incoming
  <1>4. cns = Flip(nr) /\ ToCardLine(toCard', cnr, nr, nr, Pend)
    <2>1. ToCardLine(toCard, cnr, nr, cns, Pend)
      BY DEF Synced, LinesAgree
    <2> QED BY <1>1, <1>2, <1>3, <2>1, ToCardAck
  <1>5. cns # nr /\ cns' = nr
    BY <1>1, <1>2, <1>4, FlipFacts
  <1>6. InLoop /\ cnr # cur /\ ~more
    BY <1>1, <1>5 DEF Synced, Progress, Outside, Sending, Settled
  <1>8. restOut \in Seq(Byte) /\ rsp \in Seq(Byte)
    BY DEF IInv, TypeOK, HostTypeOK, CardTypeOK
  <1>7. /\ cmdIn = << >> /\ executed # << >> /\ executed[Len(executed)] = cmd
        /\ \E len \in RspLens : rsp \o restOut = Response(cmd, len)
    <2>1. rsp \o << >> = rsp
      BY <1>8, ConcatJoin
    <2> QED BY <1>5, <1>6, <2>1 DEF Synced, Progress, Responding
  <1>9. /\ out' \in Info(nr) /\ (out'.more <=> restOut' # << >>)
        /\ out'.data \o restOut' = restOut
        /\ out'.data \in Seq(Byte) /\ restOut' \in Seq(Byte)
    BY <1>1, <1>2, <1>5, <1>8, PartsJoin
  <1>10. out' # None
    BY <1>2, <1>9, KindFacts DEF None
  <1>11. cur' = cur /\ Pend' = Pend /\ Live' = out' /\ InLoop'
    BY <1>1, <1>5, <1>6 DEF Pend, Pending, Live, cur, InLoop, hostVars
  <1>12. Says(out')
    <2>1. AnswerOrAsk(out', FALSE)
      BY <1>1 DEF CardContinues
    <2> QED BY <2>1, SaysOrAsks
  <1>13. PICK e : /\ toHost' = Append(toHost, e)
                  /\ \/ e = out' /\ request' = None
                     \/ e \in Others \ IfsRequests /\ request' = e /\ held' = out'
    BY <1>12 DEF Says
  <1>14. ToHostLine(toHost, cur, cnr, nr, nr, out')
    <2>1. Live = None
      BY <1>5 DEF Live
    <2> QED BY <1>2, <2>1, ToHostNext DEF Synced, LinesAgree
  <1>15. ToHostLine(toHost', cur, cnr, nr, nr, out')
    BY <1>2, <1>6, <1>9, <1>13, <1>14, ToHostAppend
  <1>16. LinesAgree'
    BY <1>1, <1>4, <1>5, <1>11, <1>15 DEF LinesAgree, hostVars
  <1>17. CardAgrees'
    <2>1. request'.type # "IFSreq"
      BY <1>13, KindFacts DEF None, Garbled, IfsRequests, Others
    <2> QED BY <1>5, <1>9, <1>10, <1>13, <2>1 DEF CardAgrees
  <1>18. Repeatable' /\ Outside' /\ Sending'
    BY <1>1, <1>6, <1>11 DEF Synced, Repeatable, Outside, Sending, hostVars
  <1>19. Responding'
    <2>1. (rsp \o out'.data) \o restOut' = rsp \o restOut
      <3> DEFINE d == out'.data
                 r == restOut'
      <3>1. d \in Seq(Byte) /\ r \in Seq(Byte) /\ d \o r = restOut
        BY <1>9
      <3> HIDE DEF d, r
      <3>2. (rsp \o d) \o r = rsp \o (d \o r)
        BY <1>8, <3>1, ConcatJoin
      <3>3. (rsp \o d) \o r = rsp \o restOut
        BY <3>1, <3>2
      <3> QED BY <3>3 DEF d, r
    <2>2. \E len \in RspLens : rsp' \o out'.data \o restOut' = Response(cmd', len)
      BY <1>7, <2>1 DEF hostVars
    <2>3. cns' = nr'
      BY <1>5 DEF hostVars
    <2>4. cmdIn' = << >> /\ executed' # << >> /\ executed'[Len(executed')] = cmd'
      BY <1>1, <1>7 DEF hostVars
    <2> QED BY <1>10, <2>2, <2>3, <2>4 DEF Responding
  <1>20. Remade'
    <2>1. Avoids(toHost, {RBlock(cur)}) => Avoids(toHost', {RBlock(cur)})
      <3>1. e \notin {RBlock(cur)} /\ e \in Numbered
        BY <1>2, <1>9, <1>13, KindFacts
      <3>2. toHost \in Seq(Numbered)
        BY <1>14 DEF ToHostLine
      <3> QED BY <1>13, <3>1, <3>2, AppendAvoids
    <2> QED BY <1>1, <1>6, <1>11, <2>1 DEF Synced, Progress, Remade, hostVars
  <1>21. History'
    BY <1>1 DEF Synced, History, OfSerial, OwnAnswer, Through, InOrder, hostVars
  <1> QED BY <1>16, <1>17, <1>18, <1>19, <1>20, <1>21 DEF Synced, Progress

(* An R-block when the card has nothing more to send.                      *)
LEMMA AwaitSync ==
  ASSUME ~IfsAnyTime, IInv, Synced, CardAwaits, UNCHANGED <<hostVars, serial>>
  PROVE  Synced'
  <1>1. /\ toCard # << >> /\ toCard' = Tail(toCard) /\ Incoming.type = "R"
        /\ out # None => GetN(Incoming) # cns /\ ~out.more
        /\ cns' = IF out # None THEN Flip(cns) ELSE cns
        /\ out' = None /\ restOut' = << >> /\ UNCHANGED <<cnr, cmdIn, executed>>
    BY DEF CardAwaits, TakesRBlock, Takes
  <1>2. /\ nr \in {0, 1} /\ cns \in {0, 1} /\ cnr \in {0, 1} /\ cur \in {0, 1}
    BY NumberTypes
  <1>3. ToCardLine(toCard, cnr, nr, cns, Pend) /\ ToHostLine(toHost, cur, cnr, nr, cns, Live)
    BY DEF Synced, LinesAgree
  <1>4. cns' = nr /\ ToCardLine(toCard', cnr, nr, nr, Pend) /\ Live = None
        /\ ~(InLoop /\ cnr # cur /\ ~more)
    <2>1. CASE out = None
      <3>1. cns = nr /\ Live = None
        BY <2>1 DEF Synced, CardAgrees, Live
      <3>2. toCard' \in Seq(Numbered) /\ Thinner(toCard', toCard)
        BY <1>1, <1>3, TailThinner DEF ToCardLine
      <3>3. ToCardLine(toCard', cnr, nr, nr, Pend)
        BY <1>2, <1>3, <3>1, <3>2, ToCardThin
      <3>4. ~(InLoop /\ cnr # cur /\ ~more)
        BY <2>1 DEF Synced, Progress, Responding
      <3> QED BY <1>1, <2>1, <3>1, <3>3, <3>4
    <2>2. CASE out # None
      <3>1. toCard \in Seq(Numbered)
        BY <1>3 DEF ToCardLine
      <3>2. Incoming \in Numbered
        BY <1>1, <3>1 DEF Incoming
      <3>3. Incoming \in {RBlock(0), RBlock(1)} /\ Incoming.n # cns
        BY <1>1, <2>2, <3>2 DEF Numbered, GetN
      <3>4. Head(toCard) = RBlock(Flip(cns))
        BY <1>2, <3>3, KindFacts, FlipFacts DEF Incoming
      <3>5. cns = Flip(nr) /\ ToCardLine(toCard', cnr, nr, nr, Pend)
        BY <1>1, <1>2, <1>3, <3>4, ToCardAck
      <3>6. cns # nr /\ cns' = nr
        BY <1>1, <1>2, <2>2, <3>5, FlipFacts
      <3>7. Live = None
        BY <3>6 DEF Live
      <3>8. ~(InLoop /\ cnr # cur /\ ~more)
        BY <1>1, <2>2, <3>6 DEF Synced, Progress, Responding
      <3> QED BY <3>5, <3>6, <3>7, <3>8
    <2> QED BY <2>1, <2>2
  <1>5. cur' = cur /\ Pend' = Pend /\ Live' = None
    BY <1>1 DEF Pend, Pending, Live, cur, InLoop, hostVars
  <1>6. Says(RBlock(cnr))
    <2>1. AnswerOrAsk(RBlock(cnr), FALSE)
      BY DEF CardAwaits
    <2> QED BY <2>1, SaysOrAsks
  <1>7. PICK e : /\ toHost' = Append(toHost, e)
                 /\ \/ e = RBlock(cnr) /\ request' = None
                    \/ e \in Others \ IfsRequests /\ request' = e /\ held' = RBlock(cnr)
    BY <1>6 DEF Says
  <1>8. ToHostLine(toHost, cur, cnr, nr, nr, None)
    BY <1>2, <1>3, <1>4, ToHostNext
  <1>9. ToHostLine(toHost', cur, cnr, nr, nr, None)
    BY <1>2, <1>7, <1>8, ToHostAppend
  <1>10. LinesAgree'
    BY <1>1, <1>4, <1>5, <1>9 DEF LinesAgree, hostVars
  <1>11. CardAgrees'
    <2>1. request'.type # "IFSreq"
      BY <1>7, KindFacts DEF None, Garbled, IfsRequests, Others
    <2>2. RBlock(cnr) # None
      BY <1>2, KindFacts DEF None
    <2> QED BY <1>1, <1>4, <1>7, <2>1, <2>2 DEF CardAgrees, hostVars
  <1>12. Repeatable' /\ Outside' /\ Sending' /\ Responding'
    BY <1>1, <1>4, <1>5 DEF Synced, Progress, Repeatable, Outside, Sending, Responding, Settled,
                            Before, InLoop, hostVars
  <1>13. Remade'
    <2>1. cnr # cur /\ Avoids(toHost, {RBlock(cur)}) => Avoids(toHost', {RBlock(cur)})
      <3> SUFFICES ASSUME cnr # cur, Avoids(toHost, {RBlock(cur)})
                   PROVE  Avoids(toHost', {RBlock(cur)})
        OBVIOUS
      <3>1. e \notin {RBlock(cur)} /\ e \in Numbered
        BY <1>2, <1>7, KindFacts, FlipFacts
      <3>2. toHost \in Seq(Numbered)
        BY <1>3 DEF ToHostLine
      <3> QED BY <1>7, <3>1, <3>2, AppendAvoids
    <2> QED BY <1>1, <1>5, <2>1 DEF Synced, Progress, Remade, InLoop, hostVars
  <1>14. History'
    BY <1>1 DEF Synced, History, OfSerial, OwnAnswer, Through, InOrder, hostVars
  <1> QED BY <1>10, <1>11, <1>12, <1>13, <1>14 DEF Synced, Progress

-------------------------------------------------------------------------------
(* The I-block the card takes is the one the reader waits for.             *)
LEMMA AcceptFacts ==
  ASSUME IInv, Synced, AcceptsIBlock
  PROVE  /\ InLoop /\ cnr = cur /\ cnr' = Flip(cur)
         /\ (Incoming.more <=> more)
         /\ cmdIn \o Incoming.data = SubSeq(cmd, 1, sendptr)
         /\ (IF out # None THEN Flip(cns) ELSE cns) = nr
         /\ rsp = << >> /\ Before(serial)
         /\ ToCardLine(toCard', cnr', nr, nr, None)
         /\ \A new : ToHostLine(toHost, cur, cnr', nr, nr, new)
         /\ Avoids(toHost, Later(cur, nr))
  <1>1. /\ toCard # << >> /\ toCard' = Tail(toCard) /\ Incoming.type = "I"
        /\ Incoming.n = cnr /\ cnr' = Flip(cnr)
    BY DEF AcceptsIBlock, Takes
  <1>2. /\ nr \in {0, 1} /\ cns \in {0, 1} /\ cnr \in {0, 1} /\ cur \in {0, 1}
    BY NumberTypes
  <1>3. ToCardLine(toCard, cnr, nr, cns, Pend) /\ ToHostLine(toHost, cur, cnr, nr, cns, Live)
    BY DEF Synced, LinesAgree
  <1>4. toCard \in Seq(Numbered) /\ Incoming \in Block
    BY <1>1, <1>3, KindFacts DEF ToCardLine, Incoming
  <1>5. Head(toCard) \in Info(cnr)
    BY <1>1, <1>4 DEF Info, Incoming
  <1>6. Incoming = Pend
    <2>1. Avoids(toCard, Info(cnr) \ {Pend})
      BY <1>3 DEF ToCardLine
    <2>2. Head(toCard) \notin Info(cnr) \ {Pend}
      BY <1>1, <1>4, <2>1, HeadAvoided
    <2> QED BY <1>5, <2>2 DEF Incoming
  <1>7. InLoop /\ cnr = cur /\ Incoming = Pending
    BY <1>1, <1>6 DEF Pend, None, Garbled
  <1>8. /\ Incoming.more = more
        /\ Incoming.data = SubSeq(cmd, sendptr - sendlen + 1, sendptr)
    BY <1>7 DEF Pending, IBlock
  <1>9. cmdIn = SubSeq(cmd, 1, sendptr - sendlen) /\ rsp = << >> /\ Settled /\ Before(serial)
    BY <1>7 DEF Synced, Progress, Sending
  <1>10. cmdIn \o Incoming.data = SubSeq(cmd, 1, sendptr)
    <2>1. /\ cmd \in Seq(Byte) /\ sendptr \in Nat /\ sendlen \in Nat /\ sendlen <= sendptr
          /\ sendptr <= Len(cmd)
      BY DEF IInv, HostInv, HostTypeOK, BlockIsWindow
    <2> DEFINE from == sendptr - sendlen
    <2>2. from \in Nat /\ from <= sendptr
      BY <2>1
    <2>3. SubSeq(cmd, 1, from) \o SubSeq(cmd, from + 1, sendptr) = SubSeq(cmd, 1, sendptr)
      <3> HIDE DEF from
      <3> QED BY <2>1, <2>2, SubSeqJoin
    <2> QED BY <1>8, <1>9, <2>3
  <1>11. (IF out # None THEN Flip(cns) ELSE cns) = nr
    <2>1. CASE out = None
      BY <2>1 DEF Synced, CardAgrees
    <2>2. CASE out # None
      BY <1>2, <1>9, <2>2, FlipFacts DEF Settled
    <2> QED BY <2>1, <2>2
  <1>12. ToCardLine(toCard', Flip(cnr), nr, nr, None)
    BY <1>1, <1>2, <1>3, <1>5, ToCardAccept
  <1>13. /\ \A new : ToHostLine(toHost, cur, Flip(cur), nr, nr, new)
         /\ Avoids(toHost, Later(cur, nr))
    BY <1>2, <1>3, <1>7, ToHostAccept
  <1> QED BY <1>1, <1>7, <1>8, <1>9, <1>10, <1>11, <1>12, <1>13

(* It answers, or asks for another length first.                           *)
LEMMA AcceptSync ==
  ASSUME IInv, Synced, AcceptsIBlock, UNCHANGED <<hostVars, serial>>, cns' = nr,
         NEW due, due # None, Says(due) \/ AsksIfs(due),
         \/ due = RBlock(cnr') /\ out' = None
         \/ /\ due = out' /\ out' \in Info(nr)
            /\ out'.more <=> restOut' # << >>,
         Sending', Responding', History'
  PROVE  Synced'
  <1>1. /\ InLoop /\ cnr = cur /\ cnr' = Flip(cur)
        /\ ToCardLine(toCard', cnr', nr, nr, None)
        /\ ToHostLine(toHost, cur, cnr', nr, nr, out')
        /\ Avoids(toHost, Later(cur, nr))
    BY AcceptFacts
  <1>2. /\ nr \in {0, 1} /\ cur \in {0, 1} /\ cnr' \in {0, 1} /\ cnr' # cur
    BY <1>1, NumberTypes, FlipFacts
  <1>3. cur' = cur /\ InLoop' /\ nr' = nr /\ Pend' = None /\ Live' = out'
    BY <1>1, <1>2 DEF Pend, Live, cur, InLoop, hostVars
  <1>4. ASSUME ToHostLine(toHost', cur, cnr', nr, nr, out'), CardAgrees'
        PROVE  Synced'
    <2>1. LinesAgree'
      BY <1>1, <1>3, <1>4 DEF LinesAgree
    <2>2. Repeatable' /\ Outside'
      BY <1>3 DEF Synced, Repeatable, Outside, hostVars
    <2>3. Remade'
      BY <1>1, <1>3 DEF Synced, Progress, Remade, hostVars
    <2> QED BY <1>4, <2>1, <2>2, <2>3 DEF Synced, Progress
  <1>5. out' # None => out' \in Info(nr) /\ (out'.more <=> restOut' # << >>)
    OBVIOUS
  <1>6. due \in {RBlock(cnr'), out'}
    OBVIOUS
  <1>7. CASE Says(due)
    <2>1. PICK e : /\ toHost' = Append(toHost, e)
                   /\ \/ e = due /\ request' = None
                      \/ e \in Others \ IfsRequests /\ request' = e /\ held' = due
      BY <1>7 DEF Says
    <2>2. ToHostLine(toHost', cur, cnr', nr, nr, out')
      BY <1>1, <1>2, <2>1, ToHostAppend
    <2>3. request'.type # "IFSreq"
      BY <2>1, KindFacts DEF None, Garbled, IfsRequests, Others
    <2>4. CardAgrees'
      BY <1>3, <1>5, <1>6, <2>1, <2>3 DEF CardAgrees
    <2> QED BY <1>4, <2>2, <2>4
  <1>8. CASE AsksIfs(due)
    <2>1. PICK e \in IfsRequests : toHost' = Append(toHost, e) /\ request' = e /\ held' = due
      BY <1>8 DEF AsksIfs
    <2>2. /\ ToHostLine(toHost', cur, cnr', nr, nr, out')
          /\ Avoids(toHost', Later(cur, nr))
      BY <1>1, <1>2, <2>1, ToHostAppendIfs
    <2>3. request' \in Others
      BY <2>1, KindFacts
    <2>4. CardAgrees'
      BY <1>2, <1>3, <1>5, <1>6, <2>1, <2>2, <2>3 DEF CardAgrees
    <2> QED BY <1>4, <2>2, <2>4
  <1> QED BY <1>7, <1>8

(* It takes an I-block of a chain and asks for the next.                   *)
LEMMA AcceptMoreSync ==
  ASSUME ~IfsAnyTime, IInv, Synced, CardIBlockMore, UNCHANGED <<hostVars, serial>>
  PROVE  Synced'
  <1>1. /\ AcceptsIBlock /\ Incoming.more /\ cmdIn' = cmdIn \o Incoming.data
        /\ cns' = IF out # None THEN Flip(cns) ELSE cns
        /\ out' = None /\ executed' = executed
        /\ AnswerOrAsk(RBlock(Flip(cnr)), TRUE) /\ cnr' = Flip(cnr)
    BY DEF CardIBlockMore, AcceptsIBlock
  <1>2. /\ InLoop /\ cnr = cur /\ cnr' = Flip(cur) /\ more
        /\ cmdIn' = SubSeq(cmd, 1, sendptr) /\ cns' = nr
        /\ rsp = << >> /\ Before(serial)
    BY <1>1, AcceptFacts
  <1>3. /\ nr \in {0, 1} /\ cur \in {0, 1} /\ cnr' \in {0, 1} /\ cnr' # cur
    BY <1>2, NumberTypes, FlipFacts
  <1>4. Says(RBlock(cnr')) \/ AsksIfs(RBlock(cnr'))
    BY <1>1, SaysOrAsks
  <1>5. RBlock(cnr') # None
    BY <1>3, KindFacts DEF None
  <1>6. cur' = cur /\ InLoop'
    BY <1>2 DEF cur, InLoop, hostVars
  <1>7. Sending' /\ Responding'
    BY <1>1, <1>2, <1>3, <1>6 DEF Sending, Responding, Settled, Before, hostVars
  <1>8. History'
    BY <1>1 DEF Synced, History, OfSerial, OwnAnswer, Through, InOrder, hostVars
  <1> QED BY <1>1, <1>2, <1>4, <1>5, <1>7, <1>8, AcceptSync

(* A command is known by its number.                                       *)
LEMMA AnsweredCommand ==
  ASSUME NEW n \in 1..Len(CmdLens)
  PROVE  Answered(Command(n)) = n
  <1>1. CmdLens \in Seq(Nat \ {0})
    BY CardAssumption
  <1>2. n \in DOMAIN CmdLens
    BY <1>1
  <1>3. Command(n) \in Wholes
    BY <1>2 DEF Wholes
  <1>4. Command(n)[1][1] = n
    BY CommandType
  <1> QED BY <1>3, <1>4 DEF Answered

(* A command executed after all before it.                                 *)
LEMMA ExecuteNext ==
  ASSUME IInv, pc # "idle", OfSerial, Before(serial), executed' = Append(executed, cmd),
         UNCHANGED <<pc, cmd, serial, ret>>
  PROVE  OfSerial'
  <1>1. executed \in Seq(Seq(Byte)) /\ cmd \in Seq(Byte)
    BY DEF IInv, TypeOK, CardTypeOK, HostTypeOK
  <1>2. serial \in 1..Len(CmdLens) /\ cmd = Command(serial)
    BY DEF OfSerial
  <1>3. CmdLens \in Seq(Nat \ {0})
    BY CardAssumption
  <1>4. Len(CmdLens) \in Nat /\ serial \in Nat
    BY <1>2, <1>3
  <1>5. \A i \in DOMAIN executed' : \/ executed'[i] = cmd /\ i = Len(executed) + 1
                                    \/ i \in DOMAIN executed /\ executed'[i] = executed[i]
    BY <1>1
  <1>6. Through(serial)'
    <2>1. Through(serial)
      BY DEF OfSerial
    <2>2. serial \in 1..serial
      BY <1>2, <1>4
    <2> QED BY <1>2, <1>5, <2>1, <2>2 DEF Through
  <1>7. InOrder'
    <2> SUFFICES ASSUME NEW i \in DOMAIN executed', NEW j \in DOMAIN executed', i < j
                 PROVE  Answered(executed'[i]) < Answered(executed'[j])
      BY DEF InOrder
    <2>1. i \in DOMAIN executed /\ executed'[i] = executed[i]
      BY <1>1, <1>5
    <2>2. CASE j \in DOMAIN executed /\ executed'[j] = executed[j]
      BY <2>1, <2>2 DEF OfSerial, InOrder
    <2>3. CASE executed'[j] = cmd
      <3>1. PICK k \in 1..serial : k < serial /\ executed[i] = Command(k)
        BY <2>1 DEF Before
      <3>2. k \in 1..Len(CmdLens)
        BY <1>2, <1>4
      <3>3. Answered(executed[i]) = k /\ Answered(cmd) = serial
        BY <1>2, <3>1, <3>2, AnsweredCommand
      <3> QED BY <2>1, <2>3, <3>1, <3>3
    <2> QED BY <1>5, <2>2, <2>3
  <1> QED BY <1>6, <1>7 DEF OfSerial

(* It takes the last I-block, executes the command and answers.            *)
LEMMA AcceptLastSync ==
  ASSUME ~IfsAnyTime, IInv, Synced, CardIBlockLast, UNCHANGED <<hostVars, serial>>
  PROVE  Synced'
  <1> DEFINE whole == cmdIn \o Incoming.data
             n == IF out # None THEN Flip(cns) ELSE cns
  <1>1. /\ AcceptsIBlock /\ ~Incoming.more /\ cmdIn' = << >>
        /\ executed' = Append(executed, whole) /\ cns' = n
    BY DEF CardIBlockLast
  <1>2. PICK len \in RspLens :
           /\ out' = Outgoing(n, Response(whole, len))
           /\ restOut' = OtherPart(Response(whole, len))
           /\ AnswerOrAsk(Outgoing(n, Response(whole, len)), TRUE)
    BY DEF CardIBlockLast
  <1>3. /\ InLoop /\ cnr = cur /\ cnr' = Flip(cur) /\ ~more
        /\ whole = SubSeq(cmd, 1, sendptr) /\ n = nr
        /\ rsp = << >> /\ Before(serial)
    BY <1>1, AcceptFacts
  <1>4. /\ nr \in {0, 1} /\ cur \in {0, 1} /\ cnr' \in {0, 1} /\ cnr' # cur
    BY <1>3, NumberTypes, FlipFacts
  <1>5. whole = cmd
    <2>1. sendptr = Len(cmd)
      BY <1>3 DEF Synced, Progress, Remade
    <2>2. cmd \in Seq(Byte)
      BY DEF IInv, HostInv, HostTypeOK
    <2> QED BY <1>3, <2>1, <2>2
  <1> DEFINE bytes == Response(cmd, len)
  <1>6. bytes \in Seq(Byte)
    BY ResponseType
  <1>7. /\ out' = Outgoing(nr, bytes) /\ restOut' = OtherPart(bytes)
        /\ AnswerOrAsk(Outgoing(nr, bytes), TRUE)
        /\ executed' = Append(executed, cmd) /\ cns' = nr
    BY <1>1, <1>2, <1>3, <1>5
  <1>8. bytes = Response(cmd, len)
    OBVIOUS
  <1> HIDE DEF whole, n, bytes
  <1>9. /\ out' \in Info(nr) /\ (out'.more <=> restOut' # << >>)
        /\ out'.data \o restOut' = bytes
        /\ out'.data \in Seq(Byte) /\ restOut' \in Seq(Byte)
    BY <1>4, <1>6, <1>7, PartsJoin
  <1>10. out' # None
    BY <1>4, <1>9, KindFacts DEF None
  <1>11. Says(out') \/ AsksIfs(out')
    BY <1>7, SaysOrAsks
  <1>12. cur' = cur /\ InLoop' /\ rsp' = << >> /\ cmd' = cmd /\ more' = more /\ nr' = nr
    BY <1>3 DEF cur, InLoop, hostVars
  <1>13. Sending'
    BY <1>3, <1>4, <1>12 DEF Sending
  <1>14. executed' # << >> /\ executed'[Len(executed')] = cmd
    <2>1. executed \in Seq(Seq(Byte)) /\ cmd \in Seq(Byte)
      BY DEF IInv, TypeOK, CardTypeOK, HostTypeOK
    <2> QED BY <1>7, <2>1
  <1>15. Responding'
    <2>1. (<< >> \o out'.data) \o restOut' = bytes
      <3>1. << >> \o out'.data = out'.data
        BY <1>9
      <3> QED BY <1>9, <3>1
    <2>2. \E l \in RspLens : (rsp' \o out'.data) \o restOut' = Response(cmd', l)
      BY <1>8, <1>12, <2>1
    <2>3. cns' = nr' /\ cmdIn' = << >> /\ executed' # << >> /\ executed'[Len(executed')] = cmd'
      BY <1>1, <1>7, <1>12, <1>14
    <2> QED BY <1>10, <2>2, <2>3 DEF Responding
  <1>16. History'
    <2>1. pc # "idle" /\ ret = "busy" /\ OfSerial
      BY <1>3 DEF Synced, History, OfSerial, InLoop
    <2>2. UNCHANGED <<pc, cmd, serial, ret>>
      BY DEF hostVars
    <2>3. OfSerial'
      BY <1>3, <1>7, <2>1, <2>2, ExecuteNext
    <2>4. OwnAnswer'
      BY <2>1, <2>2 DEF OwnAnswer
    <2> QED BY <2>3, <2>4 DEF History
  <1> QED BY <1>1, <1>7, <1>9, <1>10, <1>11, <1>13, <1>15, <1>16, AcceptSync

-------------------------------------------------------------------------------
(* Both ends stay together until a command fails, and are together again   *)
(* after a reset.                                                          *)
SyncInv == clean => Synced

LEMMA SyncInit == Init => SyncInv
  <1>1. Init => NewSession
    BY DEF Init, T1Init, CardInit, NewSession
  <1> QED BY <1>1, NewSync DEF SyncInv

(* A pass of the loop of scT1SendCmd.                                      *)
LEMMA HostSync ==
  ASSUME IInv, Synced, ReceiveOne \/ NothingRead, pc' = "idle" => ret' = "OK",
         UNCHANGED <<cardVars, executed, serial>>
  PROVE  Synced'
  <1>1. ASSUME NEW r \in ErrorCodes, NEW unread, Finish(r, unread)
        PROVE  FALSE
    BY <1>1 DEF Finish, ErrorCodes
  <1>2. ~IfsdIoError /\ ~AbortIoError /\ ~AbortDone /\ ~RBlockTooMany /\ ~RBlockUnexpected
        /\ ~IBlockTooLong
    BY <1>1 DEF IfsdIoError, AbortIoError, AbortDone, RBlockTooMany, RBlockUnexpected,
                IBlockTooLong, ErrorCodes
  <1>3. CASE IoError
    <2>1. pc' # "idle"
      BY <1>1, <1>3 DEF IoError, ErrorCodes
    <2> QED BY <1>3, <2>1, TimeoutSync
  <1>4. CASE RcError
    <2>1. pc' # "idle"
      BY <1>1, <1>4 DEF RcError, ErrorCodes
    <2> QED BY <1>4, <2>1, RcErrorSync
  <1>5. CASE SIfs \/ SAbort \/ SWtx
    <2>1. pc' # "idle"
      BY <1>1, <1>5 DEF SIfs, SAbort, SWtx, Reads, ErrorCodes
    <2> QED BY <1>5, <2>1, SBlockSync
  <1>6. CASE IBlockLast
    <2>1. pc' = "idle"
      BY <1>6 DEF IBlockLast, Finish
    <2> QED BY <1>6, <2>1, LastSync
  <1> QED BY <1>2, <1>3, <1>4, <1>5, <1>6, IfsdSync, WhileReceivingSync, ResendSync, NextSync,
             MoreSync, SOtherSync
          DEF ReceiveOne, NothingRead

(* A step of the card.                                                     *)
LEMMA CardSync ==
  ASSUME ~IfsAnyTime, IInv, Synced, CardStep, UNCHANGED <<hostVars, serial>>
  PROVE  Synced'
  BY CardAgainSync, ContinueSync, AwaitSync, AcceptMoreSync, AcceptLastSync DEF CardStep

(* Every step of the session.                                              *)
LEMMA SyncStep ==
  ASSUME ~IfsAnyTime, IInv, SyncInv, [Next]_vars
  PROVE  SyncInv'
  <1> SUFFICES ASSUME clean' PROVE Synced'
    BY DEF SyncInv
  <1>1. CASE AppSend
    BY <1>1, SendSync DEF SyncInv, AppSend
  <1>2. CASE AppRefused \/ AppIdentify
    BY <1>2, AsideSync DEF SyncInv, AppRefused, AppIdentify, sessionVars
  <1>3. CASE AppReset
    BY <1>3, ResetSync
  <1>4. CASE AppResetFails
    BY <1>4 DEF AppResetFails
  <1>5. CASE HostReceives
    BY <1>5, HostSync DEF SyncInv, HostReceives, NoteFailure
  <1>6. CASE HostTimeout
    BY <1>6, HostSync DEF SyncInv, HostTimeout, NoteFailure
  <1>7. CASE CardMoves
    BY <1>7, CardSync DEF SyncInv, CardMoves, sessionVars
  <1>8. CASE LineFails
    BY <1>8, FaultSync DEF SyncInv, LineFails, sessionVars
  <1>9. CASE UNCHANGED vars
    <2>1. Synced /\ UNCHANGED <<hostVars, cardVars, lineVars, executed, serial>>
      BY <1>9 DEF vars, SyncInv
    <2>2. LinesAgree' /\ Repeatable' /\ CardAgrees'
      BY <2>1 DEF Synced, LinesAgree, Repeatable, CardAgrees, Pend, Pending, Live, cur, InLoop,
                  hostVars, cardVars, lineVars
    <2>3. Progress'
      BY <2>1 DEF Synced, Progress, Outside, Sending, Responding, Remade, Settled, Before,
                  cur, InLoop, hostVars, cardVars, lineVars
    <2>4. History'
      BY <2>1 DEF Synced, History, OfSerial, OwnAnswer, Through, InOrder, hostVars
    <2> QED BY <2>2, <2>3, <2>4 DEF Synced
  <1> QED BY <1>1, <1>2, <1>3, <1>4, <1>5, <1>6, <1>7, <1>8, <1>9 DEF Next

(* Until a command fails both ends of the session agree in all that Synced *)
(* says.  Assumed is that the card asks for another IFSC only when it has  *)
(* the whole command: the code does not bear another card (549, the        *)
(* finding of run t1_ifs).                                                 *)
THEOREM BothEnds ==
  ASSUME ~IfsAnyTime
  PROVE  Spec => []SyncInv
  <1>1. IInv /\ SyncInv /\ [Next]_vars => SyncInv'
    BY SyncStep
  <1> QED BY <1>1, SyncInit, Invariance, PTL DEF Spec

-------------------------------------------------------------------------------
(* What the card executes is a command of the application, with all its    *)
(* bytes in their order, however it was cut into I-blocks (451-458,        *)
(* 547-555) and whatever was lost, garbled, late or repeated.              *)
THEOREM WholeCommandsRun ==
  ASSUME ~IfsAnyTime
  PROVE  Spec => []ExecutesWholeCommands
  <1>1. IInv /\ SyncInv => ExecutesWholeCommands
    <2> SUFFICES ASSUME IInv, Synced, NEW i \in DOMAIN executed
                 PROVE  executed[i] \in Wholes
      BY DEF SyncInv, ExecutesWholeCommands
    <2>1. PICK k \in 1..serial : executed[i] = Command(k)
      BY DEF Synced, History, OfSerial, Through
    <2>2. CmdLens \in Seq(Nat \ {0})
      BY CardAssumption
    <2>3. Len(CmdLens) \in Nat /\ serial \in 0..Len(CmdLens)
      BY <2>2 DEF IInv, TypeOK
    <2>4. k \in DOMAIN CmdLens
      BY <2>2, <2>3
    <2> QED BY <2>1, <2>4 DEF Wholes
  <1> QED BY <1>1, Invariance, BothEnds, PTL

(* No command is executed twice and none out of order: an I-block is sent  *)
(* again only when the card has not taken it (528-558).                    *)
THEOREM CommandsRunOnce ==
  ASSUME ~IfsAnyTime
  PROVE  Spec => []ExecutesOnce
  <1>1. SyncInv => ExecutesOnce
    BY DEF SyncInv, ExecutesOnce, Synced, History, OfSerial, InOrder
  <1> QED BY <1>1, BothEnds, PTL

(* When scT1SendCmd reports success, the card has executed this command    *)
(* last and the response is the one it gave, put together from all         *)
(* I-blocks and cut only to what the caller wanted (593-645).              *)
THEOREM OkHasOwnAnswer ==
  ASSUME ~IfsAnyTime
  PROVE  Spec => []OkIsOwnAnswer
  <1>1. SyncInv => OkIsOwnAnswer
    BY DEF SyncInv, OkIsOwnAnswer, Synced, History, OwnAnswer
  <1> QED BY <1>1, BothEnds, PTL

(* Between commands N(S) and N(R) of the reader are those the card expects *)
(* (542, 572, 600, 615), as long as no command has failed.                 *)
THEOREM IdleInStep ==
  ASSUME ~IfsAnyTime
  PROVE  Spec => []InStepWhenIdle
  <1>1. IInv /\ SyncInv => InStepWhenIdle
    <2> SUFFICES ASSUME IInv, Synced, pc = "idle"
                 PROVE  ns = cnr /\ nr = IF out = None THEN cns ELSE Flip(cns)
      BY DEF SyncInv, InStepWhenIdle
    <2>1. ns = cnr /\ Settled
      BY DEF Synced, Progress, Outside, InLoop
    <2>2. out = None => cns = nr
      BY DEF Synced, CardAgrees
    <2>3. nr \in {0, 1} /\ cns \in {0, 1}
      BY NumberTypes
    <2> QED BY <2>1, <2>2, <2>3, FlipFacts DEF Settled
  <1> QED BY <1>1, Invariance, BothEnds, PTL

(* With an application that resets the card after a failure, the loop runs *)
(* only in a clean session.                                                *)
CleanLoop == ResetsAfterError /\ pc # "idle" => clean

LEMMA LoopIsClean == Spec => []CleanLoop
  <1>1. Init => CleanLoop
    BY DEF Init, CleanLoop
  <1>2. CleanLoop /\ [Next]_vars => CleanLoop'
    <2> SUFFICES ASSUME CleanLoop, [Next]_vars, ResetsAfterError, pc' # "idle"
                 PROVE  clean'
      BY DEF CleanLoop
    <2>1. CASE AppSend
      BY <2>1 DEF AppSend
    <2>2. CASE AppRefused \/ AppReset \/ AppResetFails \/ AppIdentify
      BY <2>2 DEF AppRefused, RefuseCmd, AppReset, ResetCard, AppResetFails, ResetFails,
                  AppIdentify, ProcessATR
    <2>3. CASE HostReceives
      <3>1. pc # "idle"
        BY <2>3 DEF HostReceives, ReceiveOne, IfsdDone, IfsdAgain, RcError, RBlockTooMany,
                    RBlockWhileReceiving, RBlockResend, RBlockNext, RBlockUnexpected,
                    IBlockWrongNumber, IBlockTooLong, IBlockMore, IBlockLast, IBlockFits, SIfs,
                    SAbort, AbortDone, SWtx, SOther, Reads
      <3> QED BY <2>3, <3>1 DEF HostReceives, NoteFailure, CleanLoop
    <2>4. CASE HostTimeout
      <3>1. pc # "idle"
        BY <2>4 DEF HostTimeout, NothingRead, IfsdIoError, IoError, AbortIoError
      <3> QED BY <2>4, <3>1 DEF HostTimeout, NoteFailure, CleanLoop
    <2>5. CASE CardMoves \/ LineFails \/ UNCHANGED vars
      BY <2>5 DEF CardMoves, LineFails, vars, hostVars, sessionVars, CleanLoop
    <2> QED BY <2>1, <2>2, <2>3, <2>4, <2>5 DEF Next
  <1> QED BY <1>1, <1>2, PTL DEF Spec

(* The flag `more` says at each pass of the loop whether bytes of the      *)
(* command are unsent (406, 452, 549), so the M-bit of a block that is     *)
(* sent again is right.  Assumed is also that the application resets the   *)
(* card after a failure.                                                   *)
THEOREM MoreSaysUnsent ==
  ASSUME ~IfsAnyTime, ResetsAfterError
  PROVE  Spec => []MoreMeansUnsent
  <1>1. SyncInv /\ CleanLoop => MoreMeansUnsent
    BY DEF SyncInv, CleanLoop, MoreMeansUnsent, Synced, Progress, Remade, InLoop
  <1> QED BY <1>1, BothEnds, LoopIsClean, PTL

-------------------------------------------------------------------------------
(***************************************************************************)
(* The session is a command channel.  After a failure the reader is silent *)
(* until the reset, but what it has written is still on the line and the   *)
(* card may read it: then it executes the command of the call that failed, *)
(* whole and once, or nothing.                                             *)
(***************************************************************************)

(* I-blocks that would make the card execute something else.               *)
Astray == {b \in Info(cnr) : /\ ~b.more
                             /\ ~ /\ cmdIn \o b.data = Command(serial)
                                  /\ serial \in 1..Len(CmdLens)
                                  /\ Before(serial)}

Leftover ==
    /\ toCard \in Seq(Numbered)
    /\ Precede(toCard, Info(Flip(cnr)), Info(cnr))
    /\ Avoids(toCard, Astray)
    /\ Through(serial)

(* In step nothing else is on the line than the I-block that is open.      *)
LEMMA SyncedLeftover ==
  ASSUME IInv, Synced
  PROVE  Leftover
  <1>1. ToCardLine(toCard, cnr, nr, cns, Pend)
    BY DEF Synced, LinesAgree
  <1>2. toCard \in Seq(Numbered) /\ Precede(toCard, Info(Flip(cnr)), Info(cnr))
        /\ Avoids(toCard, Info(cnr) \ {Pend})
    BY <1>1 DEF ToCardLine
  <1>3. Through(serial)
    BY DEF Synced, History, OfSerial
  <1>4. ASSUME Pend \in Info(cnr), ~Pend.more
        PROVE  /\ cmdIn \o Pend.data = Command(serial)
               /\ serial \in 1..Len(CmdLens) /\ Before(serial)
    <2>1. InLoop /\ cnr = cur /\ Pend = Pending
      BY <1>4 DEF Pend, None, Garbled, Info
    <2>2. ~more /\ Pend.data = SubSeq(cmd, sendptr - sendlen + 1, sendptr)
      BY <1>4, <2>1 DEF Pending, IBlock
    <2>3. cmdIn = SubSeq(cmd, 1, sendptr - sendlen) /\ Before(serial)
      BY <2>1 DEF Synced, Progress, Sending
    <2>4. sendptr = Len(cmd)
      BY <2>1, <2>2 DEF Synced, Progress, Remade
    <2>5. /\ cmd \in Seq(Byte) /\ sendptr \in Nat /\ sendlen \in Nat /\ sendlen <= sendptr
          /\ sendptr <= Len(cmd)
      BY DEF IInv, HostInv, HostTypeOK, BlockIsWindow
    <2> DEFINE from == sendptr - sendlen
    <2>6. from \in Nat /\ from <= sendptr
      BY <2>5
    <2>7. SubSeq(cmd, 1, from) \o SubSeq(cmd, from + 1, sendptr) = SubSeq(cmd, 1, sendptr)
      <3> HIDE DEF from
      <3> QED BY <2>5, <2>6, SubSeqJoin
    <2>8. SubSeq(cmd, 1, sendptr) = cmd
      BY <2>4, <2>5
    <2>9. cmd = Command(serial) /\ serial \in 1..Len(CmdLens)
      BY <2>1 DEF InLoop, Synced, History, OfSerial
    <2> QED BY <2>2, <2>3, <2>7, <2>8, <2>9
  <1>5. Astray \subseteq Info(cnr) \ {Pend}
    BY <1>4 DEF Astray
  <1>6. Avoids(toCard, Astray)
    BY <1>2, <1>5 DEF Avoids
  <1> QED BY <1>2, <1>3, <1>6 DEF Leftover

LEMMA LeftoverInStep == IInv /\ Synced => Leftover
  BY SyncedLeftover

(* Nothing changes but that the line gets thinner.                         *)
LEMMA LeftoverThin ==
  ASSUME IInv, Leftover, toCard' \in Seq(Numbered), Thinner(toCard', toCard),
         UNCHANGED <<cnr, cmdIn, serial, executed>>
  PROVE  Leftover'
  <1>1. cnr \in {0, 1} /\ Flip(cnr) \in {0, 1}
    BY NumberTypes, FlipFacts
  <1>2. Garbled \notin Info(cnr) /\ Garbled \notin Info(Flip(cnr))
    BY <1>1, KindFacts
  <1>3. Garbled \notin Astray
    BY <1>2 DEF Astray
  <1>4. Precede(toCard', Info(Flip(cnr)), Info(cnr)) /\ Avoids(toCard', Astray)
    BY <1>2, <1>3 DEF Leftover, Thinner
  <1>5. Astray' = Astray
    BY DEF Astray, Before
  <1> QED BY <1>4, <1>5 DEF Leftover, Through

(* The card takes an I-block that is left on the line.                     *)
LEMMA LeftoverTaken ==
  ASSUME IInv, Leftover, AcceptsIBlock
  PROVE  /\ toCard' \in Seq(Numbered) /\ Precede(toCard', Info(Flip(cnr')), Info(cnr'))
         /\ \A A : A \subseteq Info(cnr') => Avoids(toCard', A)
         /\ ~Incoming.more => /\ cmdIn \o Incoming.data = Command(serial)
                              /\ serial \in 1..Len(CmdLens) /\ Before(serial)
  <1>1. /\ toCard # << >> /\ toCard' = Tail(toCard) /\ Incoming.type = "I"
        /\ Incoming.n = cnr /\ cnr' = Flip(cnr) /\ Incoming = Head(toCard)
    BY DEF AcceptsIBlock, Takes, Incoming
  <1>2. /\ toCard \in Seq(Numbered) /\ Precede(toCard, Info(Flip(cnr)), Info(cnr))
        /\ Avoids(toCard, Astray)
    BY DEF Leftover
  <1>3. Incoming \in Block
    BY <1>1, <1>2, KindFacts
  <1>4. Incoming \in Info(cnr)
    BY <1>1, <1>3 DEF Info
  <1>5. Avoids(toCard', Info(Flip(cnr)))
    BY <1>1, <1>2, <1>4, HeadPrecedes
  <1>6. toCard' \in Seq(Numbered)
    BY <1>1, <1>2
  <1>7. Precede(toCard', Info(Flip(cnr')), Info(cnr'))
    BY <1>1, <1>5, AvoidsPrecede
  <1>8. \A A : A \subseteq Info(cnr') => Avoids(toCard', A)
    BY <1>1, <1>5 DEF Avoids
  <1>9. Incoming \notin Astray
    BY <1>1, <1>2, HeadAvoided
  <1>10. ~Incoming.more => /\ cmdIn \o Incoming.data = Command(serial)
                           /\ serial \in 1..Len(CmdLens) /\ Before(serial)
    BY <1>4, <1>9 DEF Astray
  <1> QED BY <1>6, <1>7, <1>8, <1>10

(* A command that is executed now is among the first `serial'.             *)
LEMMA ThroughNow ==
  ASSUME IInv, Through(serial), serial \in 1..Len(CmdLens),
         executed' = Append(executed, Command(serial)), serial' = serial
  PROVE  Through(serial)'
  <1>1. executed \in Seq(Seq(Byte)) /\ Command(serial) \in Seq(Byte)
    <2>1. serial \in DOMAIN CmdLens
      BY CardAssumption
    <2> QED BY <2>1, ByteAssumption DEF IInv, TypeOK, CardTypeOK
  <1>2. /\ DOMAIN executed' = 1..(Len(executed) + 1) /\ DOMAIN executed = 1..Len(executed)
        /\ \A i \in 1..Len(executed) : executed'[i] = executed[i]
        /\ executed'[Len(executed) + 1] = Command(serial) /\ Len(executed) \in Nat
    BY <1>1
  <1>3. \A i \in 1..(Len(executed) + 1) : i \in 1..Len(executed) \/ i = Len(executed) + 1
    BY <1>2
  <1>4. ASSUME NEW i \in DOMAIN executed'
        PROVE  \E k \in 1..serial : executed'[i] = Command(k)
    <2>1. CASE i \in 1..Len(executed)
      BY <1>2, <2>1 DEF Through
    <2>2. CASE i = Len(executed) + 1
      BY <1>2, <2>2
    <2> QED BY <1>2, <1>3, <1>4, <2>1, <2>2
  <1> QED BY <1>4 DEF Through

(* What the card does with what is left.                                   *)
LEMMA CardLeftover ==
  ASSUME IInv, Leftover, CardStep, serial' = serial
  PROVE  Leftover'
  <1>1. CASE AcceptsIBlock /\ (CardIBlockMore \/ CardIBlockLast)
    <2>1. Astray' \subseteq Info(cnr')
      BY DEF Astray
    <2>2. toCard' \in Seq(Numbered) /\ Precede(toCard', Info(Flip(cnr')), Info(cnr'))
          /\ Avoids(toCard', Astray')
      BY <1>1, <2>1, LeftoverTaken
    <2>3. Through(serial)'
      <3>1. CASE CardIBlockMore
        BY <3>1 DEF CardIBlockMore, Leftover, Through
      <3>2. CASE CardIBlockLast
        <4>1. ~Incoming.more /\ executed' = Append(executed, cmdIn \o Incoming.data)
          BY <3>2 DEF CardIBlockLast
        <4>2. executed' = Append(executed, Command(serial)) /\ serial \in 1..Len(CmdLens)
          BY <1>1, <4>1, LeftoverTaken
        <4> QED BY <4>2, ThroughNow DEF Leftover
      <3> QED BY <1>1, <3>1, <3>2
    <2> QED BY <2>2, <2>3 DEF Leftover
  <1>2. CASE ~(CardIBlockMore \/ CardIBlockLast)
    <2>1. /\ toCard # << >> /\ toCard' = Tail(toCard)
          /\ UNCHANGED <<cnr, cmdIn, executed>>
      BY <1>2 DEF CardStep, CardGarbled, CardRepeatsRequest, CardOddResponse, CardResponse, CardIfs,
             CardWrongIBlock, CardRepeats, CardContinues, CardAwaits, TakesRBlock, Takes, cardVars
    <2>2. toCard' \in Seq(Numbered) /\ Thinner(toCard', toCard)
      BY <2>1, TailThinner DEF Leftover
    <2> QED BY <2>1, <2>2, LeftoverThin
  <1> QED BY <1>1, <1>2 DEF CardIBlockMore, CardIBlockLast

(* What the line does with it.                                             *)
LEMMA LineLeftover ==
  ASSUME IInv, Leftover, LineFault, serial' = serial
  PROVE  Leftover'
  <1>1. toCard \in Seq(Numbered) /\ Garbled \in Numbered /\ \A q : Thinner(q, q)
    BY KindFacts DEF Leftover, Thinner
  <1>2. toCard' \in Seq(Numbered) /\ Thinner(toCard', toCard)
    BY <1>1, TailThinner, GarbledThinner
    DEF LineFault, GarbleToCard, GarbleToHost, LoseToCard, LoseToHost
  <1>3. UNCHANGED <<cnr, cmdIn, serial, executed>>
    BY DEF LineFault, GarbleToCard, GarbleToHost, LoseToCard, LoseToHost, cardVars
  <1> QED BY <1>2, <1>3, LeftoverThin

(* A call that fails writes nothing more (finish, 725-733).                *)
LEMMA FailureWritesNothing ==
  ASSUME ReceiveOne \/ NothingRead, pc' = "idle", ret' # "OK"
  PROVE  toCard' = toCard
  <1>1. pc # "idle" /\ pc' = "idle"
    BY DEF ReceiveOne, NothingRead, IfsdDone, IfsdAgain, RcError, RBlockTooMany,
           RBlockWhileReceiving, RBlockResend, RBlockNext, RBlockUnexpected, IBlockWrongNumber,
           IBlockTooLong, IBlockMore, IBlockLast, IBlockFits, SIfs, SAbort, AbortDone, SWtx,
           SOther, Reads, IfsdIoError, IoError, AbortIoError
  <1>2. CASE IfsdIoError \/ IoError \/ AbortIoError \/ AbortDone \/ RcError \/ RBlockTooMany
             \/ RBlockUnexpected \/ IBlockTooLong
    BY <1>1, <1>2 DEF IfsdIoError, IoError, AbortIoError, AbortDone, RcError, RBlockTooMany,
                      RBlockUnexpected, IBlockTooLong, Finish
  <1>3. CASE IBlockLast \/ SWtx
    BY <1>1, <1>3 DEF IBlockLast, SWtx, Finish
  <1>4. ~IfsdDone /\ ~IfsdAgain /\ ~RBlockWhileReceiving /\ ~RBlockResend /\ ~RBlockNext
        /\ ~IBlockWrongNumber /\ ~IBlockMore /\ ~SIfs /\ ~SAbort /\ ~SOther
    BY <1>1 DEF IfsdDone, IfsdAgain, RBlockWhileReceiving, RBlockResend, RBlockNext,
                IBlockWrongNumber, IBlockMore, SIfs, SAbort, SOther, Reads
  <1> QED BY <1>2, <1>3, <1>4 DEF ReceiveOne, NothingRead

(* Every step of the session, failed or not.                               *)
LEMMA LeftoverStep ==
  ASSUME ResetsAfterError, IInv, IInv', CleanLoop, SyncInv', Leftover, [Next]_vars
  PROVE  Leftover'
  <1>1. ASSUME clean' PROVE Leftover'
    <2>1. IInv' /\ Synced'
      BY <1>1 DEF SyncInv
    <2> QED BY <2>1, LeftoverInStep, PTL
  <1>2. ASSUME UNCHANGED <<toCard, cnr, cmdIn, serial, executed>> PROVE Leftover'
    BY <1>2 DEF Leftover, Astray, Through, Before
  <1>3. CASE AppSend
    <2>1. clean'
      BY <1>3 DEF AppSend
    <2> QED BY <1>1, <2>1
  <1>4. CASE AppRefused
    BY <1>2, <1>4 DEF AppRefused, RefuseCmd, cardVars, sessionVars
  <1>5. CASE AppReset
    BY <1>1, <1>5 DEF AppReset
  <1>6. CASE AppResetFails
    BY <1>2, <1>6 DEF AppResetFails, ResetFails, cardVars, lineVars
  <1>7. CASE AppIdentify
    BY <1>2, <1>7 DEF AppIdentify, ProcessATR, cardVars, lineVars
  <1>8. CASE HostReceives \/ HostTimeout
    <2>1. /\ ReceiveOne \/ NothingRead
          /\ NoteFailure /\ UNCHANGED <<cardVars, executed, serial>>
      BY <1>8 DEF HostReceives, HostTimeout
    <2>2. pc # "idle"
      BY <2>1 DEF ReceiveOne, NothingRead, IfsdDone, IfsdAgain, RcError, RBlockTooMany,
           RBlockWhileReceiving, RBlockResend, RBlockNext, RBlockUnexpected, IBlockWrongNumber,
           IBlockTooLong, IBlockMore, IBlockLast, IBlockFits, SIfs, SAbort, AbortDone, SWtx,
           SOther, Reads, IfsdIoError, IoError, AbortIoError
    <2>3. clean
      BY <2>2 DEF CleanLoop
    <2>4. CASE clean'
      BY <1>1, <2>4
    <2>5. CASE ~clean'
      <3>1. pc' = "idle" /\ ret' # "OK"
        BY <2>1, <2>3, <2>5 DEF NoteFailure
      <3>2. toCard' = toCard
        BY <2>1, <3>1, FailureWritesNothing
      <3> QED BY <1>2, <2>1, <3>2 DEF cardVars
    <2> QED BY <2>4, <2>5
  <1>9. CASE CardMoves
    BY <1>9, CardLeftover DEF CardMoves, sessionVars
  <1>10. CASE LineFails
    BY <1>10, LineLeftover DEF LineFails, sessionVars
  <1>11. CASE UNCHANGED vars
    BY <1>2, <1>11 DEF vars, cardVars, lineVars
  <1> QED BY <1>3, <1>4, <1>5, <1>6, <1>7, <1>8, <1>9, <1>10, <1>11 DEF Next

(* So after a failure, too, the card executes the command of that call or  *)
(* nothing.                                                                *)
LEMMA LeftoverStays ==
  ASSUME ~IfsAnyTime, ResetsAfterError
  PROVE  Spec => []Leftover
  <1>1. Init => Leftover
    <2>1. Init => IInv
      BY InitInv
    <2>2. Init => Synced
      BY SyncInit DEF SyncInv, Init
    <2> QED BY <2>1, <2>2, LeftoverInStep
  <1>2. IInv /\ IInv' /\ CleanLoop /\ SyncInv' /\ Leftover /\ [Next]_vars => Leftover'
    BY LeftoverStep
  <1> QED BY <1>1, <1>2, Invariance, LoopIsClean, BothEnds, PTL DEF Spec

-------------------------------------------------------------------------------
(* The variables of CommandChannel as the session shows them.              *)
ChanState == IF ~clean THEN "broken" ELSE IF pc = "idle" THEN "ready" ELSE "busy"
ChanPerformed == {Answered(executed[i]) : i \in DOMAIN executed}
ChanAnswer == IF ret = "OK" THEN 0 - apduRsp[1][1] ELSE 0

(* The actions of CommandChannel in these terms.                           *)
LEMMA ChannelViews ==
  /\ Channel!Send <=> /\ ChanState = "ready" /\ ChanState' = "busy" /\ serial' = serial + 1
                      /\ ChanAnswer' = 0 /\ ChanPerformed' = ChanPerformed
  /\ Channel!Perform <=> /\ ChanState \in {"busy", "broken"} /\ serial \notin ChanPerformed
                         /\ ChanPerformed' = ChanPerformed \cup {serial}
                         /\ ChanState' = ChanState /\ serial' = serial /\ ChanAnswer' = ChanAnswer
  /\ Channel!Succeed <=> /\ ChanState = "busy" /\ serial \in ChanPerformed /\ ChanState' = "ready"
                         /\ ChanAnswer' = serial /\ serial' = serial
                         /\ ChanPerformed' = ChanPerformed
  /\ Channel!Fail <=> /\ ChanState = "busy" /\ ChanState' = "broken" /\ serial' = serial
                      /\ ChanPerformed' = ChanPerformed /\ ChanAnswer' = ChanAnswer
  /\ Channel!Refuse <=> /\ ChanState # "busy" /\ ChanAnswer' = 0 /\ ChanState' = ChanState
                        /\ serial' = serial /\ ChanPerformed' = ChanPerformed
  /\ Channel!Reset <=> /\ ChanState # "busy" /\ ChanState' = "ready" /\ ChanPerformed' = {}
                       /\ ChanAnswer' = 0 /\ serial' = serial
  /\ Channel!ResetFails <=> /\ ChanState # "busy" /\ ChanState' = "broken" /\ ChanAnswer' = 0
                            /\ serial' = serial /\ ChanPerformed' = ChanPerformed
  /\ UNCHANGED Channel!chanVars <=> /\ ChanState' = ChanState /\ serial' = serial
                                    /\ ChanPerformed' = ChanPerformed /\ ChanAnswer' = ChanAnswer
  BY DEF ChanState, ChanPerformed, ChanAnswer, Channel!chanVars, Channel!Send, Channel!Perform,
         Channel!Succeed, Channel!Fail, Channel!Refuse, Channel!Reset, Channel!ResetFails

(* A call that has ended well, and what the channel says of it.            *)
EndedWell ==
    IInv /\ Synced /\ ret = "OK" /\ cmd = Command(serial) /\ serial \in 1..Len(CmdLens)
AnswersOwn == ChanAnswer = serial /\ serial \in ChanPerformed

(* An answer tells which command it answers, cut to the status word or     *)
(* not.                                                                    *)
LEMMA AnswerTells == EndedWell => AnswersOwn
  <1> SUFFICES ASSUME IInv, Synced, ret = "OK", cmd = Command(serial),
                      serial \in 1..Len(CmdLens)
               PROVE  ChanAnswer = serial /\ serial \in ChanPerformed
    BY DEF EndedWell, AnswersOwn
  <1>1. executed # << >> /\ executed[Len(executed)] = cmd
    BY DEF Synced, History, OwnAnswer
  <1>2. PICK len \in {l \in RspLens : l >= 2} :
           apduRsp = IF wantData THEN Response(cmd, len)
                     ELSE SubSeq(Response(cmd, len), len - 1, len)
    BY DEF Synced, History, OwnAnswer
  <1>3. Answered(cmd) = serial /\ serial \in Nat
    BY AnsweredCommand
  <1>4. len \in Nat /\ len >= 2
    BY CardAssumption
  <1>5. Response(cmd, len) = [k \in 1..len |-> <<0 - serial, k>>]
    BY <1>3 DEF Response
  <1>6. \E k \in 1..len : apduRsp[1] = <<0 - serial, k>>
    <2>1. CASE wantData
      <3>1. apduRsp[1] = <<0 - serial, 1>> /\ 1 \in 1..len
        BY <1>2, <1>4, <1>5, <2>1
      <3> QED BY <3>1
    <2>2. CASE ~wantData
      <3> DEFINE whole == [k \in 1..len |-> <<0 - serial, k>>]
      <3>1. /\ whole \in Seq(Int \X Int) /\ Len(whole) = len
            /\ \A k \in 1..len : whole[k] = <<0 - serial, k>>
        BY <1>3, <1>4
      <3>2. apduRsp = SubSeq(whole, len - 1, len) /\ len - 1 \in 1..len
        BY <1>2, <1>4, <1>5, <2>2
      <3> HIDE DEF whole
      <3>3. SubSeq(whole, len - 1, len)[1] = whole[len - 1]
        BY <1>4, <3>1, <3>2
      <3> QED BY <3>1, <3>2, <3>3
    <2> QED BY <2>1, <2>2
  <1>7. ChanAnswer = serial
    BY <1>3, <1>6 DEF ChanAnswer
  <1>8. serial \in ChanPerformed
    <2>1. executed \in Seq(Seq(Byte))
      BY DEF IInv, TypeOK, CardTypeOK
    <2>2. Len(executed) \in DOMAIN executed
      BY <1>1, <2>1
    <2> QED BY <1>1, <1>3, <2>2 DEF ChanPerformed
  <1> QED BY <1>7, <1>8

(* A pass of the loop is a stutter, or the end of the call: Succeed with   *)
(* the answer to this command, or Fail.                                    *)
LEMMA HostOnChannel ==
  ASSUME IInv, IInv', CleanLoop, SyncInv, SyncInv', ResetsAfterError,
         ReceiveOne \/ NothingRead, NoteFailure, UNCHANGED <<cardVars, executed, serial>>
  PROVE  Channel!Succeed \/ Channel!Fail \/ UNCHANGED Channel!chanVars
  <1>1. pc # "idle" /\ cmd' = cmd
    BY DEF ReceiveOne, NothingRead, IfsdDone, IfsdAgain, RcError, RBlockTooMany,
           RBlockWhileReceiving, RBlockResend, RBlockNext, RBlockUnexpected, IBlockWrongNumber,
           IBlockTooLong, IBlockMore, IBlockLast, IBlockFits, SIfs, SAbort, AbortDone, SWtx,
           SOther, Reads, IfsdIoError, IoError, AbortIoError, apduVars
  <1>2. clean /\ Synced
    BY <1>1 DEF CleanLoop, SyncInv
  <1>3. serial \in 1..Len(CmdLens) /\ cmd = Command(serial) /\ ret = "busy"
    BY <1>1, <1>2 DEF Synced, History, OfSerial
  <1>4. ChanState = "busy" /\ ChanAnswer = 0 /\ ChanPerformed' = ChanPerformed
    BY <1>1, <1>2, <1>3 DEF ChanState, ChanAnswer, ChanPerformed
  <1>5. CASE pc' # "idle"
    <2>1. clean'
      BY <1>2, <1>5 DEF NoteFailure
    <2>2. ret' = "busy"
      BY <1>5, <2>1 DEF SyncInv, Synced, History, OfSerial
    <2>3. ChanState' = "busy" /\ ChanAnswer' = 0
      BY <1>5, <2>1, <2>2 DEF ChanState, ChanAnswer
    <2> QED BY <1>4, <2>3, ChannelViews
  <1>6. CASE pc' = "idle" /\ ret' = "OK"
    <2>1. clean'
      BY <1>2, <1>6 DEF NoteFailure
    <2>2. EndedWell'
      BY <1>1, <1>3, <1>6, <2>1 DEF SyncInv, EndedWell
    <2>3. AnswersOwn'
      BY <2>2, AnswerTells, PTL
    <2>4. ChanState' = "ready"
      BY <1>6, <2>1 DEF ChanState
    <2> QED BY <1>4, <2>3, <2>4, ChannelViews DEF AnswersOwn
  <1>7. CASE pc' = "idle" /\ ret' # "OK"
    <2>1. ~clean'
      BY <1>7 DEF NoteFailure
    <2>2. ChanState' = "broken" /\ ChanAnswer' = 0
      BY <1>7, <2>1 DEF ChanState, ChanAnswer
    <2> QED BY <1>4, <2>2, ChannelViews
  <1> QED BY <1>5, <1>6, <1>7

(* A step of the card is Perform, if it executes the command.              *)
LEMMA CardOnChannel ==
  ASSUME IInv, SyncInv, Leftover, CardMoves
  PROVE  Channel!Perform \/ UNCHANGED Channel!chanVars
  <1>1. ChanState' = ChanState /\ serial' = serial /\ ChanAnswer' = ChanAnswer
    BY DEF CardMoves, ChanState, ChanAnswer, hostVars, sessionVars
  <1>2. CASE ~CardIBlockLast
    <2>1. executed' = executed
      BY <1>2 DEF CardMoves, CardStep, CardGarbled, CardRepeatsRequest, CardOddResponse,
                  CardResponse, CardIfs, CardWrongIBlock, CardIBlockMore, CardRepeats,
                  CardContinues, CardAwaits
    <2> QED BY <1>1, <2>1, ChannelViews DEF ChanPerformed
  <1>3. CASE CardIBlockLast
    <2>1. AcceptsIBlock /\ ~Incoming.more /\ executed' = Append(executed, cmdIn \o Incoming.data)
      BY <1>3 DEF CardIBlockLast
    <2>2. /\ executed' = Append(executed, Command(serial))
          /\ serial \in 1..Len(CmdLens) /\ Before(serial)
      BY <2>1, LeftoverTaken
    <2>3. ASSUME clean PROVE pc # "idle"
      <3>1. InLoop
        BY <2>1, <2>3, AcceptFacts DEF SyncInv
      <3> QED BY <3>1 DEF InLoop
    <2>4. ChanState \in {"busy", "broken"}
      BY <2>3 DEF ChanState
    <2>5. serial \notin ChanPerformed
      <3>1. ASSUME NEW i \in DOMAIN executed PROVE Answered(executed[i]) # serial
        <4>1. PICK k \in 1..serial : k < serial /\ executed[i] = Command(k)
          BY <2>2, <3>1 DEF Before
        <4>2. k \in 1..Len(CmdLens)
          BY <2>2, <4>1, CardAssumption
        <4> QED BY <4>1, <4>2, AnsweredCommand
      <3> QED BY <3>1 DEF ChanPerformed
    <2>6. ChanPerformed' = ChanPerformed \cup {serial}
      <3>1. Answered(Command(serial)) = serial
        BY <2>2, AnsweredCommand
      <3>2. executed \in Seq(Seq(Byte)) /\ Command(serial) \in Seq(Byte)
        <4>1. serial \in DOMAIN CmdLens
          BY <2>2, CardAssumption
        <4> QED BY <4>1, ByteAssumption DEF IInv, TypeOK, CardTypeOK
      <3>3. /\ DOMAIN executed' = 1..(Len(executed) + 1) /\ DOMAIN executed = 1..Len(executed)
            /\ \A i \in 1..Len(executed) : executed'[i] = executed[i]
            /\ executed'[Len(executed) + 1] = Command(serial) /\ Len(executed) \in Nat
        BY <2>2, <3>2
      <3>4. \A i \in 1..(Len(executed) + 1) : i \in 1..Len(executed) \/ i = Len(executed) + 1
        BY <3>3
      <3>5. \A i \in 1..Len(executed) : i \in 1..(Len(executed) + 1)
        BY <3>3
      <3>6. Len(executed) + 1 \in 1..(Len(executed) + 1)
        BY <3>3
      <3> QED BY <3>1, <3>3, <3>4, <3>5, <3>6 DEF ChanPerformed
    <2> QED BY <1>1, <2>4, <2>5, <2>6, ChannelViews
  <1> QED BY <1>2, <1>3

(* Every step is a step of the channel or a stutter.                       *)
LEMMA StepOnChannel ==
  ASSUME ResetsAfterError, IInv, IInv', CleanLoop, SyncInv, SyncInv', Leftover, [Next]_vars
  PROVE  [Channel!Next]_(Channel!chanVars)
  <1>1. CASE AppSend
    <2>1. /\ clean /\ clean' /\ pc = "idle" /\ pc' # "idle" /\ ret' = "busy"
          /\ serial' = serial + 1 /\ executed' = executed
      BY <1>1 DEF AppSend, SendCmd
    <2>2. /\ ChanState = "ready" /\ ChanState' = "busy" /\ ChanAnswer' = 0
          /\ ChanPerformed' = ChanPerformed
      BY <2>1 DEF ChanState, ChanAnswer, ChanPerformed
    <2> QED BY <2>1, <2>2, ChannelViews DEF Channel!Next
  <1>2. CASE AppRefused
    <2>1. /\ pc = "idle" /\ ret' # "OK" /\ pc' = pc /\ clean' = clean /\ serial' = serial
          /\ executed' = executed
      BY <1>2 DEF AppRefused, RefuseCmd, sessionVars
    <2>2. /\ ChanState # "busy" /\ ChanAnswer' = 0 /\ ChanState' = ChanState
          /\ ChanPerformed' = ChanPerformed
      BY <2>1 DEF ChanState, ChanAnswer, ChanPerformed
    <2> QED BY <2>1, <2>2, ChannelViews DEF Channel!Next
  <1>3. CASE AppReset
    <2>1. /\ pc = "idle" /\ ret' = "reset" /\ pc' = pc /\ clean' = TRUE /\ serial' = serial
          /\ executed' = << >>
      BY <1>3 DEF AppReset, ResetCard, CardReset
    <2>2. /\ ChanState # "busy" /\ ChanAnswer' = 0 /\ ChanState' = "ready" /\ ChanPerformed' = {}
      BY <2>1 DEF ChanState, ChanAnswer, ChanPerformed
    <2> QED BY <2>1, <2>2, ChannelViews DEF Channel!Next
  <1>4. CASE AppResetFails
    <2>1. /\ pc = "idle" /\ ret' = "IO_ERROR" /\ clean' = FALSE /\ serial' = serial
          /\ executed' = executed
      BY <1>4 DEF AppResetFails, ResetFails
    <2>2. /\ ChanState # "busy" /\ ChanAnswer' = 0 /\ ChanState' = "broken"
          /\ ChanPerformed' = ChanPerformed
      BY <2>1 DEF ChanState, ChanAnswer, ChanPerformed
    <2> QED BY <2>1, <2>2, ChannelViews DEF Channel!Next
  <1>5. CASE HostReceives \/ HostTimeout
    <2>1. /\ ReceiveOne \/ NothingRead
          /\ NoteFailure /\ UNCHANGED <<cardVars, executed, serial>>
      BY <1>5 DEF HostReceives, HostTimeout
    <2> QED BY <2>1, HostOnChannel DEF Channel!Next
  <1>6. CASE CardMoves
    BY <1>6, CardOnChannel DEF Channel!Next
  <1>7. CASE AppIdentify \/ LineFails \/ UNCHANGED vars
    <2>1. UNCHANGED <<pc, ret, apduRsp, clean, serial, executed>>
      BY <1>7 DEF AppIdentify, ProcessATR, LineFails, LineFault, GarbleToCard, GarbleToHost,
                  LoseToCard, LoseToHost, vars, hostVars, apduVars, sessionVars
    <2> QED BY <2>1, ChannelViews DEF ChanState, ChanAnswer, ChanPerformed
  <1> QED BY <1>1, <1>2, <1>3, <1>4, <1>5, <1>6, <1>7 DEF Next

(* The safety part of ImplementsChannel: a call of scT1SendCmd, with all   *)
(* its blocks, repetitions and late answers, is one command of             *)
(* CommandChannel, performed at most once, even after the call has failed, *)
(* and answered with its own answer.  Initial states map to initial states *)
(* and steps to steps or stutters.                                         *)
THEOREM KeepsChannel ==
  ASSUME ~IfsAnyTime, ResetsAfterError
  PROVE  Spec => Channel!Init /\ [][Channel!Next]_(Channel!chanVars)
  <1>1. Init => Channel!Init
    BY DEF Init, T1Init, CardInit, Channel!Init
  <1>2. IInv /\ IInv' /\ CleanLoop /\ SyncInv /\ SyncInv' /\ Leftover /\ [Next]_vars
          => [Channel!Next]_(Channel!chanVars)
    BY StepOnChannel
  <1> QED BY <1>1, <1>2, Invariance, LoopIsClean, BothEnds, LeftoverStays, PTL DEF Spec

-------------------------------------------------------------------------------
(***************************************************************************)
(* While no answer was late (lates = 0) the reader waits until the card    *)
(* has answered or all is lost, so one block at most is on its way.        *)
(***************************************************************************)
OneBlock == Len(toCard) + Len(toHost) <= 1
Alone == OneBlock /\ (pc = "idle" => toCard = << >> /\ toHost = << >>)
AloneInv == clean /\ lates = 0 => Alone

LEMMA OneOf ==
  ASSUME NEW S, NEW p \in Seq(S), NEW q \in Seq(S), Len(p) + Len(q) <= 1, p # << >>
  PROVE  Tail(p) = << >> /\ q = << >>
  <1>1. Len(p) \in Nat /\ Len(q) \in Nat
    OBVIOUS
  <1>2. Len(p) # 0
    OBVIOUS
  <1>3. \A a, b \in Nat : a + b <= 1 /\ a # 0 => a = 1 /\ b = 0
    OBVIOUS
  <1>4. Len(p) = 1 /\ Len(q) = 0
    BY <1>1, <1>2, <1>3
  <1>5. q = << >>
    BY <1>4
  <1>6. Tail(p) = << >>
    <2>1. Tail(p) \in Seq(S) /\ Len(Tail(p)) = 0
      BY <1>4
    <2> QED BY <2>1
  <1> QED BY <1>5, <1>6

(* What is written on an empty line is alone there.                        *)
LEMMA WriteAlone ==
  ASSUME toCard = << >>, NEW b, Write(b, << >>)
  PROVE  toCard' = <<block'>> /\ toHost' = << >> /\ block' = b
  <1>1. PICK k \in 0..Len(<< >>) : toHost' = SubSeq(<< >>, k + 1, Len(<< >>))
    BY DEF Write, DrainFrom
  <1>2. k = 0
    BY <1>1
  <1>3. toHost' = << >>
    BY <1>1, <1>2
  <1> QED BY <1>3 DEF Write

LEMMA MakeAlone ==
  ASSUME toCard = << >>, NEW p, NEW seq, NEW m, NEW n, MakeIBlock(p, seq, m, n, << >>)
  PROVE  toCard' = <<block'>> /\ toHost' = << >>
  BY WriteAlone DEF MakeIBlock

(* A pass of the loop takes the block from the line and writes another, or *)
(* the call ends.                                                          *)
HostWrites ==
    /\ toHost' = << >>
    /\ toCard' = IF pc' = "idle" THEN << >> ELSE <<block'>>

LEMMA ReadAlone ==
  ASSUME IInv, OneBlock, ReceiveOne
  PROVE  HostWrites /\ toHost # << >> /\ pc # "idle"
  <1>1. pc # "idle" /\ toHost # << >>
    BY DEF ReceiveOne, IfsdDone, IfsdAgain, RcError, RBlockTooMany,
           RBlockWhileReceiving, RBlockResend, RBlockNext, RBlockUnexpected, IBlockWrongNumber,
           IBlockTooLong, IBlockMore, IBlockLast, IBlockFits, SIfs, SAbort, AbortDone, SWtx,
           SOther, Reads
  <1>2. toCard = << >> /\ Unread = << >>
    <2>1. toHost \in Seq(Block) /\ toCard \in Seq(Block)
      BY DEF IInv, TypeOK, HostTypeOK
    <2>2. Len(toHost) + Len(toCard) <= 1
      BY <2>1 DEF OneBlock
    <2> QED BY <1>1, <2>1, <2>2, OneOf DEF Unread
  <1>3. ASSUME NEW b, Write(b, Unread), pc' # "idle" PROVE HostWrites
    BY <1>2, <1>3, WriteAlone DEF HostWrites
  <1>5. ASSUME NEW r, Finish(r, Unread) PROVE HostWrites
    BY <1>2, <1>5 DEF Finish, HostWrites
  <1>6. CASE IfsdDone \/ RBlockResend \/ RBlockNext
    <2>1. pc' # "idle" /\ \E b : Write(b, Unread)
      BY <1>1, <1>6 DEF IfsdDone, RBlockResend, RBlockNext, MakeIBlock
    <2> QED BY <1>1, <1>3, <2>1
  <1>7. CASE IfsdAgain \/ RBlockWhileReceiving \/ IBlockWrongNumber \/ SIfs \/ SOther
    BY <1>1, <1>3, <1>7 DEF IfsdAgain, RBlockWhileReceiving, IBlockWrongNumber, SIfs, SOther
  <1>8. CASE IBlockMore \/ SAbort
    <2>1. pc' # "idle" /\ \E b : Write(b, Unread)
      BY <1>1, <1>8 DEF IBlockMore, SAbort
    <2> QED BY <1>1, <1>3, <2>1
  <1>9. CASE RcError
    BY <1>1, <1>3, <1>5, <1>9 DEF RcError
  <1>10. CASE SWtx
    <2>1. \/ pc' = pc /\ Write(SBlock("WTXrsp", GetParam(Received)), Unread)
          \/ \E r \in ErrorCodes : Finish(r, Unread)
      BY <1>10 DEF SWtx, ErrorCodes
    <2> QED BY <1>1, <1>3, <1>5, <2>1
  <1>11. CASE RBlockTooMany \/ RBlockUnexpected \/ IBlockTooLong \/ AbortDone
    BY <1>1, <1>2, <1>11 DEF RBlockTooMany, RBlockUnexpected, IBlockTooLong, AbortDone, Finish, HostWrites
  <1>12. CASE IBlockLast
    BY <1>1, <1>2, <1>12 DEF IBlockLast, Finish, HostWrites
  <1> QED BY <1>1, <1>6, <1>7, <1>8, <1>9, <1>10, <1>11, <1>12 DEF ReceiveOne

LEMMA TimeoutAlone ==
  ASSUME lates' = 0, IInv, HostTimeout
  PROVE  HostWrites /\ toCard = << >> /\ toHost = << >> /\ pc # "idle"
  <1>1. toCard = << >> /\ toHost = << >>
    <2>1. lates \in Nat
      BY DEF IInv, TypeOK
    <2> QED BY <2>1 DEF HostTimeout
  <1>2. pc # "idle"
    BY DEF HostTimeout, NothingRead, IfsdIoError, IoError, AbortIoError
  <1>4. ASSUME Write(RBlock(nr), toHost), pc' = pc PROVE HostWrites
    BY <1>1, <1>2, <1>4, WriteAlone DEF HostWrites
  <1>5. CASE IoError
    BY <1>1, <1>2, <1>4, <1>5 DEF IoError, Finish, HostWrites
  <1>6. CASE IfsdIoError \/ AbortIoError
    BY <1>1, <1>6 DEF IfsdIoError, AbortIoError, Finish, HostWrites
  <1> QED BY <1>1, <1>2, <1>5, <1>6 DEF HostTimeout, NothingRead

LEMMA SendAlone ==
  ASSUME AppSend, toCard = << >>, toHost = << >>
  PROVE  HostWrites /\ pc' # "idle"
  <1>1. PICK d \in BOOLEAN : SendCmd(Command(serial + 1), d)
    BY DEF AppSend
  <1> DEFINE yes == TRUE
  <1>2. \/ pc' = "xfer" /\ MakeIBlock(0, Command(serial + 1), yes, ns, toHost)
        \/ pc' = "ifsd" /\ Write(SBlock("IFSreq", 254), toHost)
    BY <1>1 DEF SendCmd
  <1> HIDE DEF yes
  <1> QED BY <1>2, WriteAlone, MakeAlone DEF HostWrites

(* The card takes the block and answers with another.                      *)
LEMMA CardAlone ==
  ASSUME IInv, OneBlock, CardStep
  PROVE  toCard # << >> /\ toCard' = << >> /\ toHost = << >> /\ Len(toHost') = 1
  <1>1. toCard # << >> /\ toCard' = Tail(toCard) /\ \E e : toHost' = Append(toHost, e)
    BY DEF CardStep, CardGarbled, CardRepeatsRequest, CardOddResponse, CardResponse, CardIfs,
           CardWrongIBlock, CardIBlockMore, CardIBlockLast, CardRepeats, CardContinues, CardAwaits,
           AcceptsIBlock, TakesRBlock, Takes, AnswerOrAsk, Answer, Ask
  <1>2. Tail(toCard) = << >> /\ toHost = << >>
    <2>1. toHost \in Seq(Block) /\ toCard \in Seq(Block)
      BY DEF IInv, TypeOK, HostTypeOK
    <2> QED BY <1>1, <2>1, OneOf DEF OneBlock
  <1>3. Len(toHost') = 1
    BY <1>1, <1>2
  <1> QED BY <1>1, <1>2, <1>3

(* The line spoils the block or loses it.                                  *)
LEMMA FaultAlone ==
  ASSUME IInv, OneBlock, LineFault
  PROVE  /\ OneBlock'
         /\ toCard' # << >> => toCard # << >> /\ Incoming' \in {Incoming, Garbled}
         /\ toHost' # << >> => toHost # << >> /\ Received' \in {Received, Garbled}
         /\ UNCHANGED <<cardVars, executed>>
  <1>1. toHost \in Seq(Block) /\ toCard \in Seq(Block)
    BY DEF IInv, TypeOK, HostTypeOK
  <1>2. UNCHANGED <<cardVars, executed>>
    BY DEF LineFault, GarbleToCard, GarbleToHost, LoseToCard, LoseToHost
  <1>3. CASE toCard # << >>
    <2>1. Tail(toCard) = << >> /\ toHost = << >>
      BY <1>1, <1>3, OneOf DEF OneBlock
    <2>2. toHost' = << >> /\ (toCard' = << >> \/ toCard' = <<Garbled>>)
      <3>1. <<Garbled>> \o << >> = <<Garbled>>
        BY GarbledType
      <3> QED BY <1>3, <2>1, <3>1
              DEF LineFault, GarbleToCard, GarbleToHost, LoseToCard, LoseToHost
    <2>3. Len(<<Garbled>>) = 1 /\ Len(<< >>) = 0 /\ Head(<<Garbled>>) = Garbled
      OBVIOUS
    <2>4. OneBlock' /\ (toCard' # << >> => Incoming' = Garbled)
      <3>1. Incoming' = Head(toCard')
        BY DEF Incoming
      <3>2. CASE toCard' = << >>
        <4>1. Len(toHost') = 0 /\ Len(toCard') = 0
          BY <2>2, <2>3, <3>2
        <4> QED BY <3>2, <4>1 DEF OneBlock
      <3>3. CASE toCard' = <<Garbled>>
        <4>1. Len(toHost') = 0 /\ Len(toCard') = 1 /\ Incoming' = Garbled
          BY <2>2, <2>3, <3>1, <3>3
        <4> QED BY <4>1 DEF OneBlock
      <3> QED BY <2>2, <3>2, <3>3
    <2> QED BY <1>2, <1>3, <2>2, <2>4
  <1>4. CASE toHost # << >>
    <2>1. Tail(toHost) = << >> /\ toCard = << >>
      <3>1. Len(toHost) + Len(toCard) <= 1
        BY <1>1 DEF OneBlock
      <3> QED BY <1>1, <1>4, <3>1, OneOf
    <2>2. toCard' = << >> /\ (toHost' = << >> \/ toHost' = <<Garbled>>)
      <3>1. <<Garbled>> \o << >> = <<Garbled>>
        BY GarbledType
      <3> QED BY <1>4, <2>1, <3>1
              DEF LineFault, GarbleToCard, GarbleToHost, LoseToCard, LoseToHost
    <2> QED BY <1>2, <1>4, <2>2 DEF OneBlock, Received
  <1>5. CASE toCard = << >> /\ toHost = << >>
    BY <1>5 DEF LineFault, GarbleToCard, GarbleToHost, LoseToCard, LoseToHost
  <1> QED BY <1>3, <1>4, <1>5

LEMMA WrittenAlone ==
  ASSUME HostWrites
  PROVE  Alone'
  <1>1. Len(<< >>) = 0 /\ Len(<<block'>>) = 1
    OBVIOUS
  <1> QED BY <1>1 DEF HostWrites, Alone, OneBlock

(* An answer that was late is not forgotten.                               *)
LEMMA NoneLate ==
  ASSUME IInv, [Next]_vars, lates' = 0
  PROVE  lates = 0
  <1>1. lates \in Nat
    BY DEF IInv, TypeOK
  <1>2. lates' = lates \/ lates' = lates + 1
    BY DEF Next, AppSend, AppRefused, AppReset, AppResetFails, AppIdentify, HostReceives,
           HostTimeout, CardMoves, LineFails, sessionVars, vars
  <1> QED BY <1>1, <1>2

LEMMA AloneStep ==
  ASSUME IInv, AloneInv, [Next]_vars
  PROVE  AloneInv'
  <1> SUFFICES ASSUME clean', lates' = 0 PROVE Alone'
    BY DEF AloneInv
  <1>0. lates = 0
    BY NoneLate
  <1>1. Len(<< >>) = 0
    OBVIOUS
  <1>2. ASSUME UNCHANGED <<pc, toCard, toHost>>, clean PROVE Alone'
    BY <1>0, <1>2 DEF AloneInv, Alone, OneBlock
  <1>3. CASE AppSend
    <2>1. toCard = << >> /\ toHost = << >>
      BY <1>0, <1>3 DEF AppSend, SendCmd, AloneInv, Alone
    <2> QED BY <1>3, <2>1, SendAlone, WrittenAlone
  <1>4. CASE AppRefused
    <2>1. clean /\ pc = "idle" /\ UNCHANGED <<pc, toCard>>
      BY <1>4 DEF AppRefused, RefuseCmd, sessionVars
    <2>2. toCard = << >> /\ toHost = << >>
      BY <1>0, <2>1 DEF AloneInv, Alone
    <2>3. toHost' = << >>
      <3>1. CASE UNCHANGED toHost
        BY <2>2, <3>1
      <3>2. CASE DrainFrom(toHost)
        <4>1. PICK k \in 0..Len(<< >>) : toHost' = SubSeq(<< >>, k + 1, Len(<< >>))
          BY <2>2, <3>2 DEF DrainFrom
        <4>2. k = 0
          BY <4>1
        <4> QED BY <4>1, <4>2
      <3> QED BY <1>4, <3>1, <3>2 DEF AppRefused, RefuseCmd
    <2> QED BY <1>1, <2>1, <2>2, <2>3 DEF Alone, OneBlock
  <1>5. CASE AppReset
    BY <1>1, <1>5 DEF AppReset, ResetCard, Alone, OneBlock
  <1>6. CASE AppResetFails
    BY <1>6 DEF AppResetFails
  <1>7. CASE AppIdentify
    BY <1>2, <1>7 DEF AppIdentify, ProcessATR, lineVars
  <1>8. CASE HostReceives
    <2>1. OneBlock
      BY <1>0, <1>8 DEF HostReceives, NoteFailure, AloneInv, Alone
    <2> QED BY <1>8, <2>1, ReadAlone, WrittenAlone DEF HostReceives
  <1>9. CASE HostTimeout
    BY <1>9, TimeoutAlone, WrittenAlone
  <1>10. CASE CardMoves
    <2>1. Alone /\ CardStep /\ pc' = pc
      BY <1>0, <1>10 DEF CardMoves, sessionVars, hostVars, AloneInv
    <2>2. toCard # << >> /\ toCard' = << >> /\ Len(toHost') = 1
      BY <2>1, CardAlone DEF Alone
    <2> QED BY <1>1, <2>1, <2>2 DEF Alone, OneBlock
  <1>11. CASE LineFails
    <2>1. Alone /\ LineFault /\ pc' = pc
      BY <1>0, <1>11 DEF LineFails, sessionVars, hostVars, AloneInv
    <2> QED BY <2>1, FaultAlone DEF Alone
  <1>12. CASE UNCHANGED vars
    BY <1>2, <1>12 DEF vars, hostVars, lineVars
  <1> QED BY <1>3, <1>4, <1>5, <1>6, <1>7, <1>8, <1>9, <1>10, <1>11, <1>12 DEF Next

(* Without late answers one block at most is on its way.                   *)
LEMMA StaysAlone == Spec => []AloneInv
  <1>1. Init => AloneInv
    <2>1. Len(<< >>) = 0
      OBVIOUS
    <2> QED BY <2>1 DEF Init, T1Init, AloneInv, Alone, OneBlock
  <1>2. IInv /\ AloneInv /\ [Next]_vars => AloneInv'
    BY AloneStep
  <1> QED BY <1>1, <1>2, Invariance, PTL DEF Spec

-------------------------------------------------------------------------------
(* How long an I-block may be: the reader and the card agree on it, but    *)
(* while an S(IFS request) of the card is on its way or unanswered; then   *)
(* no I-block is under way to the card.                                    *)
CardHolds ==
    /\ out # None => out.type = "I"
    /\ request # None => request.type \in RequestTypes /\ held.type \in {"I", "R"}
    /\ request.type = "IFSreq" => request = SBlock("IFSreq", cifsc)

LengthsAgree ==
    /\ ~identified => pc = "idle" /\ cifsc = atrIfsc
    /\ identified /\ request.type # "IFSreq" => ifsc = cifsc
    /\ pc \in {"idle", "ifsd"} => request = None
    /\ pc = "ifsd" => block.type = "IFSreq"

CardGets ==
    toCard # << >> =>
       /\ Incoming.type = "I" => request = None /\ Len(Incoming.data) <= cifsc
       /\ Incoming.type = "IFSrsp" => ifsc = cifsc
       /\ Incoming.type = "IFSreq" => pc = "ifsd"
       /\ pc = "ifsd" => Incoming.type \in {"IFSreq", "bad"}

HostGets ==
    toHost # << >> =>
       /\ request # None => Received \in {request, Garbled}
       /\ Received.type = "IFSreq" => Received = request
       /\ InLoop => Received.type \notin ResponseTypes

Fits == CardHolds /\ LengthsAgree /\ CardGets /\ HostGets
FitInv == clean /\ lates = 0 => Fits

LEMMA MakeFits ==
  ASSUME NEW seq \in Seq(Byte), NEW p \in Nat, p <= Len(seq), ifsc \in Nat,
         NEW m, NEW n, NEW unread, MakeIBlock(p, seq, m, n, unread)
  PROVE  block'.type = "I" /\ Len(block'.data) <= ifsc
  <1> DEFINE left == Len(seq) - p
             len == IF left < ifsc THEN left ELSE ifsc
             mm == m /\ len # left
             data == SubSeq(seq, p + 1, p + len)
  <1>1. left \in Nat /\ len \in Nat /\ len <= left /\ len <= ifsc /\ left = Len(seq) - p
    OBVIOUS
  <1>2. block' = IBlock(n, mm, data)
    BY DEF MakeIBlock, Write
  <1>3. block'.type = "I" /\ block'.data = data
    <2> HIDE DEF mm, data
    <2> QED BY <1>2 DEF IBlock
  <1>4. Len(data) = len
    <2> HIDE DEF len, left
    <2>1. p + len <= Len(seq) /\ Len(seq) \in Nat
      BY <1>1
    <2> QED BY <1>1, <2>1
  <1> QED BY <1>1, <1>3, <1>4

(* The types of blocks, as far as they are needed here.                    *)
LEMMA TypesApart ==
  /\ \A n : RBlock(n).type = "R"
  /\ \A t, n : SBlock(t, n).type = t /\ SBlock(t, n).n = n
  /\ \A n, bytes : Outgoing(n, bytes).type = "I"
  /\ None.type = "bad" /\ None = Garbled
  BY DEF RBlock, SBlock, Outgoing, IBlock, None, Garbled

(* What the reader has written suits the card.                             *)
Suits ==
    /\ block.type = "I" => request = None /\ Len(block.data) <= cifsc
    /\ block.type = "IFSrsp" => ifsc = cifsc
    /\ block.type = "IFSreq" <=> pc = "ifsd"

LEMMA WrittenFits ==
  ASSUME HostWrites, pc' # "idle" => Suits'
  PROVE  CardGets' /\ HostGets'
  <1>1. Head(<<block'>>) = block'
    OBVIOUS
  <1>2. ASSUME toCard' # << >> PROVE Incoming' = block' /\ pc' # "idle"
    BY <1>1, <1>2 DEF HostWrites, Incoming
  <1> QED BY <1>2 DEF HostWrites, CardGets, HostGets, Suits

LEMMA HostFits ==
  ASSUME IInv, Fits, HostWrites, \/ ReceiveOne /\ toHost # << >>
                                 \/ NothingRead,
         pc # "idle", pc' = "idle" => ret' = "OK", UNCHANGED <<cardVars, identified, atrIfsc>>
  PROVE  Fits'
  <1>1. UNCHANGED <<request, held, out, cifsc, identified, atrIfsc>> /\ CardHolds' /\ identified
    BY DEF Fits, CardHolds, LengthsAgree, cardVars
  <1>2. ASSUME UNCHANGED ifsc, pc' = "xfer" \/ pc' = "abort", block'.type \in {"R", "ABORTrsp", "WTXrsp"}
        PROVE  Fits'
    <2>1. LengthsAgree'
      BY <1>1, <1>2 DEF Fits, LengthsAgree
    <2>2. Suits'
      BY <1>2 DEF Suits
    <2> QED BY <1>1, <2>1, <2>2, WrittenFits DEF Fits
  <1>3. ASSUME UNCHANGED ifsc, pc' = "xfer", block'.type = "I", Len(block'.data) <= ifsc, request = None
        PROVE  Fits'
    <2>1. ifsc = cifsc
      BY <1>1, <1>3, TypesApart DEF Fits, LengthsAgree
    <2>2. LengthsAgree'
      BY <1>1, <1>3 DEF Fits, LengthsAgree
    <2>3. Suits'
      BY <1>1, <1>3, <2>1 DEF Suits
    <2> QED BY <1>1, <2>2, <2>3, WrittenFits DEF Fits
  <1>4. /\ cmd \in Seq(Byte) /\ sendptr \in Nat /\ sendlen \in Nat /\ sendlen <= sendptr
        /\ sendptr <= Len(cmd) /\ ifsc \in Nat /\ 0 <= Len(cmd)
        /\ sendptr - sendlen \in Nat /\ sendptr - sendlen <= Len(cmd)
    BY DEF IInv, HostInv, HostTypeOK, BlockIsWindow
  <1>5. toHost # << >> /\ Received.type \in {"R", "I"} => request = None
    BY TypesApart DEF Fits, HostGets, CardHolds, RequestTypes
  <1>6. CASE IfsdDone
    <2>1. pc = "ifsd" /\ pc' = "xfer" /\ ifsc' = ifsc
      BY <1>6 DEF IfsdDone
    <2>2. request = None
      BY <2>1 DEF Fits, LengthsAgree
    <2>3. block'.type = "I" /\ Len(block'.data) <= ifsc
      BY <1>4, <1>6, MakeFits DEF IfsdDone
    <2> QED BY <1>3, <2>1, <2>2, <2>3
  <1>7. CASE IfsdAgain
    <2>1. pc = "ifsd" /\ pc' = pc /\ ifsc' = ifsc /\ block' = block
      BY <1>7 DEF IfsdAgain, t1Vars, Write
    <2>2. block.type = "IFSreq"
      BY <2>1 DEF Fits, LengthsAgree
    <2>3. LengthsAgree' /\ Suits'
      BY <1>1, <2>1, <2>2 DEF Fits, LengthsAgree, Suits
    <2> QED BY <1>1, <2>3, WrittenFits DEF Fits
  <1>8. CASE RBlockResend \/ RBlockNext
    <2>1. pc' = "xfer" /\ ifsc' = ifsc /\ Received.type = "R" /\ toHost # << >>
      BY <1>8 DEF RBlockResend, RBlockNext, Reads, t1Vars
    <2>2. block'.type = "I" /\ Len(block'.data) <= ifsc
      BY <1>4, <1>8, MakeFits DEF RBlockResend, RBlockNext
    <2> QED BY <1>3, <1>5, <2>1, <2>2
  <1>9. CASE RBlockWhileReceiving \/ IBlockWrongNumber \/ IBlockMore
    <2>1. pc' = "xfer" /\ ifsc' = ifsc /\ \E n : block' = RBlock(n)
      BY <1>9 DEF RBlockWhileReceiving, IBlockWrongNumber, IBlockMore, IBlockFits, Reads, Write, t1Vars
    <2> QED BY <1>2, <2>1, TypesApart
  <1>10. CASE (RcError \/ IoError) /\ pc' # "idle"
    <2>1. pc' = "xfer" /\ ifsc' = ifsc /\ block' = RBlock(nr)
      BY <1>10 DEF RcError, IoError, Write, Finish, t1Vars
    <2> QED BY <1>2, <2>1, TypesApart
  <1>11. CASE SIfs
    <2>1. pc' = "xfer" /\ toHost # << >> /\ Received.type = "IFSreq" /\ ifsc' = Received.n
          /\ block' = SBlock("IFSrsp", Received.n)
      BY <1>11 DEF SIfs, Reads, Write, GetParam
    <2>2. Received = request /\ request = SBlock("IFSreq", cifsc)
      BY <2>1 DEF Fits, HostGets, CardHolds
    <2>3. ifsc' = cifsc /\ block'.type = "IFSrsp"
      BY <2>1, <2>2, TypesApart
    <2>4. LengthsAgree' /\ Suits'
      BY <1>1, <2>1, <2>3 DEF LengthsAgree, Suits
    <2> QED BY <1>1, <2>4, WrittenFits DEF Fits
  <1>12. CASE SAbort
    <2>1. pc' = "abort" /\ ifsc' = ifsc /\ \E n : block' = SBlock("ABORTrsp", n)
      BY <1>12 DEF SAbort, Write, t1Vars
    <2> QED BY <1>2, <2>1, TypesApart
  <1>13. CASE SWtx /\ pc' # "idle"
    <2>1. pc' = "xfer" /\ ifsc' = ifsc /\ \E n : block' = SBlock("WTXrsp", n)
      BY <1>13 DEF SWtx, Reads, Write, Finish, t1Vars
    <2> QED BY <1>2, <2>1, TypesApart
  <1>14. ~SOther
    BY DEF SOther, Reads, Fits, HostGets, InLoop
  <1>15. CASE IBlockLast
    <2>1. pc' = "idle" /\ ifsc' = ifsc /\ Received.type = "I" /\ toHost # << >>
      BY <1>15 DEF IBlockLast, IBlockFits, Reads, Finish
    <2>2. LengthsAgree'
      BY <1>1, <1>5, <2>1 DEF Fits, LengthsAgree
    <2> QED BY <1>1, <2>1, <2>2, WrittenFits DEF Fits
  <1>16. ASSUME NEW r \in ErrorCodes, NEW unread, Finish(r, unread)
         PROVE FALSE
    BY <1>16 DEF Finish, ErrorCodes
  <1>17. ~IfsdIoError /\ ~AbortIoError /\ ~AbortDone /\ ~RBlockTooMany /\ ~RBlockUnexpected
         /\ ~IBlockTooLong
    BY <1>16 DEF IfsdIoError, AbortIoError, AbortDone, RBlockTooMany, RBlockUnexpected,
                 IBlockTooLong, ErrorCodes
  <1>18. (RcError => pc' # "idle") /\ (IoError => pc' # "idle") /\ (SWtx => pc' # "idle")
    BY <1>16 DEF RcError, IoError, SWtx, Reads, ErrorCodes
  <1> QED BY <1>6, <1>7, <1>8, <1>9, <1>10, <1>11, <1>12, <1>13, <1>14, <1>15, <1>17, <1>18
          DEF ReceiveOne, NothingRead

(* The card answers with the block that is due, or asks first.             *)
LEMMA AnswersFit ==
  ASSUME NEW due
  PROVE  AnswerOrAsk(due, FALSE) \/ AnswerOrAsk(due, TRUE) =>
           \E e : /\ toHost' = Append(toHost, e)
                  /\ \/ e = due /\ request' = None /\ cifsc' = cifsc
                     \/ /\ e = request' /\ held' = due /\ cifsc' = cifsc
                        /\ request'.type \in {"WTXreq", "ABORTreq"}
                     \/ e = request' /\ held' = due /\ request' = SBlock("IFSreq", cifsc')
  <1>1. Answer(due) => toHost' = Append(toHost, due) /\ request' = None /\ cifsc' = cifsc
    BY DEF Answer
  <1>2. ASSUME NEW w, NEW t \in {"WTXreq", "ABORTreq"}, Ask(SBlock(t, w), due)
        PROVE  /\ toHost' = Append(toHost, request') /\ held' = due /\ cifsc' = cifsc
               /\ request'.type \in {"WTXreq", "ABORTreq"}
    BY <1>2, TypesApart DEF Ask
  <1>3. ASSUME NEW i, Ask(SBlock("IFSreq", i), due)
        PROVE  /\ toHost' = Append(toHost, request') /\ held' = due
               /\ request' = SBlock("IFSreq", cifsc')
    BY <1>3, TypesApart DEF Ask
  <1> DEFINE zero == 0
  <1>4. ASSUME AnswerOrAsk(due, FALSE) \/ AnswerOrAsk(due, TRUE)
        PROVE  \/ Answer(due)
               \/ \E w \in WtxFactors : Ask(SBlock("WTXreq", w), due)
               \/ \E i \in IfscValues : Ask(SBlock("IFSreq", i), due)
               \/ Ask(SBlock("ABORTreq", zero), due)
    BY <1>4 DEF AnswerOrAsk
  <1> HIDE DEF zero
  <1> QED BY <1>1, <1>2, <1>3, <1>4

LEMMA CardFits ==
  ASSUME IInv, Alone, Fits, CardStep, UNCHANGED <<pc, ifsc, block, identified, atrIfsc>>
  PROVE  Fits'
  <1>1. toCard # << >> /\ toCard' = << >> /\ toHost = << >>
    BY CardAlone DEF Alone
  <1>2. pc # "idle" /\ identified
    BY <1>1 DEF Alone, Fits, LengthsAgree
  <1>3. \A e : toHost' = Append(toHost, e) => Received' = e
    <2>1. \A e : Head(Append(<< >>, e)) = e
      OBVIOUS
    <2> QED BY <1>1, <2>1 DEF Received
  <1>4. pc = "ifsd" => Incoming.type \in {"IFSreq", "bad"} /\ request = None
    BY <1>1 DEF Fits, CardGets, LengthsAgree
  <1>5. Incoming.type = "IFSreq" => pc = "ifsd"
    BY <1>1 DEF Fits, CardGets
  <1>6. CardGets'
    BY <1>1 DEF CardGets
  <1>7. InLoop <=> pc # "ifsd"
    BY <1>2 DEF InLoop, IInv, HostInv, HostTypeOK
  <1>8. None.type = "bad" /\ None = Garbled
    BY TypesApart
  \* It says again what it has asked, or an R-block.
  <1>9. ASSUME UNCHANGED <<out, held, request, cifsc>>, NEW e, toHost' = Append(toHost, e),
               IF request = None THEN e.type \in {"R", "IFSrsp"} ELSE e = request,
               InLoop => e.type # "IFSrsp"
        PROVE  Fits'
    <2>1. CardHolds' /\ LengthsAgree'
      BY <1>9 DEF Fits, CardHolds, LengthsAgree
    <2>2. Received' = e
      BY <1>3, <1>9
    <2>3. HostGets'
      <3>1. request # None => request.type \in RequestTypes
        BY DEF Fits, CardHolds
      <3>2. e.type \notin ResponseTypes \/ e.type = "IFSrsp"
        BY <1>9, <3>1 DEF RequestTypes, ResponseTypes
      <3>3. InLoop' => e.type \notin ResponseTypes
        BY <1>9, <3>1, <3>2 DEF InLoop, RequestTypes, ResponseTypes
      <3> QED BY <1>9, <2>2, <3>3 DEF HostGets
    <2> QED BY <1>6, <2>1, <2>3 DEF Fits
  \* It answers, or asks.
  <1>10. ASSUME NEW due, AnswerOrAsk(due, FALSE) \/ AnswerOrAsk(due, TRUE), due.type \in {"I", "R"},
                ifsc = cifsc, InLoop, out' # None => out'.type = "I"
         PROVE  Fits'
    <2>1. PICK e : /\ toHost' = Append(toHost, e)
                   /\ \/ e = due /\ request' = None /\ cifsc' = cifsc
                      \/ /\ e = request' /\ held' = due /\ cifsc' = cifsc
                         /\ request'.type \in {"WTXreq", "ABORTreq"}
                      \/ e = request' /\ held' = due /\ request' = SBlock("IFSreq", cifsc')
      BY <1>10, AnswersFit
    <2>2. Received' = e
      BY <1>3, <2>1
    <2>3. CASE e = due /\ request' = None /\ cifsc' = cifsc
      <3>1. CardHolds' /\ LengthsAgree'
        BY <1>2, <1>7, <1>8, <1>10, <2>3 DEF CardHolds, LengthsAgree
      <3>2. HostGets'
        BY <1>10, <2>2, <2>3 DEF HostGets, ResponseTypes
      <3> QED BY <1>6, <3>1, <3>2 DEF Fits
    <2>4. CASE /\ e = request' /\ held' = due /\ cifsc' = cifsc
               /\ request'.type \in {"WTXreq", "ABORTreq"}
      <3>1. CardHolds' /\ LengthsAgree'
        BY <1>2, <1>7, <1>8, <1>10, <2>4 DEF CardHolds, LengthsAgree, RequestTypes
      <3>2. HostGets'
        BY <1>10, <2>2, <2>4 DEF HostGets, ResponseTypes
      <3> QED BY <1>6, <3>1, <3>2 DEF Fits
    <2>5. CASE e = request' /\ held' = due /\ request' = SBlock("IFSreq", cifsc')
      <3>1. request'.type = "IFSreq"
        BY <2>5, TypesApart
      <3>2. CardHolds' /\ LengthsAgree'
        BY <1>2, <1>7, <1>8, <1>10, <2>5, <3>1 DEF CardHolds, LengthsAgree, RequestTypes
      <3>3. HostGets'
        BY <1>10, <2>2, <2>5, <3>1 DEF HostGets, ResponseTypes
      <3> QED BY <1>6, <3>2, <3>3 DEF Fits
    <2> QED BY <2>1, <2>3, <2>4, <2>5
  <1>11. request = None => ifsc = cifsc
    BY <1>2, <1>8 DEF Fits, LengthsAgree
  <1>12. RBlock(cnr).type = "R" /\ RBlock(Flip(cnr)).type = "R"
    BY TypesApart
  <1>13. out # None => out.type = "I"
    BY DEF Fits, CardHolds
  <1>14. CASE CardGarbled \/ CardRepeatsRequest \/ CardOddResponse
    <2>1. /\ UNCHANGED <<out, held, request, cifsc>>
          /\ \/ request # None /\ toHost' = Append(toHost, request)
             \/ request = None /\ toHost' = Append(toHost, RBlock(cnr))
      BY <1>14 DEF CardGarbled, CardRepeatsRequest, CardOddResponse, cardVars
    <2>2. request # None => request.type # "IFSrsp"
      BY DEF Fits, CardHolds, RequestTypes
    <2> QED BY <1>9, <1>12, <2>1, <2>2
  <1>15. CASE CardResponse
    <2>1. Incoming.type \in ResponseTypes /\ request # None /\ UNCHANGED out
      BY <1>15 DEF CardResponse, Takes
    <2>2. InLoop
      BY <1>4, <1>7, <2>1
    <2>3. request.type \in RequestTypes /\ held.type \in {"I", "R"}
      BY <2>1 DEF Fits, CardHolds
    <2>4. CASE toHost' = Append(toHost, request) /\ UNCHANGED <<request, held, cifsc, requests>>
      BY <1>9, <2>1, <2>3, <2>4 DEF RequestTypes
    <2>5. CASE AnswerOrAsk(held, FALSE) /\ (request.type = "IFSreq" => Incoming = SBlock("IFSrsp", request.n))
      <3>1. CASE request.type = "IFSreq"
        <4>1. Incoming.type = "IFSrsp"
          BY <2>5, <3>1, TypesApart
        <4>2. ifsc = cifsc
          BY <1>1, <4>1 DEF Fits, CardGets
        <4> QED BY <1>10, <1>13, <2>1, <2>2, <2>3, <2>5, <4>2
      <3>2. CASE request.type # "IFSreq"
        <4>1. ifsc = cifsc
          BY <1>2, <3>2 DEF Fits, LengthsAgree
        <4> QED BY <1>10, <1>13, <2>1, <2>2, <2>3, <2>5, <4>1
      <3> QED BY <3>1, <3>2
    <2> QED BY <1>15, <2>4, <2>5 DEF CardResponse
  <1>16. CASE CardIfs
    <2>1. /\ request = None /\ UNCHANGED <<out, cifsc>> /\ request' = None /\ Incoming.type = "IFSreq"
          /\ toHost' = Append(toHost, SBlock("IFSrsp", Incoming.n))
      BY <1>16 DEF CardIfs, Answer, Takes
    <2>2. SBlock("IFSrsp", Incoming.n).type = "IFSrsp"
      BY TypesApart
    <2>3. Received' = SBlock("IFSrsp", Incoming.n) /\ ~InLoop
      BY <1>3, <1>5, <1>7, <2>1
    <2>4. CardHolds' /\ LengthsAgree'
      BY <1>8, <2>1 DEF Fits, CardHolds, LengthsAgree
    <2>5. HostGets'
      BY <2>1, <2>2, <2>3 DEF HostGets, InLoop
    <2> QED BY <1>6, <2>4, <2>5 DEF Fits
  <1>17. CASE CardWrongIBlock \/ CardRepeats \/ CardAwaits
    <2>1. /\ request = None /\ Incoming.type \in {"I", "R"}
          /\ \/ AnswerOrAsk(RBlock(cnr), FALSE) /\ (out' = out \/ out' = None)
             \/ AnswerOrAsk(out, FALSE) /\ out' = out /\ out # None
      BY <1>17 DEF CardWrongIBlock, CardRepeats, CardAwaits, TakesRBlock, Takes
    <2>2. InLoop
      BY <1>4, <1>7, <2>1
    <2> QED BY <1>10, <1>11, <1>12, <1>13, <2>1, <2>2
  <1>18. CASE CardIBlockMore
    <2>1. request = None /\ Incoming.type = "I" /\ AnswerOrAsk(RBlock(Flip(cnr)), TRUE) /\ out' = None
      BY <1>18 DEF CardIBlockMore, AcceptsIBlock, Takes
    <2>2. InLoop
      BY <1>4, <1>7, <2>1
    <2> QED BY <1>10, <1>11, <1>12, <2>1, <2>2
  <1>19. CASE CardContinues \/ CardIBlockLast
    <2>1. /\ request = None /\ Incoming.type \in {"I", "R"}
          /\ \E n, bytes : /\ out' = Outgoing(n, bytes)
                           /\ \/ AnswerOrAsk(Outgoing(n, bytes), TRUE)
                              \/ AnswerOrAsk(Outgoing(n, bytes), FALSE)
      BY <1>19 DEF CardContinues, CardIBlockLast, AcceptsIBlock, TakesRBlock, Takes
    <2>2. InLoop
      BY <1>4, <1>7, <2>1
    <2>3. PICK n, bytes : /\ out' = Outgoing(n, bytes)
                          /\ \/ AnswerOrAsk(Outgoing(n, bytes), TRUE)
                             \/ AnswerOrAsk(Outgoing(n, bytes), FALSE)
      BY <2>1
    <2>4. Outgoing(n, bytes).type = "I"
      BY TypesApart
    <2> QED BY <1>10, <1>11, <2>1, <2>2, <2>3, <2>4
  <1> QED BY <1>14, <1>15, <1>16, <1>17, <1>18, <1>19 DEF CardStep

LEMMA FitStep ==
  ASSUME Identifies, IInv, AloneInv, FitInv, [Next]_vars
  PROVE  FitInv'
  <1> SUFFICES ASSUME clean', lates' = 0 PROVE Fits'
    BY DEF FitInv
  <1>0. lates = 0
    BY NoneLate
  <1>2. CASE AppSend
    <2>1. /\ clean /\ identified /\ pc = "idle" /\ UNCHANGED <<cardVars, identified, atrIfsc, ifsc>>
      BY <1>2 DEF AppSend, SendCmd, t1Vars
    <2>2. Fits /\ toCard = << >> /\ toHost = << >>
      BY <1>0, <2>1 DEF FitInv, AloneInv, Alone
    <2>3. HostWrites /\ pc' # "idle"
      BY <1>2, <2>2, SendAlone
    <2>4. request = None /\ ifsc = cifsc
      BY <2>1, <2>2, TypesApart DEF Fits, LengthsAgree
    <2>5. \/ pc' = "ifsd" /\ block'.type = "IFSreq"
          \/ pc' = "xfer" /\ block'.type = "I" /\ Len(block'.data) <= ifsc
      <3>1. PICK d \in BOOLEAN : SendCmd(Command(serial + 1), d)
        BY <1>2 DEF AppSend
      <3> DEFINE c == Command(serial + 1)
                 yes == TRUE
      <3>2. \/ pc' = "xfer" /\ MakeIBlock(0, c, yes, ns, toHost)
            \/ pc' = "ifsd" /\ Write(SBlock("IFSreq", 254), toHost)
        BY <3>1 DEF SendCmd
      <3>3. c \in Seq(Byte) /\ ifsc \in Nat /\ Len(c) >= 0
        <4>1. serial + 1 \in DOMAIN CmdLens
          BY <1>2, CardAssumption DEF AppSend, IInv, TypeOK
        <4>2. c \in Seq(Byte)
          BY <4>1, ByteAssumption
        <4> HIDE DEF c
        <4> QED BY <4>2 DEF IInv, HostInv, HostTypeOK
      <3>4. SBlock("IFSreq", 254).type = "IFSreq"
        BY TypesApart
      <3> HIDE DEF c, yes
      <3>5. CASE MakeIBlock(0, c, yes, ns, toHost)
        <4>1. block'.type = "I" /\ Len(block'.data) <= ifsc
          BY <3>3, <3>5, MakeFits
        <4> QED BY <3>2, <3>4, <4>1 DEF Write
      <3> QED BY <3>2, <3>4, <3>5 DEF Write
    <2>6. CardHolds' /\ LengthsAgree'
      BY <2>1, <2>2, <2>3, <2>4, <2>5 DEF Fits, CardHolds, LengthsAgree, cardVars
    <2>7. Suits'
      BY <2>1, <2>4, <2>5 DEF Suits, cardVars
    <2> QED BY <2>3, <2>6, <2>7, WrittenFits DEF Fits
  <1>3. CASE AppRefused
    <2>1. /\ clean /\ pc = "idle"
          /\ UNCHANGED <<pc, ifsc, block, toCard, cardVars, identified, atrIfsc>>
      BY <1>3 DEF AppRefused, RefuseCmd, sessionVars, t1Vars
    <2>2. AloneInv'
      BY <1>3, AloneStep
    <2>3. toCard' = << >> /\ toHost' = << >>
      BY <1>0, <2>1, <2>2 DEF AloneInv, Alone
    <2> QED BY <1>0, <2>1, <2>3 DEF FitInv, Fits, CardHolds, LengthsAgree, CardGets, HostGets, cardVars
  <1>4. CASE AppReset
    <2>1. /\ pc' = "idle" /\ toCard' = << >> /\ toHost' = << >> /\ identified' = FALSE
          /\ cifsc' = atrIfsc /\ atrIfsc' = atrIfsc /\ out' = None /\ request' = None
      BY <1>4 DEF AppReset, ResetCard, CardReset
    <2> QED BY <2>1, TypesApart DEF Fits, CardHolds, LengthsAgree, CardGets, HostGets
  <1>5. CASE AppResetFails
    BY <1>5 DEF AppResetFails
  <1>6. CASE AppIdentify
    <2>1. /\ clean /\ pc = "idle" /\ ~identified /\ identified' /\ ifsc' = atrIfsc
          /\ UNCHANGED <<pc, toCard, toHost, cardVars, atrIfsc>>
      BY <1>6 DEF AppIdentify, ProcessATR, lineVars
    <2>2. Fits /\ toCard = << >> /\ toHost = << >>
      BY <1>0, <2>1 DEF FitInv, AloneInv, Alone
    <2> QED BY <2>1, <2>2 DEF Fits, CardHolds, LengthsAgree, CardGets, HostGets, cardVars
  <1>7. CASE HostReceives \/ HostTimeout
    <2>1. /\ clean /\ (pc' = "idle" => ret' = "OK") /\ UNCHANGED <<cardVars, identified, atrIfsc>>
      BY <1>7 DEF HostReceives, HostTimeout, NoteFailure
    <2>2. Alone /\ Fits
      BY <1>0, <2>1 DEF AloneInv, FitInv
    <2>3. CASE HostReceives
      BY <2>1, <2>2, <2>3, ReadAlone, HostFits DEF HostReceives, Alone
    <2>4. CASE HostTimeout
      BY <2>1, <2>2, <2>4, TimeoutAlone, HostFits DEF HostTimeout
    <2> QED BY <1>7, <2>3, <2>4
  <1>8. CASE CardMoves
    BY <1>0, <1>8, CardFits DEF CardMoves, sessionVars, hostVars, AloneInv, FitInv
  <1>9. CASE LineFails
    <2>1. /\ clean /\ LineFault
          /\ UNCHANGED <<pc, ifsc, block, identified, atrIfsc>>
      BY <1>9 DEF LineFails, sessionVars, hostVars
    <2>2. Alone /\ Fits
      BY <1>0, <2>1 DEF AloneInv, FitInv
    <2>3. /\ toCard' # << >> => toCard # << >> /\ Incoming' \in {Incoming, Garbled}
          /\ toHost' # << >> => toHost # << >> /\ Received' \in {Received, Garbled}
          /\ UNCHANGED <<cns, cnr, out, request, held, cifsc>>
      BY <2>1, <2>2, FaultAlone DEF Alone, cardVars
    <2>4. CardHolds' /\ LengthsAgree'
      BY <2>1, <2>2, <2>3 DEF Fits, CardHolds, LengthsAgree
    <2>5. CardGets'
      BY <2>1, <2>2, <2>3, TypesApart DEF Fits, CardGets
    <2>6. HostGets'
      BY <2>1, <2>2, <2>3, TypesApart DEF Fits, HostGets, InLoop, ResponseTypes
    <2> QED BY <2>4, <2>5, <2>6 DEF Fits
  <1>10. CASE UNCHANGED vars
    BY <1>0, <1>10 DEF vars, hostVars, lineVars, cardVars, FitInv, Fits, CardHolds, LengthsAgree, CardGets,
                 HostGets, Incoming, Received, InLoop
  <1> QED BY <1>2, <1>3, <1>4, <1>5, <1>6, <1>7, <1>8, <1>9, <1>10 DEF Next

(* No I-block is longer than the card takes, through all changes of IFSC   *)
(* (647-660) and repetitions (547-555), for an application that has the    *)
(* ATR evaluated and a line without late answers: an answer that comes     *)
(* when the reader has given up waiting may be an S(IFS request) that is   *)
(* read only after the next I-block was made.                              *)
THEOREM BlocksFit ==
  ASSUME MaxLate = 0, Identifies
  PROVE  Spec => []BlocksFitCard
  <1>1. Init => FitInv
    BY TypesApart DEF Init, T1Init, CardInit, FitInv, Fits, CardHolds, LengthsAgree, CardGets, HostGets
  <1>2. IInv /\ AloneInv /\ FitInv /\ [Next]_vars => FitInv'
    BY FitStep
  <1>3. IInv /\ AloneInv /\ FitInv => BlocksFitCard
    <2>0. IInv => lates = 0
      BY DEF IInv, TypeOK
    <2> SUFFICES ASSUME IInv, Alone, Fits, NEW i \in DOMAIN toCard, toCard[i].type = "I"
                 PROVE  Len(toCard[i].data) <= cifsc
      BY <2>0 DEF AloneInv, FitInv, BlocksFitCard
    <2>1. toCard \in Seq(Block) /\ toHost \in Seq(Block)
      BY DEF IInv, TypeOK, HostTypeOK
    <2>2. toCard # << >> /\ Len(toCard) <= 1 /\ i = 1
      BY <2>1 DEF Alone, OneBlock
    <2>3. toCard[i] = Incoming
      BY <2>1, <2>2 DEF Incoming
    <2> QED BY <2>2, <2>3 DEF Fits, CardGets
  <1> QED BY <1>1, <1>2, <1>3, Invariance, StaysAlone, PTL DEF Spec

-------------------------------------------------------------------------------
(* What the one block on its way is, when each asks only for what it has   *)
(* not got: the reader never for an I-block it has read, so the card never *)
(* sends such a one.                                                       *)
AsksForNew == toCard # << >> => Incoming # RBlock(Flip(nr))
GetsNew == toHost # << >> =>
              /\ Received.type = "I" => Received = out /\ cns = nr
              /\ request # None => Received \in {request, Garbled}
HoldsNew == request # None /\ held = out => cns = nr
TakesNew == AsksForNew /\ GetsNew /\ HoldsNew
NewInv == clean /\ lates = 0 => TakesNew

(* Only an I-block with the expected number changes that number.           *)
LEMMA HostTakesNew ==
  ASSUME IInv, Synced, TakesNew, HostWrites, \/ ReceiveOne /\ toHost # << >>
                                             \/ NothingRead,
         UNCHANGED cardVars
  PROVE  TakesNew'
  <1>1. ns \in {0, 1} /\ nr \in {0, 1} /\ cns \in {0, 1} /\ cnr \in {0, 1} /\ cur \in {0, 1}
    BY NumberTypes
  <1>2. UNCHANGED <<request, held, out, cns>>
    BY DEF cardVars
  <1>3. nr' # nr => Received.type = "I"
    BY DEF ReceiveOne, NothingRead, IfsdDone, IfsdAgain, RcError, RBlockTooMany,
           RBlockWhileReceiving, RBlockResend, RBlockNext, RBlockUnexpected, IBlockWrongNumber,
           IBlockTooLong, IBlockMore, IBlockLast, IBlockFits, SIfs, SAbort, AbortDone, SWtx,
           SOther, Reads, IfsdIoError, IoError, AbortIoError, t1Vars
  <1>4. nr' # nr => toHost # << >>
    BY DEF NothingRead, IfsdIoError, IoError, AbortIoError, t1Vars
  <1>5. HoldsNew'
    <2> SUFFICES ASSUME request # None, held = out, nr' # nr PROVE FALSE
      BY <1>2 DEF TakesNew, HoldsNew
    <2>1. Received \in {request, Garbled}
      BY <1>4 DEF TakesNew, GetsNew
    <2>2. request.type # "I" /\ Garbled.type # "I"
      BY GarbledType DEF Synced, CardAgrees, Others
    <2> QED BY <1>3, <2>1, <2>2
  <1>6. GetsNew'
    BY DEF HostWrites, GetsNew
  <1>7. ASSUME pc' # "idle" PROVE block' # RBlock(Flip(nr'))
    <2>1. RBlock(nr) # RBlock(Flip(nr)) /\ RBlock(Flip(nr)) # RBlock(Flip(Flip(nr)))
      BY <1>1, KindFacts, FlipFacts
    <2>2. \A b : b.type # "R" => \A n : b # RBlock(n)
      BY TypesApart
    <2>3. \A t, n : SBlock(t, n).type = t
      BY TypesApart
    <2>4. CASE IfsdDone \/ RBlockResend \/ RBlockNext
      <3>1. block'.type = "I"
        BY <2>4 DEF IfsdDone, RBlockResend, RBlockNext, MakeIBlock, Write, IBlock
      <3> QED BY <2>2, <3>1
    <2>5. CASE IfsdAgain \/ SOther
      <3>1. block' = block /\ nr' = nr
        BY <2>5 DEF IfsdAgain, SOther, Write, t1Vars
      <3>2. block.type = "R" => block = RBlock(nr)
        BY <2>5 DEF IfsdAgain, SOther, Reads, Synced, Repeatable
      <3> QED BY <2>1, <2>2, <3>1, <3>2
    <2>6. CASE RcError \/ RBlockWhileReceiving \/ IBlockWrongNumber \/ IoError
      <3>1. block' = RBlock(nr) /\ nr' = nr
        BY <1>7, <2>6 DEF RcError, RBlockWhileReceiving, IBlockWrongNumber, IoError, Write, Finish,
                          t1Vars
      <3> QED BY <2>1, <3>1
    <2>7. CASE IBlockMore
      <3>1. block' = RBlock(Flip(nr)) /\ nr' = Flip(nr)
        BY <2>7 DEF IBlockMore, Write
      <3> QED BY <2>1, <3>1
    <2>8. CASE SIfs \/ SAbort \/ SWtx
      <3>1. \E t \in ResponseTypes : \E n : block' = SBlock(t, n)
        BY <1>7, <2>8 DEF SIfs, SAbort, SWtx, Write, Finish, ResponseTypes
      <3>2. block'.type # "R"
        BY <2>3, <3>1 DEF ResponseTypes
      <3> QED BY <2>2, <3>2
    <2>9. CASE RBlockTooMany \/ RBlockUnexpected \/ IBlockTooLong \/ AbortDone
               \/ IBlockLast \/ IfsdIoError \/ AbortIoError
      BY <1>7, <2>9 DEF RBlockTooMany, RBlockUnexpected, IBlockTooLong, AbortDone, IBlockLast,
                        IfsdIoError, AbortIoError, Finish
    <2> QED BY <2>4, <2>5, <2>6, <2>7, <2>8, <2>9 DEF ReceiveOne, NothingRead
  <1>8. AsksForNew'
    <2>1. toCard' # << >> => pc' # "idle" /\ toCard' = <<block'>>
      BY DEF HostWrites
    <2>2. Head(<<block'>>) = block'
      OBVIOUS
    <2> QED BY <1>7, <2>1, <2>2 DEF AsksForNew, Incoming
  <1> QED BY <1>5, <1>6, <1>8 DEF TakesNew

LEMMA CardTakesNew ==
  ASSUME IInv, Synced, Alone, TakesNew, CardStep, UNCHANGED nr
  PROVE  TakesNew'
  <1>1. nr \in {0, 1} /\ cns \in {0, 1} /\ cnr \in {0, 1} /\ cur \in {0, 1}
    BY NumberTypes
  <1>2. toCard # << >> /\ toCard' = << >> /\ toHost = << >>
    BY CardAlone DEF Alone
  <1>3. AsksForNew'
    BY <1>2 DEF AsksForNew
  <1>4. \A e : toHost' = Append(toHost, e) => Received' = e
    <2>1. \A e : Head(Append(<< >>, e)) = e
      OBVIOUS
    <2> QED BY <1>2, <2>1 DEF Received
  <1>5. Incoming.type = "R" => Incoming = RBlock(nr) /\ GetN(Incoming) = nr
    <2>1. toCard \in Seq(Numbered)
      BY DEF Synced, LinesAgree, ToCardLine
    <2>2. Incoming \in Numbered
      BY <1>2, <2>1 DEF Incoming
    <2>3. Incoming.type = "R" => \E m \in {0, 1} : Incoming = RBlock(m)
      BY <2>2 DEF Numbered, RBlock
    <2>4. Incoming.type = "R" => Incoming = RBlock(nr)
      BY <1>1, <1>2, <2>3, FlipFacts DEF TakesNew, AsksForNew
    <2> QED BY <2>4, TypesApart DEF GetN, RBlock
  <1>6. RBlock(cnr).type = "R" /\ RBlock(Flip(cnr)).type = "R"
    BY TypesApart
  <1>7. out # None => out.type = "I"
    BY DEF Synced, CardAgrees, Info
  \* It says again what it has asked, or a block that is not an I-block.
  <1>8. ASSUME UNCHANGED <<out, held, request, cns>>, NEW e, toHost' = Append(toHost, e),
               IF request = None THEN e.type # "I" ELSE e = request
        PROVE  TakesNew'
    <2>1. Received' = e
      BY <1>4, <1>8
    <2>2. request # None => request.type # "I"
      BY DEF Synced, CardAgrees, Others
    <2> QED BY <1>3, <1>8, <2>1, <2>2 DEF TakesNew, GetsNew, HoldsNew
  \* It answers, or asks.
  <1>9. ASSUME NEW due, AnswerOrAsk(due, FALSE) \/ AnswerOrAsk(due, TRUE),
               \/ due.type = "R" /\ (out' = None \/ out'.type = "I")
               \/ due = out' /\ cns' = nr
        PROVE  TakesNew'
    <2>1. PICK e : /\ toHost' = Append(toHost, e)
                   /\ \/ e = due /\ request' = None
                      \/ e = request' /\ held' = due /\ request'.type \in RequestTypes
      <3>1. PICK f : /\ toHost' = Append(toHost, f)
                     /\ \/ f = due /\ request' = None /\ cifsc' = cifsc
                        \/ /\ f = request' /\ held' = due /\ cifsc' = cifsc
                           /\ request'.type \in {"WTXreq", "ABORTreq"}
                        \/ f = request' /\ held' = due /\ request' = SBlock("IFSreq", cifsc')
        BY <1>9, AnswersFit
      <3>2. request' = SBlock("IFSreq", cifsc') => request'.type = "IFSreq"
        BY TypesApart
      <3> QED BY <3>1, <3>2 DEF RequestTypes
    <2>2. Received' = e
      BY <1>4, <2>1
    <2>3. None.type = "bad"
      BY TypesApart
    <2>4. HoldsNew'
      BY <1>9, <2>1, <2>3 DEF HoldsNew
    <2>5. GetsNew'
      BY <1>9, <2>1, <2>2 DEF GetsNew, RequestTypes
    <2> QED BY <1>3, <2>4, <2>5 DEF TakesNew
  <1>10. CASE CardGarbled \/ CardRepeatsRequest \/ CardOddResponse
    <2>1. /\ UNCHANGED <<out, held, request, cns>>
          /\ \/ request # None /\ toHost' = Append(toHost, request)
             \/ request = None /\ toHost' = Append(toHost, RBlock(cnr))
      BY <1>10 DEF CardGarbled, CardRepeatsRequest, CardOddResponse, cardVars
    <2> QED BY <1>6, <1>8, <2>1
  <1>11. CASE CardResponse
    <2>1. request # None /\ UNCHANGED <<out, cns>>
      BY <1>11 DEF CardResponse
    <2>2. CASE toHost' = Append(toHost, request) /\ UNCHANGED <<request, held>>
      BY <1>8, <2>1, <2>2
    <2>3. CASE AnswerOrAsk(held, FALSE)
      <3>1. held = RBlock(cnr) \/ held = out
        BY <2>1 DEF Synced, CardAgrees
      <3>2. held = out => cns = nr
        BY <2>1 DEF TakesNew, HoldsNew
      <3> QED BY <1>6, <1>7, <1>9, <2>1, <2>3, <3>1, <3>2
    <2> QED BY <1>11, <2>2, <2>3 DEF CardResponse
  <1>12. CASE CardIfs
    <2>1. /\ request' = None /\ toHost' = Append(toHost, SBlock("IFSrsp", Incoming.n))
      BY <1>12 DEF CardIfs, Answer
    <2>2. Received'.type = "IFSrsp"
      BY <1>4, <2>1, TypesApart
    <2> QED BY <1>3, <2>1, <2>2 DEF TakesNew, GetsNew, HoldsNew
  <1>13. CASE CardWrongIBlock
    <2>1. AnswerOrAsk(RBlock(cnr), FALSE) /\ out' = out
      BY <1>13 DEF CardWrongIBlock
    <2> QED BY <1>6, <1>7, <1>9, <2>1
  <1>14. CASE CardIBlockMore
    <2>1. AnswerOrAsk(RBlock(Flip(cnr)), TRUE) /\ out' = None
      BY <1>14 DEF CardIBlockMore
    <2> QED BY <1>6, <1>9, <2>1
  <1>15. CASE CardIBlockLast
    <2>1. cns' = nr
      BY <1>15, AcceptFacts DEF CardIBlockLast
    <2>2. \E b : out' = b /\ AnswerOrAsk(b, TRUE)
      BY <1>15 DEF CardIBlockLast
    <2> QED BY <1>9, <2>1, <2>2
  <1>16. CASE CardRepeats
    <2>1. AnswerOrAsk(out, FALSE) /\ out' = out /\ cns' = cns /\ cns = nr
      BY <1>5, <1>16 DEF CardRepeats, TakesRBlock, Takes
    <2> QED BY <1>9, <2>1
  <1>17. CASE CardContinues
    <2>1. /\ cns' = Flip(cns) /\ nr # cns
          /\ \E b : out' = b /\ AnswerOrAsk(b, FALSE)
      BY <1>5, <1>17 DEF CardContinues, TakesRBlock, Takes
    <2>2. cns' = nr
      BY <1>1, <2>1, FlipFacts
    <2> QED BY <1>9, <2>1, <2>2
  <1>18. CASE CardAwaits
    <2>1. AnswerOrAsk(RBlock(cnr), FALSE) /\ out' = None
      BY <1>18 DEF CardAwaits
    <2> QED BY <1>6, <1>9, <2>1
  <1> QED BY <1>10, <1>11, <1>12, <1>13, <1>14, <1>15, <1>16, <1>17, <1>18 DEF CardStep

LEMMA NewStep ==
  ASSUME IInv, SyncInv, AloneInv, NewInv, [Next]_vars
  PROVE  NewInv'
  <1> SUFFICES ASSUME clean', lates' = 0 PROVE TakesNew'
    BY DEF NewInv
  <1>0. lates = 0
    BY NoneLate
  <1>1. CASE AppSend
    <2>1. clean /\ pc = "idle" /\ UNCHANGED <<cardVars, nr>>
      BY <1>0, <1>1 DEF AppSend, SendCmd, NewInv, AloneInv, t1Vars, Alone
    <2>2. TakesNew /\ toCard = << >> /\ toHost = << >>
      BY <1>0, <2>1 DEF NewInv, AloneInv, Alone
    <2>3. toHost' = << >> /\ toCard' = <<block'>>
      BY <1>1, <2>2, SendAlone DEF HostWrites
    <2>4. block'.type # "R"
      <3>1. PICK d \in BOOLEAN : SendCmd(Command(serial + 1), d)
        BY <1>1 DEF AppSend
      <3>2. block'.type \in {"I", "IFSreq"}
        BY <3>1 DEF SendCmd, MakeIBlock, Write, IBlock, SBlock
      <3> QED BY <3>2
    <2>5. Incoming' = block'
      <3>1. Head(<<block'>>) = block'
        OBVIOUS
      <3> QED BY <2>3, <3>1 DEF Incoming
    <2> QED BY <2>1, <2>2, <2>3, <2>4, <2>5, TypesApart
            DEF TakesNew, AsksForNew, GetsNew, HoldsNew, cardVars
  <1>2. CASE AppRefused
    <2>1. clean /\ pc' = "idle" /\ UNCHANGED <<cardVars, nr>>
      BY <1>2 DEF AppRefused, RefuseCmd, sessionVars, t1Vars
    <2>2. AloneInv'
      BY <1>2, AloneStep
    <2>3. toCard' = << >> /\ toHost' = << >>
      BY <1>0, <2>1, <2>2 DEF AloneInv, Alone
    <2> QED BY <1>0, <2>1, <2>3 DEF NewInv, TakesNew, AsksForNew, GetsNew, HoldsNew, cardVars
  <1>3. CASE AppReset
    <2>1. toCard' = << >> /\ toHost' = << >> /\ request' = None
      BY <1>3 DEF AppReset, ResetCard, CardReset
    <2> QED BY <2>1 DEF TakesNew, AsksForNew, GetsNew, HoldsNew
  <1>4. CASE AppResetFails
    BY <1>4 DEF AppResetFails
  <1>5. CASE AppIdentify
    BY <1>0, <1>5 DEF AppIdentify, ProcessATR, lineVars, cardVars, NewInv, TakesNew, AsksForNew, GetsNew,
                HoldsNew, Incoming, Received
  <1>6. CASE HostReceives \/ HostTimeout
    <2>1. clean /\ UNCHANGED cardVars
      BY <1>6 DEF HostReceives, HostTimeout, NoteFailure
    <2>2. Alone /\ TakesNew /\ Synced
      BY <1>0, <2>1 DEF AloneInv, NewInv, SyncInv
    <2>3. CASE HostReceives
      BY <2>1, <2>2, <2>3, ReadAlone, HostTakesNew DEF HostReceives, Alone
    <2>4. CASE HostTimeout
      BY <2>1, <2>2, <2>4, TimeoutAlone, HostTakesNew DEF HostTimeout
    <2> QED BY <1>6, <2>3, <2>4
  <1>7. CASE CardMoves
    BY <1>0, <1>7, CardTakesNew DEF CardMoves, sessionVars, hostVars, AloneInv, NewInv, SyncInv
  <1>8. CASE LineFails
    <2>1. clean /\ LineFault /\ UNCHANGED nr
      BY <1>8 DEF LineFails, sessionVars, hostVars
    <2>2. Alone /\ TakesNew
      BY <1>0, <2>1 DEF AloneInv, NewInv
    <2>3. /\ toCard' # << >> => toCard # << >> /\ Incoming' \in {Incoming, Garbled}
          /\ toHost' # << >> => toHost # << >> /\ Received' \in {Received, Garbled}
          /\ UNCHANGED <<cns, cnr, out, request, held>>
      BY <2>1, <2>2, FaultAlone DEF Alone, cardVars
    <2>4. Garbled.type = "bad" /\ \A n : RBlock(n).type = "R"
      BY TypesApart
    <2> QED BY <2>1, <2>2, <2>3, <2>4 DEF TakesNew, AsksForNew, GetsNew, HoldsNew
  <1>9. CASE UNCHANGED vars
    BY <1>0, <1>9 DEF vars, hostVars, lineVars, cardVars, NewInv, TakesNew, AsksForNew, GetsNew,
                HoldsNew, Incoming, Received
  <1> QED BY <1>1, <1>2, <1>3, <1>4, <1>5, <1>6, <1>7, <1>8, <1>9 DEF Next

(* N(S) is turned (542, 572) only when the card has taken the block that   *)
(* carries it: an acknowledgement of a block is never read before the card *)
(* has that block, and the first I-block of the card, which turns N(S)     *)
(* whatever its own number, never comes before the card has the command.   *)
(* Without late answers: a late I-block of the last command would turn it. *)
THEOREM AdvancesWhenTaken ==
  ASSUME ~IfsAnyTime, MaxLate = 0
  PROVE  Spec => AdvancesOnlyWhenTaken
  <1>1. Init => NewInv
    BY DEF Init, T1Init, CardInit, NewInv, TakesNew, AsksForNew, GetsNew, HoldsNew
  <1>2. IInv /\ SyncInv /\ AloneInv /\ NewInv /\ [Next]_vars => NewInv'
    BY NewStep
  <1>3. IInv /\ SyncInv /\ NewInv /\ [Next]_vars
           => [clean /\ pc = "xfer" /\ ns' # ns => cnr # ns]_vars
    <2>0. IInv => lates = 0
      BY DEF IInv, TypeOK
    <2> SUFFICES ASSUME IInv, Synced, TakesNew, Next, pc = "xfer", ns' # ns, cnr = ns
                 PROVE  FALSE
      BY <2>0 DEF SyncInv, NewInv, vars, hostVars
    <2>1. ns \in {0, 1} /\ nr \in {0, 1} /\ cns \in {0, 1} /\ cnr \in {0, 1} /\ cur \in {0, 1}
      BY NumberTypes
    <2>2. RBlockNext \/ IBlockWrongNumber \/ IBlockTooLong \/ IBlockMore \/ IBlockLast
      BY DEF Next, AppSend, SendCmd, AppRefused, RefuseCmd, AppReset, ResetCard, AppResetFails,
             ResetFails, AppIdentify, ProcessATR, HostReceives, HostTimeout, CardMoves, LineFails,
             ReceiveOne, NothingRead, IfsdDone, IfsdAgain, RcError, RBlockTooMany,
             RBlockWhileReceiving, RBlockResend, RBlockUnexpected, SIfs, SAbort, AbortDone, SWtx,
             SOther, IfsdIoError, IoError, AbortIoError, t1Vars, hostVars
    <2>3. ~lastiicc /\ toHost # << >> /\ Received.type \in {"R", "I"}
      BY <2>2 DEF RBlockNext, IBlockWrongNumber, IBlockTooLong, IBlockMore, IBlockLast, IBlockFits,
                  TurnToCard, Reads
    <2>4. cur = ns
      BY <2>3 DEF cur
    <2>5. ToHostLine(toHost, ns, ns, nr, cns, Live)
      BY <2>4 DEF Synced, LinesAgree
    <2>6. toHost \in Seq(Numbered) /\ Avoids(toHost, Later(ns, nr) \cup IfsRequests)
      BY <2>5 DEF ToHostLine
    <2>7. Received \in Numbered /\ Received \notin Later(ns, nr)
      <3>1. Head(toHost) \notin Later(ns, nr) \cup IfsRequests
        BY <2>3, <2>6, HeadAvoided
      <3> QED BY <2>3, <2>6, <3>1 DEF Received
    <2>8. Received \in Block
      BY <2>7, KindFacts
    <2>9. CASE Received.type = "I"
      <3>1. Received = out /\ cns = nr
        BY <2>3, <2>9 DEF TakesNew, GetsNew
      <3>2. out # None
        BY <2>9, <3>1, TypesApart
      <3>3. Received \in Info(nr)
        BY <3>1, <3>2 DEF Synced, CardAgrees
      <3> QED BY <2>7, <3>3 DEF Later
    <2>10. CASE Received.type = "R"
      <3>1. GetN(Received) # ns
        BY <2>2, <2>10 DEF RBlockNext, IBlockWrongNumber, IBlockTooLong, IBlockMore, IBlockLast,
                           IBlockFits, Reads
      <3>2. Received = RBlock(0) \/ Received = RBlock(1)
        BY <2>7, <2>10 DEF Numbered
      <3>3. GetN(Received) = Received.n /\ RBlock(0).n = 0 /\ RBlock(1).n = 1
        BY <2>10 DEF GetN, RBlock
      <3>4. Received = RBlock(Flip(ns))
        BY <2>1, <3>1, <3>2, <3>3 DEF Flip
      <3> QED BY <2>7, <3>4 DEF Later
    <2> QED BY <2>3, <2>9, <2>10
  <1>4. Init => SyncInv
    BY SyncInit
  <1>5. IInv /\ SyncInv /\ [Next]_vars => SyncInv'
    BY SyncStep
  <1> QED BY <1>1, <1>2, <1>3, <1>4, <1>5, Invariance, StaysAlone, PTL DEF Spec, AdvancesOnlyWhenTaken

-------------------------------------------------------------------------------
(***************************************************************************)
(* One fault.  A block is Spoiled; then the reader asks for a repetition,  *)
(* once; and if it was its own block that was spoiled, the card asks for   *)
(* one, once, though it may ask for time first (held).                     *)
(***************************************************************************)
Asked == faults = 1 /\ rerrcntr = 0

(* An R-block of the card acknowledges a block of a chain, or is the one   *)
(* that asks.                                                              *)
Due == IF ~lastiicc /\ cnr # cur THEN more ELSE Asked

Spoiled ==
    \/ toCard = << >> /\ toHost = << >>
    \/ toCard # << >> /\ Incoming.type = "bad"
    \/ toHost # << >> /\ Received.type = "bad"

CountsFaults == timeouts <= faults /\ errcntr <= faults /\ rerrcntr <= faults
TurnedOnce == lastiicc => cnr # cur /\ ~more
NeverAborts == request.type # "ABORTreq" /\ pc # "abort"
SpoiledOnce ==
    Spoiled => faults = 1 /\ timeouts = 0 /\ errcntr = 0 /\ rerrcntr = 0
CardExpects ==
    toCard # << >> =>
       /\ Incoming.type \in {"I", "R", "bad"} \cup ResponseTypes
       /\ Incoming.type = "I" => cnr = cur /\ Incoming.n = cnr
       /\ Incoming.type = "R" => lastiicc \/ Asked
       /\ Incoming.type \in ResponseTypes => request # None
       /\ Incoming.type = "bad" /\ request = None => lastiicc \/ cnr = cur \/ more
HostExpects ==
    toHost # << >> =>
       /\ Received.type \in RequestTypes => Received = request
       /\ Received.type = "R" => Received = RBlock(cnr) /\ Due
HeldDue == request # None /\ held.type = "R" => Due

MadeGood ==
    /\ CountsFaults /\ TurnedOnce /\ NeverAborts /\ SpoiledOnce
    /\ CardExpects /\ HostExpects /\ HeldDue

GoodInv == clean /\ lates = 0 /\ faults <= 1 /\ InLoop => MadeGood

(* The counters are those of this command.                                 *)
CountsAnew == ~InLoop => timeouts = 0 /\ errcntr = 0 /\ rerrcntr = 0

(* The card asks for more time, not for the end; what it responds has a    *)
(* status word and finds room.                                             *)
Bearable ==
    /\ ~Aborts
    /\ \A len \in RspLens : 2 <= len /\ len <= MaxRsp
    /\ 2 <= Retries

(* What the reader has written is what the card expects.                   *)
SentGood ==
    /\ block.type \in {"I", "R"} \cup ResponseTypes
    /\ block.type = "I" => cnr = cur /\ block.n = cnr
    /\ block.type = "R" => lastiicc \/ Asked
    /\ block.type \in ResponseTypes => request # None

LEMMA SentIsGood ==
  ASSUME HostWrites, pc' # "idle", SentGood'
  PROVE  SpoiledOnce' /\ CardExpects' /\ HostExpects'
  <1>1. Head(<<block'>>) = block' /\ <<block'>> # << >>
    OBVIOUS
  <1>2. toHost' = << >> /\ toCard' # << >> /\ Incoming' = block'
    BY <1>1 DEF HostWrites, Incoming
  <1>3. block'.type # "bad"
    BY DEF SentGood, ResponseTypes
  <1> QED BY <1>2, <1>3 DEF SentGood, SpoiledOnce, Spoiled, CardExpects, HostExpects

(* An R-block asking for a repetition, the only one.                       *)
LEMMA AsksAgain ==
  ASSUME IInv, MadeGood, HostWrites, pc' = pc, InLoop, Asked,
         Write(RBlock(nr), Unread) \/ Write(RBlock(nr), toHost),
         timeouts' \in {0, 1}, errcntr' \in {0, 1},
         UNCHANGED <<rerrcntr, faults, cardVars, ns, lastiicc, more>>
  PROVE  MadeGood'
  <1>1. block'.type = "R"
    <2>1. RBlock(nr).type = "R"
      BY TypesApart
    <2> QED BY <2>1 DEF Write
  <1>2. CountsFaults' /\ TurnedOnce' /\ NeverAborts' /\ HeldDue'
    BY DEF MadeGood, CountsFaults, TurnedOnce, NeverAborts, HeldDue, Due, Asked, cur, cardVars
  <1>3. SentGood'
    BY <1>1 DEF SentGood, Asked, ResponseTypes
  <1>4. pc' # "idle"
    BY DEF InLoop
  <1> QED BY <1>2, <1>3, <1>4, SentIsGood DEF MadeGood

(* A pass of the loop.                                                     *)
EndsGood == pc' = "idle" => ret' = "OK" \/ (toHost # << >> /\ Received.type = "WTXreq")

LEMMA LoopReads ==
  ASSUME IInv, MadeGood, Fits, TakesNew, InLoop, toHost # << >>
  PROVE  /\ pc = "xfer"
         /\ Received.type \in {"bad", "I", "R", "IFSreq", "WTXreq"}
         /\ Received.type \in {"I", "R"} => request = None
         /\ Received.type \in RequestTypes => request # None
  <1>1. pc = "xfer"
    BY DEF InLoop, MadeGood, NeverAborts
  <1>2. toHost \in Seq(Block)
    BY DEF IInv, TypeOK, HostTypeOK
  <1>3. Received \in Block
    BY <1>2 DEF Received
  <1>4. Received.type \in RequestTypes => Received = request
    BY DEF MadeGood, HostExpects
  <1>5. Received.type \in {"bad", "I", "R", "IFSreq", "WTXreq"}
    BY <1>3, <1>4 DEF Block, STypes, RequestTypes, ResponseTypes, Fits, HostGets, MadeGood, NeverAborts
  <1>6. Received.type \in RequestTypes => request # None
    BY <1>4, TypesApart DEF RequestTypes
  <1>7. request # None => Received = Garbled \/ Received.type \in RequestTypes
    BY DEF TakesNew, GetsNew, Fits, CardHolds
  <1>8. Garbled.type = "bad"
    BY TypesApart
  <1> QED BY <1>1, <1>5, <1>6, <1>7, <1>8 DEF RequestTypes

LEMMA RcErrorGood ==
  ASSUME Bearable, IInv, MadeGood, HostWrites, InLoop, RcError, UNCHANGED <<cardVars, faults>>
  PROVE  pc' # "idle" /\ MadeGood'
  <1>1. faults = 1 /\ timeouts = 0 /\ errcntr = 0 /\ rerrcntr = 0
    BY DEF RcError, CheckRc, MadeGood, SpoiledOnce, Spoiled
  <1>2. Retries \in Nat
    BY LimitsAssumption
  <1>3. ~(errcntr + 1 > Retries)
    BY <1>1, <1>2 DEF Bearable
  <1>4. /\ timeouts' = 0 /\ errcntr' = 1 /\ Write(RBlock(nr), Unread) /\ pc' = pc
        /\ UNCHANGED <<rerrcntr, ns, lastiicc, more>>
    BY <1>1, <1>3 DEF RcError, t1Vars, sendVars
  <1>5. Asked
    BY <1>1 DEF Asked
  <1>6. MadeGood'
    BY <1>4, <1>5, AsksAgain
  <1> QED BY <1>4, <1>6 DEF InLoop

LEMMA RBlockGood ==
  ASSUME Bearable, IInv, Synced, MadeGood, Fits, TakesNew, HostWrites, InLoop, faults <= 1,
         \/ RBlockTooMany \/ RBlockWhileReceiving \/ RBlockResend \/ RBlockNext
         \/ RBlockUnexpected,
         UNCHANGED <<cardVars, faults>>
  PROVE  pc' # "idle" /\ MadeGood'
  <1>1. toHost # << >> /\ Received.type = "R"
    BY DEF RBlockTooMany, RBlockWhileReceiving, RBlockResend, RBlockNext, RBlockUnexpected, Reads
  <1>2. request = None /\ pc = "xfer"
    BY <1>1, LoopReads
  <1>3. Received = RBlock(cnr) /\ Due
    BY <1>1 DEF MadeGood, HostExpects
  <1>4. GetN(Received) = cnr
    BY <1>1, <1>3 DEF GetN, RBlock
  <1>5. /\ ns \in {0, 1} /\ nr \in {0, 1} /\ cns \in {0, 1} /\ cnr \in {0, 1} /\ cur \in {0, 1}
    BY NumberTypes
  <1>6. faults \in Nat /\ rerrcntr \in Nat /\ rerrcntr <= faults
    BY DEF IInv, TypeOK, CardTypeOK, HostTypeOK, MadeGood, CountsFaults
  <1>7. ~(rerrcntr + 1 > Retries)
    <2>1. Retries \in Nat
      BY LimitsAssumption
    <2> QED BY <1>6, <2>1 DEF Bearable
  <1>8. \/ NeverAborts' /\ HeldDue' /\ pc' # "idle"
        \/ RBlockTooMany \/ RBlockUnexpected
    BY <1>2 DEF MadeGood, NeverAborts, HeldDue, cardVars, RBlockWhileReceiving, RBlockResend, RBlockNext
  <1>9. ~RBlockTooMany
    BY <1>7 DEF RBlockTooMany
  <1>10. ~RBlockUnexpected
    BY <1>3, <1>4 DEF RBlockUnexpected, Due, cur
  <1>11. CASE RBlockWhileReceiving
    <2>1. lastiicc /\ rerrcntr = 0 /\ faults = 1
      BY <1>3, <1>11 DEF RBlockWhileReceiving, Due, Asked
    <2>2. /\ rerrcntr' = 1 /\ timeouts' = 0 /\ errcntr' = 0 /\ block' = RBlock(nr)
          /\ UNCHANGED <<ns, lastiicc, more, cnr>>
      BY <1>11, <2>1 DEF RBlockWhileReceiving, GoodBlock, Write, t1Vars, sendVars, cardVars
    <2>3. CountsFaults' /\ TurnedOnce'
      BY <2>1, <2>2 DEF CountsFaults, TurnedOnce, cur, MadeGood
    <2>4. SentGood'
      <3>1. RBlock(nr).type = "R"
        BY TypesApart
      <3> QED BY <2>1, <2>2, <3>1 DEF SentGood, ResponseTypes
    <2> QED BY <1>8, <1>9, <1>10, <2>3, <2>4, SentIsGood DEF MadeGood
  <1>12. CASE RBlockResend
    <2>1. ~lastiicc /\ cnr = ns /\ rerrcntr = 0 /\ faults = 1
      BY <1>3, <1>4, <1>12 DEF RBlockResend, Due, Asked, cur
    <2>2. /\ rerrcntr' = 1 /\ timeouts' = 0 /\ errcntr' = 0 /\ block'.type = "I" /\ block'.n = ns
          /\ UNCHANGED <<ns, lastiicc, cnr>>
      BY <1>12, <2>1 DEF RBlockResend, GoodBlock, MakeIBlock, Write, IBlock, t1Vars, cardVars
    <2>3. CountsFaults' /\ TurnedOnce'
      BY <2>1, <2>2 DEF CountsFaults, TurnedOnce
    <2>4. SentGood'
      BY <2>1, <2>2 DEF SentGood, ResponseTypes, cur
    <2> QED BY <1>8, <1>9, <1>10, <2>3, <2>4, SentIsGood DEF MadeGood
  <1>13. CASE RBlockNext
    <2>1. ~lastiicc /\ cnr = Flip(ns)
      BY <1>4, <1>5, <1>13, FlipFacts DEF RBlockNext
    <2>2. /\ rerrcntr' = 0 /\ timeouts' = 0 /\ errcntr' = 0
          /\ block'.type = "I" /\ block'.n = Flip(ns) /\ ns' = Flip(ns)
          /\ UNCHANGED <<lastiicc, cnr>>
      BY <1>13, <2>1 DEF RBlockNext, GoodBlock, MakeIBlock, Write, IBlock, t1Vars, cardVars
    <2>3. CountsFaults' /\ TurnedOnce'
      BY <1>6, <2>1, <2>2 DEF CountsFaults, TurnedOnce
    <2>4. SentGood'
      BY <2>1, <2>2 DEF SentGood, ResponseTypes, cur
    <2> QED BY <1>8, <1>9, <1>10, <2>3, <2>4, SentIsGood DEF MadeGood
  <1> QED BY <1>9, <1>10, <1>11, <1>12, <1>13

LEMMA IBlockGood ==
  ASSUME Bearable, IInv, Synced, MadeGood, Fits, TakesNew, HostWrites, InLoop,
         IBlockWrongNumber \/ IBlockTooLong \/ IBlockMore \/ IBlockLast,
         UNCHANGED <<cardVars, faults>>
  PROVE  IF pc' = "idle" THEN ret' = "OK" ELSE MadeGood'
  <1>1. toHost # << >> /\ Received.type = "I"
    BY DEF IBlockWrongNumber, IBlockTooLong, IBlockMore, IBlockLast, IBlockFits, Reads
  <1>2. request = None /\ pc = "xfer"
    BY <1>1, LoopReads
  <1>3. Received = out /\ cns = nr /\ out # None
    BY <1>1, TypesApart DEF TakesNew, GetsNew
  <1>4. /\ ns \in {0, 1} /\ nr \in {0, 1} /\ cns \in {0, 1} /\ cnr \in {0, 1} /\ cur \in {0, 1}
    BY NumberTypes
  <1>5. GetN(Received) = nr
    <2>1. out \in Info(cns)
      BY <1>3 DEF Synced, CardAgrees
    <2> QED BY <1>1, <1>3, <2>1 DEF GetN, Info
  <1>6. cnr # cur
    BY <1>3, <1>4, OutFacts, FlipFacts
  <1>7. ~more
    BY <1>3, <1>6 DEF Synced, Progress, Sending
  <1>8. PICK len \in RspLens : rsp \o Received.data \o restOut = Response(cmd, len)
    BY <1>3, <1>6, <1>7 DEF Synced, Progress, Responding
  <1>9. /\ rsp \in Seq(Byte) /\ Received.data \in Seq(Byte) /\ restOut \in Seq(Byte)
    <2>1. out \in Block
      BY DEF IInv, TypeOK, CardTypeOK
    <2> QED BY <1>3, <2>1 DEF IInv, TypeOK, HostTypeOK, CardTypeOK, Block
  <1>10. Len(rsp) + Len(Received.data) + Len(restOut) = len /\ 2 <= len /\ len <= MaxRsp
    <2>1. Len(rsp \o Received.data \o restOut) = len
      BY <1>8, ResponseLen
    <2> DEFINE data == Received.data
    <2>2. data \in Seq(Byte) /\ Len(rsp \o data \o restOut) = len
      BY <1>9, <2>1
    <2> HIDE DEF data
    <2>3. Len(rsp) + Len(data) + Len(restOut) = len
      BY <1>9, <2>2
    <2> QED BY <2>3 DEF data, Bearable
  <1>11. Len(rsp) \in Nat /\ Len(Received.data) \in Nat /\ Len(restOut) \in Nat /\ MaxRsp \in Nat /\ len \in Nat
    BY <1>9, LimitsAssumption, CardAssumption
  <1>12. ~IBlockWrongNumber
    BY <1>5 DEF IBlockWrongNumber
  <1>13. ~IBlockTooLong
    BY <1>10, <1>11 DEF IBlockTooLong
  <1>14. CASE IBlockMore
    <2>1. /\ rerrcntr' = 0 /\ timeouts' = 0 /\ errcntr' = 0 /\ block' = RBlock(Flip(nr))
          /\ lastiicc' = TRUE /\ ns' = (IF lastiicc THEN ns ELSE Flip(ns))
          /\ UNCHANGED <<pc, more, cnr, request, held>>
      BY <1>14 DEF IBlockMore, TurnToCard, GoodBlock, Write, sendVars, cardVars
    <2>2. cur' = cur
      BY <1>4, <2>1, FlipFacts DEF cur
    <2>3. CountsFaults' /\ TurnedOnce' /\ NeverAborts' /\ HeldDue'
      <3>1. faults \in Nat
        BY DEF IInv, TypeOK, CardTypeOK
      <3> QED BY <1>2, <1>6, <1>7, <2>1, <2>2, <3>1
              DEF CountsFaults, TurnedOnce, NeverAborts, HeldDue, MadeGood
    <2>4. SentGood'
      <3>1. RBlock(Flip(nr)).type = "R"
        BY TypesApart
      <3> QED BY <2>1, <3>1 DEF SentGood, ResponseTypes
    <2>5. pc' # "idle"
      BY <1>2, <2>1
    <2> QED BY <2>3, <2>4, <2>5, SentIsGood DEF MadeGood
  <1>15. CASE IBlockLast
    <2>1. restOut = << >>
      BY <1>3, <1>15 DEF IBlockLast, Synced, CardAgrees
    <2>2. Len(restOut) = 0
      BY <2>1
    <2> DEFINE data == Received.data
    <2>3. data \in Seq(Byte) /\ Len(rsp) + Len(data) >= 2
      BY <1>9, <1>10, <1>11, <2>2
    <2>4. ~(Len(rsp \o data) < 2)
      <3> HIDE DEF data
      <3> QED BY <1>9, <2>3
    <2>5. ret' = "OK" /\ pc' = "idle"
      BY <1>15, <2>4 DEF IBlockLast, Finish
    <2> QED BY <2>5
  <1> QED BY <1>12, <1>13, <1>14, <1>15

LEMMA SBlockGood ==
  ASSUME IInv, MadeGood, Fits, TakesNew, HostWrites, InLoop, SIfs \/ SAbort \/ SWtx \/ SOther,
         UNCHANGED <<cardVars, faults>>
  PROVE  IF pc' = "idle" THEN Received.type = "WTXreq" ELSE MadeGood'
  <1>1. toHost # << >> /\ Received.type \in STypes
    BY DEF SIfs, SAbort, SWtx, SOther, Reads, STypes, RequestTypes, ResponseTypes
  <1>2. pc = "xfer" /\ request # None /\ Received.type \in {"IFSreq", "WTXreq"}
    BY <1>1, LoopReads DEF STypes, RequestTypes, ResponseTypes
  <1>3. ~SAbort /\ ~SOther
    BY <1>2 DEF SAbort, SOther, Reads, ResponseTypes
  <1>4. ASSUME pc' # "idle"
        PROVE  /\ rerrcntr' = 0 /\ timeouts' = 0 /\ errcntr' = 0 /\ block'.type \in {"IFSrsp", "WTXrsp"}
               /\ UNCHANGED <<pc, ns, lastiicc, more>>
    <2>1. \A t, n : SBlock(t, n).type = t
      BY TypesApart
    <2>2. CASE SIfs
      BY <2>1, <2>2 DEF SIfs, GoodBlock, Write, sendVars
    <2>3. CASE SWtx
      BY <1>4, <2>1, <2>3 DEF SWtx, GoodBlock, Write, Finish, sendVars, t1Vars
    <2> QED BY <1>3, <2>2, <2>3
  <1>5. ASSUME pc' # "idle" PROVE MadeGood'
    <2>1. faults \in Nat
      BY DEF IInv, TypeOK, CardTypeOK
    <2>2. CountsFaults' /\ TurnedOnce' /\ NeverAborts'
      BY <1>4, <1>5, <2>1 DEF CountsFaults, TurnedOnce, NeverAborts, MadeGood, cur, cardVars
    <2>3. rerrcntr \in Nat /\ rerrcntr' = 0
      BY <1>4, <1>5 DEF IInv, TypeOK, HostTypeOK
    <2>4. HeldDue'
      BY <1>4, <1>5 DEF HeldDue, Due, Asked, MadeGood, cur, cardVars
    <2>5. SentGood'
      BY <1>2, <1>4, <1>5 DEF SentGood, ResponseTypes, cardVars
    <2> QED BY <1>5, <2>2, <2>4, <2>5, SentIsGood DEF MadeGood
  <1>6. pc' = "idle" => Received.type = "WTXreq"
    BY <1>2, <1>3 DEF SIfs, SWtx, Reads
  <1> QED BY <1>5, <1>6

LEMMA ReadGood ==
  ASSUME Bearable, IInv, Synced, MadeGood, Fits, TakesNew, HostWrites, InLoop, faults <= 1,
         ReceiveOne, toHost # << >>, UNCHANGED <<cardVars, faults>>
  PROVE  EndsGood /\ (pc' # "idle" => MadeGood')
  <1>1. pc = "xfer"
    BY LoopReads
  <1>2. ~IfsdDone /\ ~IfsdAgain /\ ~AbortDone
    BY <1>1 DEF IfsdDone, IfsdAgain, AbortDone
  <1> QED BY <1>2, RcErrorGood, RBlockGood, IBlockGood, SBlockGood DEF ReceiveOne, EndsGood

LEMMA TimeoutGood ==
  ASSUME Bearable, IInv, MadeGood, InLoop, faults <= 1, NothingRead
  PROVE  /\ pc' # "idle"
         /\ HostWrites /\ toCard = << >> /\ toHost = << >> /\ UNCHANGED <<cardVars, faults>>
              => MadeGood'
  <1>1. IoError
    BY DEF NothingRead, IfsdIoError, AbortIoError, InLoop, MadeGood, NeverAborts
  <1>2. timeouts \in Nat /\ faults \in Nat /\ timeouts <= faults /\ Retries \in Nat
    BY LimitsAssumption DEF IInv, TypeOK, CardTypeOK, HostTypeOK, MadeGood, CountsFaults
  <1>3. ~(timeouts + 1 > Retries)
    BY <1>2 DEF Bearable
  <1>4. /\ timeouts' = timeouts + 1 /\ Write(RBlock(nr), toHost) /\ pc' = pc
        /\ UNCHANGED <<errcntr, rerrcntr, ns, lastiicc, more>>
    BY <1>1, <1>3 DEF IoError, t1Vars, sendVars
  <1>5. ASSUME HostWrites, toCard = << >>, toHost = << >>, UNCHANGED <<cardVars, faults>>
        PROVE  MadeGood'
    <2>1. faults = 1 /\ timeouts = 0 /\ errcntr = 0 /\ rerrcntr = 0
      BY <1>5 DEF MadeGood, SpoiledOnce, Spoiled
    <2> QED BY <1>4, <1>5, <2>1, AsksAgain DEF Asked
  <1> QED BY <1>4, <1>5 DEF InLoop

(* The first I-block of a command.                                         *)
LEMMA BeginsGood ==
  ASSUME IInv, Synced, Fits, CountsAnew, ~InLoop, HostWrites, pc' = "xfer",
         block'.type = "I", block'.n = ns,
         UNCHANGED <<ns, cnr, request, held, faults, lastiicc, timeouts, errcntr, rerrcntr>>
  PROVE  MadeGood'
  <1>1. pc \in {"idle", "ifsd"}
    BY DEF InLoop, IInv, HostInv, HostTypeOK
  <1>2. request = None /\ ~lastiicc /\ cnr = ns
    BY <1>1 DEF Fits, LengthsAgree, IInv, HostInv, Fresh, Synced, Progress, Outside
  <1>3. timeouts = 0 /\ errcntr = 0 /\ rerrcntr = 0 /\ faults \in Nat
    BY DEF CountsAnew, IInv, TypeOK, CardTypeOK
  <1>4. request.type # "ABORTreq"
    BY <1>2, TypesApart
  <1>5. CountsFaults' /\ TurnedOnce' /\ NeverAborts' /\ HeldDue'
    BY <1>2, <1>3, <1>4 DEF CountsFaults, TurnedOnce, NeverAborts, HeldDue
  <1>6. SentGood'
    BY <1>2 DEF SentGood, cur, ResponseTypes
  <1> QED BY <1>5, <1>6, SentIsGood DEF MadeGood

(* The card answers with the block that is due, or asks for time or for    *)
(* another length first.                                                   *)
LEMMA AnswersGood ==
  ASSUME ~Aborts, NEW due, AnswerOrAsk(due, FALSE) \/ AnswerOrAsk(due, TRUE)
  PROVE  \E e : /\ toHost' = Append(toHost, e)
                /\ \/ e = due /\ request' = None
                   \/ /\ e = request' /\ held' = due
                      /\ request'.type \in {"WTXreq", "IFSreq"}
  <1>1. Answer(due) => toHost' = Append(toHost, due) /\ request' = None
    BY DEF Answer
  <1>2. ASSUME NEW n, NEW t \in {"WTXreq", "IFSreq"}, Ask(SBlock(t, n), due)
        PROVE  /\ toHost' = Append(toHost, request') /\ held' = due
               /\ request'.type \in {"WTXreq", "IFSreq"}
    BY <1>2, TypesApart DEF Ask
  <1>3. \/ Answer(due)
        \/ \E w \in WtxFactors : Ask(SBlock("WTXreq", w), due)
        \/ \E i \in IfscValues : Ask(SBlock("IFSreq", i), due)
    BY DEF AnswerOrAsk
  <1> QED BY <1>1, <1>2, <1>3

LEMMA CardGood ==
  ASSUME Bearable, IInv, Synced, Alone, Fits, TakesNew, MadeGood, InLoop, CardStep,
         UNCHANGED <<hostVars, faults>>
  PROVE  MadeGood'
  <1>1. /\ nr \in {0, 1} /\ cns \in {0, 1} /\ cnr \in {0, 1} /\ cur \in {0, 1}
    BY NumberTypes
  <1>2. toCard # << >> /\ toCard' = << >> /\ toHost = << >> /\ Len(toHost') = 1
    BY CardAlone DEF Alone
  <1>3. \A e : toHost' = Append(toHost, e) => Received' = e
    <2>1. \A e : Head(Append(<< >>, e)) = e
      OBVIOUS
    <2> QED BY <1>2, <2>1 DEF Received
  <1>4. UNCHANGED <<pc, lastiicc, more, ns, nr, cur, timeouts, errcntr, rerrcntr, faults>>
    BY DEF hostVars, cur
  <1>5. pc = "xfer"
    BY DEF InLoop, MadeGood, NeverAborts
  <1>6. CountsFaults' /\ CardExpects'
    BY <1>2, <1>4 DEF MadeGood, CountsFaults, CardExpects
  <1>7. RBlock(cnr).type = "R" /\ RBlock(cnr').type = "R"
    BY TypesApart
  <1>8. out # None => out.type = "I"
    BY DEF Synced, CardAgrees, Info
  <1>9. ASSUME Received'.type # "bad" PROVE SpoiledOnce'
    <2>1. toHost' # << >>
      BY <1>2
    <2> QED BY <1>2, <1>9, <2>1 DEF SpoiledOnce, Spoiled
  \* It says again what it has asked, or asks for a repetition.
  <1>10. ASSUME UNCHANGED <<held, request, cnr>>, NEW e, toHost' = Append(toHost, e),
                IF request = None THEN e = RBlock(cnr) /\ Due ELSE e = request
         PROVE  MadeGood'
    <2>1. Received' = e
      BY <1>3, <1>10
    <2>2. request # None => request.type \in RequestTypes
      BY DEF Fits, CardHolds
    <2>3. Due' <=> Due
      BY <1>4, <1>10 DEF Due, Asked
    <2>4. HostExpects'
      BY <1>7, <1>10, <2>1, <2>2, <2>3 DEF HostExpects, RequestTypes
    <2>5. SpoiledOnce'
      BY <1>7, <1>9, <1>10, <2>1, <2>2 DEF RequestTypes
    <2>6. TurnedOnce' /\ NeverAborts' /\ HeldDue'
      BY <1>4, <1>10, <2>3 DEF MadeGood, TurnedOnce, NeverAborts, HeldDue
    <2> QED BY <1>6, <2>4, <2>5, <2>6 DEF MadeGood
  \* It answers, or asks for time.
  <1>11. ASSUME NEW due, AnswerOrAsk(due, FALSE) \/ AnswerOrAsk(due, TRUE),
                due.type = "I" \/ (due = RBlock(cnr') /\ Due'),
                TurnedOnce'
         PROVE  MadeGood'
    <2>1. PICK e : /\ toHost' = Append(toHost, e)
                   /\ \/ e = due /\ request' = None
                      \/ /\ e = request' /\ held' = due
                         /\ request'.type \in {"WTXreq", "IFSreq"}
      BY <1>11, AnswersGood DEF Bearable
    <2>2. Received' = e
      BY <1>3, <2>1
    <2>3. None.type = "bad"
      BY TypesApart
    <2>4. HostExpects'
      BY <1>7, <1>11, <2>1, <2>2 DEF HostExpects, RequestTypes
    <2>5. SpoiledOnce'
      BY <1>7, <1>9, <1>11, <2>1, <2>2
    <2>6. NeverAborts' /\ HeldDue'
      BY <1>4, <1>5, <1>11, <2>1, <2>3 DEF NeverAborts, HeldDue
    <2> QED BY <1>6, <1>11, <2>4, <2>5, <2>6 DEF MadeGood
  <1>12. cnr' = cnr => TurnedOnce'
    BY <1>4 DEF MadeGood, TurnedOnce
  \* An R-block is answered with one only if it is about a block of the reader.
  <1>13. out = None \/ (cns # nr /\ ~out.more) => cnr = cur \/ more
    BY DEF Synced, Progress, Responding
  <1>14. CASE CardGarbled
    <2>1. Incoming.type = "bad" /\ UNCHANGED <<held, request, cnr>>
          /\ toHost' = Append(toHost, IF request # None THEN request ELSE RBlock(cnr))
      BY <1>14 DEF CardGarbled, Takes, cardVars
    <2>2. Asked
      BY <1>2, <2>1 DEF MadeGood, SpoiledOnce, Spoiled, Asked
    <2>3. request = None => Due
      BY <1>2, <2>1, <2>2 DEF MadeGood, CardExpects, Due
    <2> QED BY <1>10, <2>1, <2>3
  <1>15. CASE CardRepeatsRequest
    BY <1>10, <1>15 DEF CardRepeatsRequest, cardVars
  <1>16. ~CardOddResponse /\ ~CardIfs /\ ~CardWrongIBlock
    <2>1. Incoming.type = "I" => Incoming.n = cnr /\ Len(Incoming.data) <= cifsc
      BY <1>2 DEF MadeGood, CardExpects, Fits, CardGets
    <2>2. Len(Incoming.data) \in Nat /\ cifsc \in Nat
      <3>1. toCard \in Seq(Block) /\ cifsc \in Nat
        BY DEF IInv, TypeOK, HostTypeOK, CardTypeOK
      <3>2. Incoming \in Block
        BY <1>2, <3>1 DEF Incoming
      <3>3. Incoming.data \in Seq(Byte)
        BY <3>2 DEF Block
      <3> QED BY <3>1, <3>3
    <2>3. ~CardWrongIBlock
      <3> SUFFICES ASSUME CardWrongIBlock PROVE FALSE
        OBVIOUS
      <3>1. Incoming.type = "I" /\ (Incoming.n # cnr \/ Len(Incoming.data) > cifsc)
        BY DEF CardWrongIBlock, Takes
      <3> DEFINE len == Len(Incoming.data)
      <3>2. len \in Nat /\ cifsc \in Nat /\ len <= cifsc /\ len > cifsc
        BY <2>1, <2>2, <3>1
      <3> HIDE DEF len
      <3> QED BY <3>2
    <2>4. ~CardOddResponse
      BY <1>2 DEF CardOddResponse, Takes, MadeGood, CardExpects
    <2>5. ~CardIfs
      BY <1>2, <1>5 DEF CardIfs, Takes, Fits, CardGets
    <2> QED BY <2>3, <2>4, <2>5
  <1>17. CASE CardResponse
    <2>1. request # None /\ cnr' = cnr
      BY <1>17 DEF CardResponse
    <2>2. CASE toHost' = Append(toHost, request) /\ UNCHANGED <<request, held>>
      BY <1>10, <2>1, <2>2
    <2>3. CASE AnswerOrAsk(held, FALSE)
      <3>1. held = RBlock(cnr) \/ (held = out /\ out # None)
        BY <2>1 DEF Synced, CardAgrees
      <3>2. held.type = "R" => Due'
        BY <1>4, <2>1 DEF MadeGood, HeldDue, Due, Asked
      <3> QED BY <1>7, <1>8, <1>11, <1>12, <2>1, <2>3, <3>1, <3>2
    <2> QED BY <1>17, <2>2, <2>3 DEF CardResponse
  <1>18. CASE CardIBlockMore \/ CardIBlockLast
    <2>1. cnr = cur /\ cnr' = Flip(cur) /\ (Incoming.more <=> more)
      BY <1>18, AcceptFacts DEF CardIBlockMore, CardIBlockLast
    <2>2. ~lastiicc
      BY <2>1 DEF MadeGood, TurnedOnce
    <2>3. TurnedOnce'
      BY <1>4, <2>2 DEF TurnedOnce
    <2>4. CASE CardIBlockMore
      <3>1. AnswerOrAsk(RBlock(cnr'), TRUE) /\ more
        BY <1>18, <2>1, <2>4 DEF CardIBlockMore
      <3>2. Due'
        BY <1>1, <1>4, <2>1, <2>2, <3>1, FlipFacts DEF Due
      <3> QED BY <1>11, <2>3, <3>1, <3>2
    <2>5. CASE CardIBlockLast
      <3>1. \E n, bytes : AnswerOrAsk(Outgoing(n, bytes), TRUE)
        BY <2>5 DEF CardIBlockLast
      <3> QED BY <1>11, <2>3, <3>1, TypesApart
    <2> QED BY <1>18, <2>4, <2>5
  <1>19. CASE CardRepeats
    <2>1. AnswerOrAsk(out, FALSE) /\ out # None /\ cnr' = cnr
      BY <1>19 DEF CardRepeats
    <2> QED BY <1>8, <1>11, <1>12, <2>1
  <1>20. CASE CardContinues
    <2>1. cnr' = cnr /\ \E n, bytes : AnswerOrAsk(Outgoing(n, bytes), FALSE)
      BY <1>20 DEF CardContinues
    <2> QED BY <1>11, <1>12, <2>1, TypesApart
  <1>21. CASE CardAwaits
    <2>1. /\ Incoming.type = "R" /\ (out # None => GetN(Incoming) # cns /\ ~out.more)
          /\ cnr' = cnr /\ AnswerOrAsk(RBlock(cnr), FALSE)
      BY <1>21 DEF CardAwaits, TakesRBlock, Takes
    <2>2. Incoming \in Numbered
      <3>1. toCard \in Seq(Numbered)
        BY DEF Synced, LinesAgree, ToCardLine
      <3> QED BY <1>2, <3>1 DEF Incoming
    <2>3. GetN(Incoming) = nr
      <3>1. \E m \in {0, 1} : Incoming = RBlock(m)
        BY <2>1, <2>2 DEF Numbered, RBlock
      <3>2. Incoming = RBlock(nr)
        BY <1>1, <1>2, <3>1, FlipFacts DEF TakesNew, AsksForNew
      <3> QED BY <2>1, <3>2 DEF GetN, RBlock
    <2>4. cnr = cur \/ more
      BY <1>13, <2>1, <2>3
    <2>5. lastiicc \/ Asked
      BY <1>2, <2>1 DEF MadeGood, CardExpects
    <2>6. Due
      BY <2>4, <2>5 DEF Due, MadeGood, TurnedOnce
    <2>7. Due'
      BY <1>4, <2>1, <2>6 DEF Due, Asked
    <2> QED BY <1>11, <1>12, <2>1, <2>7
  <1> QED BY <1>14, <1>15, <1>16, <1>17, <1>18, <1>19, <1>20, <1>21 DEF CardStep

LEMMA FaultGood ==
  ASSUME IInv, Alone, Fits, MadeGood, InLoop, LineFault, faults' <= 1, UNCHANGED hostVars
  PROVE  MadeGood'
  <1>1. faults = 0 /\ faults' = 1
    <2>1. faults' = faults + 1
      BY DEF LineFault, GarbleToCard, GarbleToHost, LoseToCard, LoseToHost, Fault
    <2>2. faults \in Nat
      BY DEF IInv, TypeOK, CardTypeOK
    <2> QED BY <2>1, <2>2
  <1>2. timeouts = 0 /\ errcntr = 0 /\ rerrcntr = 0
    <2>1. timeouts \in Nat /\ errcntr \in Nat /\ rerrcntr \in Nat
      BY DEF IInv, TypeOK, HostTypeOK
    <2> QED BY <1>1, <2>1 DEF MadeGood, CountsFaults
  <1>3. /\ toCard' # << >> => toCard # << >> /\ Incoming' \in {Incoming, Garbled}
        /\ toHost' # << >> => toHost # << >> /\ Received' \in {Received, Garbled}
        /\ UNCHANGED <<cnr, request, held>>
    BY FaultAlone DEF Alone, cardVars
  <1>4. UNCHANGED <<pc, lastiicc, more, ns, cur, timeouts, errcntr, rerrcntr>>
    BY DEF hostVars, cur
  <1>5. ~Asked /\ (Due => Due')
    BY <1>1, <1>3, <1>4 DEF Asked, Due
  <1>6. Garbled.type = "bad"
    BY TypesApart
  <1>7. CountsFaults' /\ TurnedOnce' /\ NeverAborts' /\ SpoiledOnce' /\ HeldDue'
    BY <1>1, <1>2, <1>3, <1>4, <1>5
       DEF MadeGood, CountsFaults, TurnedOnce, NeverAborts, SpoiledOnce, HeldDue
  <1>8. CardExpects'
    <2> SUFFICES ASSUME toCard' # << >>
                 PROVE  /\ Incoming'.type \in {"I", "R", "bad"} \cup ResponseTypes
                        /\ Incoming'.type = "I" => cnr = cur /\ Incoming'.n = cnr
                        /\ Incoming'.type = "R" => lastiicc \/ Asked'
                        /\ Incoming'.type \in ResponseTypes => request # None
                        /\ Incoming'.type = "bad" /\ request = None => lastiicc \/ cnr = cur \/ more
      BY <1>3, <1>4 DEF CardExpects
    <2>1. toCard # << >> /\ Incoming.type # "bad"
      BY <1>1, <1>3 DEF MadeGood, SpoiledOnce, Spoiled
    <2>2. /\ Incoming.type \in {"I", "R"} \cup ResponseTypes
          /\ Incoming.type = "I" => cnr = cur /\ Incoming.n = cnr
          /\ Incoming.type = "R" => lastiicc
          /\ Incoming.type \in ResponseTypes => request # None
      BY <1>5, <2>1 DEF MadeGood, CardExpects
    <2> QED BY <1>3, <1>6, <2>1, <2>2 DEF ResponseTypes
  <1>9. HostExpects'
    BY <1>3, <1>5, <1>6 DEF MadeGood, HostExpects, RequestTypes
  <1> QED BY <1>7, <1>8, <1>9 DEF MadeGood

LEMMA CountsStep ==
  ASSUME CountsAnew, [Next]_vars
  PROVE  CountsAnew'
  <1> SUFFICES ASSUME ~InLoop' PROVE timeouts' = 0 /\ errcntr' = 0 /\ rerrcntr' = 0
    BY DEF CountsAnew
  <1>1. ASSUME UNCHANGED <<pc, countVars>> PROVE timeouts' = 0 /\ errcntr' = 0 /\ rerrcntr' = 0
    BY <1>1 DEF CountsAnew, InLoop, countVars
  <1>2. ASSUME pc' = "idle", NEW r, NEW unread, Finish(r, unread)
        PROVE timeouts' = 0 /\ errcntr' = 0 /\ rerrcntr' = 0
    BY <1>2 DEF Finish
  <1>3. CASE AppSend
    <2>1. PICK d \in BOOLEAN : SendCmd(Command(serial + 1), d)
      BY <1>3 DEF AppSend
    <2>2. pc = "idle" /\ UNCHANGED countVars
      BY <2>1 DEF SendCmd
    <2> QED BY <2>2 DEF CountsAnew, InLoop, countVars
  <1>4. CASE AppRefused \/ AppReset \/ AppResetFails \/ AppIdentify
    BY <1>1, <1>4 DEF AppRefused, RefuseCmd, AppReset, ResetCard, AppResetFails, ResetFails,
                      AppIdentify, ProcessATR
  <1>5. CASE CardMoves \/ LineFails \/ UNCHANGED vars
    BY <1>1, <1>5 DEF CardMoves, LineFails, vars, hostVars, countVars
  <1>6. CASE HostTimeout
    <2>1. pc' = "idle" => timeouts' = 0 /\ errcntr' = 0 /\ rerrcntr' = 0
      BY <1>6 DEF HostTimeout, NothingRead, IfsdIoError, IoError, AbortIoError, Finish, InLoop
    <2>2. pc' = "idle"
      BY <1>6 DEF HostTimeout, NothingRead, IfsdIoError, IoError, AbortIoError, Finish, InLoop
    <2> QED BY <2>1, <2>2
  <1>7. CASE HostReceives
    <2>1. CASE IfsdDone
      BY <2>1 DEF IfsdDone, InLoop
    <2>2. CASE IfsdAgain
      BY <1>1, <2>2 DEF IfsdAgain
    <2>3. CASE RcError \/ SWtx
      BY <2>3 DEF RcError, SWtx, Reads, Finish, InLoop
    <2>4. CASE RBlockWhileReceiving \/ RBlockResend \/ RBlockNext \/ IBlockWrongNumber
               \/ IBlockMore \/ SIfs \/ SAbort \/ SOther
      BY <2>4 DEF RBlockWhileReceiving, RBlockResend, RBlockNext, IBlockWrongNumber, IBlockMore,
                  IBlockFits, SIfs, SAbort, SOther, Reads, InLoop
    <2>5. CASE RBlockTooMany \/ RBlockUnexpected \/ IBlockTooLong \/ AbortDone \/ IBlockLast
      BY <2>5 DEF RBlockTooMany, RBlockUnexpected, IBlockTooLong, AbortDone, IBlockLast, Finish
    <2> QED BY <1>7, <2>1, <2>2, <2>3, <2>4, <2>5 DEF HostReceives, ReceiveOne
  <1> QED BY <1>3, <1>4, <1>5, <1>6, <1>7 DEF Next

LEMMA GoodStep ==
  ASSUME Bearable, IInv, SyncInv, AloneInv, FitInv, NewInv, CountsAnew, GoodInv, [Next]_vars
  PROVE  GoodInv'
  <1> SUFFICES ASSUME clean', lates' = 0, faults' <= 1, InLoop' PROVE MadeGood'
    BY DEF GoodInv
  <1>1. lates = 0 /\ pc' # "idle"
    BY NoneLate DEF InLoop
  <1>2. CASE AppSend
    <2>1. PICK d \in BOOLEAN : SendCmd(Command(serial + 1), d)
      BY <1>2 DEF AppSend
    <2>2. /\ clean /\ pc = "idle" /\ pc' = "xfer" /\ block'.type = "I" /\ block'.n = ns
          /\ UNCHANGED <<ns, lastiicc, timeouts, errcntr, rerrcntr>>
      BY <1>2, <2>1 DEF AppSend, SendCmd, MakeIBlock, Write, IBlock, InLoop, t1Vars, countVars
    <2>3. UNCHANGED <<cnr, request, held, faults>>
      BY <1>2 DEF AppSend, cardVars
    <2>4. HostWrites
      BY <1>1, <1>2, <2>2, SendAlone DEF AloneInv, Alone
    <2> QED BY <1>1, <2>2, <2>3, <2>4, BeginsGood DEF SyncInv, FitInv, InLoop
  <1>3. CASE AppRefused \/ AppReset \/ AppResetFails \/ AppIdentify
    BY <1>3 DEF AppRefused, RefuseCmd, AppReset, ResetCard, AppResetFails, ResetFails,
                AppIdentify, ProcessATR, InLoop
  <1>4. CASE HostReceives
    <2>1. clean /\ ReceiveOne /\ UNCHANGED <<cardVars, faults>>
      BY <1>4 DEF HostReceives, NoteFailure
    <2>2. Synced /\ Alone /\ Fits /\ TakesNew
      BY <1>1, <2>1 DEF SyncInv, AloneInv, FitInv, NewInv
    <2>3. HostWrites /\ toHost # << >>
      BY <2>1, <2>2, ReadAlone DEF Alone
    <2>4. CASE InLoop
      <3>1. faults <= 1 /\ MadeGood
        BY <1>1, <2>1, <2>4 DEF GoodInv
      <3> QED BY <1>1, <2>1, <2>2, <2>3, <2>4, <3>1, ReadGood
    <2>5. CASE ~InLoop
      <3>1. IfsdDone
        BY <2>1, <2>5 DEF InLoop, ReceiveOne, IfsdAgain, RcError, RBlockTooMany, RBlockWhileReceiving,
                          RBlockResend, RBlockNext, RBlockUnexpected, IBlockWrongNumber, IBlockTooLong,
                          IBlockMore, IBlockLast, IBlockFits, SIfs, SAbort, AbortDone, SWtx, SOther,
                          Reads
      <3>2. /\ pc' = "xfer" /\ block'.type = "I" /\ block'.n = ns
            /\ UNCHANGED <<ns, lastiicc, timeouts, errcntr, rerrcntr>>
        BY <3>1 DEF IfsdDone, MakeIBlock, Write, IBlock, countVars
      <3> QED BY <2>1, <2>2, <2>3, <2>5, <3>2, BeginsGood DEF cardVars
    <2> QED BY <2>4, <2>5
  <1>5. CASE HostTimeout
    <2>1. clean /\ NothingRead /\ UNCHANGED <<cardVars, faults>>
      BY <1>5 DEF HostTimeout, NoteFailure
    <2>2. HostWrites /\ toCard = << >> /\ toHost = << >>
      BY <1>5, TimeoutAlone
    <2>3. InLoop
      BY <1>1, <2>1 DEF NothingRead, IfsdIoError, IoError, AbortIoError, InLoop, Finish
    <2>4. faults <= 1 /\ MadeGood
      BY <1>1, <2>1, <2>3 DEF GoodInv
    <2> QED BY <2>1, <2>2, <2>3, <2>4, TimeoutGood
  <1>6. CASE CardMoves
    <2>1. clean /\ CardStep /\ UNCHANGED hostVars /\ InLoop
      BY <1>6 DEF CardMoves, sessionVars, hostVars, InLoop
    <2>2. UNCHANGED faults
      BY <2>1 DEF CardStep, CardGarbled, CardRepeatsRequest, CardOddResponse, CardResponse, CardIfs,
                  CardWrongIBlock, CardIBlockMore, CardIBlockLast, CardRepeats, CardContinues, CardAwaits
    <2> QED BY <1>1, <2>1, <2>2, CardGood DEF SyncInv, AloneInv, FitInv, NewInv, GoodInv
  <1>7. CASE LineFails
    <2>1. clean /\ LineFault /\ UNCHANGED hostVars /\ InLoop
      BY <1>7 DEF LineFails, sessionVars, hostVars, InLoop
    <2>2. faults <= 1
      <3>1. faults \in Nat /\ faults' = faults + 1
        BY <2>1 DEF IInv, TypeOK, CardTypeOK, LineFault, GarbleToCard, GarbleToHost, LoseToCard,
                    LoseToHost, Fault
      <3> QED BY <3>1
    <2> QED BY <1>1, <2>1, <2>2, FaultGood DEF AloneInv, FitInv, GoodInv
  <1>8. CASE UNCHANGED vars
    BY <1>8 DEF vars, hostVars, lineVars, cardVars, GoodInv, MadeGood, CountsFaults, TurnedOnce,
                NeverAborts, SpoiledOnce, Spoiled, CardExpects, HostExpects, HeldDue, Due, Asked,
                cur, InLoop, Incoming, Received
  <1> QED BY <1>2, <1>3, <1>4, <1>5, <1>6, <1>7, <1>8 DEF Next

(* A single line fault is made good: whatever block is garbled or lost,    *)
(* none of the three limits of the loop (469, 493, 514) is reached and no  *)
(* R-block is unexpected (536), so scT1SendCmd returns SC_EXIT_OK, unless  *)
(* the request for more time is refused.  Assumed is a card that does not  *)
(* abort, with a response that has a status word and finds room, and       *)
(* an application that resets it after a failure and has its ATR           *)
(* evaluated.  Two errors of a kind must be forgiven: the block that comes *)
(* after the repetition may be answered by an R-block too.                 *)
THEOREM SingleFaultMadeGood ==
  ASSUME Bearable, ~IfsAnyTime, ResetsAfterError, Identifies
  PROVE  Spec => OneFaultMadeGood
  <1>1. Init => CountsAnew /\ GoodInv
    BY DEF Init, T1Init, CountsAnew, GoodInv, InLoop
  <1>2. CountsAnew /\ [Next]_vars => CountsAnew'
    BY CountsStep
  <1>3. /\ IInv /\ SyncInv /\ AloneInv /\ FitInv /\ NewInv /\ CountsAnew /\ GoodInv
        /\ [Next]_vars
        => GoodInv'
    BY GoodStep
  <1>4. /\ IInv /\ SyncInv /\ AloneInv /\ FitInv /\ NewInv /\ GoodInv /\ CleanLoop
        /\ [Next]_vars
        => [faults <= 1 /\ lates = 0 /\ pc = "xfer" /\ pc' = "idle"
              => \/ ret' = "OK"
                 \/ toHost # << >> /\ Received.type = "WTXreq"]_vars
    <2> SUFFICES ASSUME IInv, SyncInv, AloneInv, FitInv, NewInv, GoodInv, CleanLoop, Next,
                        faults <= 1, lates = 0, pc = "xfer", pc' = "idle"
                 PROVE  ret' = "OK" \/ (toHost # << >> /\ Received.type = "WTXreq")
      BY DEF vars, hostVars
    <2>1. clean /\ InLoop
      BY DEF CleanLoop, InLoop
    <2>2. Synced /\ Alone /\ Fits /\ TakesNew /\ MadeGood
      BY <2>1 DEF SyncInv, AloneInv, FitInv, NewInv, GoodInv
    <2>3. HostReceives \/ HostTimeout
      BY DEF Next, AppSend, SendCmd, AppRefused, RefuseCmd, AppReset, ResetCard, AppResetFails,
             ResetFails, AppIdentify, ProcessATR, CardMoves, LineFails, hostVars
    <2>4. CASE HostReceives
      <3>1. HostWrites /\ toHost # << >> /\ ReceiveOne /\ UNCHANGED <<cardVars, faults>>
        BY <2>2, <2>4, ReadAlone DEF HostReceives, Alone
      <3>2. EndsGood
        BY <2>1, <2>2, <3>1, ReadGood
      <3> QED BY <3>2 DEF EndsGood
    <2>5. CASE HostTimeout
      BY <2>1, <2>2, <2>5, TimeoutGood DEF HostTimeout
    <2> QED BY <2>3, <2>4, <2>5
  <1>5. IInv /\ SyncInv /\ [Next]_vars => SyncInv'
    BY SyncStep
  <1>6. IInv /\ AloneInv /\ FitInv /\ [Next]_vars => FitInv'
    BY FitStep
  <1>7. IInv /\ SyncInv /\ AloneInv /\ NewInv /\ [Next]_vars => NewInv'
    BY NewStep
  <1>8. Init => FitInv /\ NewInv
    BY TypesApart DEF Init, T1Init, CardInit, FitInv, Fits, CardHolds, LengthsAgree, CardGets, HostGets,
                      NewInv, TakesNew, AsksForNew, GetsNew, HoldsNew
  <1> QED BY <1>1, <1>2, <1>3, <1>4, <1>5, <1>6, <1>7, <1>8, SyncInit, Invariance, StaysAlone,
             LoopIsClean, PTL DEF Spec, OneFaultMadeGood
===============================================================================
