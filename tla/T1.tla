---------------------------------- MODULE T1 ----------------------------------
(***************************************************************************)
(* The reader's side of the T=1 block protocol: scT1SendCmd and            *)
(* scT1ChangeIFSD of scez/sct1.c, with the reset of the protocol state     *)
(* that scGeneralCleanCI and scSmartcardProcessATR do.                     *)
(*                                                                         *)
(* scT1SendCmd is one loop around scT1SendRecvBlock.  A step of this       *)
(* module is one pass of the loop: it begins when scT1SendRecvBlock        *)
(* returns (a block was read, or nothing was) and ends when the next block *)
(* has been written, which is when the program waits again.  The variable  *)
(* pc says at which of the three calls of scT1SendRecvBlock the program    *)
(* waits.                                                                  *)
(*                                                                         *)
(* The card is not in this module; nothing here restricts what it may put  *)
(* into toHost.                                                            *)
(***************************************************************************)
EXTENDS T1Blocks

CONSTANTS
    Retries,      \* errors of a kind the loop forgives (3 in the code)
    IfsdErrors,   \* the same for scT1ChangeIFSD (2 in the code)
    MaxRsp,       \* SC_GENERAL_SHORT_DATA_SIZE + 2 (258)
    MaxWtx,       \* sum of multipliers when there is no scWaitReq (200)
    WaitReq,      \* whether the reader driver has an scWaitReq callback
    DefaultIfsc   \* IFSC of a new SC_CARD_INFO (32)

ASSUME LimitsAssumption ==
    /\ Retries \in Nat /\ IfsdErrors \in Nat /\ MaxWtx \in Nat
    /\ MaxRsp \in Nat /\ MaxRsp >= 2
    /\ WaitReq \in BOOLEAN
    /\ DefaultIfsc \in Nat

VARIABLES
    pc,           \* "idle", or the call of scT1SendRecvBlock that is open
    ns, nr,       \* t1->ns, t1->nr: kept from one command to the next
    ifsc,         \* t1->ifsc
    ifsreq,       \* t1->ifsreq: S(IFS request) was already sent
    cmd,          \* apdu->cmd[0..cmdlen-1]
    wantData,     \* apdu->cse is CASE_2_SHORT or CASE_4_SHORT
    apduRsp,      \* apdu->rsp[0..rsplen-1]
    sendptr, sendlen, more, lastiicc,         \* locals of scT1SendCmd
    timeouts, errcntr, rerrcntr, wtxcntr,     \* its counters
    errors,       \* the counter of scT1ChangeIFSD
    block,        \* the block last written
    rsp,          \* the response collected so far
    ret           \* what the last scT1SendCmd returned

apduVars  == <<cmd, wantData, apduRsp>>
t1Vars    == <<ns, nr, ifsc, ifsreq>>
sendVars  == <<sendptr, sendlen, more>>
countVars == <<timeouts, errcntr, rerrcntr, wtxcntr>>
hostVars  == <<pc, ns, nr, ifsc, ifsreq, cmd, wantData, apduRsp, sendptr,
               sendlen, more, lastiicc, timeouts, errcntr, rerrcntr, wtxcntr,
               errors, block, rsp, ret>>

ErrorCodes == {"IO_ERROR", "PROTOCOL_ERROR", "BAD_SW", "UNKNOWN_ERROR",
               "BAD_PARAM", "CARD_CHANGED", "NO_CARD", "WAIT_ERROR"}

(***************************************************************************)
(* Writing a block.  scT1SendRecvBlock first reads and discards what has   *)
(* arrived; a block that is still on its way survives, so the discarded    *)
(* part is any prefix of what is left unread.                              *)
(***************************************************************************)
DrainFrom(unread) ==
    \E k \in 0..Len(unread) : toHost' = SubSeq(unread, k + 1, Len(unread))

Write(b, unread) ==
    /\ toCard' = Append(toCard, b)
    /\ block' = b
    /\ DrainFrom(unread)

Received == Head(toHost)
Unread == Tail(toHost)

-------------------------------------------------------------------------------
(* The label "finish": the buffers and the locals are gone, only t1 and    *)
(* the APDU stay.                                                          *)
Finish(r, unread) ==
    /\ pc' = "idle"
    /\ ret' = r
    /\ sendptr' = 0 /\ sendlen' = 0 /\ more' = TRUE /\ lastiicc' = FALSE
    /\ timeouts' = 0 /\ errcntr' = 0 /\ rerrcntr' = 0 /\ wtxcntr' = 0
    /\ errors' = 0
    /\ block' = Garbled
    /\ rsp' = << >>
    /\ toHost' = unread
    /\ UNCHANGED toCard

(* Slip: a last block that is exactly full still says that more follows.   *)
MakeIBlockFullMore(p, seq, moreNow, n, unread) ==
    LET left == Len(seq) - p
        len == IF left < ifsc THEN left ELSE ifsc
        m == moreNow /\ ~(left < ifsc)
    IN  /\ sendlen' = len
        /\ more' = m
        /\ sendptr' = p + len
        /\ Write(IBlock(n, m, SubSeq(seq, p + 1, p + len)), unread)

(* The I-block for the rest of seq from p on, at most ifsc bytes of it.    *)
(* "more" is only ever cleared.                                            *)
MakeIBlock(p, seq, moreNow, n, unread) ==
    LET left == Len(seq) - p
        len == IF left < ifsc THEN left ELSE ifsc
        m == moreNow /\ len # left
    IN  /\ sendlen' = len
        /\ more' = m
        /\ sendptr' = p + len
        /\ Write(IBlock(n, m, SubSeq(seq, p + 1, p + len)), unread)

-------------------------------------------------------------------------------
(* scT1SendCmd up to its loop.                                             *)

(* It returns before anything is written: the APDU is malformed, the       *)
(* status of the card cannot be read, or the status forbids a command.     *)
(* apdu->rsplen keeps its old value.                                       *)
RefuseCmd(r) ==
    /\ pc = "idle"
    /\ r \in {"BAD_PARAM", "IO_ERROR", "CARD_CHANGED", "NO_CARD"}
    /\ ret' = r
    /\ IF r = "BAD_PARAM" THEN UNCHANGED toHost ELSE DrainFrom(toHost)
    /\ UNCHANGED <<pc, t1Vars, apduVars, sendVars, lastiicc, countVars,
                   errors, block, rsp, toCard>>

(* The command goes out, after S(IFS request) if that was never sent.      *)
SendCmd(c, d) ==
    /\ pc = "idle"
    /\ cmd' = c /\ wantData' = d /\ apduRsp' = << >>
    /\ ret' = "busy"
    /\ IF ifsreq
       THEN /\ pc' = "xfer"
            /\ MakeIBlock(0, c, TRUE, ns, toHost)
       ELSE /\ pc' = "ifsd"
            /\ Write(SBlock("IFSreq", 254), toHost)
            /\ UNCHANGED sendVars
    /\ UNCHANGED <<t1Vars, lastiicc, countVars, errors, rsp>>

(* scT1ChangeIFSD.  An I/O error ends it, and the command with it.         *)
IfsdIoError ==
    /\ pc = "ifsd"
    /\ Finish("IO_ERROR", toHost)
    /\ UNCHANGED <<t1Vars, apduVars>>

(* The S(IFS response) came, or the errors are too many: "Easy exit".      *)
IfsdDone ==
    /\ pc = "ifsd" /\ toHost # << >>
    /\ Received.type = "IFSrsp" \/ errors + 1 > IfsdErrors
    /\ ifsreq' = TRUE
    /\ errors' = 0
    /\ pc' = "xfer"
    /\ MakeIBlock(0, cmd, TRUE, ns, Unread)
    /\ UNCHANGED <<ns, nr, ifsc, apduVars, lastiicc, countVars, rsp, ret>>

IfsdAgain ==
    /\ pc = "ifsd" /\ toHost # << >>
    /\ Received.type # "IFSrsp" /\ errors + 1 <= IfsdErrors
    /\ errors' = errors + 1
    /\ Write(block, Unread)
    /\ UNCHANGED <<pc, t1Vars, apduVars, sendVars, lastiicc, countVars, rsp,
                   ret>>

-------------------------------------------------------------------------------
(* The loop of scT1SendCmd.                                                *)

(* scT1SendRecvBlock fails: nothing was read.                              *)
IoError ==
    /\ pc = "xfer"
    /\ IF timeouts + 1 > Retries
       THEN /\ Finish("IO_ERROR", toHost)
            /\ UNCHANGED <<t1Vars, apduVars>>
       ELSE /\ timeouts' = timeouts + 1
            /\ Write(RBlock(nr), toHost)
            /\ UNCHANGED <<pc, t1Vars, apduVars, sendVars, lastiicc, errcntr,
                           rerrcntr, wtxcntr, errors, rsp, ret>>

(* Slip: the repetition is asked for with the other number.                *)
RcErrorOtherNumber ==
    /\ pc = "xfer" /\ toHost # << >>
    /\ ~CheckRc(Received)
    /\ timeouts' = 0
    /\ errcntr' = errcntr + 1
    /\ Write(RBlock(Flip(nr)), Unread)
    /\ UNCHANGED <<pc, t1Vars, apduVars, sendVars, lastiicc, rerrcntr,
                   wtxcntr, errors, rsp, ret>>

(* A block was read whose length or redundancy code is wrong.              *)
RcError ==
    /\ pc = "xfer" /\ toHost # << >>
    /\ ~CheckRc(Received)
    /\ IF errcntr + 1 > Retries
       THEN /\ Finish("IO_ERROR", Unread)
            /\ UNCHANGED <<t1Vars, apduVars>>
       ELSE /\ timeouts' = 0
            /\ errcntr' = errcntr + 1
            /\ Write(RBlock(nr), Unread)
            /\ UNCHANGED <<pc, t1Vars, apduVars, sendVars, lastiicc, rerrcntr,
                           wtxcntr, errors, rsp, ret>>

(* A good block of one of the given types was read.                        *)
Reads(types) ==
    /\ pc = "xfer" /\ toHost # << >>
    /\ Received.type \in types

(* The counters that every good block clears.                              *)
GoodBlock == timeouts' = 0 /\ errcntr' = 0

(* An R-block too many.                                                    *)
RBlockTooMany ==
    /\ Reads({"R"})
    /\ rerrcntr + 1 > Retries
    /\ Finish("IO_ERROR", Unread)
    /\ UNCHANGED <<t1Vars, apduVars>>

(* Slip: the R-block is not counted.                                       *)
RBlockWhileReceivingUncounted ==
    /\ Reads({"R"})
    /\ lastiicc
    /\ rerrcntr' = rerrcntr
    /\ GoodBlock
    /\ Write(RBlock(nr), Unread)
    /\ UNCHANGED <<pc, t1Vars, apduVars, sendVars, lastiicc, wtxcntr, errors,
                   rsp, ret>>

(* An R-block while the card is sending: acknowledge its last I-block      *)
(* again.                                                                  *)
RBlockWhileReceiving ==
    /\ Reads({"R"})
    /\ rerrcntr + 1 <= Retries
    /\ lastiicc
    /\ rerrcntr' = rerrcntr + 1
    /\ GoodBlock
    /\ Write(RBlock(nr), Unread)
    /\ UNCHANGED <<pc, t1Vars, apduVars, sendVars, lastiicc, wtxcntr, errors,
                   rsp, ret>>

(* Slip: sendptr is not taken back.                                        *)
RBlockResendNoRewind ==
    /\ Reads({"R"})
    /\ rerrcntr + 1 <= Retries
    /\ ~lastiicc
    /\ GetN(Received) = ns
    /\ rerrcntr' = rerrcntr + 1
    /\ GoodBlock
    /\ MakeIBlock(sendptr, cmd, more, ns, Unread)
    /\ UNCHANGED <<pc, t1Vars, apduVars, lastiicc, wtxcntr, errors, rsp, ret>>

(* N(R) is the old N(S): the last I-block is made and sent again.          *)
RBlockResend ==
    /\ Reads({"R"})
    /\ rerrcntr + 1 <= Retries
    /\ ~lastiicc
    /\ GetN(Received) = ns
    /\ rerrcntr' = rerrcntr + 1
    /\ GoodBlock
    /\ MakeIBlock(sendptr - sendlen, cmd, more, ns, Unread)
    /\ UNCHANGED <<pc, t1Vars, apduVars, lastiicc, wtxcntr, errors, rsp, ret>>

(* Slips: the block is made before N(S) is turned; any R-block counts as   *)
(* an acknowledgement; the end of the chain is not looked at.              *)
RBlockNextOldNumber ==
    /\ Reads({"R"})
    /\ rerrcntr + 1 <= Retries
    /\ ~lastiicc
    /\ GetN(Received) # ns
    /\ more
    /\ ns' = Flip(ns)
    /\ rerrcntr' = 0
    /\ GoodBlock
    /\ MakeIBlock(sendptr, cmd, more, ns, Unread)
    /\ UNCHANGED <<pc, nr, ifsc, ifsreq, apduVars, lastiicc, wtxcntr, errors,
                   rsp, ret>>

RBlockNextAnyNumber ==
    /\ Reads({"R"})
    /\ rerrcntr + 1 <= Retries
    /\ ~lastiicc
    /\ more
    /\ ns' = Flip(ns)
    /\ rerrcntr' = 0
    /\ GoodBlock
    /\ MakeIBlock(sendptr, cmd, more, Flip(ns), Unread)
    /\ UNCHANGED <<pc, nr, ifsc, ifsreq, apduVars, lastiicc, wtxcntr, errors,
                   rsp, ret>>

RBlockNextNoEnd ==
    /\ Reads({"R"})
    /\ rerrcntr + 1 <= Retries
    /\ ~lastiicc
    /\ GetN(Received) # ns
    /\ ns' = Flip(ns)
    /\ rerrcntr' = 0
    /\ GoodBlock
    /\ MakeIBlock(sendptr, cmd, more, Flip(ns), Unread)
    /\ UNCHANGED <<pc, nr, ifsc, ifsreq, apduVars, lastiicc, wtxcntr, errors,
                   rsp, ret>>

(* N(R) is the next N(S): the next I-block of the chain is sent.           *)
RBlockNext ==
    /\ Reads({"R"})
    /\ rerrcntr + 1 <= Retries
    /\ ~lastiicc
    /\ GetN(Received) # ns
    /\ more
    /\ ns' = Flip(ns)
    /\ rerrcntr' = 0
    /\ GoodBlock
    /\ MakeIBlock(sendptr, cmd, more, Flip(ns), Unread)
    /\ UNCHANGED <<pc, nr, ifsc, ifsreq, apduVars, lastiicc, wtxcntr, errors,
                   rsp, ret>>

(* N(R) is the next N(S) but there is no next I-block.                     *)
RBlockUnexpected ==
    /\ Reads({"R"})
    /\ rerrcntr + 1 <= Retries
    /\ ~lastiicc
    /\ GetN(Received) # ns
    /\ ~more
    /\ Finish("PROTOCOL_ERROR", Unread)
    /\ UNCHANGED <<t1Vars, apduVars>>

-------------------------------------------------------------------------------
(* An I-block tells that the card has read the whole command: the first    *)
(* one turns N(S), whatever its own number.                                *)
TurnToCard ==
    /\ ns' = IF lastiicc THEN ns ELSE Flip(ns)
    /\ lastiicc' = TRUE

(* N(S) of the card is not the expected one.                               *)
IBlockWrongNumber ==
    /\ Reads({"I"})
    /\ GetN(Received) # nr
    /\ TurnToCard
    /\ rerrcntr' = 0
    /\ GoodBlock
    /\ Write(RBlock(nr), Unread)
    /\ UNCHANGED <<pc, nr, ifsc, ifsreq, apduVars, sendVars, wtxcntr, errors,
                   rsp, ret>>

(* More bytes than the buffer for the response has room for.               *)
IBlockTooLong ==
    /\ Reads({"I"})
    /\ GetN(Received) = nr
    /\ Len(Received.data) > MaxRsp - Len(rsp)
    /\ ns' = IF lastiicc THEN ns ELSE Flip(ns)
    /\ Finish("PROTOCOL_ERROR", Unread)
    /\ UNCHANGED <<nr, ifsc, ifsreq, apduVars>>

(* Slips: the number of the I-block is not looked at; nor is its length.   *)
IBlockFitsAnyNumber ==
    /\ Reads({"I"})
    /\ Len(Received.data) <= MaxRsp - Len(rsp)

IBlockFitsAnyLength ==
    /\ Reads({"I"})
    /\ GetN(Received) = nr

IBlockFits ==
    /\ Reads({"I"})
    /\ GetN(Received) = nr
    /\ Len(Received.data) <= MaxRsp - Len(rsp)

(* A block of the response with more to follow.                            *)
IBlockMore ==
    /\ IBlockFits
    /\ Received.more
    /\ TurnToCard
    /\ nr' = Flip(nr)
    /\ rsp' = rsp \o Received.data
    /\ rerrcntr' = 0
    /\ GoodBlock
    /\ Write(RBlock(Flip(nr)), Unread)
    /\ UNCHANGED <<pc, ifsc, ifsreq, apduVars, sendVars, wtxcntr, errors, ret>>

(* Slips: N(S) turns although it has turned already; the blocks before the *)
(* last are dropped.                                                       *)
IBlockLastTurnsAgain ==
    /\ IBlockFits
    /\ ~Received.more
    /\ ns' = Flip(ns)
    /\ nr' = Flip(nr)
    /\ LET all == rsp \o Received.data
           len == Len(all)
       IN  IF len < 2
           THEN /\ Finish("BAD_SW", Unread)
                /\ UNCHANGED apduRsp
           ELSE /\ Finish("OK", Unread)
                /\ apduRsp' = IF wantData THEN all
                              ELSE SubSeq(all, len - 1, len)
    /\ UNCHANGED <<ifsc, ifsreq, cmd, wantData>>

IBlockLastOnly ==
    /\ IBlockFits
    /\ ~Received.more
    /\ ns' = IF lastiicc THEN ns ELSE Flip(ns)
    /\ nr' = Flip(nr)
    /\ LET all == Received.data
           len == Len(all)
       IN  IF len < 2
           THEN /\ Finish("BAD_SW", Unread)
                /\ UNCHANGED apduRsp
           ELSE /\ Finish("OK", Unread)
                /\ apduRsp' = IF wantData THEN all
                              ELSE SubSeq(all, len - 1, len)
    /\ UNCHANGED <<ifsc, ifsreq, cmd, wantData>>

(* The last block of the response: the command is done.  A command of case *)
(* 1 or 3 keeps the status word only.                                      *)
IBlockLast ==
    /\ IBlockFits
    /\ ~Received.more
    /\ ns' = IF lastiicc THEN ns ELSE Flip(ns)
    /\ nr' = Flip(nr)
    /\ LET all == rsp \o Received.data
           len == Len(all)
       IN  IF len < 2
           THEN /\ Finish("BAD_SW", Unread)
                /\ UNCHANGED apduRsp
           ELSE /\ Finish("OK", Unread)
                /\ apduRsp' = IF wantData THEN all
                              ELSE SubSeq(all, len - 1, len)
    /\ UNCHANGED <<ifsc, ifsreq, cmd, wantData>>

-------------------------------------------------------------------------------
(* Slip: the request is answered and forgotten.                            *)
SIfsForgotten ==
    /\ Reads({"IFSreq"})
    /\ rerrcntr' = 0
    /\ GoodBlock
    /\ Write(SBlock("IFSrsp", GetParam(Received)), Unread)
    /\ UNCHANGED <<pc, t1Vars, apduVars, sendVars, lastiicc, wtxcntr, errors,
                   rsp, ret>>

(* S(IFS request): the card announces how long a block it takes.           *)
SIfs ==
    /\ Reads({"IFSreq"})
    /\ ifsc' = GetParam(Received)
    /\ rerrcntr' = 0
    /\ GoodBlock
    /\ Write(SBlock("IFSrsp", GetParam(Received)), Unread)
    /\ UNCHANGED <<pc, ns, nr, ifsreq, apduVars, sendVars, lastiicc, wtxcntr,
                   errors, rsp, ret>>

(* S(ABORT request): answer, read one more block and give up.              *)
SAbort ==
    /\ Reads({"ABORTreq"})
    /\ pc' = "abort"
    /\ rerrcntr' = 0
    /\ GoodBlock
    /\ Write(SBlock("ABORTrsp", 0), Unread)
    /\ UNCHANGED <<t1Vars, apduVars, sendVars, lastiicc, wtxcntr, errors, rsp,
                   ret>>

AbortIoError ==
    /\ pc = "abort"
    /\ Finish("IO_ERROR", toHost)
    /\ UNCHANGED <<t1Vars, apduVars>>

AbortDone ==
    /\ pc = "abort" /\ toHost # << >>
    /\ Finish("UNKNOWN_ERROR", Unread)
    /\ UNCHANGED <<t1Vars, apduVars>>

(* S(WTX request): the card wants more time.  The callback scWaitReq may   *)
(* refuse it; without one the sum of the multipliers is limited.           *)
SWtx ==
    /\ Reads({"WTXreq"})
    /\ LET total == wtxcntr + GetParam(Received)
       IN  \/ /\ WaitReq \/ total <= MaxWtx
              /\ wtxcntr' = total
              /\ rerrcntr' = 0
              /\ GoodBlock
              /\ Write(SBlock("WTXrsp", GetParam(Received)), Unread)
              /\ UNCHANGED <<pc, t1Vars, apduVars, sendVars, lastiicc, errors,
                             rsp, ret>>
           \/ /\ WaitReq
              /\ Finish("WAIT_ERROR", Unread)
              /\ UNCHANGED <<t1Vars, apduVars>>
           \/ /\ ~WaitReq /\ total > MaxWtx
              /\ Finish("PROTOCOL_ERROR", Unread)
              /\ UNCHANGED <<t1Vars, apduVars>>

(* Any other S-block: the loop comes round and sends the same block again. *)
SOther ==
    /\ Reads(ResponseTypes)
    /\ rerrcntr' = 0
    /\ GoodBlock
    /\ Write(block, Unread)
    /\ UNCHANGED <<pc, t1Vars, apduVars, sendVars, lastiicc, wtxcntr, errors,
                   rsp, ret>>

-------------------------------------------------------------------------------
(* scReaderResetCard: scGeneralCleanCI clears the protocol state, all but  *)
(* IFSC; the line is idle afterwards.                                      *)
ResetCard ==
    /\ pc = "idle"
    /\ ns' = 0 /\ nr' = 0 /\ ifsreq' = FALSE
    /\ ret' = "reset"
    /\ toCard' = << >> /\ toHost' = << >>
    /\ UNCHANGED <<pc, ifsc, apduVars, sendVars, lastiicc, countVars, errors,
                   block, rsp>>

(* The same when the driver cannot reset the card: scReaderResetCard has   *)
(* cleared the protocol state before it finds out.                         *)
ResetFails ==
    /\ pc = "idle"
    /\ ns' = 0 /\ nr' = 0 /\ ifsreq' = FALSE
    /\ ret' = "IO_ERROR"
    /\ UNCHANGED <<pc, ifsc, apduVars, sendVars, lastiicc, countVars, errors,
                   block, rsp, lineVars>>

(* scSmartcardProcessATR, which programs reach through                     *)
(* scSmartcardGetCardType: IFSC is what the ATR says.                      *)
ProcessATR(atrIfsc) ==
    /\ pc = "idle"
    /\ ifsc' = atrIfsc
    /\ UNCHANGED <<pc, ns, nr, ifsreq, apduVars, sendVars, lastiicc, countVars,
                   errors, block, rsp, ret, lineVars>>

ReceiveOne ==
    \/ IfsdDone \/ IfsdAgain
    \/ RcError
    \/ RBlockTooMany \/ RBlockWhileReceiving \/ RBlockResend \/ RBlockNext
    \/ RBlockUnexpected
    \/ IBlockWrongNumber \/ IBlockTooLong \/ IBlockMore \/ IBlockLast
    \/ SIfs \/ SAbort \/ AbortDone \/ SWtx \/ SOther

NothingRead == IfsdIoError \/ IoError \/ AbortIoError

T1Init ==
    /\ pc = "idle" /\ ret = "reset"
    /\ ns = 0 /\ nr = 0 /\ ifsreq = FALSE /\ ifsc = DefaultIfsc
    /\ cmd = << >> /\ wantData = FALSE /\ apduRsp = << >>
    /\ sendptr = 0 /\ sendlen = 0 /\ more = TRUE /\ lastiicc = FALSE
    /\ timeouts = 0 /\ errcntr = 0 /\ rerrcntr = 0 /\ wtxcntr = 0
    /\ errors = 0
    /\ block = Garbled /\ rsp = << >>
    /\ toCard = << >> /\ toHost = << >>

HostTypeOK ==
    /\ pc \in {"idle", "ifsd", "xfer", "abort"}
    /\ ns \in {0, 1} /\ nr \in {0, 1}
    /\ ifsc \in Nat /\ ifsreq \in BOOLEAN
    /\ cmd \in Seq(Byte) /\ wantData \in BOOLEAN /\ apduRsp \in Seq(Byte)
    /\ sendptr \in Nat /\ sendlen \in Nat
    /\ more \in BOOLEAN /\ lastiicc \in BOOLEAN
    /\ timeouts \in 0..Retries /\ errcntr \in 0..Retries
    /\ rerrcntr \in 0..Retries /\ wtxcntr \in Nat
    /\ errors \in 0..IfsdErrors
    /\ block \in Block /\ rsp \in Seq(Byte)
    /\ ret \in ErrorCodes \cup {"OK", "busy", "reset"}
    /\ toCard \in Seq(Block) /\ toHost \in Seq(Block)

(* The response never outgrows the buffer rsp[] of scT1SendCmd, whatever   *)
(* lengths the card puts into its blocks.                                  *)
ResponseFitsBuffer == Len(rsp) <= MaxRsp

(* The I-block that waits for its answer is the stretch of the command     *)
(* between sendptr - sendlen and sendptr, with the current N(S), however   *)
(* often it was repeated and whatever came in between; once the card has   *)
(* begun to respond, no I-block is sent.                                   *)
BlockIsWindow ==
    /\ sendlen <= sendptr /\ sendptr <= Len(cmd)
    /\ pc = "xfer" /\ block.type = "I" =>
          /\ ~lastiicc
          /\ block = IBlock(ns, more, SubSeq(cmd, sendptr - sendlen + 1, sendptr))
===============================================================================
