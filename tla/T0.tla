---------------------------------- MODULE T0 ----------------------------------
(***************************************************************************)
(* The reader's side of T=0: scT0SendCmd, which exchanges one TPDU under   *)
(* the direction of the card's procedure bytes, and scT0SendAPDU, which    *)
(* makes an APDU of up to three TPDUs (the command, the command again with *)
(* the length the card has given, GET RESPONSE).  Source: scez/sct0.c.     *)
(*                                                                         *)
(* A step is what the program does between two reads; pc says which read   *)
(* is open.  A byte of the line carries how the three tests of the loop    *)
(* classify it ("look") and what it really is ("val"), because the program *)
(* only ever sees the first.                                               *)
(***************************************************************************)
EXTENDS Integers, Sequences, SequencesExt

CONSTANTS
    MaxLe,        \* what an Le of 0 stands for (256 in the code)
    MaxNulls,     \* NULL bytes accepted without an scWaitReq (50)
    WaitReq       \* whether the reader driver has an scWaitReq callback

ASSUME LimitsAssumption ==
    MaxLe \in Nat \ {0} /\ MaxNulls \in Nat /\ WaitReq \in BOOLEAN

VARIABLES
    toCard, toHost,   \* the line, byte by byte (a header is one element)
    pc,               \* "idle", or the read that is open
    stage,            \* which TPDU of scT0SendAPDU: "command", "reissue", "get"
    apdu,             \* the caller's SC_APDU: cse, serial, lc, le, hasLe
    striped,          \* local of scT0SendAPDU
    tpdu,             \* the SC_APDU given to scT0SendCmd: cse and cmd[4]
    rsp,              \* rsp[0..pointer-1] of scT0SendCmd
    spointer,         \* bytes of the command already sent
    nulls,            \* null_counter
    apduRsp,          \* apdu->rsp[0..rsplen-1]
    sw,               \* ci->sw
    ret               \* what the last scT0SendAPDU returned

lineVars == <<toCard, toHost>>
hostVars == <<pc, stage, apdu, striped, tpdu, rsp, spointer, nulls, apduRsp,
              sw, ret>>

Cases == 1..4
Errors == {"IO_ERROR", "TIMEOUT", "BAD_SW", "CARD_CHANGED", "NO_CARD",
           "WAIT_ERROR"}

(* A byte that does not look like anything the loop waits for is skipped.  *)
Looks == {"ack", "nack", "null", "sw", "other"}
LineByte(look, kind, a, b) == [look |-> look, val |-> <<kind, a, b>>]
Kind(byte) == byte.val[1]

(* Le as it is coded in a header byte, and what the code makes of it.      *)
Coded(n) == n % MaxLe
Decoded(le) == IF le = 0 THEN MaxLe ELSE le

(* Slip: the first bytes, whatever they are.                               *)
ClipAtEnd(bytes, le) ==
    IF Len(bytes) > le + 2 THEN SubSeq(bytes, 1, le + 2) ELSE bytes

(* "Don't copy more than requested": at most le bytes and the last two.    *)
Clip(bytes, le) ==
    IF Len(bytes) > le + 2
    THEN SubSeq(bytes, 1, le) \o SubSeq(bytes, Len(bytes) - 1, Len(bytes))
    ELSE bytes
Last2(bytes) == SubSeq(bytes, Len(bytes) - 1, Len(bytes))

HasData(cse) == cse \in {3, 4}
CmdByte(k) == LineByte("other", "cmd", apdu.serial, k)

-------------------------------------------------------------------------------
(* Beginning and end of scT0SendAPDU.                                      *)
Finish(r, unread) ==
    /\ pc' = "idle" /\ stage' = "command"
    /\ rsp' = << >> /\ spointer' = 0 /\ nulls' = 0
    /\ striped' = FALSE
    /\ tpdu' = [cse |-> 1, p3 |-> 0]
    /\ ret' = r
    /\ toHost' = unread
    /\ UNCHANGED toCard

(* scT0SendCmd up to its loop: everything unread is discarded, the header  *)
(* goes out.  ins tells the card which command it is.                      *)
Header(ins, cse, p3) ==
    /\ pc' = "procedure"
    /\ tpdu' = [cse |-> cse, p3 |-> p3]
    /\ rsp' = << >> /\ spointer' = 0 /\ nulls' = 0
    /\ toHost' = << >>
    /\ toCard' = Append(toCard, LineByte("other", ins, apdu'.serial, p3))

(* Or the status of the card stands in the way.                            *)
NoCard == \E r \in {"IO_ERROR", "CARD_CHANGED", "NO_CARD"} : Finish(r, << >>)

(* The APDU is malformed.                                                  *)
RefuseAPDU ==
    /\ pc = "idle"
    /\ ret' = "BAD_PARAM"
    /\ UNCHANGED <<pc, stage, apdu, striped, tpdu, rsp, spointer, nulls,
                   apduRsp, sw, lineVars>>

P3(a) == IF HasData(a.cse) THEN a.lc ELSE IF a.cse = 2 THEN a.le ELSE 0
Strips(a) == a.cse = 4 /\ a.hasLe

(* The Le byte of a case 4 command is stripped, if it is there; it comes   *)
(* back only when the command has been exchanged.                          *)
SendAPDU(a) ==
    /\ pc = "idle"
    /\ apdu' = [a EXCEPT !.hasLe = @ /\ ~Strips(a)]
    /\ \/ /\ Header("cmd", a.cse, P3(a))
          /\ stage' = "command"
          /\ striped' = Strips(a)
          /\ apduRsp' = << >>
          /\ ret' = "busy"
       \/ NoCard /\ UNCHANGED apduRsp
    /\ UNCHANGED sw

(* Slip: 61 is taken for an error.                                         *)
CheckResponseNoGet(r, unread) ==
    /\ apduRsp' = r
    /\ IF Len(r) < 2
       THEN Finish("BAD_SW", unread) /\ UNCHANGED sw
       ELSE Finish("OK", unread) /\ sw' = Last2(r)

(* "There should be a response": the status word decides whether it has    *)
(* still to be fetched.  r is what apdu->rsp holds by now.                 *)
CheckResponse(r, unread) ==
    /\ apduRsp' = r
    /\ IF Len(r) < 2
       THEN Finish("BAD_SW", unread) /\ UNCHANGED sw
       ELSE LET n == Last2(r)[2].val[2]
            IN  /\ sw' = Last2(r)
                /\ IF Kind(Last2(r)[1]) = "61" /\ n > 0 /\ Len(r) = 2
                   THEN \/ /\ Header("getrsp", 2, n)
                           /\ stage' = "get"
                           /\ UNCHANGED <<striped, ret>>
                        \/ NoCard
                   ELSE Finish("OK", unread)

(* The command with the length that 6C has given.                          *)
Reissue(r) ==
    /\ apduRsp' = r
    /\ \/ /\ Header("cmd", 2, r[2].val[2])
          /\ stage' = "reissue"
          /\ UNCHANGED <<striped, ret>>
       \/ NoCard
    /\ UNCHANGED sw

-------------------------------------------------------------------------------
LeOfCaller == IF striped THEN Decoded(apdu.le) ELSE MaxLe

(* Slip: the response to GET RESPONSE is passed on as long as it is.       *)
FetchedUnclipped(r, unread) ==
    /\ apduRsp' = r
    /\ Finish("OK", unread)
    /\ UNCHANGED <<apdu, sw>>

Fetched(r, unread) ==
    /\ apduRsp' = Clip(r, LeOfCaller)
    /\ Finish("OK", unread)
    /\ UNCHANGED <<apdu, sw>>

(* Slip: Le is forgotten when the command has been exchanged.              *)
CommandDoneNoLe(r, unread) ==
    /\ UNCHANGED apdu
    /\ IF apdu.cse = 2 /\ Len(r) = 2 /\ Kind(r[1]) = "6C"
       THEN Reissue(r)
       ELSE IF apdu.cse \in {2, 4}
       THEN CheckResponse(r, unread)
       ELSE Finish("OK", unread) /\ apduRsp' = r /\ UNCHANGED sw

CommandDone(r, unread) ==
    /\ apdu' = [apdu EXCEPT !.hasLe = @ \/ striped]
    /\ IF apdu.cse = 2 /\ Len(r) = 2 /\ Kind(r[1]) = "6C"
       THEN Reissue(r)
       ELSE IF apdu.cse \in {2, 4}
       THEN CheckResponse(r, unread)
       ELSE Finish("OK", unread) /\ apduRsp' = r /\ UNCHANGED sw

(* scT0SendCmd returns SC_EXIT_OK with the R-APDU bytes; the rest is       *)
(* scT0SendAPDU up to its next call of scReaderT0 or its end.              *)
TpduDone(bytes, unread) ==
    LET r == Clip(bytes, Decoded(tpdu.p3))
    IN  \/ stage = "command" /\ CommandDone(r, unread)
        \/ /\ stage = "reissue"
           /\ UNCHANGED apdu
           /\ CheckResponse(Clip(r, Decoded(apdu.le)), unread)
        \/ stage = "get" /\ Fetched(r, unread)

(* Slip: the error is not passed on.                                       *)
TpduFailsUnseen(r, unread) ==
    /\ Finish("OK", unread)
    /\ UNCHANGED <<apdu, apduRsp, sw>>

(* It returns an error: nothing is put right.                              *)
TpduFails(r, unread) ==
    /\ Finish(r, unread)
    /\ UNCHANGED <<apdu, apduRsp, sw>>

callVars == <<stage, apdu, striped, tpdu, apduRsp, sw, ret>>

-------------------------------------------------------------------------------
(* The loop of scT0SendCmd: the next procedure byte.                       *)
Unread == Tail(toHost)
Reads(look) == pc = "procedure" /\ toHost # << >> /\ Head(toHost).look = look

(* Slip: the bytes sent before are sent again.                             *)
AckToCardFromStart ==
    /\ Reads("ack") /\ HasData(tpdu.cse)
    /\ toCard' = toCard \o [k \in 1..apdu.lc |-> CmdByte(k)]
    /\ toHost' = Unread
    /\ UNCHANGED <<pc, rsp, spointer, nulls, callVars>>

(* ACK asks for all the bytes that are left, ~ACK for one.                 *)
AckToCard ==
    /\ Reads("ack") /\ HasData(tpdu.cse)
    /\ \/ /\ toCard' = toCard \o
                 [k \in 1..(apdu.lc - spointer) |-> CmdByte(spointer + k)]
          /\ toHost' = Unread
          /\ UNCHANGED <<pc, rsp, spointer, nulls, callVars>>
       \/ TpduFails("IO_ERROR", Unread)

AckFromCard ==
    /\ Reads("ack") /\ tpdu.cse = 2
    /\ pc' = "block"
    /\ toHost' = Unread
    /\ UNCHANGED <<toCard, rsp, spointer, nulls, callVars>>

(* Slip: the pointer moves on twice.                                       *)
NackToCardTwice ==
    /\ Reads("nack") /\ HasData(tpdu.cse)
    /\ toCard' = Append(toCard, CmdByte(spointer + 1))
    /\ spointer' = spointer + 2
    /\ toHost' = Unread
    /\ UNCHANGED <<pc, rsp, nulls, callVars>>

NackToCard ==
    /\ Reads("nack") /\ HasData(tpdu.cse)
    /\ \/ /\ toCard' = Append(toCard, CmdByte(spointer + 1))
          /\ spointer' = spointer + 1
          /\ toHost' = Unread
          /\ UNCHANGED <<pc, rsp, nulls, callVars>>
       \/ TpduFails("IO_ERROR", Unread)

NackFromCard ==
    /\ Reads("nack") /\ tpdu.cse = 2
    /\ pc' = "byte"
    /\ toHost' = Unread
    /\ UNCHANGED <<toCard, rsp, spointer, nulls, callVars>>

(* T0_LAX_CASE_HANDLING: an ACK that a case 1 command has no use for, and  *)
(* any byte that is no procedure byte.                                     *)
SkipByte ==
    /\ \/ Reads("other")
       \/ /\ Reads("ack") \/ Reads("nack")
          /\ tpdu.cse = 1
    /\ toHost' = Unread
    /\ UNCHANGED <<toCard, pc, rsp, spointer, nulls, callVars>>

(* Slip: without an scWaitReq there is no limit.                           *)
NullUnlimited ==
    /\ Reads("null")
    /\ nulls' = IF nulls < MaxNulls THEN nulls + 1 ELSE nulls
    /\ toHost' = Unread
    /\ UNCHANGED <<toCard, pc, rsp, spointer, callVars>>

(* NULL: the card needs more time.                                         *)
Null ==
    /\ Reads("null")
    /\ \/ /\ WaitReq \/ nulls + 1 <= MaxNulls
          /\ nulls' = nulls + 1
          /\ toHost' = Unread
          /\ UNCHANGED <<toCard, pc, rsp, spointer, callVars>>
       \/ /\ WaitReq
          /\ TpduFails("WAIT_ERROR", Unread)
       \/ /\ ~WaitReq /\ nulls + 1 > MaxNulls
          /\ TpduFails("TIMEOUT", Unread)

(* The buffer of scT0SendCmd; what it has no room for is dropped.          *)
Collect(byte) == IF Len(rsp) < MaxLe + 2 THEN Append(rsp, byte) ELSE rsp

Sw1 ==
    /\ Reads("sw")
    /\ rsp' = Collect(Head(toHost))
    /\ pc' = "status2"
    /\ toHost' = Unread
    /\ UNCHANGED <<toCard, spointer, nulls, callVars>>

Sw2 ==
    /\ pc = "status2" /\ toHost # << >>
    /\ TpduDone(Collect(Head(toHost)), Unread)

(* The one byte behind ~ACK.                                               *)
ReadByte ==
    /\ pc = "byte" /\ toHost # << >>
    /\ rsp' = Collect(Head(toHost))
    /\ pc' = "procedure"
    /\ toHost' = Unread
    /\ UNCHANGED <<toCard, spointer, nulls, callVars>>

-------------------------------------------------------------------------------
(* The bytes behind ACK, and with them, unseen by the loop, the status     *)
(* word.                                                                   *)
Wanted == Decoded(tpdu.p3) + 2 - Len(rsp)

ReadBlock ==
    /\ pc = "block"
    /\ Wanted > 0 /\ Len(toHost) >= Wanted
    /\ TpduDone(rsp \o SubSeq(toHost, 1, Wanted),
                SubSeq(toHost, Wanted + 1, Len(toHost)))

(* SIO_ReadBuffer gives up when a byte does not come: with what it has, if *)
(* it has anything.  scT0SendCmd does not look how much that is.           *)
ReadBlockShort ==
    /\ pc = "block"
    /\ Wanted > 0 /\ toHost # << >> /\ Len(toHost) < Wanted
    /\ TpduDone(rsp \o toHost, << >>)

(* Nothing comes in time.                                                  *)
NothingRead ==
    /\ pc # "idle"
    /\ toHost = << >> \/ (pc = "block" /\ Wanted <= 0)
    /\ TpduFails("IO_ERROR", toHost)

Receive ==
    \/ AckToCard \/ AckFromCard \/ NackToCard \/ NackFromCard
    \/ SkipByte \/ Null \/ Sw1 \/ Sw2 \/ ReadByte \/ ReadBlock

(* scReaderResetCard: what is on the line is gone.                         *)
ResetCard ==
    /\ pc = "idle"
    /\ ret' = "reset"
    /\ toCard' = << >> /\ toHost' = << >>
    /\ UNCHANGED <<pc, stage, apdu, striped, tpdu, rsp, spointer, nulls,
                   apduRsp, sw>>

NoAPDU == [cse |-> 1, serial |-> 0, lc |-> 0, le |-> 0, hasLe |-> FALSE]

HostInit ==
    /\ toCard = << >> /\ toHost = << >>
    /\ pc = "idle" /\ stage = "command"
    /\ apdu = NoAPDU
    /\ striped = FALSE
    /\ tpdu = [cse |-> 1, p3 |-> 0]
    /\ rsp = << >> /\ spointer = 0 /\ nulls = 0
    /\ apduRsp = << >> /\ sw = << >>
    /\ ret = "reset"
===============================================================================
