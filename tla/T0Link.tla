-------------------------------- MODULE T0Link --------------------------------
(***************************************************************************)
(* A T=0 session: an application, scT0SendAPDU (module T0) and a card.     *)
(* The card is not code of the library; it is what scT0SendCmd expects of  *)
(* a card, the byte protocol of ISO 7816-3 with every choice the protocol  *)
(* leaves to the card: bytes one by one or all at once, NULL bytes, 6C and *)
(* 61.  The application resets the card after a failed exchange.           *)
(***************************************************************************)
EXTENDS T0

CONSTANTS
    Commands,          \* the APDUs of the session: cse, lc, le, hasLe
    RspLens,           \* how many bytes the card may have to say
    DataLooks,         \* what its data bytes may look like
    Case2Fetch,        \* the card may answer a case 2 command with 61
    NullBeforeStatus,  \* NULL also between a block of data and its status
    Stalls,            \* the card may fall silent behind a block of data
    Again,             \* a failed APDU is sent again as the call left it
    MaxCardNulls       \* bound: NULLs of the card if scWaitReq allows any

ASSUME SessionAssumption ==
    /\ RspLens \subseteq 1..MaxLe
    /\ DataLooks \subseteq Looks
    /\ {Case2Fetch, NullBeforeStatus, Stalls, Again} \subseteq BOOLEAN
    /\ MaxCardNulls \in Nat

VARIABLES
    cst,          \* what the card is about to do
    want, expect, \* command bytes missing, and of these announced
    got,          \* command bytes read
    avail,        \* the response it holds
    rest,         \* what is left of the part it is sending
    gave,         \* data sent since the last header
    status,       \* the status word due, or last sent
    cardNulls,
    executed,     \* history: commands dealt with since the reset
    serial,       \* number of the current command
    clean,        \* no exchange has failed since the reset
    wantLe        \* history: how many bytes the caller wants, and whether
                  \* the APDU carried an Le byte when it was made

cardVars == <<cst, want, expect, got, avail, rest, gave, status, cardNulls,
              executed>>
sessionVars == <<serial, clean, wantLe>>
vars == <<lineVars, hostVars, cardVars, sessionVars>>

Response(n, len, look) == [k \in 1..len |-> LineByte(look, "data", n, k)]
StatusWord(sw1, n) == <<LineByte("sw", sw1, apdu.serial, 0),
                        LineByte("other", "sw2", n, 0)>>
Procedure(look) == LineByte(look, "proc", 0, 0)
Send(bytes) == toHost' = toHost \o bytes

-------------------------------------------------------------------------------
(* The card.                                                               *)
Ends(sw1, n) == cst' = "end" /\ status' = StatusWord(sw1, n)
Executes(ok) ==
    executed' = Append(executed, [serial |-> apdu.serial, bytes |-> got', ok |-> ok])

TakesHeader(ins) ==
    /\ cst = "header" /\ toCard # << >>
    /\ Kind(Head(toCard)) = ins
    /\ toCard' = Tail(toCard)
    /\ gave' = << >>
    /\ UNCHANGED <<toHost, expect, cardNulls>>
HeaderP3 == Head(toCard).val[3]

CardRefuses ==
    /\ TakesHeader("cmd")
    /\ got' = << >>
    /\ Executes(FALSE)
    /\ Ends("6F", 0)
    /\ UNCHANGED <<want, avail, rest>>

CardCase1 ==
    /\ TakesHeader("cmd") /\ apdu.cse = 1
    /\ got' = << >>
    /\ Executes(TRUE)
    /\ Ends("90", 0)
    /\ UNCHANGED <<want, avail, rest>>

CardCase3 ==
    /\ TakesHeader("cmd") /\ HasData(apdu.cse)
    /\ got' = << >>
    /\ cst' = "take" /\ want' = HeaderP3
    /\ UNCHANGED <<avail, rest, status, executed>>

(* A wrong length is answered with the right one, or with the data there   *)
(* are for GET RESPONSE; or the card gives what is asked for.              *)
CardCase2 ==
    /\ TakesHeader("cmd") /\ apdu.cse = 2
    /\ got' = << >>
    /\ Executes(TRUE)
    /\ LET answered == \E i \in DOMAIN executed :
                           executed[i].ok /\ executed[i].serial = apdu.serial
       IN  \E len \in RspLens, look \in DataLooks :
              /\ answered => Response(apdu.serial, len, look) = avail
              /\ avail' = Response(apdu.serial, len, look)
              /\ \/ /\ len # Decoded(HeaderP3)
                    /\ Ends("6C", Coded(len))
                    /\ UNCHANGED rest
                 \/ /\ Case2Fetch
                    /\ Ends("61", Coded(len))
                    /\ UNCHANGED rest
                 \/ /\ len >= Decoded(HeaderP3)
                    /\ cst' = "give"
                    /\ status' = StatusWord("90", 0)
                    /\ rest' = SubSeq(avail', 1, Decoded(HeaderP3))
    /\ UNCHANGED want

CardGetResponse ==
    /\ TakesHeader("getrsp")
    /\ cst' = "give" /\ status' = StatusWord("90", 0)
    /\ rest' = SubSeq(avail, 1, Decoded(HeaderP3))
    /\ UNCHANGED <<want, got, avail, executed>>

(* The card asks for command bytes, for all that is left or for one.       *)
CardAsks ==
    /\ cst = "take" /\ expect = 0
    /\ \/ Send(<<Procedure("ack")>>) /\ expect' = want
       \/ Send(<<Procedure("nack")>>) /\ expect' = 1
    /\ UNCHANGED <<toCard, cst, want, got, avail, rest, gave, status,
                   cardNulls, executed>>

CardTakes ==
    /\ cst = "take" /\ expect > 0 /\ toCard # << >>
    /\ got' = Append(got, Head(toCard))
    /\ toCard' = Tail(toCard)
    /\ want' = want - 1 /\ expect' = expect - 1
    /\ IF want' > 0
       THEN UNCHANGED <<cst, avail, status, executed>>
       ELSE /\ Executes(TRUE)
            /\ \/ /\ Ends("90", 0)
                  /\ UNCHANGED avail
               \/ \E len \in RspLens, look \in DataLooks :
                     /\ apdu.cse = 4
                     /\ avail' = Response(apdu.serial, len, look)
                     /\ Ends("61", Coded(len))
    /\ UNCHANGED <<toHost, rest, gave, cardNulls>>

(* It sends its data, all or one byte.                                     *)
CardGivesAll ==
    /\ cst = "give"
    /\ Send(<<Procedure("ack")>> \o rest)
    /\ gave' = gave \o rest
    /\ rest' = << >>
    /\ cst' = "tail"
    /\ UNCHANGED <<toCard, want, expect, got, avail, status, cardNulls,
                   executed>>

CardGivesOne ==
    /\ cst = "give"
    /\ Send(<<Procedure("nack"), Head(rest)>>)
    /\ gave' = Append(gave, Head(rest))
    /\ rest' = Tail(rest)
    /\ cst' = IF Len(rest) = 1 THEN "end" ELSE "give"
    /\ UNCHANGED <<toCard, want, expect, got, avail, status, cardNulls,
                   executed>>

CardStatus ==
    /\ cst \in {"end", "tail"}
    /\ Send(status)
    /\ cst' = "header"
    /\ UNCHANGED <<toCard, want, expect, got, avail, rest, gave, status,
                   cardNulls, executed>>

CardNull ==
    /\ \/ cst \in {"give", "end"}
       \/ cst = "take" /\ expect = 0
       \/ cst = "tail" /\ NullBeforeStatus
    /\ Len(toHost) < 2                        \* bound: NULLs not yet read
    /\ WaitReq => cardNulls < MaxCardNulls
    /\ cardNulls' = IF WaitReq THEN cardNulls + 1 ELSE cardNulls
    /\ Send(<<Procedure("null")>>)
    /\ UNCHANGED <<toCard, cst, want, expect, got, avail, rest, gave, status,
                   executed>>

CardStep ==
    \/ CardRefuses \/ CardCase1 \/ CardCase2 \/ CardCase3 \/ CardGetResponse
    \/ CardAsks \/ CardTakes \/ CardGivesAll \/ CardGivesOne \/ CardStatus
    \/ CardNull

CardInit ==
    /\ cst = "header" /\ want = 0 /\ expect = 0 /\ got = << >>
    /\ avail = << >> /\ rest = << >> /\ gave = << >> /\ status = << >>
    /\ cardNulls = 0 /\ executed = << >>

CardReset ==
    /\ cst' = "header" /\ want' = 0 /\ expect' = 0 /\ got' = << >>
    /\ avail' = << >> /\ rest' = << >> /\ gave' = << >> /\ status' = << >>
    /\ cardNulls' = 0 /\ executed' = << >>

-------------------------------------------------------------------------------
(* The application.                                                        *)
Want(c) == [le |-> IF c.hasLe THEN Decoded(c.le) ELSE MaxLe,
            hasLe |-> c.hasLe]

(* A command counts as sent once its header is on the line.                *)
NoteSent == serial' = IF pc' = "idle" THEN serial ELSE serial + 1

AppSend ==
    /\ serial < Len(Commands) /\ clean
    /\ LET c == Commands[serial + 1]
       IN  /\ SendAPDU([cse |-> c.cse, serial |-> serial + 1, lc |-> c.lc,
                        le |-> c.le, hasLe |-> c.hasLe])
           /\ wantLe' = Want(c)
    /\ NoteSent
    /\ UNCHANGED <<cardVars, clean>>

AppSendAgain ==
    /\ Again /\ serial < Len(Commands) /\ clean
    /\ apdu.serial > 0 /\ ret \in Errors \cup {"reset"}
    /\ SendAPDU([apdu EXCEPT !.serial = serial + 1])
    /\ NoteSent
    /\ UNCHANGED <<cardVars, clean, wantLe>>

AppRefused == RefuseAPDU /\ UNCHANGED <<cardVars, sessionVars>>

AppReset ==
    /\ ResetCard
    /\ clean' = TRUE
    /\ CardReset
    /\ UNCHANGED <<serial, wantLe>>

NoteFailure == clean' = (clean /\ (pc' = "idle" => ret' = "OK"))

HostReceives ==
    /\ Receive
    /\ NoteFailure
    /\ UNCHANGED <<cardVars, serial, wantLe>>

HostTimeout ==
    /\ NothingRead \/ (Stalls /\ ReadBlockShort)
    /\ NoteFailure
    /\ UNCHANGED <<cardVars, serial, wantLe>>

CardMoves == CardStep /\ UNCHANGED <<hostVars, sessionVars>>

Init ==
    /\ HostInit /\ CardInit
    /\ serial = 0 /\ clean = TRUE
    /\ wantLe = [le |-> 0, hasLe |-> FALSE]

Next == \/ AppSend \/ AppSendAgain \/ AppRefused \/ AppReset
        \/ HostReceives \/ HostTimeout \/ CardMoves

Spec == Init /\ [][Next]_vars

(* scT0SendCmd and the card run until they wait; reads time out.           *)
FairSpec == Spec /\ WF_vars(HostReceives) /\ WF_vars(HostTimeout)
                 /\ WF_vars(CardMoves)

-------------------------------------------------------------------------------
TypeOK ==
    /\ pc \in {"idle", "procedure", "status2", "byte", "block"}
    /\ stage \in {"command", "reissue", "get"}
    /\ apdu.cse \in Cases /\ striped \in BOOLEAN
    /\ tpdu.cse \in Cases /\ tpdu.p3 \in Nat
    /\ Len(rsp) \in 0..(MaxLe + 2)
    /\ spointer \in 0..apdu.lc /\ nulls \in Nat
    /\ ret \in Errors \cup {"OK", "busy", "reset", "BAD_PARAM"}
    /\ cst \in {"header", "take", "give", "end", "tail"}
    /\ serial \in 0..Len(Commands) /\ clean \in BOOLEAN

(* SC_EXIT_OK comes with the answer to this command: the card's data, cut  *)
(* to what the caller wants, and then the status word the card has sent,   *)
(* however the bytes of both look and in whatever portions they came.      *)
OkIsOwnAnswer ==
    ret = "OK" /\ clean =>
        LET n == IF Len(gave) < wantLe.le THEN Len(gave) ELSE wantLe.le
        IN  apduRsp = SubSeq(gave, 1, n) \o status

(* No more bytes than asked for ("Don't copy more than requested").        *)
AnswerWithinLe ==
    ret = "OK" /\ apdu.cse \in {2, 4} => Len(apduRsp) <= wantLe.le + 2

(* A command the card executes has reached it byte for byte, in order,     *)
(* whatever mixture of ACK and ~ACK the card has asked with, and once      *)
(* unless it was reissued for its length.                                  *)
CardGetsCommand ==
    \A i \in DOMAIN executed :
        LET e == executed[i]
        IN  /\ e.ok /\ e.serial = apdu.serial /\ HasData(apdu.cse) =>
                  e.bytes = [k \in 1..apdu.lc |-> CmdByte(k)]
            /\ \A j \in DOMAIN executed :
                  i # j /\ executed[j].serial = e.serial /\ e.serial = apdu.serial
                      => apdu.cse = 2

(* A case 4 command (and any command) is complete when the call ends well: *)
(* the card has nothing left that it has announced with 61.                *)
NothingLeftBehind ==
    ret = "OK" /\ clean /\ status # << >> => Kind(status[1]) # "61"

(* A call that ends well gives the APDU back as it was.                    *)
ApduGivenBack == ret = "OK" => apdu.hasLe = wantLe.hasLe

(* Every call ends, whatever the card makes of its freedom.                *)
CallEnds == pc # "idle" ~> pc = "idle"

(* The same abstract channel as T=1.                                       *)
Channel == INSTANCE CommandChannel WITH
    state     <- IF ~clean THEN "broken" ELSE IF pc = "idle" THEN "ready"
                 ELSE "busy",
    sent      <- serial,
    performed <- {executed[i].serial : i \in DOMAIN executed},
    answer    <- IF ret = "OK" /\ apduRsp # << >>
                 THEN apduRsp[1].val[2] ELSE 0

(* scT0SendAPDU keeps what CommandChannel promises, though one APDU may be *)
(* three TPDUs.                                                            *)
ImplementsChannel == Channel!Spec
===============================================================================
