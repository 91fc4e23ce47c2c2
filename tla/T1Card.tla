-------------------------------- MODULE T1Card --------------------------------
(***************************************************************************)
(* The card at the other end of the T=1 line, with the line between.       *)
(* Neither is code of the library: the card is what scT1SendCmd expects a  *)
(* card to be, a conforming partner of the ISO 7816-3 block protocol, and  *)
(* the line is what it defends itself against, one that garbles a block,   *)
(* loses one, or delivers one late.                                        *)
(*                                                                         *)
(* A card takes the right to send with every block it reads and gives it   *)
(* back with the one block it answers.                                     *)
(***************************************************************************)
EXTENDS T1Blocks

CONSTANTS
    CmdLens,      \* lengths of the commands of the session
    CardBlock,    \* bytes the card puts into one I-block
    IfscValues,   \* what the card may ask for in S(IFS request)
    IfsAnyTime,   \* S(IFS request) after any good block, not only after an
                  \* I-block the card has accepted
    WtxFactors,   \* multipliers of S(WTX request)
    MaxRequests,  \* bound: S-requests of the card between two resets
    CountWtx,     \* the bound includes S(WTX request); it need not where the
                  \* reader limits them itself
    Aborts,       \* the card may send S(ABORT request)
    MaxFaults,    \* bound: line faults
    RspLens       \* lengths of responses, status word included

ASSUME CardAssumption ==
    /\ CmdLens \in Seq(Nat \ {0})
    /\ CardBlock \in Nat \ {0}
    /\ IfscValues \subseteq Nat \ {0} /\ WtxFactors \subseteq Nat
    /\ {IfsAnyTime, CountWtx, Aborts} \subseteq BOOLEAN
    /\ MaxRequests \in Nat /\ MaxFaults \in Nat
    /\ RspLens \subseteq Nat \ {0}

VARIABLES
    cns,          \* N(S) of the card's current I-block
    cnr,          \* N(S) the card expects in the next I-block
    cmdIn,        \* bytes of the command collected so far
    out,          \* the I-block that is sent and not acknowledged, or Garbled
    restOut,      \* the bytes of the response behind it
    request,      \* the S-request that waits for its response, or Garbled
    held,         \* the block the card sends once that response came
    cifsc,        \* the length of I-block the card takes
    requests,     \* S-requests made since the reset
    faults,       \* line faults so far
    executed      \* history: the commands the card executed since the reset

cardVars == <<cns, cnr, cmdIn, out, restOut, request, held, cifsc, requests>>

None == Garbled

(* The commands the application sends, and what a card makes of the bytes  *)
(* it is given.                                                            *)
Command(n) == [k \in 1..CmdLens[n] |-> <<n, k>>]
Wholes == {Command(n) : n \in DOMAIN CmdLens}

(* A response tells which command it answers; 0 if the card was given      *)
(* something that is no command of the application.                        *)
Answered(bytes) ==
    IF bytes \in Wholes THEN bytes[1][1] ELSE 0
Response(bytes, len) == [k \in 1..len |-> <<0 - Answered(bytes), k>>]

ASSUME ByteAssumption ==
    /\ \A n \in DOMAIN CmdLens : Command(n) \in Seq(Byte)
    /\ \A n \in 0..Len(CmdLens) : \A len \in RspLens :
           [k \in 1..len |-> <<0 - n, k>>] \in Seq(Byte)

(* The first I-block of a response and what is left of it.                 *)
FirstPart(bytes) ==
    SubSeq(bytes, 1, IF Len(bytes) < CardBlock THEN Len(bytes) ELSE CardBlock)
OtherPart(bytes) == SubSeq(bytes, CardBlock + 1, Len(bytes))
Outgoing(n, bytes) == IBlock(n, Len(bytes) > CardBlock, FirstPart(bytes))

-------------------------------------------------------------------------------
(* What the card sends: the block due, or an S-request first.              *)
Answer(b) ==
    /\ request' = None /\ held' = None
    /\ toHost' = Append(toHost, b)
    /\ UNCHANGED <<cifsc, requests>>

Ask(s, due) ==
    /\ IF s.type # "WTXreq" \/ CountWtx
       THEN requests < MaxRequests /\ requests' = requests + 1
       ELSE UNCHANGED requests
    /\ request' = s /\ held' = due
    /\ cifsc' = IF s.type = "IFSreq" THEN s.n ELSE cifsc
    /\ toHost' = Append(toHost, s)

AnswerOrAsk(due, accepted) ==
    \/ Answer(due)
    \/ \E w \in WtxFactors : Ask(SBlock("WTXreq", w), due)
    \/ /\ accepted \/ IfsAnyTime
       /\ \E i \in IfscValues : Ask(SBlock("IFSreq", i), due)
    \/ Aborts /\ Ask(SBlock("ABORTreq", 0), due)

Incoming == Head(toCard)
Takes(types) ==
    /\ toCard # << >>
    /\ Incoming.type \in types
    /\ toCard' = Tail(toCard)

(* An unanswered S-request is repeated, whatever else comes; an R-block is *)
(* repeated with the number the card still expects.                        *)
CardGarbled ==
    /\ Takes({"bad"})
    /\ toHost' = Append(toHost, IF request # None THEN request ELSE RBlock(cnr))
    /\ UNCHANGED <<cardVars, faults, executed>>

CardRepeatsRequest ==
    /\ Takes({"I", "R", "IFSreq"})
    /\ request # None
    /\ toHost' = Append(toHost, request)
    /\ UNCHANGED <<cardVars, faults, executed>>

(* A response to nothing the card has asked.                               *)
CardOddResponse ==
    /\ Takes(ResponseTypes)
    /\ request = None
    /\ toHost' = Append(toHost, RBlock(cnr))
    /\ UNCHANGED <<cardVars, faults, executed>>

CardResponse ==
    /\ Takes(ResponseTypes)
    /\ request # None
    /\ IF /\ request.type = "IFSreq" => Incoming = SBlock("IFSrsp", request.n)
          /\ request.type = "WTXreq" => Incoming = SBlock("WTXrsp", request.n)
          /\ request.type = "ABORTreq" => Incoming.type = "ABORTrsp"
       THEN AnswerOrAsk(held, FALSE)
       ELSE /\ toHost' = Append(toHost, request)
            /\ UNCHANGED <<request, held, cifsc, requests>>
    /\ UNCHANGED <<cns, cnr, cmdIn, out, restOut, faults, executed>>

(* S(IFS request) of the reader.                                           *)
CardIfs ==
    /\ Takes({"IFSreq"})
    /\ request = None
    /\ Answer(SBlock("IFSrsp", Incoming.n))
    /\ UNCHANGED <<cns, cnr, cmdIn, out, restOut, faults, executed>>

-------------------------------------------------------------------------------
(* An I-block the card has read before, or one longer than it takes.       *)
CardWrongIBlock ==
    /\ Takes({"I"})
    /\ request = None
    /\ Incoming.n # cnr \/ Len(Incoming.data) > cifsc
    /\ AnswerOrAsk(RBlock(cnr), FALSE)
    /\ UNCHANGED <<cns, cnr, cmdIn, out, restOut, faults, executed>>

(* The next I-block.  It also acknowledges the last one of the card.       *)
AcceptsIBlock ==
    /\ Takes({"I"})
    /\ request = None
    /\ Incoming.n = cnr /\ Len(Incoming.data) <= cifsc
    /\ cnr' = Flip(cnr)

CardIBlockMore ==
    /\ AcceptsIBlock
    /\ Incoming.more
    /\ cmdIn' = cmdIn \o Incoming.data
    /\ cns' = IF out # None THEN Flip(cns) ELSE cns
    /\ out' = None /\ restOut' = << >>
    /\ AnswerOrAsk(RBlock(Flip(cnr)), TRUE)
    /\ UNCHANGED <<faults, executed>>

(* The last one: the card executes what it has collected and responds.     *)
CardIBlockLast ==
    /\ AcceptsIBlock
    /\ ~Incoming.more
    /\ cmdIn' = << >>
    /\ LET whole == cmdIn \o Incoming.data
           n == IF out # None THEN Flip(cns) ELSE cns
       IN  /\ executed' = Append(executed, whole)
           /\ cns' = n
           /\ \E len \in RspLens :
                 LET bytes == Response(whole, len)
                 IN  /\ out' = Outgoing(n, bytes)
                     /\ restOut' = OtherPart(bytes)
                     /\ AnswerOrAsk(Outgoing(n, bytes), TRUE)
    /\ UNCHANGED faults

-------------------------------------------------------------------------------
(* An R-block.  N(R) = cns asks for the I-block again; the other number    *)
(* acknowledges it, and the card goes on with its chain if it has one.     *)
TakesRBlock == Takes({"R"}) /\ request = None

CardRepeats ==
    /\ TakesRBlock
    /\ out # None /\ GetN(Incoming) = cns
    /\ AnswerOrAsk(out, FALSE)
    /\ UNCHANGED <<cns, cnr, cmdIn, out, restOut, faults, executed>>

CardContinues ==
    /\ TakesRBlock
    /\ out # None /\ GetN(Incoming) # cns /\ out.more
    /\ cns' = Flip(cns)
    /\ out' = Outgoing(Flip(cns), restOut)
    /\ restOut' = OtherPart(restOut)
    /\ AnswerOrAsk(Outgoing(Flip(cns), restOut), FALSE)
    /\ UNCHANGED <<cnr, cmdIn, faults, executed>>

CardAwaits ==
    /\ TakesRBlock
    /\ out # None => GetN(Incoming) # cns /\ ~out.more
    /\ cns' = IF out # None THEN Flip(cns) ELSE cns
    /\ out' = None /\ restOut' = << >>
    /\ AnswerOrAsk(RBlock(cnr), FALSE)
    /\ UNCHANGED <<cnr, cmdIn, faults, executed>>

CardStep ==
    \/ CardGarbled \/ CardRepeatsRequest \/ CardOddResponse \/ CardResponse
    \/ CardIfs
    \/ CardWrongIBlock \/ CardIBlockMore \/ CardIBlockLast
    \/ CardRepeats \/ CardContinues \/ CardAwaits

-------------------------------------------------------------------------------
(* The line.                                                               *)
Fault == faults < MaxFaults /\ faults' = faults + 1

GarbleToCard ==
    /\ Fault
    /\ toCard # << >> /\ Head(toCard).type # "bad"
    /\ toCard' = <<Garbled>> \o Tail(toCard)
    /\ UNCHANGED <<cardVars, executed, toHost>>

GarbleToHost ==
    /\ Fault
    /\ toHost # << >> /\ Head(toHost).type # "bad"
    /\ toHost' = <<Garbled>> \o Tail(toHost)
    /\ UNCHANGED <<cardVars, executed, toCard>>

LoseToCard ==
    /\ Fault
    /\ toCard # << >>
    /\ toCard' = Tail(toCard)
    /\ UNCHANGED <<cardVars, executed, toHost>>

LoseToHost ==
    /\ Fault
    /\ toHost # << >>
    /\ toHost' = Tail(toHost)
    /\ UNCHANGED <<cardVars, executed, toCard>>

LineFault == GarbleToCard \/ GarbleToHost \/ LoseToCard \/ LoseToHost

(* Powered up again: the card starts from nothing.                         *)
CardReset(atrIfsc) ==
    /\ cns' = 0 /\ cnr' = 0 /\ cmdIn' = << >>
    /\ out' = None /\ restOut' = << >>
    /\ request' = None /\ held' = None
    /\ cifsc' = atrIfsc
    /\ requests' = 0
    /\ executed' = << >>

CardInit(atrIfsc) ==
    /\ cns = 0 /\ cnr = 0 /\ cmdIn = << >>
    /\ out = None /\ restOut = << >>
    /\ request = None /\ held = None
    /\ cifsc = atrIfsc
    /\ requests = 0 /\ faults = 0
    /\ executed = << >>

CardTypeOK ==
    /\ cns \in {0, 1} /\ cnr \in {0, 1}
    /\ cmdIn \in Seq(Byte) /\ restOut \in Seq(Byte)
    /\ out \in Block /\ request \in Block /\ held \in Block
    /\ cifsc \in Nat
    /\ requests \in 0..MaxRequests /\ faults \in 0..MaxFaults
    /\ executed \in Seq(Seq(Byte))
===============================================================================
