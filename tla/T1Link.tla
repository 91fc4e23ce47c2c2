-------------------------------- MODULE T1Link --------------------------------
(***************************************************************************)
(* A session: an application, scT1SendCmd (module T1), a serial line and a *)
(* card (module T1Card).                                                   *)
(*                                                                         *)
(* The application sends the commands Command(1), Command(2), ... one      *)
(* after the other and may reset the card between two of them.  Whether it *)
(* resets the card after a command has failed, and whether it has the ATR  *)
(* evaluated after a reset, is up to the application in the library;       *)
(* ResetsAfterError and Identifies choose the kind of application.         *)
(***************************************************************************)
EXTENDS T1, T1Card

CONSTANTS
    AtrIfsc,           \* the values of IFSC an ATR may announce
    ResetsAfterError,  \* a failed command is followed by scReaderResetCard
    Identifies,        \* scReaderResetCard by scSmartcardGetCardType
    MaxLate            \* bound: timeouts while a block is on its way

ASSUME SessionAssumption ==
    /\ AtrIfsc \subseteq Nat \ {0}
    /\ ResetsAfterError \in BOOLEAN /\ Identifies \in BOOLEAN
    /\ MaxLate \in Nat

VARIABLES
    serial,       \* number of the current command
    clean,        \* no command has failed since the reset
    identified,   \* the ATR was evaluated since the reset
    atrIfsc,      \* IFSC in the ATR of the card
    lates         \* timeouts so far while a block was on its way

vars == <<hostVars, cardVars, lineVars, faults, executed, serial, clean,
          identified, atrIfsc, lates>>
sessionVars == <<serial, clean, identified, atrIfsc, lates>>

-------------------------------------------------------------------------------
AppSend ==
    /\ serial < Len(CmdLens)
    /\ clean \/ ~ResetsAfterError
    /\ identified \/ ~Identifies
    /\ serial' = serial + 1
    /\ \E d \in BOOLEAN : SendCmd(Command(serial + 1), d)
    /\ UNCHANGED <<cardVars, faults, executed, clean, identified, atrIfsc,
                   lates>>

AppRefused ==
    /\ \E r \in ErrorCodes : RefuseCmd(r)
    /\ UNCHANGED <<cardVars, faults, executed, sessionVars>>

AppReset ==
    /\ ResetCard
    /\ CardReset(atrIfsc)
    /\ clean' = TRUE /\ identified' = FALSE
    /\ UNCHANGED <<faults, serial, atrIfsc, lates>>

AppResetFails ==
    /\ ResetFails
    /\ clean' = FALSE
    /\ UNCHANGED <<cardVars, faults, executed, serial, identified, atrIfsc,
                   lates>>

AppIdentify ==
    /\ ~identified
    /\ identified' = TRUE
    /\ ProcessATR(atrIfsc)
    /\ UNCHANGED <<cardVars, faults, executed, serial, clean, atrIfsc, lates>>

(* A command that ends otherwise than with SC_EXIT_OK leaves the session   *)
(* unclean.                                                                *)
NoteFailure == clean' = (clean /\ (pc' = "idle" => ret' = "OK"))

HostReceives ==
    /\ ReceiveOne
    /\ NoteFailure
    /\ UNCHANGED <<cardVars, faults, executed, serial, identified, atrIfsc,
                   lates>>

(* Nothing comes within the block waiting time: all is lost, or late.      *)
HostTimeout ==
    /\ NothingRead
    /\ IF toCard = << >> /\ toHost = << >>
       THEN lates' = lates
       ELSE lates < MaxLate /\ lates' = lates + 1
    /\ NoteFailure
    /\ UNCHANGED <<cardVars, faults, executed, serial, identified, atrIfsc>>

CardMoves ==
    /\ CardStep
    /\ UNCHANGED <<hostVars, sessionVars>>

LineFails ==
    /\ LineFault
    /\ UNCHANGED <<hostVars, sessionVars>>

Next == \/ AppSend \/ AppRefused \/ AppReset \/ AppResetFails \/ AppIdentify
        \/ HostReceives \/ HostTimeout \/ CardMoves \/ LineFails

Init ==
    /\ T1Init
    /\ \E i \in AtrIfsc : atrIfsc = i /\ CardInit(i)
    /\ serial = 0 /\ clean = TRUE /\ identified = FALSE /\ lates = 0

Spec == Init /\ [][Next]_vars

(* The library's loop and the card run until they wait; the application    *)
(* may stop calling.                                                       *)
FairSpec == Spec /\ WF_vars(HostReceives) /\ WF_vars(HostTimeout)
                 /\ WF_vars(CardMoves)

-------------------------------------------------------------------------------
TypeOK ==
    /\ HostTypeOK /\ CardTypeOK
    /\ serial \in 0..Len(CmdLens)
    /\ clean \in BOOLEAN /\ identified \in BOOLEAN
    /\ atrIfsc \in AtrIfsc
    /\ lates \in 0..MaxLate

(* A chain is never cut short: what the card executes is a whole command   *)
(* of the application, never a beginning, an end or a splice of two.       *)
ExecutesWholeCommands ==
    clean => \A i \in DOMAIN executed : executed[i] \in Wholes

(* However often blocks are repeated, a command is executed once, and the  *)
(* commands in the order in which they were sent.                          *)
ExecutesOnce ==
    clean => \A i, j \in DOMAIN executed :
                 i < j => Answered(executed[i]) < Answered(executed[j])

(* SC_EXIT_OK is the answer to this command, all of it, in order and to    *)
(* the last byte, and the card has executed the command.                   *)
OkIsOwnAnswer ==
    ret = "OK" /\ clean =>
        /\ executed # << >> /\ executed[Len(executed)] = cmd
        /\ \E len \in {l \in RspLens : l >= 2} :
              LET whole == Response(cmd, len)
              IN  apduRsp = IF wantData THEN whole
                            ELSE SubSeq(whole, len - 1, len)

(* Between two commands the sequence numbers of both sides agree, so the   *)
(* next command starts in step.                                            *)
InStepWhenIdle ==
    pc = "idle" /\ clean =>
        /\ ns = cnr
        /\ nr = IF out = None THEN cns ELSE Flip(cns)

(* No I-block is longer than the card takes.                               *)
BlocksFitCard ==
    clean => \A i \in DOMAIN toCard :
                 toCard[i].type = "I" => Len(toCard[i].data) <= cifsc

(* The comments at the declarations: sendptr points to the unsent data and *)
(* more says whether there is any.                                         *)
MoreMeansUnsent ==
    pc = "xfer" => (more <=> sendptr # Len(cmd))

(* N(S) is turned only when the card has taken the block that carries it.  *)
AdvancesOnlyWhenTaken ==
    [][clean /\ pc = "xfer" /\ ns' # ns => cnr # ns]_vars

(* A single line fault in the exchange of a command is made good: the      *)
(* command still ends with SC_EXIT_OK, unless the card asks for more time  *)
(* than it is given.                                                       *)
OneFaultMadeGood ==
    [][faults <= 1 /\ lates = 0 /\ pc = "xfer" /\ pc' = "idle"
          => \/ ret' = "OK"
             \/ toHost # << >> /\ Received.type = "WTXreq"]_vars

(* A command ends, whatever the line does to it.                           *)
CommandEnds == pc # "idle" ~> pc = "idle"

-------------------------------------------------------------------------------
(* The session implements the abstract channel.                            *)
Channel == INSTANCE CommandChannel WITH
    state     <- IF ~clean THEN "broken" ELSE IF pc = "idle" THEN "ready"
                 ELSE "busy",
    sent      <- serial,
    performed <- {Answered(executed[i]) : i \in DOMAIN executed},
    answer    <- IF ret = "OK" THEN 0 - apduRsp[1][1] ELSE 0

(* scT1SendCmd, with a card and a line that may garble, lose and delay     *)
(* blocks, keeps what CommandChannel promises.                             *)
ImplementsChannel == Channel!Spec
===============================================================================
