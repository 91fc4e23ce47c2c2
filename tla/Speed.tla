--------------------------------- MODULE Speed ---------------------------------
(***************************************************************************)
(* How host and card come to speak faster: scSmartcardSetSpeed chooses a   *)
(* rate that both know, has the card driver's scSetFD switch the card (a   *)
(* PTS exchange by scPtsDoPTS), then the reader driver's scSetSpeed switch *)
(* the line, and adapts the waiting time of T=0.  A reset brings the card  *)
(* and the line back to 9600.  Sources: scez/scsmartcard.c, scez/scpts.c,  *)
(* the reader driver scez/readers/scdumbmouse.c (the one that knows more   *)
(* than one rate) and a card driver like scez/cards/scmultiflex.c.         *)
(*                                                                         *)
(* External: the card, which follows a PTS request only as the first thing *)
(* after its reset, and may refuse it; the line, which may lose or garble  *)
(* what the card sends.                                                    *)
(***************************************************************************)
EXTENDS Integers, Sequences, FiniteSetsExt

CONSTANTS
    CardFD,      \* cp->fd of the card driver: a sequence of [f, d, speed]
    ReaderFD,    \* rp->fd and rp->speed of the reader driver: the same
    Accepted,    \* the speeds that the reader driver's scSetSpeed accepts
    Protocols,   \* what the card may speak: "T0", "T1"
    WIs,         \* the values of WI the card's ATR may give
    T0err        \* rp->t0err

Default == [f |-> 372, d |-> 1, speed |-> 9600]
FDs == {CardFD[i] : i \in DOMAIN CardFD} \cup
       {ReaderFD[i] : i \in DOMAIN ReaderFD}
Off == [f |-> 0, d |-> 0, speed |-> 0]

(* Every scGetCap of the repository lists 372/1 at 9600 first, and no      *)
(* table holds a fraction 1/d, so that branch of the code is not modelled. *)
ASSUME TableAssumption ==
    /\ CardFD # <<>> /\ CardFD[1] = Default
    /\ ReaderFD # <<>> /\ ReaderFD[1] = Default
    /\ \A fd \in FDs : fd.d \in 1..127 /\ fd.speed \in Nat \ {0}
ASSUME CardAssumption ==
    /\ Protocols \subseteq {"T0", "T1"} /\ WIs \subseteq Nat \ {0}
    /\ Accepted \subseteq Nat /\ 9600 \in Accepted /\ T0err \in BOOLEAN

VARIABLES
    card,     \* external: rate (Off: without power), present
    fresh,    \* nothing has been sent to the card since it was reset
    atr,      \* external: what the card's ATR says, protocol and wi
    echo,     \* external: the answer to PTS on the line
    line,     \* the speed of the serial port, si
    etu,      \* ri->etu, in microseconds
    ci,       \* protocol, d, wi, wwt of the SC_CARD_INFO
    pc,       \* "idle", "pts": the echo is awaited, "reader": before scSetSpeed
    best,     \* fd[bestfd]
    ret       \* what the last call has returned

vars == <<card, fresh, atr, echo, line, etu, ci, pc, best, ret>>

Etu(speed) == 1000000 \div speed
Wwt(d, wi) == 960 * d * wi

Init ==
    /\ card = [rate |-> Off, present |-> TRUE]
    /\ fresh = FALSE
    /\ atr \in [protocol : Protocols, wi : WIs]
    /\ echo = "none"
    /\ line = 9600 /\ etu = 104
    /\ ci = [protocol |-> "unknown", d |-> 1, wi |-> 10, wwt |-> 9600]
    /\ pc = "idle" /\ best = Default /\ ret = "none"

-----------------------------------------------------------------------------
(* Slip: the line stays at the speed it had.                               *)
ResetCardOnly(answered) ==
    /\ pc = "idle"
    /\ card' = IF card.present THEN [card EXCEPT !.rate = Default] ELSE card
    /\ answered => card.present
    /\ fresh' = answered
    /\ ret' = IF answered THEN "OK" ELSE "BAD_ATR"
    /\ UNCHANGED <<atr, echo, line, etu, ci, pc, best>>

(* scSmartcardGetCardType of an ATR that is known and good: the defaults   *)
(* of scSmartcardProcessATR, then TD1 and TC2.  The applications call it   *)
(* directly after a reset.                                                 *)
GetCardType ==
    /\ pc = "idle" /\ ret = "OK" /\ fresh
    /\ ci' = [protocol |-> atr.protocol, d |-> 1, wi |-> atr.wi,
              wwt |-> Wwt(1, atr.wi)]
    /\ UNCHANGED <<card, fresh, atr, echo, line, etu, pc, best, ret>>

(* scDumbmouseResetCard; scGeneralCleanCI leaves all of ci that is here.   *)
(* The speed of the line is set, ri->etu is not.                           *)
ResetCard(answered) ==
    /\ pc = "idle"
    /\ line' = 9600
    /\ card' = IF card.present THEN [card EXCEPT !.rate = Default] ELSE card
    /\ answered => card.present
    /\ fresh' = answered
    /\ ret' = IF answered THEN "OK" ELSE "BAD_ATR"
    /\ UNCHANGED <<atr, echo, etu, ci, pc, best>>

-----------------------------------------------------------------------------
(* scSmartcardSetSpeed.                                                    *)

Common == {i \in DOMAIN ReaderFD :
             \E j \in DOMAIN CardFD : CardFD[j] = ReaderFD[i]}
Fast == IF ci.protocol = "T0" /\ ~T0err THEN 20000 ELSE 60000
Fastest(speeds) == Max({fd.speed : fd \in speeds})

(* Slip: whatever the card can do, the reader's table is not asked.        *)
AnySpeed(option) == {CardFD[i] : i \in DOMAIN CardFD}

(* Which entry the switch over option leaves in bestfd.  Of several of the *)
(* same speed the loop keeps the first it meets; which that is depends on  *)
(* the order of the card's table, and any of them will do here.            *)
BestFD(option) ==
    LET matches == {ReaderFD[i] : i \in Common}
        slow == {fd \in matches : fd.speed <= Fast}
    IN  CASE option = "STANDARD" -> {fd \in matches : fd.f = 372 /\ fd.d = 1}
          [] option = "FAST" -> {fd \in slow : fd.speed = Fastest(slow)}
          [] option = "FASTEST" -> {fd \in matches : fd.speed = Fastest(matches)}

(* The card driver's scSetFD: 372/1 needs nothing, everything else a PTS.  *)
(* Sending it, scPtsDoPTS first reads away what the line still holds; the  *)
(* card switches when it has answered.  "With most cards this can only be  *)
(* called directly aftern a reset" (line 638): so the applications do.     *)
SetSpeed(option) ==
    /\ pc = "idle" /\ ret = "OK" /\ fresh /\ ci.protocol # "unknown"
    /\ \E fd \in BestFD(option) :
          /\ best' = fd
          /\ \/ /\ fd = Default
                /\ pc' = "reader" /\ UNCHANGED <<echo, fresh, ret>>
             \/ /\ fd # Default /\ card.present
                /\ pc' = "pts" /\ echo' = "sent" /\ fresh' = FALSE
                /\ UNCHANGED ret
             \/ /\ fd # Default /\ card.present
                /\ ret' = "IO_ERROR" /\ fresh' = FALSE
                /\ UNCHANGED <<pc, echo>>
             \/ /\ fd # Default
                /\ ret' \in {"CARD_CHANGED", "IO_ERROR", "NO_CARD"}
                /\ ret' = "NO_CARD" => ~card.present
                /\ UNCHANGED <<pc, echo, fresh>>
    /\ UNCHANGED <<card, atr, line, etu, ci>>

(* scPtsDoPTS reads as many bytes as it has sent and compares them.        *)
PtsGood ==
    /\ pc = "pts" /\ echo = "same"
    /\ pc' = "reader" /\ echo' = "none"
    /\ UNCHANGED <<card, fresh, atr, line, etu, ci, best, ret>>

PtsBad ==
    /\ pc = "pts" /\ echo \in {"other", "lost"}
    /\ ret' = IF echo = "lost" THEN "TIMEOUT" ELSE "PROTOCOL_ERROR"
    /\ pc' = "idle" /\ echo' = "none"
    /\ UNCHANGED <<card, fresh, atr, line, etu, ci, best>>

(* Slip: the factor is noted, the waiting time kept.                       *)
ChangedDOnly == IF ci.protocol = "T0" THEN [ci EXCEPT !.d = best.d] ELSE ci

(* "Change WWT in case of T=0."                                            *)
ChangedCI ==
    IF ci.protocol = "T0"
       THEN [ci EXCEPT !.d = best.d, !.wwt = Wwt(best.d, ci.wi)]
       ELSE ci

(* scReaderSetSpeed, and the rest of scSmartcardSetSpeed.                  *)
ReaderSetSpeed ==
    /\ pc = "reader" /\ pc' = "idle"
    /\ IF best.speed \in Accepted
          THEN /\ line' = best.speed /\ etu' = Etu(best.speed)
               /\ ci' = ChangedCI
               /\ ret' = "OK"
          ELSE ret' = "BAD_PARAM" /\ UNCHANGED <<line, etu, ci>>
    /\ UNCHANGED <<card, fresh, atr, echo, best>>

(* NOT_SUPPORTED, NO_MATCH, MALLOC_ERROR, BAD_PARAM before anything is sent. *)
SetSpeedRefused ==
    /\ pc = "idle" /\ ret' = "refused"
    /\ UNCHANGED <<card, fresh, atr, echo, line, etu, ci, pc, best>>

-----------------------------------------------------------------------------
(* The card and the line.                                                  *)

CardPts ==
    /\ pc = "pts" /\ echo = "sent"
    /\ \/ /\ card.rate # Off                       \* agrees, and switches
          /\ card' = [card EXCEPT !.rate = best]
          /\ echo' \in {"same", "other", "lost"}
       \/ /\ UNCHANGED card                         \* does not
          /\ echo' \in {"other", "lost"}
    /\ UNCHANGED <<fresh, atr, line, etu, ci, pc, best, ret>>

(* A command has been sent.                                                *)
CardUsed ==
    /\ pc = "idle" /\ ret = "OK" /\ fresh
    /\ fresh' = FALSE
    /\ UNCHANGED <<card, atr, echo, line, etu, ci, pc, best, ret>>

CardRemoved ==
    /\ card.present
    /\ card' = [rate |-> Off, present |-> FALSE]
    /\ UNCHANGED <<fresh, atr, echo, line, etu, ci, pc, best, ret>>

CardInserted ==
    /\ ~card.present /\ pc = "idle"
    /\ card' = [card EXCEPT !.present = TRUE]
    /\ UNCHANGED <<fresh, atr, echo, line, etu, ci, pc, best, ret>>

Next ==
    \/ \E answered \in BOOLEAN : ResetCard(answered)
    \/ GetCardType
    \/ \E option \in {"STANDARD", "FAST", "FASTEST"} : SetSpeed(option)
    \/ PtsGood \/ PtsBad \/ ReaderSetSpeed \/ SetSpeedRefused
    \/ CardPts \/ CardUsed \/ CardRemoved \/ CardInserted

Spec == Init /\ [][Next]_vars

-----------------------------------------------------------------------------
(* Properties.                                                             *)

TypeOK ==
    /\ card \in [rate : FDs \cup {Off}, present : BOOLEAN]
    /\ fresh \in BOOLEAN
    /\ atr \in [protocol : Protocols, wi : WIs]
    /\ echo \in {"none", "sent", "same", "other", "lost"}
    /\ line \in Accepted
    /\ etu \in Nat \ {0}
    /\ ci \in [protocol : Protocols \cup {"unknown"}, d : 1..127,
               wi : WIs \cup {10}, wwt : Nat]
    /\ pc \in {"idle", "pts", "reader"} /\ best \in FDs
    /\ ret \in {"none", "OK", "BAD_ATR", "NO_CARD", "CARD_CHANGED",
                "IO_ERROR", "TIMEOUT", "PROTOCOL_ERROR", "BAD_PARAM", "refused"}
    /\ echo # "none" => pc = "pts"

Talking == pc = "idle" /\ ret = "OK" /\ card.rate # Off

(* After every call that has returned SC_EXIT_OK, host and card speak at   *)
(* the same rate, although each is switched by itself and either switch    *)
(* may fail (scsmartcard.c lines 713 to 716).                              *)
SpeedsAgree == Talking => line = card.rate.speed

(* The host never gives up on a card that is within its rights: the wwt of *)
(* ci, in etus, is at least the card's WWT of 960 * D * WI, at every rate, *)
(* once the card's ATR has been read (lines 719 to 727).                   *)
WaitsLongEnough ==
    Talking /\ ci.protocol = "T0" => ci.wwt >= Wwt(card.rate.d, ci.wi)

(* A card is never taken to a speed that the reader then refuses: what     *)
(* scSetFD has switched, scReaderSetSpeed follows (the tables matched in   *)
(* lines 668 to 675 against the switch of scDumbmouseSetSpeed).            *)
NeverHalfWay ==
    /\ ret # "BAD_PARAM"
    /\ card.rate # Off => card.rate.speed \in Accepted

(* ri->etu is "etu in us" (scgeneral.h line 482): that of the line.  The   *)
(* code does not keep it: scDumbmouseResetCard sets the line back to 9600  *)
(* and leaves etu as it was.                                               *)
EtuOfLine == Talking => etu = Etu(line)
===============================================================================
