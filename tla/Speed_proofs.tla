------------------------------ MODULE Speed_proofs ------------------------------
(***************************************************************************)
(* The change of speed, for all tables of card and reader: as long as the  *)
(* last call has returned SC_EXIT_OK, host and card speak at one rate and  *)
(* the host waits long enough.                                             *)
(***************************************************************************)
EXTENDS Speed, TLAPS

(* The reader driver's scSetSpeed knows all of its own table.              *)
ReaderTakesItsTable ==
    \A i \in DOMAIN ReaderFD : ReaderFD[i].speed \in Accepted

Switchable == {ReaderFD[i] : i \in DOMAIN ReaderFD}

(* The card follows best or has lost its power; after a reset it is at the *)
(* default rate, and so is the line.                                       *)
CardFollows ==
    /\ best \in Switchable /\ best.d \in 1..127
    /\ fresh => card.rate \in {Default, Off}
    /\ fresh /\ pc = "idle" => line = 9600
    /\ echo = "same" => card.rate \in {best, Off}
    /\ echo = "same" => pc = "pts"
    /\ pc = "pts" => ~fresh
    /\ pc = "reader" => card.rate \in {best, Off} /\ (fresh => best = Default)
    /\ card.rate \in Switchable \cup {Off}

(* wwt is computed from d and wi, of which wi is that of the last ATR.     *)
Waiting ==
    /\ ci.d \in 1..127 /\ ci.wi \in Nat
    /\ ci.protocol = "T0" => ci.wwt = Wwt(ci.d, ci.wi)
    /\ pc = "idle" /\ ret = "OK" /\ ci.protocol = "T0" =>
          card.rate = Off \/ card.rate = Default \/ card.rate.d = ci.d

IInv ==
    /\ ReaderTakesItsTable
    /\ pc \in {"idle", "pts", "reader"}
    /\ card = [rate |-> card.rate, present |-> card.present]
    /\ ci = [protocol |-> ci.protocol, d |-> ci.d, wi |-> ci.wi, wwt |-> ci.wwt]
    /\ atr.wi \in Nat
    /\ CardFollows /\ Waiting /\ SpeedsAgree /\ ret # "BAD_PARAM"
-------------------------------------------------------------------------------
LEMMA SwitchableType == Switchable \subseteq FDs /\ Default \in Switchable
  BY TableAssumption DEF Switchable, FDs

(* Whatever option is asked for, the entry comes from the reader's table.  *)
LEMMA BestFDType ==
  ASSUME NEW option \in {"STANDARD", "FAST", "FASTEST"},
         NEW fd \in BestFD(option)
  PROVE  fd \in Switchable /\ fd.d \in 1..127
  <1> DEFINE matches == {ReaderFD[i] : i \in Common}
  <1>1. matches \subseteq Switchable
    BY DEF Common, Switchable
  <1>2. BestFD(option) \subseteq matches
    BY DEF BestFD
  <1> QED BY <1>1, <1>2, SwitchableType, TableAssumption

(* A higher factor D makes a longer waiting time.                          *)
LEMMA WwtGrows ==
  ASSUME NEW d \in 1..127, NEW wi \in Nat
  PROVE  Wwt(d, wi) >= Wwt(1, wi)
  BY DEF Wwt

LEMMA InitInv == ReaderTakesItsTable /\ Init => IInv
  <1> SUFFICES ASSUME ReaderTakesItsTable, Init PROVE IInv
    OBVIOUS
  <1>1. CardFollows
    BY SwitchableType DEF Init, CardFollows, Default
  <1>2. Waiting /\ SpeedsAgree
    BY DEF Init, Waiting, SpeedsAgree, Talking
  <1>3. atr.wi \in Nat
    <2>1. atr.wi \in WIs
      BY DEF Init
    <2>2. WIs \subseteq Nat
      BY CardAssumption
    <2> QED BY <2>1, <2>2
  <1> QED BY <1>1, <1>2, <1>3 DEF Init, IInv

-------------------------------------------------------------------------------
(* The reset.                                                              *)
LEMMA ResetInv ==
  ASSUME IInv, NEW answered \in BOOLEAN, ResetCard(answered)
  PROVE  IInv'
  <1>1. /\ pc = "idle" /\ line' = 9600 /\ fresh' = answered
        /\ ret' = (IF answered THEN "OK" ELSE "BAD_ATR")
        /\ card'.rate = (IF card.present THEN Default ELSE card.rate)
        /\ card' = [rate |-> card'.rate, present |-> card'.present]
        /\ answered => card.present
        /\ UNCHANGED <<atr, echo, ci, pc, best>>
    BY DEF ResetCard, IInv
  <1>2. CardFollows'
    BY <1>1, SwitchableType DEF IInv, CardFollows
  <1>3. Waiting' /\ SpeedsAgree'
    BY <1>1 DEF IInv, Waiting, SpeedsAgree, Talking, Default
  <1> QED BY <1>1, <1>2, <1>3 DEF IInv, ReaderTakesItsTable

(* scSmartcardSetSpeed up to its first wait, and when it is refused.       *)
LEMMA SetSpeedInv ==
  ASSUME IInv, NEW option \in {"STANDARD", "FAST", "FASTEST"}, SetSpeed(option)
  PROVE  IInv'
  <1>1. PICK fd \in BestFD(option) :
           /\ best' = fd
           /\ \/ fd = Default /\ pc' = "reader" /\ UNCHANGED <<echo, fresh, ret>>
              \/ pc' = "pts" /\ echo' = "sent" /\ fresh' = FALSE /\ UNCHANGED ret
              \/ ret' = "IO_ERROR" /\ fresh' = FALSE /\ UNCHANGED <<pc, echo>>
              \/ /\ ret' \in {"CARD_CHANGED", "IO_ERROR", "NO_CARD"}
                 /\ UNCHANGED <<pc, echo, fresh>>
    BY DEF SetSpeed
  <1>2. pc = "idle" /\ ret = "OK" /\ fresh /\ UNCHANGED <<card, atr, line, etu, ci>>
    BY DEF SetSpeed
  <1>3. fd \in Switchable /\ fd.d \in 1..127
    BY BestFDType
  <1>4. CardFollows'
    <2>1. /\ card.rate \in {Default, Off} /\ card.rate \in Switchable \cup {Off}
          /\ line = 9600 /\ echo # "same"
      BY <1>2 DEF IInv, CardFollows
    <2>2. card'.rate = card.rate /\ best' \in Switchable /\ best'.d \in 1..127
      BY <1>1, <1>2, <1>3
    <2>3. CASE pc' = "reader"
      BY <1>1, <1>2, <2>1, <2>2, <2>3 DEF CardFollows
    <2>4. CASE pc' = "pts"
      BY <1>1, <1>2, <2>1, <2>2, <2>4 DEF CardFollows
    <2>5. CASE pc' = "idle"
      BY <1>1, <1>2, <2>1, <2>2, <2>5 DEF CardFollows
    <2> QED BY <1>1, <1>2, <2>3, <2>4, <2>5
  <1>5. Waiting' /\ SpeedsAgree'
    BY <1>1, <1>2 DEF IInv, Waiting, SpeedsAgree, Talking
  <1> QED BY <1>1, <1>2, <1>4, <1>5 DEF IInv, ReaderTakesItsTable

(* The answer to the PTS request, and what the card makes of the request.  *)
LEMMA PtsInv ==
  ASSUME IInv, PtsGood \/ PtsBad \/ CardPts
  PROVE  IInv'
  <1>1. CASE PtsGood
    <2>1. CardFollows' /\ Waiting' /\ SpeedsAgree'
      BY <1>1 DEF PtsGood, IInv, CardFollows, Waiting, SpeedsAgree, Talking
    <2> QED BY <1>1, <2>1 DEF PtsGood, IInv, ReaderTakesItsTable
  <1>2. CASE PtsBad
    <2>1. CardFollows' /\ Waiting' /\ SpeedsAgree'
      BY <1>2 DEF PtsBad, IInv, CardFollows, Waiting, SpeedsAgree, Talking
    <2> QED BY <1>2, <2>1 DEF PtsBad, IInv, ReaderTakesItsTable
  <1>3. CASE CardPts
    <2>1. /\ card'.rate \in {card.rate, best}
          /\ echo' = "same" => card'.rate = best
          /\ card' = [rate |-> card'.rate, present |-> card'.present]
          /\ pc = "pts" /\ UNCHANGED <<fresh, atr, line, etu, ci, pc, best, ret>>
      BY <1>3 DEF CardPts, IInv
    <2>2. CardFollows' /\ Waiting' /\ SpeedsAgree'
      BY <2>1 DEF IInv, CardFollows, Waiting, SpeedsAgree, Talking
    <2> QED BY <2>1, <2>2 DEF IInv, ReaderTakesItsTable
  <1> QED BY <1>1, <1>2, <1>3

(* The line follows, and with it the waiting time.                         *)
LEMMA ReaderSetSpeedInv ==
  ASSUME IInv, ReaderSetSpeed
  PROVE  IInv'
  <1>1. best.speed \in Accepted
    BY DEF IInv, CardFollows, Switchable, ReaderTakesItsTable
  <1>2. /\ pc = "reader" /\ pc' = "idle" /\ line' = best.speed /\ ret' = "OK"
        /\ ci' = ChangedCI /\ UNCHANGED <<card, fresh, atr, echo, best>>
    BY <1>1 DEF ReaderSetSpeed
  <1>3. /\ ci' = [protocol |-> ci'.protocol, d |-> ci'.d, wi |-> ci'.wi,
                  wwt |-> ci'.wwt]
        /\ ci'.protocol = ci.protocol /\ ci'.wi = ci.wi
        /\ ci.protocol = "T0" => ci'.d = best.d /\ ci'.wwt = Wwt(best.d, ci.wi)
        /\ ci.protocol # "T0" => ci' = ci
    BY <1>2 DEF ChangedCI, IInv
  <1>4. CardFollows'
    BY <1>2 DEF IInv, CardFollows, Default
  <1>5. SpeedsAgree'
    BY <1>2 DEF IInv, CardFollows, SpeedsAgree, Talking
  <1>6. Waiting'
    BY <1>2, <1>3 DEF IInv, CardFollows, Waiting
  <1> QED BY <1>2, <1>3, <1>4, <1>5, <1>6 DEF IInv, ReaderTakesItsTable

(* Steps of card and application that switch nothing.                      *)
LEMMA OtherInv ==
  ASSUME IInv, \/ GetCardType \/ SetSpeedRefused \/ CardUsed \/ CardRemoved
               \/ CardInserted
  PROVE  IInv'
  <1>1. CASE GetCardType
    <2>1. /\ fresh /\ pc = "idle" /\ UNCHANGED <<card, fresh, atr, echo, line, etu, pc, best, ret>>
          /\ ci' = [protocol |-> atr.protocol, d |-> 1, wi |-> atr.wi,
                    wwt |-> Wwt(1, atr.wi)]
      BY <1>1 DEF GetCardType
    <2>2. CardFollows' /\ SpeedsAgree'
      BY <2>1 DEF IInv, CardFollows, SpeedsAgree, Talking
    <2>3. Waiting'
      BY <2>1 DEF IInv, CardFollows, Waiting
    <2> QED BY <2>1, <2>2, <2>3 DEF IInv, ReaderTakesItsTable
  <1>2. CASE SetSpeedRefused
    BY <1>2 DEF SetSpeedRefused, IInv, CardFollows, Waiting, SpeedsAgree, Talking,
                ReaderTakesItsTable
  <1>3. CASE CardUsed
    BY <1>3 DEF CardUsed, IInv, CardFollows, Waiting, SpeedsAgree, Talking,
                ReaderTakesItsTable
  <1>4. CASE CardRemoved
    BY <1>4 DEF CardRemoved, IInv, CardFollows, Waiting, SpeedsAgree, Talking,
                ReaderTakesItsTable
  <1>5. CASE CardInserted
    <2>1. /\ card'.rate = card.rate
          /\ card' = [rate |-> card'.rate, present |-> card'.present]
          /\ UNCHANGED <<fresh, atr, echo, line, etu, ci, pc, best, ret>>
      BY <1>5 DEF CardInserted, IInv
    <2> QED BY <2>1 DEF IInv, CardFollows, Waiting, SpeedsAgree, Talking,
                        ReaderTakesItsTable
  <1> QED BY <1>1, <1>2, <1>3, <1>4, <1>5

LEMMA StepInv == IInv /\ [Next]_vars => IInv'
  <1> SUFFICES ASSUME IInv, [Next]_vars PROVE IInv'
    OBVIOUS
  <1>1. CASE UNCHANGED vars
    BY <1>1 DEF vars, IInv, CardFollows, Waiting, SpeedsAgree, Talking,
                ReaderTakesItsTable
  <1>2. CASE Next
    BY <1>2, ResetInv, SetSpeedInv, PtsInv, ReaderSetSpeedInv, OtherInv DEF Next
  <1> QED BY <1>1, <1>2

THEOREM Invariance == ReaderTakesItsTable /\ Spec => []IInv
  BY InitInv, StepInv, PTL DEF Spec

(* After every call that has ended well, line and card have the same rate. *)
THEOREM RatesAgree == ReaderTakesItsTable /\ Spec => []SpeedsAgree
  <1>1. IInv => SpeedsAgree
    BY DEF IInv
  <1> QED BY <1>1, Invariance, PTL

(* The waiting time of T=0 covers what the card may take, at every rate.   *)
THEOREM WaitCovers == ReaderTakesItsTable /\ Spec => []WaitsLongEnough
  <1>1. IInv => WaitsLongEnough
    <2> SUFFICES ASSUME IInv, Talking, ci.protocol = "T0"
                 PROVE  ci.wwt >= Wwt(card.rate.d, ci.wi)
      BY DEF WaitsLongEnough
    <2>1. ci.d \in 1..127 /\ ci.wi \in Nat /\ ci.wwt = Wwt(ci.d, ci.wi)
      BY DEF IInv, Waiting
    <2>2. CASE card.rate = Default
      BY <2>1, <2>2, WwtGrows DEF Default
    <2>3. CASE card.rate.d = ci.d
      BY <2>1, <2>3 DEF Wwt
    <2> QED BY <2>2, <2>3 DEF IInv, Waiting, Talking
  <1> QED BY <1>1, Invariance, PTL

(* No speed is agreed with the card that the reader then refuses.          *)
THEOREM NotHalfWay == ReaderTakesItsTable /\ Spec => []NeverHalfWay
  <1>1. IInv => NeverHalfWay
    BY DEF IInv, CardFollows, NeverHalfWay, Switchable, ReaderTakesItsTable
  <1> QED BY <1>1, Invariance, PTL
===============================================================================
