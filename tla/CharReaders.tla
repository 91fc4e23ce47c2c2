---------------------------- MODULE CharReaders ----------------------------
(***************************************************************************)
(* The readers that pass characters between the serial port and the card:  *)
(* Dumb Mouse, Easycheck and Towitoko.  A reset has to find out which of   *)
(* the two conventions the card uses, because in the inverse one the bits  *)
(* come in the other order and turned over, and the parity with them; and  *)
(* then scSmartcardGetCardType takes the parameters from the ATR.          *)
(*                                                                         *)
(* Dumb Mouse and Easycheck (the two drivers share this code) set the      *)
(* port for one convention, reset the card, and try the other one if TS is *)
(* not the one they want.  Towitoko tells TS from its raw bits, turns the  *)
(* bytes round itself and puts the parity of the reader and of the port    *)
(* right afterwards.                                                       *)
(***************************************************************************)
EXTENDS Atr

CONSTANTS
  Readers,     \* the readers of the instance
  Cards,       \* the cards: [inverse, groups, hist, known]
  MaxResets    \* bound on the resets

ASSUME CharAssumption ==
  /\ Readers \subseteq {"dumbmouse", "easycheck", "towitoko"}
  /\ MaxResets \in Nat
  /\ \A c \in Cards : WellFormed(c) /\ c.inverse \in BOOLEAN
  \* The cards whose driver has constants for them use the direct convention.
  /\ \A c \in Cards : c.known = "constants" => ~c.inverse

VARIABLES
  reader,  \* which driver
  card,    \* the card in the reader
  host,    \* the serial port: its parity and whether it turns the bytes round
  unit,    \* the parity the Towitoko uses to the card
  pc,      \* where the reset stands
  try,     \* how many resets of the card have been sent
  goal,    \* the parity being set in the Towitoko, and what comes after that
  direct,  \* ci->direct
  atr,     \* ci->atr
  params,  \* ci->protocol, ci->t0, ci->t1
  ret,     \* what the last reset returned
  typed,   \* what scSmartcardGetCardType made of its ATR
  resets

port == <<host, unit>>
info == <<direct, atr, params>>
vars == <<reader, card, host, unit, pc, try, goal, direct, atr, params, ret, typed, resets>>

-----------------------------------------------------------------------------
DirectPort == [parity |-> "even", turned |-> FALSE]
InversePort == [parity |-> "odd", turned |-> TRUE]

\* The parity of a card as the line shows it
ParityOf(c) == IF c.inverse THEN "odd" ELSE "even"

Towitoko == reader = "towitoko"

(***************************************************************************)
(* A byte sent with the other parity than the port is set for.  On most    *)
(* systems it comes through, because SIO_WriteSettings sets INPCK in       *)
(* c_cflag (sio.c:1000) and so the system does not look at the parity.     *)
(***************************************************************************)
Clear == host.parity = ParityOf(card) /\ (Towitoko => unit = ParityOf(card))

Init ==
  /\ reader \in Readers
  /\ card \in Cards
  /\ host = DirectPort
  /\ unit \in {"even", "odd"}
  /\ pc = "idle" /\ try = 0 /\ goal = [parity |-> "even", next |-> "ts"]
  /\ direct = TRUE /\ atr = <<>>
  /\ params = [Defaults EXCEPT !.protocol = -1]
  /\ ret = "none" /\ typed = "none"
  /\ resets = 0

Return(r) == pc' = "idle" /\ ret' = r

(***************************************************************************)
(* scDumbmouseResetCard, scEasycheckResetCard, scTowitokoResetCard, up to  *)
(* the first reset of the card.  The card may have been changed.           *)
(***************************************************************************)
ResetCard(c) ==
  /\ pc = "idle" /\ resets < MaxResets
  /\ resets' = resets + 1 /\ card' = c
  /\ try' = 0 /\ ret' = "none" /\ typed' = "none"
  /\ goal' = [parity |-> "even", next |-> "ts"]
  /\ IF Towitoko THEN pc' = "parity" /\ UNCHANGED host
                 ELSE pc' = "ts" /\ host' = DirectPort
  /\ UNCHANGED <<reader, unit, info>>

(***************************************************************************)
(* scTowitokoSetParity and the SIO_SetParity that follows it.  When the    *)
(* reader does not answer, it may have changed its parity ("mute") or not  *)
(* ("deaf"); the port is then left as it was.                              *)
(***************************************************************************)
SetParity(answer) ==
  /\ pc = "parity"
  /\ unit' = IF answer = "deaf" THEN unit ELSE goal.parity
  /\ IF answer = "done"
       THEN /\ host' = [host EXCEPT !.parity = goal.parity]
            /\ IF goal.next = "ts" THEN pc' = "ts" /\ UNCHANGED ret ELSE Return("OK")
       ELSE Return("IO_ERROR") /\ UNCHANGED host
  /\ UNCHANGED <<reader, card, try, goal, info, typed, resets>>

-----------------------------------------------------------------------------
\* Dumb Mouse and Easycheck want the TS of the convention the port is set
\* for; Towitoko takes 3B, or 03, which is 3F turned round, with either parity.
TSMatches == Towitoko \/ host.turned = card.inverse

\* The TS that is accepted: it settles the order of the bits.
TakeTS ==
  /\ pc = "ts"
  /\ TSMatches
  /\ pc' = "atr"
  /\ direct' = IF Towitoko THEN ~card.inverse ELSE direct
  /\ UNCHANGED <<reader, card, port, try, goal, atr, params, ret, typed, resets>>

(***************************************************************************)
(* No TS, or another byte: the card is reset again.  Dumb Mouse and        *)
(* Easycheck take the two conventions in turn, three times; Towitoko makes *)
(* six attempts with even parity and six with odd.                         *)
(***************************************************************************)
NoTS ==
  /\ pc = "ts"
  /\ try' = try + 1
  /\ IF Towitoko
       THEN /\ CASE try' = 12 -> Return("BAD_ATR") /\ UNCHANGED goal
                 [] try' = 6  -> /\ pc' = "parity" /\ UNCHANGED ret
                                 /\ goal' = [parity |-> "odd", next |-> "ts"]
                 [] OTHER     -> UNCHANGED <<pc, goal, ret>>
            /\ UNCHANGED host
       ELSE /\ IF try' = 6 THEN Return("BAD_ATR") /\ UNCHANGED host
               ELSE /\ host' = IF host = DirectPort THEN InversePort ELSE DirectPort
                    /\ UNCHANGED <<pc, ret>>
            /\ UNCHANGED goal
  /\ UNCHANGED <<reader, card, unit, info, typed, resets>>

(***************************************************************************)
(* The rest of the ATR; the line may lose its end, or any byte that comes  *)
(* with the wrong parity.  At the end of scTowitokoResetCard the parity is *)
(* set according to TS, if the port does not have it already; what comes   *)
(* of scTowitokoCardStatus is ignored.                                     *)
(***************************************************************************)
\* Mutant: the parity that TS was heard with is kept.
KeptParity == FALSE
WrongParity == Towitoko /\ host.parity # ParityOf(card)

ReadATR(n) ==
  LET whole == Encoded(card)
      got == GetATR(SubSeq(whole, 1, n))
  IN  /\ pc = "atr" /\ n <= Len(whole)
      /\ n < Len(whole) - 1 => ~Clear
      /\ atr' = got.atr
      /\ IF got.ret # "OK" THEN Return(got.ret) /\ UNCHANGED goal
         ELSE IF WrongParity
           THEN /\ pc' = "parity" /\ UNCHANGED ret
                /\ goal' = [parity |-> ParityOf(card), next |-> "end"]
           ELSE Return("OK") /\ UNCHANGED goal
      /\ UNCHANGED <<reader, card, port, try, direct, params, typed, resets>>

-----------------------------------------------------------------------------
(***************************************************************************)
(* scSmartcardGetCardType.  A card of the table with a driver gets the     *)
(* driver's data, which are constants or those of the ATR; any other card  *)
(* gets those of the ATR.                                                  *)
(***************************************************************************)
\* Mutant: what the ATR does not say keeps its value from the card before.
Kept(old) == old
Fresh(old) == Defaults

FromATR ==
  /\ direct' = ~card.inverse
  /\ \E r \in ProcessATR(atr, Fresh(params)) : params' = r.params /\ typed' = r.ret
FromDriver ==
  /\ direct' = TRUE /\ typed' = "OK"
  /\ params' = Meaning(card)

GetCardType ==
  /\ pc = "idle" /\ ret = "OK" /\ typed = "none"
  /\ IF card.known = "constants" THEN FromDriver ELSE FromATR
  /\ UNCHANGED <<reader, card, port, pc, try, goal, atr, ret, resets>>

Next ==
  \/ \E c \in Cards : ResetCard(c)
  \/ \E answer \in {"done", "mute", "deaf"} : SetParity(answer)
  \/ TakeTS \/ NoTS
  \/ \E n \in 1 .. MaxAtr + 1 : ReadATR(n)
  \/ GetCardType

Spec == Init /\ [][Next]_vars

-----------------------------------------------------------------------------
(***************************************************************************)
(* After a reset that succeeded, whatever was lost on the way, everything  *)
(* that has to know the convention of the card agrees with the card: the   *)
(* parity of the port, the parity of the reader, and the one place that    *)
(* turns the bytes round, be it the port or, for the Towitoko, ci->direct; *)
(* and finding out the card's type does not change that.                   *)
(***************************************************************************)
ConventionAgrees ==
  pc = "idle" /\ ret = "OK" =>
    /\ Clear
    /\ host.turned = (card.inverse /\ ~Towitoko)
    /\ Towitoko \/ typed # "none" => direct = ~card.inverse

(***************************************************************************)
(* What scSmartcardProcessATR gets wrong.  An ATR that ends with its       *)
(* interface bytes looks too short to it; for a T=1 card with a TD3 it     *)
(* leaves out the last byte of the sum; and it takes the third group of a  *)
(* T=1 card for one about T=1 when it is not.                              *)
(***************************************************************************)
EndsEarly == card.hist = 0 /\ ~HasTCK(card)
ThirdTD == FirstProtocol(card) = 1 /\ Len(card.groups) > 3
OtherGroup == Len(card.groups) >= 3 /\ card.groups[2].t # 1

(***************************************************************************)
(* The whole ATR is read, no byte more; and from it come the first         *)
(* protocol of the card and the parameters of that protocol, those the ATR *)
(* does not give at their defaults, whatever card was there before.  A     *)
(* good ATR is refused only in the cases above.                            *)
(***************************************************************************)
AtrUnderstood ==
  /\ pc = "idle" /\ ret = "OK" => atr = Encoded(card)
  /\ pc = "idle" /\ ret = "PROTOCOL_ERROR" => Len(Encoded(card)) > MaxAtr
  /\ typed = "OK" =>
       LET m == Meaning(card)
       IN  /\ params.protocol = m.protocol
           /\ m.protocol = 0 => params.wi = m.wi
           /\ m.protocol = 1 /\ ~OtherGroup =>
                params.ifsc = m.ifsc /\ params.times = m.times /\ params.rc = m.rc
  /\ typed = "BAD_ATR" => EndsEarly \/ ThirdTD
=============================================================================
