------------------------- MODULE CharReaders_proofs -------------------------
(***************************************************************************)
(* ConventionAgrees and AtrUnderstood for every set of cards, whatever     *)
(* their ATRs, and any number of resets.                                   *)
(***************************************************************************)
EXTENDS CharReaders, TLAPS, FiniteSetTheorems

Parities == {"even", "odd"}

CardShape(c) == c.inverse \in BOOLEAN

TypeInv ==
  /\ reader \in {"dumbmouse", "easycheck", "towitoko"}
  /\ CardShape(card)
  /\ host \in [parity : Parities, turned : BOOLEAN]
  /\ unit \in Parities
  /\ pc \in {"idle", "parity", "ts", "atr"}
  /\ goal \in [parity : Parities, next : {"ts", "end"}]

(***************************************************************************)
(* Dumb Mouse and Easycheck hold the port in one of the two conventions    *)
(* and read on only in the card's.  The Towitoko's port never turns bytes  *)
(* round, its parity and the reader's are the same from the first answer   *)
(* to SetParity on, and only a parity change that was not answered parts   *)
(* them, at the end of a reset that failed.                                *)
(***************************************************************************)
PortFollows ==
  /\ ~Towitoko => /\ pc # "parity"
                  /\ host \in {DirectPort, InversePort}
                  /\ pc = "atr" => host.turned = card.inverse
  /\ Towitoko => /\ ~host.turned
                 /\ pc \in {"ts", "atr"} => unit = host.parity
                 /\ pc = "atr" => direct = ~card.inverse
                 /\ pc = "parity" /\ goal.next = "end" =>
                      goal.parity = ParityOf(card) /\ direct = ~card.inverse
  /\ pc # "idle" => typed = "none"
  /\ pc # "idle" => ret # "OK"

Inv == TypeInv /\ PortFollows /\ ConventionAgrees

LEMMA PortParity ==
  ASSUME TypeInv, ~Towitoko, host \in {DirectPort, InversePort}, host.turned = card.inverse
  PROVE  Clear
  BY DEF TypeInv, CardShape, Clear, ParityOf, DirectPort, InversePort, Towitoko

LEMMA PortTypes ==
  /\ DirectPort \in [parity : Parities, turned : BOOLEAN] /\ ~DirectPort.turned
  /\ InversePort \in [parity : Parities, turned : BOOLEAN]
  BY DEF DirectPort, InversePort, Parities

LEMMA InitInv ==
  ASSUME \A c \in Cards : CardShape(c), Init
  PROVE  Inv
  BY CharAssumption DEF Init, Inv, TypeInv, PortFollows, ConventionAgrees, DirectPort, Parities, Towitoko

LEMMA ResetCardKeeps ==
  ASSUME Inv, NEW c \in Cards, CardShape(c), ResetCard(c)
  PROVE  Inv'
  <1>1. /\ UNCHANGED <<reader, unit, direct>> /\ card' = c
        /\ ret' = "none" /\ typed' = "none" /\ goal' = [parity |-> "even", next |-> "ts"]
    BY DEF ResetCard, info
  <1>2. goal' \in [parity : Parities, next : {"ts", "end"}] /\ goal'.next = "ts"
    BY <1>1 DEF Parities
  <1>3. CASE Towitoko
    <2>1. pc' = "parity" /\ host' = host
      BY <1>3 DEF ResetCard
    <2> QED BY <1>1, <1>2, <1>3, <2>1 DEF Inv, TypeInv, PortFollows, ConventionAgrees, Towitoko
  <1>4. CASE ~Towitoko
    <2>1. pc' = "ts" /\ host' = DirectPort
      BY <1>4 DEF ResetCard
    <2> QED BY <1>1, <1>2, <1>4, <2>1, PortTypes
          DEF Inv, TypeInv, PortFollows, ConventionAgrees, Towitoko
  <1> QED BY <1>3, <1>4

LEMMA SetParityKeeps ==
  ASSUME Inv, NEW answer \in {"done", "mute", "deaf"}, SetParity(answer)
  PROVE  Inv'
  <1>1. Towitoko /\ UNCHANGED <<reader, card, goal, direct, typed>>
    BY DEF Inv, PortFollows, SetParity, info
  <1>2. host' \in [parity : Parities, turned : BOOLEAN] /\ unit' \in Parities /\ ~host'.turned
    BY <1>1 DEF Inv, TypeInv, PortFollows, SetParity
  <1>3. CASE answer = "done" /\ goal.next = "ts"
    <2>1. pc' = "ts" /\ ret' = ret /\ host'.parity = goal.parity /\ unit' = goal.parity
      BY <1>3 DEF SetParity, Inv, TypeInv
    <2> QED BY <1>1, <1>2, <2>1 DEF Inv, TypeInv, PortFollows, ConventionAgrees, Towitoko, SetParity
  <1>4. CASE answer = "done" /\ goal.next # "ts"
    <2>1. pc' = "idle" /\ ret' = "OK" /\ host'.parity = goal.parity /\ unit' = goal.parity
      BY <1>4 DEF SetParity, Inv, TypeInv, Return
    <2>2. goal.parity = ParityOf(card) /\ direct = ~card.inverse
      BY <1>1, <1>4 DEF Inv, TypeInv, PortFollows, SetParity
    <2> QED BY <1>1, <1>2, <2>1, <2>2
          DEF Inv, TypeInv, PortFollows, ConventionAgrees, Towitoko, Clear, ParityOf, SetParity
  <1>5. CASE answer # "done"
    <2>1. pc' = "idle" /\ ret' = "IO_ERROR"
      BY <1>5 DEF SetParity, Return
    <2> QED BY <1>1, <1>2, <2>1 DEF Inv, TypeInv, PortFollows, ConventionAgrees, Towitoko
  <1> QED BY <1>3, <1>4, <1>5

LEMMA TakeTSKeeps ==
  ASSUME Inv, TakeTS
  PROVE  Inv'
  BY DEF Inv, TypeInv, PortFollows, ConventionAgrees, TakeTS, TSMatches, Towitoko, port, CardShape

LEMMA NoTSKeeps ==
  ASSUME Inv, NoTS
  PROVE  Inv'
  <1>1. pc = "ts" /\ UNCHANGED <<reader, card, unit, direct, typed>>
    BY DEF NoTS, info
  <1>2. CASE Towitoko
    <2>1. host' = host
      BY <1>2 DEF NoTS
    <2>2. \/ pc' = "idle" /\ ret' = "BAD_ATR" /\ goal' = goal
          \/ pc' = "parity" /\ ret' = ret /\ goal' = [parity |-> "odd", next |-> "ts"]
          \/ pc' = "ts" /\ ret' = ret /\ goal' = goal
      BY <1>1, <1>2 DEF NoTS, Return
    <2> QED BY <1>1, <1>2, <2>1, <2>2
          DEF Inv, TypeInv, PortFollows, ConventionAgrees, Towitoko, Parities
  <1>3. CASE ~Towitoko
    <2>1. goal' = goal /\ host' \in {DirectPort, InversePort}
      BY <1>1, <1>3 DEF NoTS, Inv, PortFollows
    <2>2. \/ pc' = "idle" /\ ret' = "BAD_ATR"
          \/ pc' = "ts" /\ ret' = ret
      BY <1>1, <1>3 DEF NoTS, Return
    <2>3. host' \in [parity : Parities, turned : BOOLEAN]
      BY <2>1, PortTypes
    <2> QED BY <1>1, <1>3, <2>1, <2>2, <2>3
          DEF Inv, TypeInv, PortFollows, ConventionAgrees, Towitoko
  <1> QED BY <1>2, <1>3

LEMMA ReadATRKeeps ==
  ASSUME Inv, NEW n \in 1 .. MaxAtr + 1, ReadATR(n)
  PROVE  Inv'
  <1>1. pc = "atr" /\ UNCHANGED <<reader, card, host, unit, direct, typed>>
    BY DEF ReadATR, port
  <1>2. \/ pc' = "idle" /\ ret' # "OK" /\ goal' = goal
        \/ /\ WrongParity /\ pc' = "parity" /\ ret' = ret
           /\ goal' = [parity |-> ParityOf(card), next |-> "end"]
        \/ ~WrongParity /\ pc' = "idle" /\ ret' = "OK" /\ goal' = goal
    BY DEF ReadATR, Return
  <1>3. CASE pc' = "idle" /\ ret' # "OK" /\ goal' = goal
    BY <1>1, <1>3 DEF Inv, TypeInv, PortFollows, ConventionAgrees, Towitoko
  <1>4. CASE WrongParity /\ pc' = "parity" /\ ret' = ret
             /\ goal' = [parity |-> ParityOf(card), next |-> "end"]
    <2>1. ParityOf(card) \in Parities /\ ParityOf(card)' = ParityOf(card)
      BY <1>1 DEF ParityOf, Parities
    <2> QED BY <1>1, <1>4, <2>1
          DEF Inv, TypeInv, PortFollows, ConventionAgrees, Towitoko, WrongParity
  <1>5. CASE ~WrongParity /\ pc' = "idle" /\ ret' = "OK" /\ goal' = goal
    <2>1. Clear
      <3>1. CASE Towitoko
        BY <1>1, <1>5, <3>1 DEF Inv, PortFollows, WrongParity, Clear
      <3>2. CASE ~Towitoko
        BY <1>1, <3>2, PortParity DEF Inv, PortFollows
      <3> QED BY <3>1, <3>2
    <2>2. Clear'
      BY <1>1, <2>1 DEF Clear, ParityOf, Towitoko
    <2> QED BY <1>1, <1>5, <2>2 DEF Inv, TypeInv, PortFollows, ConventionAgrees, Towitoko, CardShape
  <1> QED BY <1>2, <1>3, <1>4, <1>5

LEMMA GetCardTypeKeeps ==
  ASSUME Inv, card \in Cards, GetCardType
  PROVE  Inv'
  <1>1. pc = "idle" /\ ret = "OK" /\ UNCHANGED <<reader, card, host, unit, pc, goal, ret>>
    BY DEF GetCardType, port
  <1>2. direct' = ~card.inverse
    <2>1. CASE card.known = "constants"
      BY <2>1, CharAssumption DEF GetCardType, FromDriver, Inv, TypeInv, CardShape
    <2>2. CASE card.known # "constants"
      BY <2>2 DEF GetCardType, FromATR
    <2> QED BY <2>1, <2>2
  <1> QED BY <1>1, <1>2
        DEF Inv, TypeInv, PortFollows, ConventionAgrees, Clear, ParityOf, Towitoko

(***************************************************************************)
(* Whatever the cards are, and whatever is lost: after a reset that        *)
(* succeeded, port, reader and ci->direct have the card's convention.      *)
(***************************************************************************)
THEOREM ConventionAlwaysAgrees == Spec => []ConventionAgrees
  <1> DEFINE All == Inv /\ card \in Cards
  <1>0. \A c \in Cards : CardShape(c)
    BY CharAssumption DEF CardShape
  <1>1. Init => All
    BY <1>0, InitInv DEF Init
  <1>2. All /\ [Next]_vars => All'
    <2> SUFFICES ASSUME Inv, card \in Cards, [Next]_vars
                 PROVE  Inv' /\ (card \in Cards)'
      OBVIOUS
    <2>1. CASE UNCHANGED vars
      BY <2>1 DEF vars, Inv, TypeInv, CardShape, PortFollows, ConventionAgrees, Clear, ParityOf, Towitoko
    <2>2. ASSUME NEW c \in Cards, ResetCard(c) PROVE Inv' /\ card' \in Cards
      BY <1>0, <2>2, ResetCardKeeps DEF ResetCard
    <2>3. ASSUME NEW answer \in {"done", "mute", "deaf"}, SetParity(answer)
          PROVE  Inv' /\ card' \in Cards
      BY <2>3, SetParityKeeps DEF SetParity
    <2>4. CASE TakeTS
      BY <2>4, TakeTSKeeps DEF TakeTS
    <2>5. CASE NoTS
      BY <2>5, NoTSKeeps DEF NoTS
    <2>6. ASSUME NEW n \in 1 .. MaxAtr + 1, ReadATR(n) PROVE Inv' /\ card' \in Cards
      <3>1. card' = card
        BY <2>6 DEF ReadATR
      <3> QED BY <2>6, <3>1, ReadATRKeeps
    <2>7. CASE GetCardType
      BY <2>7, GetCardTypeKeeps DEF GetCardType
    <2> QED BY <2>1, <2>2, <2>3, <2>4, <2>5, <2>6, <2>7 DEF Next
  <1>3. All => ConventionAgrees
    BY DEF Inv
  <1> QED BY <1>1, <1>2, <1>3, PTL DEF Spec

-----------------------------------------------------------------------------
(***************************************************************************)
(* Induction for the two walks over an ATR, the card's that writes it and  *)
(* GetATR's.  The library's induction theorems take an operator; that a    *)
(* set of numbers has a least element does not.                            *)
(***************************************************************************)
LEMMA LeastOf ==
  ASSUME NEW T \in SUBSET Nat, T # {}
  PROVE  \E m \in T : \A k \in T : m <= k
  <1>1. PICK x \in T : \A y \in T : <<y, x>> \notin OpToRel(<, Nat)
    BY WFMin, NatLessThanWellFounded, Zenon
  <1>2. \A y \in T : ~(y < x)
    BY <1>1 DEF OpToRel
  <1> QED BY <1>2

LEMMA AllNumbers ==
  ASSUME NEW S, 0 \in S, \A n \in Nat : n \in S => n + 1 \in S
  PROVE  \A n \in Nat : n \in S
  <1> SUFFICES ASSUME Nat \ S # {} PROVE FALSE
    OBVIOUS
  <1>1. PICK m \in Nat \ S : \A k \in Nat \ S : m <= k
    BY LeastOf
  <1>2. m - 1 \in S /\ m - 1 \in Nat
    BY <1>1
  <1> QED BY <1>1, <1>2

\* How long the parts of an ATR are and what is where in them
LEMMA ConcatFacts ==
  ASSUME NEW S, NEW s \in Seq(S), NEW t \in Seq(S)
  PROVE  /\ s \o t \in Seq(S) /\ Len(s \o t) = Len(s) + Len(t)
         /\ \A i \in 1..Len(s) : (s \o t)[i] = s[i]
         /\ \A i \in 1..Len(t) : (s \o t)[Len(s) + i] = t[i]
  OBVIOUS

LEMMA JoinedFour ==
  ASSUME NEW S, NEW p \in Seq(S), NEW q \in Seq(S), NEW r \in Seq(S), NEW t \in Seq(S),
         Len(p) <= 1, Len(q) <= 1, Len(r) <= 1, Len(t) <= 1,
         NEW s, s = p \o q \o r \o t
  PROVE  /\ s \in Seq(S) /\ Len(s) = Len(p) + Len(q) + Len(r) + Len(t)
         /\ Len(p) = 1 => s[1] = p[1]
         /\ Len(q) = 1 => s[Len(p) + 1] = q[1]
         /\ Len(r) = 1 => s[Len(p) + Len(q) + 1] = r[1]
         /\ Len(t) = 1 => s[Len(p) + Len(q) + Len(r) + 1] = t[1]
  <1> DEFINE u == p \o q
             v == u \o r
  <1>s. s = v \o t
    OBVIOUS
  <1>0. Len(p) \in Nat /\ Len(q) \in Nat /\ Len(r) \in Nat /\ Len(t) \in Nat
    OBVIOUS
  <1>1. /\ u \in Seq(S) /\ Len(u) = Len(p) + Len(q)
        /\ \A i \in 1..Len(p) : u[i] = p[i]
        /\ \A i \in 1..Len(q) : u[Len(p) + i] = q[i]
    BY ConcatFacts
  <1> HIDE DEF u
  <1>2. /\ v \in Seq(S) /\ Len(v) = Len(u) + Len(r)
        /\ \A i \in 1..Len(u) : v[i] = u[i]
        /\ \A i \in 1..Len(r) : v[Len(u) + i] = r[i]
    BY <1>1, ConcatFacts
  <1> HIDE DEF v
  <1>3. /\ s \in Seq(S) /\ Len(s) = Len(v) + Len(t)
        /\ \A i \in 1..Len(v) : s[i] = v[i]
        /\ \A i \in 1..Len(t) : s[Len(v) + i] = t[i]
    BY <1>s, <1>2, ConcatFacts
  <1>4. Len(p) = 1 => s[1] = p[1]
    BY <1>0, <1>1, <1>2, <1>3
  <1>5. Len(q) = 1 => s[Len(p) + 1] = q[1]
    BY <1>0, <1>1, <1>2, <1>3
  <1>6. Len(r) = 1 => s[Len(p) + Len(q) + 1] = r[1]
    BY <1>0, <1>1, <1>2, <1>3
  <1>7. Len(t) = 1 => s[Len(p) + Len(q) + Len(r) + 1] = t[1]
    BY <1>0, <1>1, <1>2, <1>3
  <1> QED BY <1>0, <1>1, <1>2, <1>3, <1>4, <1>5, <1>6, <1>7

\* The bytes of an ATR, and which of the four a group has
Letters == {"S", "A", "B", "C", "D", "H", "K"}
Byte == [name : Letters \X Nat, y : SUBSET {"A", "B", "C", "D"}, low : Int]

HasA(c, i) == IF "A" \in c.groups[i].y THEN 1 ELSE 0
HasB(c, i) == IF "B" \in c.groups[i].y THEN 1 ELSE 0
HasC(c, i) == IF "C" \in c.groups[i].y THEN 1 ELSE 0
HasD(c, i) == IF HasTD(c, i) THEN 1 ELSE 0
Width(c, i) == HasA(c, i) + HasB(c, i) + HasC(c, i) + HasD(c, i)

LEMMA BitType ==
  ASSUME NEW c, NEW i
  PROVE  /\ HasA(c, i) \in {0, 1} /\ HasB(c, i) \in {0, 1}
         /\ HasC(c, i) \in {0, 1} /\ HasD(c, i) \in {0, 1}
         /\ Width(c, i) \in 0 .. 4
  <1>1. /\ HasA(c, i) \in {0, 1} /\ HasB(c, i) \in {0, 1}
        /\ HasC(c, i) \in {0, 1} /\ HasD(c, i) \in {0, 1}
    BY DEF HasA, HasB, HasC, HasD
  <1> QED BY <1>1 DEF Width

LEMMA CardShapes ==
  ASSUME NEW c, WellFormed(c)
  PROVE  /\ Len(c.groups) \in Nat /\ Len(c.groups) >= 1 /\ c.hist \in Nat
         /\ \A i \in 1 .. Len(c.groups) :
              /\ c.groups[i].y \subseteq {"A", "B", "C"} /\ c.groups[i].t \in -1 .. 15
              /\ HasTD(c, i) <=> i < Len(c.groups)
              /\ Announced(c, i) \subseteq {"A", "B", "C", "D"}
              /\ "D" \in Announced(c, i) <=> i < Len(c.groups)
              /\ "A" \in Announced(c, i) <=> "A" \in c.groups[i].y
              /\ "B" \in Announced(c, i) <=> "B" \in c.groups[i].y
              /\ "C" \in Announced(c, i) <=> "C" \in c.groups[i].y
  <1> DEFINE G == [y : SUBSET {"A", "B", "C"}, t : -1 .. 15]
  <1>1. c.groups \in Seq(G) /\ c.groups # <<>> /\ c.hist \in Nat
    BY DEF WellFormed
  <1>2. Len(c.groups) \in Nat /\ Len(c.groups) >= 1 /\ DOMAIN c.groups = 1 .. Len(c.groups)
    BY <1>1
  <1>3. ASSUME NEW i \in 1 .. Len(c.groups)
        PROVE  /\ c.groups[i].y \subseteq {"A", "B", "C"} /\ c.groups[i].t \in -1 .. 15
               /\ HasTD(c, i) <=> i < Len(c.groups)
    <2>1. c.groups[i] \in G
      <3> HIDE DEF G
      <3> QED BY <1>1, <1>2
    <2>2. HasTD(c, i) <=> i < Len(c.groups)
      BY <1>2, <1>3 DEF WellFormed
    <2> QED BY <2>1, <2>2
  <1>4. ASSUME NEW i \in 1 .. Len(c.groups)
        PROVE  /\ Announced(c, i) \subseteq {"A", "B", "C", "D"}
               /\ "D" \in Announced(c, i) <=> i < Len(c.groups)
               /\ "A" \in Announced(c, i) <=> "A" \in c.groups[i].y
               /\ "B" \in Announced(c, i) <=> "B" \in c.groups[i].y
               /\ "C" \in Announced(c, i) <=> "C" \in c.groups[i].y
    BY <1>3, <1>4 DEF Announced
  <1> QED BY <1>1, <1>2, <1>3, <1>4

LEMMA ByteTypes ==
  /\ \A l \in Letters, i \in Nat : AByte(l, i) \in Byte
  /\ \A c : WellFormed(c) =>
       /\ \A i \in 1 .. Len(c.groups) : i < Len(c.groups) => TD(c, i) \in Byte
       /\ [name |-> <<"D", 0>>, y |-> Announced(c, 1), low |-> c.hist] \in Byte
  <1>1. \A l \in Letters, i \in Nat : AByte(l, i) \in Byte
    BY DEF AByte, Byte
  <1>2. ASSUME NEW c, WellFormed(c), NEW i \in 1 .. Len(c.groups), i < Len(c.groups)
        PROVE  TD(c, i) \in Byte
    <2>1. Announced(c, i + 1) \in SUBSET {"A", "B", "C", "D"} /\ c.groups[i].t \in Int /\ i \in Nat
      BY <1>2, CardShapes
    <2> QED BY <2>1 DEF TD, Byte, Letters
  <1>3. ASSUME NEW c, WellFormed(c)
        PROVE  [name |-> <<"D", 0>>, y |-> Announced(c, 1), low |-> c.hist] \in Byte
    <2>1. Announced(c, 1) \in SUBSET {"A", "B", "C", "D"} /\ c.hist \in Int
      BY <1>3, CardShapes
    <2> QED BY <2>1 DEF Byte, Letters
  <1> QED BY <1>1, <1>2, <1>3

LEMMA GroupBytes ==
  ASSUME NEW c, WellFormed(c), NEW i \in 1 .. Len(c.groups)
  PROVE  LET s == InterfaceBytes(c, i)
         IN  /\ s \in Seq(Byte) /\ Len(s) = Width(c, i)
             /\ HasA(c, i) = 1 => s[1] = AByte("A", i)
             /\ HasB(c, i) = 1 => s[HasA(c, i) + 1] = AByte("B", i)
             /\ HasC(c, i) = 1 => s[HasA(c, i) + HasB(c, i) + 1] = AByte("C", i)
             /\ HasD(c, i) = 1 => s[HasA(c, i) + HasB(c, i) + HasC(c, i) + 1] = TD(c, i)
  <1> DEFINE p == If("A" \in c.groups[i].y, AByte("A", i))
             q == If("B" \in c.groups[i].y, AByte("B", i))
             r == If("C" \in c.groups[i].y, AByte("C", i))
             t == If(HasTD(c, i), TD(c, i))
  <1>0. i \in Nat /\ (HasTD(c, i) => i < Len(c.groups))
    BY CardShapes
  <1>1. p \in Seq(Byte) /\ Len(p) = HasA(c, i) /\ (HasA(c, i) = 1 => p[1] = AByte("A", i))
    <2> DEFINE b == AByte("A", i)
    <2>1. b \in Byte
      BY <1>0, ByteTypes DEF Letters
    <2> HIDE DEF b
    <2> QED BY <2>1 DEF If, HasA, b
  <1>2. q \in Seq(Byte) /\ Len(q) = HasB(c, i) /\ (HasB(c, i) = 1 => q[1] = AByte("B", i))
    <2> DEFINE b == AByte("B", i)
    <2>1. b \in Byte
      BY <1>0, ByteTypes DEF Letters
    <2> HIDE DEF b
    <2> QED BY <2>1 DEF If, HasB, b
  <1>3. r \in Seq(Byte) /\ Len(r) = HasC(c, i) /\ (HasC(c, i) = 1 => r[1] = AByte("C", i))
    <2> DEFINE b == AByte("C", i)
    <2>1. b \in Byte
      BY <1>0, ByteTypes DEF Letters
    <2> HIDE DEF b
    <2> QED BY <2>1 DEF If, HasC, b
  <1>4. t \in Seq(Byte) /\ Len(t) = HasD(c, i) /\ (HasD(c, i) = 1 => t[1] = TD(c, i))
    <2>1. HasTD(c, i) => TD(c, i) \in Byte
      BY <1>0, ByteTypes
    <2> QED BY <2>1 DEF If, HasD
  <1>5. InterfaceBytes(c, i) = p \o q \o r \o t
    BY DEF InterfaceBytes
  <1> HIDE DEF p, q, r, t
  <1>6. /\ Len(p) <= 1 /\ Len(q) <= 1 /\ Len(r) <= 1 /\ Len(t) <= 1
        /\ p \in Seq(Byte) /\ q \in Seq(Byte) /\ r \in Seq(Byte) /\ t \in Seq(Byte)
    BY <1>1, <1>2, <1>3, <1>4, BitType
  <1> DEFINE s == p \o q \o r \o t
  <1>7. /\ s \in Seq(Byte) /\ Len(s) = Len(p) + Len(q) + Len(r) + Len(t)
        /\ Len(p) = 1 => s[1] = p[1]
        /\ Len(q) = 1 => s[Len(p) + 1] = q[1]
        /\ Len(r) = 1 => s[Len(p) + Len(q) + 1] = r[1]
        /\ Len(t) = 1 => s[Len(p) + Len(q) + Len(r) + 1] = t[1]
    BY <1>6, JoinedFour
  <1> HIDE DEF s
  <1> QED BY <1>1, <1>2, <1>3, <1>4, <1>5, <1>7 DEF s, Width

\* The function that joins x and the first i of the g exists, and UpTo is it.
Joins(f, n, x, g) == f = [i \in 0 .. n |-> IF i = 0 THEN x ELSE f[i - 1] \o g[i]]

LEMMA Joining ==
  ASSUME NEW n \in Nat, NEW x, NEW g
  PROVE  \E f : Joins(f, n, x, g)
  <1> DEFINE D(k, f) == f = [i \in 0 .. k |-> IF i = 0 THEN x ELSE f[i - 1] \o g[i]]
             S == {k \in Nat : \E f : D(k, f)}
  <1>1. 0 \in S
    <2>1. D(0, [i \in 0 .. 0 |-> x])
      OBVIOUS
    <2> QED BY <2>1
  <1>2. ASSUME NEW k \in Nat, k \in S
        PROVE  k + 1 \in S
    <2>1. PICK f : D(k, f)
      BY <1>2
    <2> DEFINE e == f[k] \o g[k + 1]
               h == [i \in 0 .. k + 1 |-> IF i <= k THEN f[i] ELSE e]
    <2>2. D(k + 1, h)
      <3>1. \A i \in 0 .. k : h[i] = f[i]
        OBVIOUS
      <3>2. h[k + 1] = f[k] \o g[k + 1]
        <4> HIDE DEF e
        <4>1. h[k + 1] = e
          OBVIOUS
        <4> QED BY <4>1 DEF e
      <3>3. \A i \in 0 .. k : f[i] = IF i = 0 THEN x ELSE f[i - 1] \o g[i]
        BY <2>1
      <3>4. ASSUME NEW i \in 0 .. k + 1
            PROVE  h[i] = IF i = 0 THEN x ELSE h[i - 1] \o g[i]
        <4>1. CASE i = k + 1
          BY <3>1, <3>2, <4>1
        <4>2. CASE i # k + 1
          <5>1. i \in 0 .. k /\ (i # 0 => i - 1 \in 0 .. k)
            BY <4>2
          <5> QED BY <3>1, <3>3, <5>1
        <4> QED BY <4>1, <4>2
      <3>5. h = [i \in 0 .. k + 1 |-> h[i]]
        OBVIOUS
      <3> HIDE DEF h
      <3> QED BY <3>4, <3>5
    <2>3. k + 1 \in Nat
      OBVIOUS
    <2> QED BY <2>2, <2>3
  <1> HIDE DEF S
  <1>3. n \in S
    BY <1>1, <1>2, AllNumbers
  <1> QED BY <1>3 DEF S, Joins

LEMMA UpToSteps ==
  ASSUME NEW c, WellFormed(c)
  PROVE  /\ UpTo(c)[0] = <<AByte("S", 0), [name |-> <<"D", 0>>, y |-> Announced(c, 1), low |-> c.hist]>>
         /\ \A i \in 1 .. Len(c.groups) : UpTo(c)[i] = UpTo(c)[i - 1] \o InterfaceBytes(c, i)
  <1> DEFINE n == Len(c.groups)
             x == <<AByte("S", 0), [name |-> <<"D", 0>>, y |-> Announced(c, 1), low |-> c.hist]>>
             g == [i \in 1 .. n |-> InterfaceBytes(c, i)]
             Def(f) == f = [i \in 0 .. n |-> IF i = 0 THEN x ELSE f[i - 1] \o InterfaceBytes(c, i)]
  <1>1. n \in Nat
    BY CardShapes
  <1>2. \E f : Def(f)
    <2> HIDE DEF x, n
    <2>1. PICK f : Joins(f, n, x, g)
      BY <1>1, Joining
    <2>2. \A i \in 0 .. n : (IF i = 0 THEN x ELSE f[i - 1] \o g[i])
                            = (IF i = 0 THEN x ELSE f[i - 1] \o InterfaceBytes(c, i))
      BY <1>1
    <2>3. Def(f)
      BY <2>1, <2>2 DEF Joins
    <2> QED BY <2>3
  <1>3. UpTo(c) = CHOOSE f : Def(f)
    BY DEF UpTo
  <1>4. Def(UpTo(c))
    BY <1>2, <1>3
  <1> HIDE DEF x, n
  <1>5. \A i \in 0 .. n : UpTo(c)[i] = IF i = 0 THEN x ELSE UpTo(c)[i - 1] \o InterfaceBytes(c, i)
    BY <1>1, <1>4
  <1>6. 0 \in 0 .. n /\ 1 .. n \subseteq 0 .. n /\ 0 \notin 1 .. n
    BY <1>1
  <1>7. UpTo(c)[0] = x
    BY <1>5, <1>6
  <1>8. \A i \in 1 .. n : UpTo(c)[i] = UpTo(c)[i - 1] \o InterfaceBytes(c, i)
    BY <1>5, <1>6
  <1> QED BY <1>7, <1>8 DEF x, n

LEMMA UpToTypes ==
  ASSUME NEW c, WellFormed(c)
  PROVE  \A i \in 0 .. Len(c.groups) : UpTo(c)[i] \in Seq(Byte) /\ Len(UpTo(c)[i]) >= 2
  <1> DEFINE n == Len(c.groups)
             S == {k \in Nat : k <= n => UpTo(c)[k] \in Seq(Byte) /\ Len(UpTo(c)[k]) >= 2}
  <1>1. n \in Nat
    BY CardShapes
  <1>2. 0 \in S
    <2> DEFINE a == AByte("S", 0)
               b == [name |-> <<"D", 0>>, y |-> Announced(c, 1), low |-> c.hist]
    <2>1. a \in Byte /\ b \in Byte
      BY ByteTypes DEF Letters
    <2>2. UpTo(c)[0] = <<a, b>>
      BY UpToSteps
    <2> HIDE DEF a, b
    <2>3. <<a, b>> \in Seq(Byte) /\ Len(<<a, b>>) >= 2
      BY <2>1
    <2> QED BY <2>2, <2>3
  <1>3. ASSUME NEW k \in Nat, k \in S
        PROVE  k + 1 \in S
    <2> SUFFICES ASSUME k + 1 <= n
                 PROVE  UpTo(c)[k + 1] \in Seq(Byte) /\ Len(UpTo(c)[k + 1]) >= 2
      OBVIOUS
    <2>1. k + 1 \in 1 .. Len(c.groups) /\ k <= n /\ (k + 1) - 1 = k
      BY <1>1
    <2>2. UpTo(c)[k + 1] = UpTo(c)[k] \o InterfaceBytes(c, k + 1)
      BY <2>1, UpToSteps
    <2>3. UpTo(c)[k] \in Seq(Byte) /\ Len(UpTo(c)[k]) >= 2
      BY <1>3, <2>1
    <2>4. InterfaceBytes(c, k + 1) \in Seq(Byte)
      BY <2>1, GroupBytes
    <2> DEFINE u == UpTo(c)[k]
               v == InterfaceBytes(c, k + 1)
    <2> HIDE DEF u, v
    <2>5. u \in Seq(Byte) /\ v \in Seq(Byte) /\ Len(u) >= 2
      BY <2>3, <2>4 DEF u, v
    <2>6. u \o v \in Seq(Byte) /\ Len(u \o v) >= 2
      BY <2>5, ConcatFacts
    <2> QED BY <2>2, <2>6 DEF u, v
  <1> HIDE DEF S
  <1>4. \A k \in Nat : k \in S
    BY <1>2, <1>3, AllNumbers
  <1> QED BY <1>1, <1>4 DEF S

\* The whole ATR begins with the bytes of its first i groups, for every i.
CheckLen(c) == IF HasTCK(c) THEN 1 ELSE 0

LEMMA EncodedParts ==
  ASSUME NEW c, WellFormed(c)
  PROVE  LET w == UpTo(c)[Len(c.groups)]
         IN  /\ Encoded(c) \in Seq(Byte) /\ Len(Encoded(c)) = Len(w) + c.hist + CheckLen(c)
             /\ \A k \in 1 .. Len(w) : Encoded(c)[k] = w[k]
  <1> DEFINE w == UpTo(c)[Len(c.groups)]
             h == [k \in 1 .. c.hist |-> AByte("H", k)]
             t == If(HasTCK(c), AByte("K", 0))
             v == w \o h
  <1>1. w \in Seq(Byte)
    <2>1. Len(c.groups) \in 0 .. Len(c.groups)
      BY CardShapes
    <2> QED BY <2>1, UpToTypes
  <1>2. h \in Seq(Byte) /\ Len(h) = c.hist
    <2>1. \A k \in 1 .. c.hist : AByte("H", k) \in Byte
      BY CardShapes, ByteTypes DEF Letters
    <2>2. c.hist \in Nat
      BY CardShapes
    <2> QED BY <2>1, <2>2
  <1>3. t \in Seq(Byte) /\ Len(t) = CheckLen(c)
    <2> DEFINE b == AByte("K", 0)
    <2>1. b \in Byte
      BY ByteTypes DEF Letters
    <2> HIDE DEF b
    <2>2. CASE HasTCK(c)
      <3>1. t = <<b>>
        BY <2>2 DEF If, b
      <3>2. <<b>> \in Seq(Byte) /\ Len(<<b>>) = 1
        BY <2>1
      <3> QED BY <2>2, <3>1, <3>2 DEF CheckLen
    <2>3. CASE ~HasTCK(c)
      <3>1. t = <<>>
        BY <2>3 DEF If
      <3>2. <<>> \in Seq(Byte) /\ Len(<<>>) = 0
        OBVIOUS
      <3>3. CheckLen(c) = 0
        BY <2>3 DEF CheckLen
      <3> HIDE DEF t
      <3> QED BY <3>1, <3>2, <3>3
    <2> QED BY <2>2, <2>3
  <1>4. Encoded(c) = v \o t
    BY DEF Encoded
  <1> HIDE DEF w, h, t
  <1>5. v \in Seq(Byte) /\ Len(v) = Len(w) + Len(h) /\ \A k \in 1 .. Len(w) : v[k] = w[k]
    BY <1>1, <1>2, ConcatFacts
  <1> HIDE DEF v
  <1> DEFINE e == v \o t
  <1>6. e \in Seq(Byte) /\ Len(e) = Len(v) + Len(t) /\ \A k \in 1 .. Len(v) : e[k] = v[k]
    BY <1>3, <1>5, ConcatFacts
  <1>7. Encoded(c) = e
    BY <1>4
  <1> HIDE DEF e
  <1>8. Len(w) \in Nat /\ Len(h) \in Nat /\ Len(t) \in Nat /\ Len(v) \in Nat
    BY <1>1, <1>2, <1>3, <1>5
  <1>9. \A k \in 1 .. Len(w) : e[k] = w[k]
    BY <1>5, <1>6, <1>8
  <1> QED BY <1>2, <1>3, <1>5, <1>6, <1>7, <1>8, <1>9 DEF w

\* Where the byte is that announces group i
Place(c, i) == Len(UpTo(c)[i - 1])

LEMMA OneGroup ==
  ASSUME NEW c, WellFormed(c), NEW i \in 1 .. Len(c.groups)
  PROVE  /\ Place(c, i) \in Nat /\ Place(c, i) >= 2
         /\ Len(UpTo(c)[i]) = Place(c, i) + Width(c, i)
         /\ \A k \in 1 .. Place(c, i) : UpTo(c)[i][k] = UpTo(c)[i - 1][k]
         /\ \A k \in 1 .. Width(c, i) : UpTo(c)[i][Place(c, i) + k] = InterfaceBytes(c, i)[k]
  <1> DEFINE u == UpTo(c)[i - 1]
             v == InterfaceBytes(c, i)
  <1>1. u \in Seq(Byte) /\ Len(u) >= 2
    <2>1. i - 1 \in 0 .. Len(c.groups)
      BY CardShapes
    <2> QED BY <2>1, UpToTypes
  <1>2. v \in Seq(Byte) /\ Len(v) = Width(c, i)
    BY GroupBytes
  <1>3. UpTo(c)[i] = u \o v
    BY UpToSteps
  <1>4. Place(c, i) = Len(u)
    BY DEF Place
  <1> HIDE DEF u, v
  <1> DEFINE s == u \o v
  <1>a. u \in Seq(Byte) /\ v \in Seq(Byte)
    BY <1>1, <1>2
  <1>5. /\ Len(s) = Len(u) + Len(v)
        /\ \A k \in 1 .. Len(u) : s[k] = u[k]
        /\ \A k \in 1 .. Len(v) : s[Len(u) + k] = v[k]
    BY <1>a, ConcatFacts
  <1>6. Len(u) \in Nat
    BY <1>1
  <1>7. UpTo(c)[i] = s
    BY <1>3
  <1> HIDE DEF s
  <1> QED BY <1>1, <1>2, <1>4, <1>5, <1>6, <1>7 DEF u, v

LEMMA Beginnings ==
  ASSUME NEW c, WellFormed(c)
  PROVE  \A i \in 0 .. Len(c.groups) :
           /\ Len(UpTo(c)[i]) <= Len(Encoded(c))
           /\ \A k \in 1 .. Len(UpTo(c)[i]) : Encoded(c)[k] = UpTo(c)[i][k]
  <1> DEFINE n == Len(c.groups)
             B(i) == /\ Len(UpTo(c)[i]) <= Len(Encoded(c))
                     /\ \A k \in 1 .. Len(UpTo(c)[i]) : Encoded(c)[k] = UpTo(c)[i][k]
             S == {k \in Nat : k <= n => B(n - k)}
  <1>1. n \in Nat
    BY CardShapes
  <1>2. 0 \in S
    <2>1. Len(UpTo(c)[n]) \in Nat /\ c.hist \in Nat /\ CheckLen(c) \in Nat
      BY <1>1, UpToTypes, CardShapes DEF CheckLen
    <2>2. B(n)
      BY <2>1, EncodedParts
    <2>3. n - 0 = n
      BY <1>1
    <2> HIDE DEF B
    <2> QED BY <2>2, <2>3
  <1>3. ASSUME NEW k \in Nat, k \in S
        PROVE  k + 1 \in S
    <2> SUFFICES ASSUME k + 1 <= n
                 PROVE  B(n - (k + 1))
      <3> HIDE DEF B
      <3> QED OBVIOUS
    <2> DEFINE i == n - k
    <2>1. i \in 1 .. Len(c.groups) /\ i - 1 = n - (k + 1)
      BY <1>1
    <2>2. B(i)
      <3> HIDE DEF B
      <3> QED BY <1>1, <1>3, <2>1
    <2> HIDE DEF i, n
    <2>3. /\ Place(c, i) \in Nat /\ Width(c, i) \in Nat
          /\ Len(UpTo(c)[i]) = Place(c, i) + Width(c, i)
          /\ \A j \in 1 .. Place(c, i) : UpTo(c)[i][j] = UpTo(c)[i - 1][j]
      BY <2>1, OneGroup, BitType
    <2>4. Len(Encoded(c)) \in Nat
      BY EncodedParts
    <2>5. Place(c, i) <= Len(Encoded(c)) /\ \A j \in 1 .. Place(c, i) : Encoded(c)[j] = UpTo(c)[i - 1][j]
      BY <2>2, <2>3, <2>4
    <2>6. B(i - 1)
      BY <2>5 DEF Place
    <2> HIDE DEF B
    <2> QED BY <2>1, <2>6
  <1> HIDE DEF S
  <1>4. \A k \in Nat : k \in S
    BY <1>2, <1>3, AllNumbers
  <1>5. ASSUME NEW i \in 0 .. n PROVE B(i)
    <2> HIDE DEF B
    <2>1. n - i \in Nat /\ n - i <= n /\ n - (n - i) = i
      BY <1>1, <1>5
    <2> QED BY <1>4, <2>1 DEF S
  <1> QED BY <1>5

LEMMA Places ==
  ASSUME NEW c, WellFormed(c)
  PROVE  /\ Len(Encoded(c)) \in Nat /\ Place(c, 1) = 2
         /\ Len(Encoded(c)) = Place(c, Len(c.groups)) + Width(c, Len(c.groups)) + c.hist + CheckLen(c)
         /\ \A i \in 1 .. Len(c.groups) :
              /\ Place(c, i) \in Nat /\ Place(c, i) >= 2 /\ (i # 1 => Place(c, i) # 2)
              /\ Place(c, i) + Width(c, i) <= Len(Encoded(c))
              /\ i < Len(c.groups) => Place(c, i + 1) = Place(c, i) + Width(c, i)
  <1> DEFINE n == Len(c.groups)
             P(i) == Place(c, i)
             W(i) == Width(c, i)
             E == Len(Encoded(c))
  <1>1. n \in Nat /\ n \in 1 .. n /\ n \in 0 .. n /\ 1 \in 1 .. n
    BY CardShapes
  <1>2. E \in Nat
    BY EncodedParts
  <1>3. ASSUME NEW i \in 1 .. n
        PROVE  /\ P(i) \in Nat /\ P(i) >= 2 /\ W(i) \in Nat
               /\ Len(UpTo(c)[i]) = P(i) + W(i) /\ P(i) + W(i) <= E
               /\ i < n => P(i + 1) = P(i) + W(i)
    <2>1. /\ P(i) \in Nat /\ P(i) >= 2 /\ W(i) \in Nat /\ Len(UpTo(c)[i]) = P(i) + W(i)
      BY <1>3, OneGroup, BitType
    <2>2. Len(UpTo(c)[i]) <= E
      <3>1. i \in 0 .. Len(c.groups)
        BY <1>1
      <3> QED BY <3>1, Beginnings
    <2>3. (i + 1) - 1 = i
      BY <1>1
    <2>4. P(i + 1) = Len(UpTo(c)[i])
      BY <2>3 DEF Place
    <2> QED BY <2>1, <2>2, <2>4
  <1>4. P(1) = 2
    <2> DEFINE a == AByte("S", 0)
               b == [name |-> <<"D", 0>>, y |-> Announced(c, 1), low |-> c.hist]
    <2>1. UpTo(c)[0] = <<a, b>>
      BY UpToSteps
    <2> HIDE DEF a, b
    <2>2. Len(UpTo(c)[0]) = 2 /\ 1 - 1 = 0
      BY <2>1
    <2> QED BY <2>2 DEF Place
  <1>5. E = P(n) + W(n) + c.hist + CheckLen(c)
    <2>1. E = Len(UpTo(c)[n]) + c.hist + CheckLen(c)
      BY EncodedParts
    <2> QED BY <1>1, <1>3, <2>1
  <1>6. ASSUME NEW i \in 1 .. n, i # 1
        PROVE  P(i) # 2
    <2>1. i - 1 \in 1 .. n /\ i - 1 < n /\ (i - 1) + 1 = i
      BY <1>1, <1>6
    <2>2. W(i - 1) >= 1
      <3>1. HasTD(c, i - 1)
        BY <2>1, CardShapes
      <3>2. HasD(c, i - 1) = 1
        BY <3>1 DEF HasD
      <3> QED BY <3>2, BitType DEF Width
    <2>3. P(i) = P(i - 1) + W(i - 1) /\ P(i - 1) >= 2
      BY <1>3, <2>1
    <2>4. P(i - 1) \in Nat /\ W(i - 1) \in Nat
      BY <1>3, <2>1
    <2> HIDE DEF P, W
    <2> QED BY <2>2, <2>3, <2>4
  <1> HIDE DEF P, W, E
  <1> QED BY <1>1, <1>2, <1>3, <1>4, <1>5, <1>6 DEF P, W, E

\* The byte that announces the bytes of a group
LEMMA Announcing ==
  ASSUME NEW c, WellFormed(c), NEW i \in 1 .. Len(c.groups)
  PROVE  LET b == Encoded(c)[Place(c, i)]
         IN  /\ b.y = Announced(c, i)
             /\ b.low = IF i = 1 THEN c.hist ELSE c.groups[i - 1].t
  <1> DEFINE e == Encoded(c)
  <1>1. i - 1 \in 0 .. Len(c.groups) /\ i \in Nat
    BY CardShapes
  <1>2. Place(c, i) \in 1 .. Len(UpTo(c)[i - 1])
    <2>1. Place(c, i) \in Nat /\ Place(c, i) >= 2
      BY Places
    <2>2. Place(c, i) = Len(UpTo(c)[i - 1])
      BY DEF Place
    <2> QED BY <2>1, <2>2
  <1>3. e[Place(c, i)] = UpTo(c)[i - 1][Place(c, i)]
    BY <1>1, <1>2, Beginnings
  <1>4. CASE i = 1
    <2> DEFINE a == AByte("S", 0)
               b == [name |-> <<"D", 0>>, y |-> Announced(c, 1), low |-> c.hist]
    <2>1. UpTo(c)[0] = <<a, b>>
      BY UpToSteps
    <2>2. Place(c, 1) = 2 /\ i - 1 = 0
      BY <1>4, Places
    <2>3. UpTo(c)[i - 1][Place(c, i)] = b
      <3> HIDE DEF a, b
      <3> QED BY <1>4, <2>1, <2>2
    <2>4. b.y = Announced(c, 1) /\ b.low = c.hist
      OBVIOUS
    <2> HIDE DEF b
    <2> QED BY <1>3, <1>4, <2>3, <2>4
  <1>5. CASE i # 1
    <2> DEFINE j == i - 1
    <2>1. j \in 1 .. Len(c.groups) /\ j < Len(c.groups) /\ j + 1 = i
      BY <1>5, CardShapes
    <2> HIDE DEF j
    <2>2. HasTD(c, j) /\ HasD(c, j) = 1
      BY <2>1, CardShapes DEF HasD
    <2>3. /\ Place(c, i) = Place(c, j) + Width(c, j)
          /\ Width(c, j) = HasA(c, j) + HasB(c, j) + HasC(c, j) + 1
      BY <2>1, <2>2, Places DEF Width
    <2>4. Width(c, j) \in 1 .. Width(c, j)
      BY <2>3, BitType
    <2>5. UpTo(c)[j][Place(c, j) + Width(c, j)] = InterfaceBytes(c, j)[Width(c, j)]
      BY <2>1, <2>4, OneGroup
    <2>6. InterfaceBytes(c, j)[Width(c, j)] = TD(c, j)
      BY <2>1, <2>2, <2>3, GroupBytes
    <2>7. TD(c, j).y = Announced(c, j + 1) /\ TD(c, j).low = c.groups[j].t
      BY DEF TD
    <2>8. e[Place(c, i)] = TD(c, j)
      BY <1>3, <2>3, <2>5, <2>6 DEF j
    <2> HIDE DEF e
    <2>9. e[Place(c, i)].y = Announced(c, i) /\ e[Place(c, i)].low = c.groups[j].t
      BY <2>1, <2>7, <2>8
    <2> QED BY <1>5, <2>9 DEF e, j
  <1> QED BY <1>4, <1>5

\* The other bytes of a group
LEMMA Announces ==
  ASSUME NEW c, WellFormed(c), NEW i \in 1 .. Len(c.groups)
  PROVE  /\ HasA(c, i) = 1 => Encoded(c)[Place(c, i) + 1].name = <<"A", i>>
         /\ HasB(c, i) = 1 => Encoded(c)[Place(c, i) + HasA(c, i) + 1].name = <<"B", i>>
         /\ HasC(c, i) = 1 => Encoded(c)[Place(c, i) + HasA(c, i) + HasB(c, i) + 1].name = <<"C", i>>
  <1>1. ASSUME NEW k \in 1 .. Width(c, i)
        PROVE  Encoded(c)[Place(c, i) + k] = InterfaceBytes(c, i)[k]
    <2>1. UpTo(c)[i][Place(c, i) + k] = InterfaceBytes(c, i)[k]
      BY OneGroup
    <2>2. i \in 0 .. Len(c.groups)
      BY CardShapes
    <2>3. Place(c, i) + k \in 1 .. Len(UpTo(c)[i])
      BY OneGroup, BitType
    <2>4. Encoded(c)[Place(c, i) + k] = UpTo(c)[i][Place(c, i) + k]
      BY <2>2, <2>3, Beginnings
    <2> QED BY <2>1, <2>4
  <1>2. \A l, k : AByte(l, k).name = <<l, k>>
    BY DEF AByte
  <1>3. ASSUME HasA(c, i) = 1
        PROVE  Encoded(c)[Place(c, i) + 1].name = <<"A", i>>
    <2>1. 1 \in 1 .. Width(c, i)
      BY <1>3, BitType DEF Width
    <2>2. Encoded(c)[Place(c, i) + 1] = AByte("A", i)
      BY <1>1, <1>3, <2>1, GroupBytes
    <2> QED BY <1>2, <2>2
  <1>4. ASSUME HasB(c, i) = 1
        PROVE  Encoded(c)[Place(c, i) + HasA(c, i) + 1].name = <<"B", i>>
    <2>1. HasA(c, i) + 1 \in 1 .. Width(c, i) /\ HasA(c, i) \in Nat /\ Place(c, i) \in Nat
      BY <1>4, BitType, Places DEF Width
    <2>2. Encoded(c)[Place(c, i) + (HasA(c, i) + 1)] = AByte("B", i)
      BY <1>1, <1>4, <2>1, GroupBytes
    <2>3. Place(c, i) + (HasA(c, i) + 1) = Place(c, i) + HasA(c, i) + 1
      BY <2>1
    <2> QED BY <1>2, <2>2, <2>3
  <1>5. ASSUME HasC(c, i) = 1
        PROVE  Encoded(c)[Place(c, i) + HasA(c, i) + HasB(c, i) + 1].name = <<"C", i>>
    <2>1. /\ HasA(c, i) + HasB(c, i) + 1 \in 1 .. Width(c, i)
          /\ HasA(c, i) \in Nat /\ HasB(c, i) \in Nat /\ Place(c, i) \in Nat
      BY <1>5, BitType, Places DEF Width
    <2>2. Encoded(c)[Place(c, i) + (HasA(c, i) + HasB(c, i) + 1)] = AByte("C", i)
      BY <1>1, <1>5, <2>1, GroupBytes
    <2>3. Place(c, i) + (HasA(c, i) + HasB(c, i) + 1) = Place(c, i) + HasA(c, i) + HasB(c, i) + 1
      BY <2>1
    <2> QED BY <1>2, <2>2, <2>3
  <1> QED BY <1>3, <1>4, <1>5

(***************************************************************************)
(* GetATR.  It is a function that goes on at a later place or ends, and so *)
(* it exists; it goes from one announcing byte of the card to the next.    *)
(***************************************************************************)
LEMMA CountLetters ==
  ASSUME NEW y \in SUBSET {"A", "B", "C", "D"}
  PROVE  Cardinality(y) = (IF "A" \in y THEN 1 ELSE 0) + (IF "B" \in y THEN 1 ELSE 0)
                            + (IF "C" \in y THEN 1 ELSE 0) + (IF "D" \in y THEN 1 ELSE 0)
  <1> DEFINE y1 == y \ {"A"}
             y2 == y1 \ {"B"}
             y3 == y2 \ {"C"}
             y4 == y3 \ {"D"}
  <1>1. IsFiniteSet(y)
    <2>1. IsFiniteSet({"A"})
      BY FS_Singleton
    <2>2. IsFiniteSet({"A"} \cup {"B"})
      BY <2>1, FS_AddElement
    <2>3. IsFiniteSet(({"A"} \cup {"B"}) \cup {"C"})
      BY <2>2, FS_AddElement
    <2>4. IsFiniteSet((({"A"} \cup {"B"}) \cup {"C"}) \cup {"D"})
      BY <2>3, FS_AddElement
    <2>5. y \in SUBSET ((({"A"} \cup {"B"}) \cup {"C"}) \cup {"D"})
      OBVIOUS
    <2> QED BY <2>4, <2>5, FS_Subset
  <1>2. IsFiniteSet(y1) /\ Cardinality(y1) = IF "A" \in y THEN Cardinality(y) - 1 ELSE Cardinality(y)
    BY <1>1, FS_RemoveElement
  <1>3. IsFiniteSet(y2) /\ Cardinality(y2) = IF "B" \in y1 THEN Cardinality(y1) - 1 ELSE Cardinality(y1)
    BY <1>2, FS_RemoveElement
  <1>4. IsFiniteSet(y3) /\ Cardinality(y3) = IF "C" \in y2 THEN Cardinality(y2) - 1 ELSE Cardinality(y2)
    BY <1>3, FS_RemoveElement
  <1>5. IsFiniteSet(y4) /\ Cardinality(y4) = IF "D" \in y3 THEN Cardinality(y3) - 1 ELSE Cardinality(y3)
    BY <1>4, FS_RemoveElement
  <1>6. y4 = {}
    OBVIOUS
  <1>7. Cardinality(y4) = 0
    BY <1>6, FS_EmptySet
  <1>8. ("B" \in y1 <=> "B" \in y) /\ ("C" \in y2 <=> "C" \in y) /\ ("D" \in y3 <=> "D" \in y)
    OBVIOUS
  <1>9. /\ Cardinality(y) \in Nat /\ Cardinality(y1) \in Nat
        /\ Cardinality(y2) \in Nat /\ Cardinality(y3) \in Nat
    BY <1>1, <1>2, <1>3, <1>4, FS_CardinalityType
  <1> HIDE DEF y1, y2, y3, y4
  <1> QED BY <1>2, <1>3, <1>4, <1>5, <1>7, <1>8, <1>9

Jumps(f, n, B, K, E) == f = [at \in 2 .. n |-> IF at \in B THEN f[at + K[at]] ELSE E[at]]

LEMMA Jumping ==
  ASSUME NEW n \in Nat, NEW B, NEW K, NEW E,
         \A at \in 2 .. n : at \in B => K[at] \in Nat /\ K[at] > 0 /\ at + K[at] <= n
  PROVE  \E f : Jumps(f, n, B, K, E)
  <1> DEFINE Dom(d) == {at \in 2 .. n : at > n - d}
             D(d, f) == f = [at \in Dom(d) |-> IF at \in B THEN f[at + K[at]] ELSE E[at]]
             S == {d \in Nat : \E f : D(d, f)}
  <1>1. 0 \in S
    <2>1. Dom(0) = {}
      OBVIOUS
    <2>2. D(0, [at \in {} |-> 0])
      BY <2>1
    <2> QED BY <2>2
  <1>2. ASSUME NEW d \in Nat, d \in S
        PROVE  d + 1 \in S
    <2>1. PICK f : D(d, f)
      BY <1>2
    <2> DEFINE m == n - d
               e == IF m \in B THEN f[m + K[m]] ELSE E[m]
               h == [at \in Dom(d + 1) |-> IF at = m THEN e ELSE f[at]]
    <2>2. /\ \A at \in Dom(d) : at \in Dom(d + 1) /\ at # m
          /\ \A at \in Dom(d + 1) : at # m => at \in Dom(d)
          /\ \A at \in Dom(d + 1) : at \in B => at + K[at] \in Dom(d)
      OBVIOUS
    <2>3. \A at \in Dom(d) : f[at] = IF at \in B THEN f[at + K[at]] ELSE E[at]
      <3> HIDE DEF Dom
      <3> QED BY <2>1
    <2>4. \A at \in Dom(d) : h[at] = f[at]
      <3> HIDE DEF Dom, m
      <3> QED BY <2>2
    <2>5. ASSUME NEW at \in Dom(d + 1)
          PROVE  h[at] = IF at \in B THEN h[at + K[at]] ELSE E[at]
      <3>1. at \in B => h[at + K[at]] = f[at + K[at]]
        <4> HIDE DEF h, Dom
        <4> QED BY <2>2, <2>4, <2>5
      <3>2. CASE at = m
        <4>1. h[at] = e
          <5> HIDE DEF Dom, m, e
          <5> QED BY <2>5, <3>2
        <4> HIDE DEF h, Dom, m
        <4> QED BY <3>1, <3>2, <4>1
      <3>3. CASE at # m
        <4>1. at \in Dom(d)
          <5> HIDE DEF Dom, m
          <5> QED BY <2>2, <2>5, <3>3
        <4> HIDE DEF h, Dom, m
        <4> QED BY <2>3, <2>4, <3>1, <4>1
      <3> QED BY <3>2, <3>3
    <2>6. h = [at \in Dom(d + 1) |-> h[at]]
      <3> HIDE DEF Dom, e, m
      <3> QED OBVIOUS
    <2>7. D(d + 1, h)
      <3> HIDE DEF Dom, h
      <3> QED BY <2>5, <2>6
    <2>8. d + 1 \in Nat
      OBVIOUS
    <2> HIDE DEF D, h
    <2> QED BY <2>7, <2>8
  <1> HIDE DEF S
  <1>3. n \in S
    BY <1>1, <1>2, AllNumbers
  <1>4. Dom(n) = 2 .. n
    OBVIOUS
  <1> HIDE DEF Dom
  <1> QED BY <1>3, <1>4 DEF S, Jumps

LEMMA GroupsFromSteps ==
  ASSUME NEW line \in Seq(Byte)
  PROVE  \A at \in 2 .. Len(line) :
           LET k == Cardinality(line[at].y)
               prot == IF at = 2 THEN 0 ELSE line[at].low
           IN  GroupsFrom(line)[at] =
                 IF k > 0 /\ Piece(line, at, k) # "OK" THEN Got(Piece(line, at, k), <<>>)
                 ELSE IF "D" \in line[at].y THEN GroupsFrom(line)[at + k] ELSE Ending(line, at + k, prot)
  <1> DEFINE n == Len(line)
             k(at) == Cardinality(line[at].y)
             bad(at) == k(at) > 0 /\ Piece(line, at, k(at)) # "OK"
             last(at) == Ending(line, at + k(at), IF at = 2 THEN 0 ELSE line[at].low)
             K == [at \in 2 .. n |-> k(at)]
             B == {at \in 2 .. n : ~bad(at) /\ "D" \in line[at].y}
             E == [at \in 2 .. n |-> IF bad(at) THEN Got(Piece(line, at, k(at)), <<>>) ELSE last(at)]
             V(f, at) == IF bad(at) THEN Got(Piece(line, at, k(at)), <<>>)
                         ELSE IF "D" \in line[at].y THEN f[at + k(at)] ELSE last(at)
             Def(f) == f = [at \in 2 .. n |-> V(f, at)]
  <1>1. n \in Nat
    OBVIOUS
  <1>2. ASSUME NEW at \in 2 .. n, at \in B
        PROVE  K[at] \in Nat /\ K[at] > 0 /\ at + K[at] <= n
    <2>1. line[at].y \in SUBSET {"A", "B", "C", "D"}
      <3>1. line[at] \in Byte
        <4> HIDE DEF Byte
        <4> QED BY <1>2
      <3> QED BY <3>1 DEF Byte
    <2>2. k(at) \in Nat /\ k(at) > 0
      <3> DEFINE y == line[at].y
      <3>1. y \in SUBSET {"A", "B", "C", "D"} /\ "D" \in y
        BY <1>2, <2>1
      <3> HIDE DEF y
      <3>2. Cardinality(y) \in Nat /\ Cardinality(y) > 0
        BY <3>1, CountLetters
      <3> QED BY <3>2 DEF y
    <2>3. K[at] = k(at) /\ Piece(line, at, k(at)) = "OK"
      BY <1>2, <2>2
    <2> HIDE DEF k
    <2>4. at + k(at) <= n
      BY <1>1, <1>2, <2>2, <2>3, AtrAssumption DEF Piece
    <2> HIDE DEF K
    <2> QED BY <2>2, <2>3, <2>4
  <1>3. \E f : Def(f)
    <2>1. PICK f : Jumps(f, n, B, K, E)
      <3> HIDE DEF n, B, K, E
      <3> QED BY <1>1, <1>2, Jumping
    <2>2. ASSUME NEW at \in 2 .. n
          PROVE  (IF at \in B THEN f[at + K[at]] ELSE E[at]) = V(f, at)
      <3> HIDE DEF k, bad, last
      <3> QED BY <2>2
    <2>3. Def(f)
      <3> HIDE DEF V, B, K, E, n
      <3> QED BY <2>1, <2>2 DEF Jumps
    <2> HIDE DEF Def
    <2> QED BY <2>3
  <1>4. GroupsFrom(line) = CHOOSE f : Def(f)
    BY DEF GroupsFrom
  <1>5. Def(GroupsFrom(line))
    <2> HIDE DEF Def
    <2> QED BY <1>3, <1>4
  <1>6. \A at \in 2 .. n : GroupsFrom(line)[at] = V(GroupsFrom(line), at)
    <2> HIDE DEF V, n
    <2> QED BY <1>5
  <1> QED BY <1>6

\* What GetATR may return while a card sends its ATR
Right(c, r) ==
  /\ r.ret \in {"OK", "IO_ERROR", "PROTOCOL_ERROR"}
  /\ r.ret = "OK" => r.atr = Encoded(c)
  /\ r.ret = "PROTOCOL_ERROR" => Len(Encoded(c)) > MaxAtr

LEMMA PieceRight ==
  ASSUME NEW c, WellFormed(c), NEW line \in Seq(Byte), NEW at \in Nat, NEW k \in Nat,
         at + k <= Len(Encoded(c))
  PROVE  /\ Piece(line, at, k) # "OK" => Right(c, Got(Piece(line, at, k), <<>>))
         /\ Piece(line, at, k) = "OK" => at + k <= Len(line)
  <1>1. Len(line) \in Nat /\ Len(Encoded(c)) \in Nat
    BY EncodedParts
  <1>2. CASE at + k > MaxAtr
    <2>1. Piece(line, at, k) = "PROTOCOL_ERROR"
      BY <1>2 DEF Piece
    <2>2. Len(Encoded(c)) > MaxAtr
      BY <1>1, <1>2, AtrAssumption
    <2> QED BY <2>1, <2>2 DEF Right, Got
  <1>3. CASE ~(at + k > MaxAtr) /\ at + k > Len(line)
    <2>1. Piece(line, at, k) = "IO_ERROR"
      BY <1>3 DEF Piece
    <2> QED BY <2>1 DEF Right, Got
  <1>4. CASE ~(at + k > MaxAtr) /\ ~(at + k > Len(line))
    <2>1. Piece(line, at, k) = "OK"
      BY <1>4 DEF Piece
    <2> QED BY <1>1, <1>4, <2>1
  <1> QED BY <1>2, <1>3, <1>4

\* Ascending protocols: the last one named tells whether there is a check byte.
LEMMA CheckByte ==
  ASSUME NEW c, WellFormed(c)
  PROVE  LET n == Len(c.groups)
             prot == IF n = 1 THEN 0 ELSE c.groups[n - 1].t
         IN  CheckLen(c) = IF prot = 0 THEN 0 ELSE 1
  <1> DEFINE n == Len(c.groups)
  <1>1. n \in Nat /\ n >= 1
    BY CardShapes
  <1>2. \A i \in 1 .. n : c.groups[i].t \in -1 .. 15 /\ (HasTD(c, i) <=> i < n)
    BY CardShapes
  <1>3. ~(c.groups[n].t > 0)
    BY <1>1, <1>2 DEF HasTD
  <1>4. CASE n = 1
    <2>1. ~HasTCK(c)
      BY <1>3, <1>4 DEF HasTCK
    <2> QED BY <1>4, <2>1 DEF CheckLen
  <1>5. CASE n # 1
    <2>1. /\ n - 1 \in 1 .. n /\ HasTD(c, n - 1)
          /\ c.groups[n - 1].t >= 0 /\ c.groups[n - 1].t \in -1 .. 15
      <3>1. n - 1 \in 1 .. n /\ n - 1 < n
        <4> HIDE DEF n
        <4> QED BY <1>1, <1>5
      <3>2. HasTD(c, n - 1) /\ c.groups[n - 1].t \in -1 .. 15
        BY <1>2, <3>1
      <3> QED BY <3>1, <3>2 DEF HasTD
    <2>2. \A i \in 1 .. n : i < n - 1 => c.groups[i].t <= c.groups[n - 1].t
      <3>1. DOMAIN c.groups = 1 .. n
        BY DEF WellFormed
      <3> QED BY <2>1, <3>1 DEF WellFormed
    <2>3. HasTCK(c) <=> c.groups[n - 1].t > 0
      <3>1. ASSUME HasTCK(c) PROVE c.groups[n - 1].t > 0
        <4>1. PICK i \in 1 .. n : c.groups[i].t > 0
          BY <3>1 DEF HasTCK
        <4>2. i < n - 1 \/ i = n - 1
          BY <1>1, <1>3, <4>1
        <4>3. c.groups[i].t <= c.groups[n - 1].t
          BY <1>2, <2>1, <2>2, <4>2
        <4>4. c.groups[i].t \in Int
          BY <1>2
        <4> HIDE DEF n
        <4> QED BY <2>1, <4>1, <4>3, <4>4
      <3>2. ASSUME c.groups[n - 1].t > 0 PROVE HasTCK(c)
        BY <2>1, <3>2 DEF HasTCK
      <3> QED BY <3>1, <3>2
    <2>4. c.groups[n - 1].t = 0 <=> ~(c.groups[n - 1].t > 0)
      BY <2>1
    <2>5. CASE HasTCK(c)
      BY <1>5, <2>3, <2>4, <2>5 DEF CheckLen
    <2>6. CASE ~HasTCK(c)
      BY <1>5, <2>3, <2>4, <2>6 DEF CheckLen
    <2> QED BY <2>5, <2>6
  <1> QED BY <1>4, <1>5

LEMMA EndingRight ==
  ASSUME NEW c, WellFormed(c), NEW line \in Seq(Byte), Len(line) <= Len(Encoded(c)),
         \A k \in 1 .. Len(line) : line[k] = Encoded(c)[k],
         Len(line) >= 2, NEW at \in Nat, NEW prot,
         CheckLen(c) = IF prot = 0 THEN 0 ELSE 1,
         at + c.hist + CheckLen(c) = Len(Encoded(c))
  PROVE  Right(c, Ending(line, at, prot))
  <1> DEFINE k == line[2].low
             tck == IF prot = 0 THEN 0 ELSE 1
             E == Len(Encoded(c))
  <1>1. k = c.hist /\ c.hist \in Nat /\ E \in Nat /\ Len(line) \in Nat
    <2>1. line[2] = Encoded(c)[2]
      BY EncodedParts
    <2>2. Encoded(c)[2].low = c.hist
      <3>1. 1 \in 1 .. Len(c.groups) /\ Place(c, 1) = 2
        BY CardShapes, Places
      <3> QED BY <3>1, Announcing
    <2> QED BY <2>1, <2>2, CardShapes, EncodedParts
  <1>2. tck = CheckLen(c) /\ tck \in Nat
    BY DEF CheckLen
  <1> HIDE DEF k, tck, E
  <1>3. CASE Piece(line, at, k) # "OK"
    <2>1. at + k <= E
      BY <1>1, <1>2 DEF E
    <2>2. Right(c, Got(Piece(line, at, k), <<>>))
      BY <1>1, <1>3, <2>1, PieceRight DEF E
    <2>3. Ending(line, at, prot) = Got(Piece(line, at, k), <<>>)
      BY <1>3 DEF Ending, k
    <2> QED BY <2>2, <2>3
  <1>4. CASE Piece(line, at, k) = "OK" /\ Piece(line, at + k, tck) # "OK"
    <2>1. at + k + tck <= E /\ at + k \in Nat
      BY <1>1, <1>2 DEF E
    <2>2. Right(c, Got(Piece(line, at + k, tck), <<>>))
      BY <1>2, <1>4, <2>1, PieceRight DEF E
    <2>3. Ending(line, at, prot) = Got(Piece(line, at + k, tck), <<>>)
      BY <1>4 DEF Ending, k, tck
    <2> QED BY <2>2, <2>3
  <1>5. CASE Piece(line, at, k) = "OK" /\ Piece(line, at + k, tck) = "OK"
    <2>1. at + k + tck = E /\ at + k \in Nat
      BY <1>1, <1>2 DEF E
    <2>2. E <= Len(line)
      BY <1>2, <1>5, <2>1, PieceRight DEF E
    <2>3. Len(line) = E
      BY <1>1, <2>2 DEF E
    <2>4. SubSeq(line, 1, E) = Encoded(c)
      <3> DEFINE e == Encoded(c)
      <3>1. e \in Seq(Byte) /\ Len(e) = E
        BY EncodedParts DEF E
      <3> HIDE DEF e
      <3>2. \A j \in 1 .. Len(line) : line[j] = e[j]
        BY DEF e
      <3>3. line = e
        <4> HIDE DEF Byte
        <4> QED BY <2>3, <3>1, <3>2
      <3>4. SubSeq(line, 1, E) = line
        <4> HIDE DEF Byte
        <4> QED BY <1>1, <2>3
      <3> QED BY <3>3, <3>4 DEF e
    <2>5. Ending(line, at, prot) = Got("OK", SubSeq(line, 1, E))
      BY <1>5, <2>1 DEF Ending, k, tck
    <2> QED BY <2>4, <2>5 DEF Right, Got
  <1> QED BY <1>3, <1>4, <1>5

LEMMA GroupsRight ==
  ASSUME NEW c, WellFormed(c), NEW line \in Seq(Byte), Len(line) <= Len(Encoded(c)),
         \A k \in 1 .. Len(line) : line[k] = Encoded(c)[k],
         NEW i \in 1 .. Len(c.groups), Place(c, i) <= Len(line),
         i < Len(c.groups) /\ Place(c, i + 1) <= Len(line) => Right(c, GroupsFrom(line)[Place(c, i + 1)])
  PROVE  Right(c, GroupsFrom(line)[Place(c, i)])
  <1> DEFINE at == Place(c, i)
             k == Cardinality(line[at].y)
             prot == IF at = 2 THEN 0 ELSE line[at].low
             n == Len(c.groups)
             E == Len(Encoded(c))
  <1>1. /\ at \in Nat /\ at >= 2 /\ at \in 2 .. Len(line) /\ Len(line) \in Nat /\ E \in Nat
        /\ at + Width(c, i) <= E /\ n \in Nat /\ (at = 2 <=> i = 1)
    BY Places, CardShapes
  <1>2. /\ line[at].y = Announced(c, i)
        /\ line[at].low = IF i = 1 THEN c.hist ELSE c.groups[i - 1].t
    <2>1. at \in 1 .. Len(line)
      BY <1>1
    <2>2. line[at] = Encoded(c)[at]
      BY <2>1
    <2> HIDE DEF at
    <2> QED BY <2>2, Announcing DEF at
  <1> HIDE DEF at
  <1>3. k = Width(c, i) /\ ("D" \in line[at].y <=> i < n)
    <2> DEFINE y == Announced(c, i)
    <2>1. /\ y \in SUBSET {"A", "B", "C", "D"} /\ ("D" \in y <=> i < n)
          /\ ("A" \in y <=> "A" \in c.groups[i].y) /\ ("B" \in y <=> "B" \in c.groups[i].y)
          /\ ("C" \in y <=> "C" \in c.groups[i].y) /\ (HasTD(c, i) <=> i < n)
      BY CardShapes
    <2> HIDE DEF y, n
    <2>2. Cardinality(y) = HasA(c, i) + HasB(c, i) + HasC(c, i) + HasD(c, i)
      BY <2>1, CountLetters DEF HasA, HasB, HasC, HasD
    <2> QED BY <1>2, <2>1, <2>2 DEF Width, y
  <1>4. k \in Nat
    BY <1>3, BitType
  <1>5. GroupsFrom(line)[at] =
          IF k > 0 /\ Piece(line, at, k) # "OK" THEN Got(Piece(line, at, k), <<>>)
          ELSE IF "D" \in line[at].y THEN GroupsFrom(line)[at + k] ELSE Ending(line, at + k, prot)
    BY <1>1, GroupsFromSteps
  <1> HIDE DEF k, prot
  <1>6. CASE k > 0 /\ Piece(line, at, k) # "OK"
    <2>1. Right(c, Got(Piece(line, at, k), <<>>))
      BY <1>1, <1>3, <1>4, <1>6, PieceRight
    <2> QED BY <1>5, <1>6, <2>1 DEF at
  <1>7. CASE ~(k > 0 /\ Piece(line, at, k) # "OK") /\ i < n
    <2>1. k > 0 /\ Piece(line, at, k) = "OK"
      <3>1. HasD(c, i) = 1
        BY <1>7, CardShapes DEF HasD
      <3>2. k > 0
        BY <1>3, <3>1, BitType DEF Width
      <3> QED BY <1>7, <3>2
    <2>2. at + k <= Len(line)
      BY <1>1, <1>3, <1>4, <2>1, PieceRight
    <2>3. Place(c, i + 1) = at + k
      BY <1>3, <1>7, Places DEF at
    <2> QED BY <1>3, <1>5, <1>7, <2>2, <2>3 DEF at
  <1>8. CASE ~(k > 0 /\ Piece(line, at, k) # "OK") /\ ~(i < n)
    <2>1. i = n
      BY <1>1, <1>8
    <2>2. at + k \in Nat /\ (at + k) + c.hist + CheckLen(c) = E
      BY <1>1, <1>3, <1>4, <2>1, Places DEF at
    <2>3. CheckLen(c) = IF prot = 0 THEN 0 ELSE 1
      <3>1. prot = IF n = 1 THEN 0 ELSE c.groups[n - 1].t
        BY <1>1, <1>2, <2>1 DEF prot
      <3> QED BY <3>1, CheckByte
    <2>4. Right(c, Ending(line, at + k, prot))
      BY <1>1, <2>2, <2>3, EndingRight
    <2>5. GroupsFrom(line)[at] = Ending(line, at + k, prot)
      BY <1>3, <1>5, <1>8
    <2> QED BY <2>4, <2>5 DEF at
  <1> QED BY <1>6, <1>7, <1>8

\* However much of the ATR arrives, GetATR takes all of it, or tells why not.
LEMMA GetATRRight ==
  ASSUME NEW c, WellFormed(c), NEW m \in 1 .. Len(Encoded(c))
  PROVE  Right(c, GetATR(SubSeq(Encoded(c), 1, m)))
  <1> DEFINE e == Encoded(c)
             line == SubSeq(e, 1, m)
             n == Len(c.groups)
             G(i) == Right(c, GroupsFrom(line)[Place(c, i)])
             S == {d \in Nat : d < n /\ Place(c, n - d) <= Len(line) => G(n - d)}
  <1>1. line \in Seq(Byte) /\ Len(line) = m /\ \A k \in 1 .. m : line[k] = e[k]
    <2>1. e \in Seq(Byte)
      BY EncodedParts
    <2> HIDE DEF e, Byte
    <2> QED BY <2>1 DEF e
  <1>2. m \in Nat /\ Len(e) \in Nat /\ m <= Len(e) /\ n \in Nat /\ n >= 1
    BY EncodedParts, CardShapes
  <1> HIDE DEF line
  <1>3. ASSUME NEW i \in 1 .. n, Place(c, i) <= Len(line),
               i < n /\ Place(c, i + 1) <= Len(line) => G(i + 1)
        PROVE  G(i)
    BY <1>1, <1>2, <1>3, GroupsRight
  <1>4. 0 \in S
    <2>1. n \in 1 .. n /\ n - 0 = n
      BY <1>2
    <2> HIDE DEF G, n
    <2>2. Place(c, n) <= Len(line) => G(n)
      BY <1>2, <1>3, <2>1
    <2> QED BY <2>1, <2>2
  <1>5. ASSUME NEW d \in Nat, d \in S
        PROVE  d + 1 \in S
    <2> HIDE DEF G, n
    <2> SUFFICES ASSUME d + 1 < n, Place(c, n - (d + 1)) <= Len(line)
                 PROVE  G(n - (d + 1))
      OBVIOUS
    <2> DEFINE i == n - (d + 1)
    <2>1. i \in 1 .. n /\ i + 1 = n - d /\ d < n
      BY <1>2
    <2>2. Place(c, i + 1) <= Len(line) => G(i + 1)
      BY <1>5, <2>1
    <2> HIDE DEF i
    <2>3. Place(c, i) <= Len(line)
      BY DEF i
    <2>4. G(i)
      BY <1>3, <2>1, <2>2, <2>3
    <2> QED BY <2>4 DEF i
  <1> HIDE DEF S
  <1>6. \A d \in Nat : d \in S
    BY <1>4, <1>5, AllNumbers
  <1>7. CASE Len(line) < 2
    BY <1>7 DEF GetATR, Right, Got, line
  <1>8. CASE ~(Len(line) < 2)
    <2>1. n - 1 \in Nat /\ n - 1 < n /\ n - (n - 1) = 1
      BY <1>2
    <2>2. Place(c, 1) = 2
      BY Places
    <2>3. G(1)
      <3> HIDE DEF G
      <3>1. Place(c, 1) <= Len(line) => G(1)
        <4> HIDE DEF n
        <4> QED BY <1>6, <2>1 DEF S
      <3>2. 2 <= Len(line)
        BY <1>1, <1>2, <1>8
      <3> QED BY <2>2, <3>1, <3>2
    <2> QED BY <1>8, <2>2, <2>3 DEF GetATR, line
  <1> QED BY <1>7, <1>8

(***************************************************************************)
(* scSmartcardProcessATR.  Up to the third group its indexes are the       *)
(* places of the card's bytes, so it takes what is there; and it misses a  *)
(* byte only where nothing follows the interface bytes.                    *)
(***************************************************************************)
\* What it may make of the ATR of a card
Understood(c, r) ==
  /\ r.ret = "OK" =>
       LET m == Meaning(c)
       IN  /\ r.params.protocol = m.protocol
           /\ m.protocol = 0 => r.params.wi = m.wi
           /\ m.protocol = 1 /\ ~(Len(c.groups) >= 3 /\ c.groups[2].t # 1) =>
                r.params.ifsc = m.ifsc /\ r.params.times = m.times /\ r.params.rc = m.rc
  /\ r.ret = "BAD_ATR" => \/ c.hist = 0 /\ ~HasTCK(c)
                          \/ FirstProtocol(c) = 1 /\ Len(c.groups) > 3

\* The bytes of group i, from the index of the byte that announces it
LEMMA GroupRead ==
  ASSUME NEW c, WellFormed(c), NEW i \in 1 .. Len(c.groups), NEW p, p + 1 = Place(c, i), p \in Nat
  PROVE  LET e == Encoded(c)
             A == IF "A" \in e[p + 1].y THEN 1 ELSE 0
             B == IF "B" \in e[p + 1].y THEN 1 ELSE 0
             C == IF "C" \in e[p + 1].y THEN 1 ELSE 0
         IN  /\ A = HasA(c, i) /\ B = HasB(c, i) /\ C = HasC(c, i)
             /\ "D" \in e[p + 1].y <=> i < Len(c.groups)
             /\ "A" \in e[p + 1].y <=> "A" \in c.groups[i].y
             /\ "B" \in e[p + 1].y <=> "B" \in c.groups[i].y
             /\ "C" \in e[p + 1].y <=> "C" \in c.groups[i].y
             /\ "A" \in e[p + 1].y => e[p + 1 + 1].name = <<"A", i>>
             /\ "B" \in e[p + 1].y => e[p + 1 + HasA(c, i) + 1].name = <<"B", i>>
             /\ "C" \in e[p + 1].y => e[p + 1 + HasA(c, i) + HasB(c, i) + 1].name = <<"C", i>>
  <1> DEFINE e == Encoded(c)
  <1>1. e[p + 1].y = Announced(c, i)
    BY Announcing
  <1>2. /\ "D" \in e[p + 1].y <=> i < Len(c.groups)
        /\ "A" \in e[p + 1].y <=> "A" \in c.groups[i].y
        /\ "B" \in e[p + 1].y <=> "B" \in c.groups[i].y
        /\ "C" \in e[p + 1].y <=> "C" \in c.groups[i].y
    BY <1>1, CardShapes
  <1>3. /\ (IF "A" \in e[p + 1].y THEN 1 ELSE 0) = HasA(c, i)
        /\ (IF "B" \in e[p + 1].y THEN 1 ELSE 0) = HasB(c, i)
        /\ (IF "C" \in e[p + 1].y THEN 1 ELSE 0) = HasC(c, i)
    BY <1>2 DEF HasA, HasB, HasC
  <1>4. /\ "A" \in e[p + 1].y => HasA(c, i) = 1
        /\ "B" \in e[p + 1].y => HasB(c, i) = 1
        /\ "C" \in e[p + 1].y => HasC(c, i) = 1
    BY <1>2 DEF HasA, HasB, HasC
  <1>5. /\ HasA(c, i) = 1 => e[p + 1 + 1].name = <<"A", i>>
        /\ HasB(c, i) = 1 => e[p + 1 + HasA(c, i) + 1].name = <<"B", i>>
        /\ HasC(c, i) = 1 => e[p + 1 + HasA(c, i) + HasB(c, i) + 1].name = <<"C", i>>
    BY Announces
  <1> HIDE DEF e
  <1> QED BY <1>2, <1>3, <1>4, <1>5 DEF e

LEMMA NothingBehind ==
  ASSUME NEW l \in Nat, NEW p \in Nat, NEW i \in Nat, NEW j \in Nat, NEW k \in Nat,
         NEW d \in Nat, NEW h \in Nat, NEW t \in Nat, NEW w,
         w = i + j + k + d, l = p + w + h + t, p + i + j + k >= l
  PROVE  h = 0 /\ t = 0
  OBVIOUS

LEMMA ProcessRight ==
  ASSUME NEW c, WellFormed(c), NEW r \in ProcessATR(Encoded(c), Defaults)
  PROVE  Understood(c, r)
  <1> DEFINE a == Encoded(c)
             before == Defaults
             y(i) == a[i + 1].y
             Has(i, letter) == IF letter \in y(i) THEN 1 ELSE 0
             Taken(i, letter, p, old) == IF letter \in y(i) THEN a[p + 1].name ELSE old
             Ends(p) == p >= Len(a)
             Bad(q) == {[ret |-> "BAD_ATR", params |-> q]}
             Ok(q) == {[ret |-> "OK", params |-> q]}
             p1 == 2 + Has(1, "A") + Has(1, "B") + Has(1, "C")
             q1 == [before EXCEPT !.protocol = a[p1 + 1].low]
             p2 == p1 + 1 + Has(p1, "A") + Has(p1, "B")
             q2 == [q1 EXCEPT !.wi = Taken(p1, "C", p2, q1.wi)]
             td2 == p2 + Has(p1, "C")
             pa == td2 + 1
             qa == [q2 EXCEPT !.ifsc = Taken(td2, "A", pa, q2.ifsc)]
             pb == pa + Has(td2, "A")
             qb == [qa EXCEPT !.times = Taken(td2, "B", pb, qa.times)]
             pC == pb + Has(td2, "B")
             qc == [qb EXCEPT !.rc = Taken(td2, "C", pC, qb.rc)]
             last == pC + Has(td2, "C") + a[2].low
             n == Len(c.groups)
  <1>1. r \in IF Ends(p1) THEN Bad(before)
              ELSE IF "D" \notin y(1) THEN Ok(before)
              ELSE IF Ends(p2) THEN Bad(q1)
              ELSE IF Ends(td2) THEN Bad(q2)
              ELSE IF "D" \notin y(p1) THEN Ok(q2)
              ELSE IF Ends(pa) THEN Bad(q2)
              ELSE IF Ends(pb) THEN Bad(qa)
              ELSE IF Ends(pC) THEN Bad(qb)
              ELSE IF qc.protocol # 1 \/ last = Len(a) - 1 THEN Ok(qc)
              ELSE Ok(qc) \cup Bad(qc)
    BY DEF ProcessATR
  <1>2. /\ n \in Nat /\ n >= 1 /\ c.hist \in Nat /\ CheckLen(c) \in {0, 1} /\ Len(a) \in Nat
        /\ Len(a) = Place(c, n) + Width(c, n) + c.hist + CheckLen(c)
        /\ Place(c, 1) = 2
    BY CardShapes, Places DEF CheckLen
  <1>3. /\ p1 = 2 + HasA(c, 1) + HasB(c, 1) + HasC(c, 1) /\ p1 \in Nat
        /\ "D" \in y(1) <=> 1 < n
        /\ a[2].low = c.hist
    <2>1. 1 \in 1 .. Len(c.groups) /\ 1 + 1 = Place(c, 1) /\ 1 \in Nat
      BY <1>2
    <2>2. /\ Has(1, "A") = HasA(c, 1) /\ Has(1, "B") = HasB(c, 1) /\ Has(1, "C") = HasC(c, 1)
          /\ "D" \in y(1) <=> 1 < n
      <3> DEFINE one == 1
      <3>1. one \in 1 .. Len(c.groups) /\ one + 1 = Place(c, one) /\ one \in Nat
        BY <2>1
      <3> HIDE DEF one
      <3>2. /\ Has(one, "A") = HasA(c, one) /\ Has(one, "B") = HasB(c, one) /\ Has(one, "C") = HasC(c, one)
            /\ "D" \in y(one) <=> one < n
        BY <3>1, GroupRead
      <3> HIDE DEF Has, y
      <3> QED BY <3>2 DEF one
    <2>3. a[2].low = c.hist
      BY <1>2, <2>1, Announcing
    <2> HIDE DEF Has
    <2> QED BY <2>2, <2>3, BitType
  <1> HIDE DEF p1
  <1>4. ASSUME n >= 2
        PROVE  /\ p1 + 1 = Place(c, 2) /\ a[p1 + 1].low = c.groups[1].t
               /\ p2 = Place(c, 2) + HasA(c, 2) + HasB(c, 2)
               /\ td2 = Place(c, 2) + HasA(c, 2) + HasB(c, 2) + HasC(c, 2) /\ td2 \in Nat
               /\ "D" \in y(p1) <=> 2 < n
               /\ "C" \in y(p1) <=> "C" \in c.groups[2].y
               /\ "C" \in y(p1) => a[p2 + 1].name = <<"C", 2>>
    <2>1. 1 \in 1 .. Len(c.groups) /\ 2 \in 1 .. Len(c.groups) /\ 1 < Len(c.groups) /\ 1 + 1 = 2 /\ 2 - 1 = 1
      BY <1>2, <1>4
    <2>2. p1 + 1 = Place(c, 2)
      <3>1. Place(c, 2) = Place(c, 1) + Width(c, 1)
        BY <2>1, Places
      <3>2. HasD(c, 1) = 1
        BY <2>1, CardShapes DEF HasD
      <3> QED BY <1>2, <1>3, <3>1, <3>2, BitType DEF Width
    <2>3. a[p1 + 1].low = c.groups[1].t
      BY <2>1, <2>2, Announcing
    <2>4. /\ Has(p1, "A") = HasA(c, 2) /\ Has(p1, "B") = HasB(c, 2) /\ Has(p1, "C") = HasC(c, 2)
          /\ "D" \in y(p1) <=> 2 < n
          /\ "C" \in y(p1) <=> "C" \in c.groups[2].y
          /\ "C" \in y(p1) => a[p1 + 1 + HasA(c, 2) + HasB(c, 2) + 1].name = <<"C", 2>>
      BY <1>3, <2>1, <2>2, GroupRead
    <2> HIDE DEF Has, y
    <2>5. p2 = p1 + 1 + HasA(c, 2) + HasB(c, 2) /\ td2 = p2 + HasC(c, 2)
      BY <2>4
    <2> HIDE DEF p2, td2
    <2> QED BY <1>3, <2>2, <2>3, <2>4, <2>5, BitType
  <1> HIDE DEF p2, td2
  <1>5. ASSUME n >= 3
        PROVE  /\ td2 + 1 = Place(c, 3)
               /\ pa = Place(c, 3) /\ pb = Place(c, 3) + HasA(c, 3)
               /\ pC = Place(c, 3) + HasA(c, 3) + HasB(c, 3)
               /\ last = Place(c, 3) + HasA(c, 3) + HasB(c, 3) + HasC(c, 3) + c.hist
               /\ "A" \in y(td2) <=> "A" \in c.groups[3].y
               /\ "B" \in y(td2) <=> "B" \in c.groups[3].y
               /\ "C" \in y(td2) <=> "C" \in c.groups[3].y
               /\ "A" \in y(td2) => a[pa + 1].name = <<"A", 3>>
               /\ "B" \in y(td2) => a[pb + 1].name = <<"B", 3>>
               /\ "C" \in y(td2) => a[pC + 1].name = <<"C", 3>>
    <2>1. 2 \in 1 .. Len(c.groups) /\ 3 \in 1 .. Len(c.groups) /\ 2 < Len(c.groups) /\ 2 + 1 = 3 /\ n >= 2
      BY <1>2, <1>5
    <2>2. td2 + 1 = Place(c, 3)
      <3>1. Place(c, 3) = Place(c, 2) + Width(c, 2)
        BY <2>1, Places
      <3>2. HasD(c, 2) = 1
        BY <2>1, CardShapes DEF HasD
      <3>3. Place(c, 2) \in Nat
        BY <2>1, Places
      <3> QED BY <1>4, <2>1, <3>1, <3>2, <3>3, BitType DEF Width
    <2>3. td2 \in Nat
      BY <1>4, <2>1
    <2>4. /\ Has(td2, "A") = HasA(c, 3) /\ Has(td2, "B") = HasB(c, 3) /\ Has(td2, "C") = HasC(c, 3)
          /\ "A" \in y(td2) <=> "A" \in c.groups[3].y
          /\ "B" \in y(td2) <=> "B" \in c.groups[3].y
          /\ "C" \in y(td2) <=> "C" \in c.groups[3].y
          /\ "A" \in y(td2) => a[td2 + 1 + 1].name = <<"A", 3>>
          /\ "B" \in y(td2) => a[td2 + 1 + HasA(c, 3) + 1].name = <<"B", 3>>
          /\ "C" \in y(td2) => a[td2 + 1 + HasA(c, 3) + HasB(c, 3) + 1].name = <<"C", 3>>
      <3> DEFINE i == 3
      <3>1. i \in 1 .. Len(c.groups) /\ td2 + 1 = Place(c, i) /\ td2 \in Nat
        BY <2>1, <2>2, <2>3
      <3> HIDE DEF i
      <3>2. /\ Has(td2, "A") = HasA(c, i) /\ Has(td2, "B") = HasB(c, i) /\ Has(td2, "C") = HasC(c, i)
            /\ "A" \in y(td2) <=> "A" \in c.groups[i].y
            /\ "B" \in y(td2) <=> "B" \in c.groups[i].y
            /\ "C" \in y(td2) <=> "C" \in c.groups[i].y
            /\ "A" \in y(td2) => a[td2 + 1 + 1].name = <<"A", i>>
            /\ "B" \in y(td2) => a[td2 + 1 + HasA(c, i) + 1].name = <<"B", i>>
            /\ "C" \in y(td2) => a[td2 + 1 + HasA(c, i) + HasB(c, i) + 1].name = <<"C", i>>
        BY <3>1, GroupRead
      <3> HIDE DEF Has, y
      <3> QED BY <3>2 DEF i
    <2> HIDE DEF Has, y
    <2>5. /\ pa = td2 + 1 /\ pb = td2 + 1 + HasA(c, 3) /\ pC = td2 + 1 + HasA(c, 3) + HasB(c, 3)
          /\ last = td2 + 1 + HasA(c, 3) + HasB(c, 3) + HasC(c, 3) + c.hist
      BY <1>3, <2>4
    <2> HIDE DEF pa, pb, pC, last
    <2> QED BY <2>2, <2>4, <2>5
  <1> HIDE DEF pa, pb, pC, last
  <1> HIDE DEF y, Has
  <1>6. /\ \/ r.ret = "BAD_ATR" /\ Ends(p1)
           \/ r = [ret |-> "OK", params |-> before] /\ "D" \notin y(1)
           \/ r.ret = "BAD_ATR" /\ "D" \in y(1) /\ (Ends(p2) \/ Ends(td2))
           \/ r = [ret |-> "OK", params |-> q2] /\ "D" \in y(1) /\ "D" \notin y(p1)
           \/ r.ret = "BAD_ATR" /\ "D" \in y(1) /\ "D" \in y(p1) /\ (Ends(pa) \/ Ends(pb) \/ Ends(pC))
           \/ r = [ret |-> "OK", params |-> qc] /\ "D" \in y(1) /\ "D" \in y(p1)
           \/ /\ r.ret = "BAD_ATR" /\ "D" \in y(1) /\ "D" \in y(p1)
              /\ qc.protocol = 1 /\ last # Len(a) - 1
    <2> HIDE DEF Ends, q1, q2, qa, qb, qc, before, a
    <2> QED BY <1>1
  <1>7. /\ before.protocol = 0 /\ before.wi = Default /\ before.ifsc = Default
        /\ before.times = Default /\ before.rc = Default
    BY DEF Defaults
  <1>8. /\ q2.protocol = a[p1 + 1].low
        /\ q2.wi = (IF "C" \in y(p1) THEN a[p2 + 1].name ELSE Default)
        /\ q2.ifsc = Default /\ q2.times = Default /\ q2.rc = Default
    BY DEF Defaults
  <1>9. /\ qc.protocol = a[p1 + 1].low
        /\ qc.wi = q2.wi
        /\ qc.ifsc = (IF "A" \in y(td2) THEN a[pa + 1].name ELSE Default)
        /\ qc.times = (IF "B" \in y(td2) THEN a[pb + 1].name ELSE Default)
        /\ qc.rc = (IF "C" \in y(td2) THEN a[pC + 1].name ELSE Default)
    BY DEF Defaults
  <1> HIDE DEF before, q1, q2, qa, qb, qc
  <1>10. FirstProtocol(c) = IF n >= 2 THEN c.groups[1].t ELSE 0
    <2>1. HasTD(c, 1) <=> 1 < n
      BY <1>2, CardShapes
    <2> HIDE DEF n
    <2>2. 1 < n <=> n >= 2
      BY <1>2
    <2> QED BY <2>1, <2>2 DEF FirstProtocol
  <1>11. LET m == Meaning(c)
             g == T1Group(c)
         IN  /\ m.protocol = FirstProtocol(c) /\ m.wi = Named(c, 2, "C") /\ m.ifsc = Named(c, g, "A")
             /\ m.times = Named(c, g, "B") /\ m.rc = Named(c, g, "C")
    BY DEF Meaning
  <1>12. DOMAIN c.groups = 1 .. n
    BY DEF WellFormed
  <1>13. Named(c, 2, "C") = IF n >= 2 /\ "C" \in c.groups[2].y THEN <<"C", 2>> ELSE Default
    <2>1. 2 \in DOMAIN c.groups <=> n >= 2
      <3> HIDE DEF n
      <3> QED BY <1>2, <1>12
    <2> QED BY <2>1 DEF Named
  <1>14. ASSUME n < 3
         PROVE  /\ Named(c, T1Group(c), "A") = Default
                /\ Named(c, T1Group(c), "B") = Default
                /\ Named(c, T1Group(c), "C") = Default
    <2>1. T1Groups(c) = {}
      BY <1>2, <1>14 DEF T1Groups
    <2>2. T1Group(c) = 0
      BY <2>1 DEF T1Group
    <2>3. 0 \notin DOMAIN c.groups
      BY <1>12
    <2> QED BY <2>2, <2>3 DEF Named
  <1>15. ASSUME n >= 3, c.groups[2].t = 1
         PROVE  /\ Named(c, T1Group(c), "A") = IF "A" \in c.groups[3].y THEN <<"A", 3>> ELSE Default
                /\ Named(c, T1Group(c), "B") = IF "B" \in c.groups[3].y THEN <<"B", 3>> ELSE Default
                /\ Named(c, T1Group(c), "C") = IF "C" \in c.groups[3].y THEN <<"C", 3>> ELSE Default
    <2>1. 3 \in 3 .. n /\ 3 - 1 = 2 /\ 3 \in 1 .. n
      <3> HIDE DEF n
      <3> QED BY <1>2, <1>15
    <2>2. 3 \in T1Groups(c)
      BY <1>15, <2>1 DEF T1Groups
    <2>3. \A j \in T1Groups(c) : 3 <= j /\ j \in Int
      BY <1>2 DEF T1Groups
    <2>4. \A i \in T1Groups(c) : (\A j \in T1Groups(c) : i <= j) => i = 3
      BY <2>2, <2>3
    <2>5. T1Group(c) = 3
      <3>1. T1Groups(c) # {}
        BY <2>2
      <3>2. \E i \in T1Groups(c) : \A j \in T1Groups(c) : i <= j
        BY <2>2, <2>3
      <3>3. T1Group(c) = CHOOSE i \in T1Groups(c) : \A j \in T1Groups(c) : i <= j
        BY <3>1 DEF T1Group
      <3> QED BY <2>4, <3>2, <3>3
    <2> QED BY <1>12, <2>1, <2>5 DEF Named
  <1> HIDE DEF n, a
  <1>16. CASE r.ret = "BAD_ATR" /\ Ends(p1)
    <2>1. n = 1 /\ c.hist = 0 /\ CheckLen(c) = 0
      <3>1. CASE n = 1
        BY <1>2, <1>3, <1>16, <3>1, BitType DEF Width
      <3>2. CASE n # 1
        <4>1. n >= 2 /\ 2 \in 1 .. n
          BY <1>2, <3>2
        <4>2. p1 + 1 + Width(c, 2) <= Len(a) /\ Width(c, 2) \in Nat
          BY <1>4, <4>1, Places, BitType DEF a, n
        <4> QED BY <1>2, <1>3, <1>16, <4>2
      <3> QED BY <3>1, <3>2
    <2> QED BY <1>16, <2>1 DEF Understood, CheckLen
  <1>17. CASE r = [ret |-> "OK", params |-> before] /\ "D" \notin y(1)
    <2>1. n = 1
      BY <1>2, <1>3, <1>17
    <2>2. Named(c, 2, "C") = Default /\ FirstProtocol(c) = 0
      BY <1>10, <1>13, <2>1
    <2> QED BY <1>7, <1>11, <1>17, <2>2 DEF Understood
  <1>18. CASE r.ret = "BAD_ATR" /\ "D" \in y(1) /\ (Ends(p2) \/ Ends(td2))
    <2>1. n >= 2 /\ 2 \in 1 .. n
      BY <1>2, <1>3, <1>18
    <2>2. n = 2 /\ c.hist = 0 /\ CheckLen(c) = 0
      <3>1. Place(c, 2) \in Nat
        BY <2>1, Places DEF n
      <3>2. CASE n = 2
        <4>1. /\ HasA(c, 2) \in Nat /\ HasB(c, 2) \in Nat /\ HasC(c, 2) \in Nat /\ HasD(c, 2) \in Nat
              /\ Width(c, 2) = HasA(c, 2) + HasB(c, 2) + HasC(c, 2) + HasD(c, 2)
          BY BitType DEF Width
        <4>2. Len(a) = Place(c, 2) + Width(c, 2) + c.hist + CheckLen(c) /\ CheckLen(c) \in Nat
          BY <1>2, <3>2
        <4>3. Place(c, 2) + HasA(c, 2) + HasB(c, 2) + HasC(c, 2) >= Len(a)
          BY <1>4, <1>18, <2>1, <3>1, <4>1
        <4>4. c.hist = 0 /\ CheckLen(c) = 0
          BY <1>2, <3>1, <4>1, <4>2, <4>3, NothingBehind
        <4> QED BY <3>2, <4>4
      <3>3. CASE n # 2
        <4>1. 2 < n /\ 3 \in 1 .. n /\ n >= 3
          BY <1>2, <2>1, <3>3
        <4>2. td2 + 1 + Width(c, 3) <= Len(a) /\ Width(c, 3) \in Nat
          BY <1>5, <4>1, Places, BitType DEF a, n
        <4> QED BY <1>2, <1>4, <1>18, <2>1, <3>1, <4>2, BitType
      <3> QED BY <3>2, <3>3
    <2> QED BY <1>18, <2>2 DEF Understood, CheckLen
  <1>19. CASE r = [ret |-> "OK", params |-> q2] /\ "D" \in y(1) /\ "D" \notin y(p1)
    <2>1. n = 2 /\ n >= 2 /\ n < 3
      BY <1>2, <1>3, <1>4, <1>19
    <2>2. /\ q2.protocol = FirstProtocol(c) /\ q2.wi = Named(c, 2, "C")
      BY <1>4, <1>8, <1>10, <1>13, <2>1
    <2> QED BY <1>8, <1>11, <1>14, <1>19, <2>1, <2>2 DEF Understood
  <1>20. ASSUME "D" \in y(1), "D" \in y(p1)
         PROVE  n >= 3 /\ n >= 2
    BY <1>2, <1>3, <1>4, <1>20
  <1>21. CASE r.ret = "BAD_ATR" /\ "D" \in y(1) /\ "D" \in y(p1) /\ (Ends(pa) \/ Ends(pb) \/ Ends(pC))
    <2>1. n >= 3 /\ 3 \in 1 .. n
      BY <1>2, <1>20, <1>21
    <2>2. n = 3 /\ c.hist = 0 /\ CheckLen(c) = 0
      <3>1. Place(c, 3) \in Nat
        BY <2>1, Places DEF n
      <3>2. CASE n = 3
        <4>1. /\ HasA(c, 3) \in Nat /\ HasB(c, 3) \in Nat /\ HasC(c, 3) \in Nat /\ HasD(c, 3) \in Nat
              /\ Width(c, 3) = HasA(c, 3) + HasB(c, 3) + HasC(c, 3) + HasD(c, 3)
          BY BitType DEF Width
        <4>2. Len(a) = Place(c, 3) + Width(c, 3) + c.hist + CheckLen(c) /\ CheckLen(c) \in Nat
          BY <1>2, <3>2
        <4>3. Place(c, 3) + HasA(c, 3) + HasB(c, 3) + HasC(c, 3) >= Len(a)
          BY <1>5, <1>21, <2>1, <3>1, <4>1
        <4>4. c.hist = 0 /\ CheckLen(c) = 0
          BY <1>2, <3>1, <4>1, <4>2, <4>3, NothingBehind
        <4> QED BY <3>2, <4>4
      <3>3. CASE n # 3
        <4>1. 3 < n /\ 4 \in 1 .. n /\ 3 + 1 = 4
          BY <1>2, <2>1, <3>3
        <4>2. Place(c, 4) = Place(c, 3) + Width(c, 3)
          BY <2>1, <4>1, Places DEF n
        <4>3. Place(c, 4) + Width(c, 4) <= Len(a)
          BY <4>1, Places DEF n, a
        <4>4. HasD(c, 3) = 1
          BY <2>1, <4>1, CardShapes DEF HasD, n
        <4> QED BY <1>2, <1>5, <1>21, <2>1, <3>1, <4>2, <4>3, <4>4, BitType DEF Width
      <3> QED BY <3>2, <3>3
    <2> QED BY <1>21, <2>2 DEF Understood, CheckLen
  <1>22. CASE r = [ret |-> "OK", params |-> qc] /\ "D" \in y(1) /\ "D" \in y(p1)
    <2>1. n >= 3 /\ n >= 2
      BY <1>20, <1>22
    <2>2. qc.protocol = FirstProtocol(c) /\ qc.wi = Named(c, 2, "C")
      BY <1>4, <1>8, <1>9, <1>10, <1>13, <2>1
    <2>3. c.groups[2].t = 1 =>
            /\ qc.ifsc = Named(c, T1Group(c), "A")
            /\ qc.times = Named(c, T1Group(c), "B")
            /\ qc.rc = Named(c, T1Group(c), "C")
      BY <1>5, <1>9, <1>15, <2>1
    <2> QED BY <1>11, <1>22, <2>1, <2>2, <2>3 DEF Understood, n
  <1>23. CASE /\ r.ret = "BAD_ATR" /\ "D" \in y(1) /\ "D" \in y(p1)
              /\ qc.protocol = 1 /\ last # Len(a) - 1
    <2>1. n >= 3 /\ n >= 2 /\ 3 \in 1 .. n
      BY <1>2, <1>20, <1>23
    <2>2. FirstProtocol(c) = 1 /\ c.groups[1].t = 1
      BY <1>4, <1>9, <1>10, <1>23, <2>1
    <2>3. n # 3
      <3> SUFFICES ASSUME n = 3 PROVE FALSE
        OBVIOUS
      <3>1. CheckLen(c) = 1
        <4>1. HasTCK(c)
          BY <2>1, <2>2 DEF HasTCK, n
        <4> QED BY <4>1 DEF CheckLen
      <3>2. HasD(c, 3) = 0
        BY <2>1, CardShapes DEF HasD, n
      <3>3. Place(c, 3) \in Nat
        BY <2>1, Places DEF n
      <3> QED BY <1>2, <1>5, <1>23, <2>1, <3>1, <3>2, <3>3, BitType DEF Width
    <2>4. Len(c.groups) > 3 /\ r.ret = "BAD_ATR" /\ r.ret # "OK"
      <3>1. n > 3
        BY <1>2, <2>1, <2>3
      <3>2. r.ret # "OK"
        BY <1>23
      <3> QED BY <1>23, <3>1, <3>2 DEF n
    <2> QED BY <2>2, <2>4 DEF Understood
  <1> QED BY <1>6, <1>16, <1>17, <1>18, <1>19, <1>21, <1>22, <1>23

-----------------------------------------------------------------------------
(***************************************************************************)
(* The reader: while a reset goes on nothing of its result is set; where a *)
(* Towitoko still has its parity to set at the end, the ATR is taken.      *)
(***************************************************************************)
AtrInv ==
  /\ AtrUnderstood
  /\ card \in Cards
  /\ goal.next \in {"ts", "end"}
  /\ pc = "parity" /\ goal.next = "end" => atr = Encoded(card)
  /\ pc # "idle" => typed = "none" /\ ret = "none"

\* What a step has to show of a reset that has not come to the card's type
LEMMA BeforeType ==
  ASSUME typed' = "none",
         pc' = "idle" /\ ret' = "OK" => atr' = Encoded(card'),
         pc' = "idle" /\ ret' = "PROTOCOL_ERROR" => Len(Encoded(card')) > MaxAtr
  PROVE  AtrUnderstood'
  BY DEF AtrUnderstood

LEMMA ResetUnderstood ==
  ASSUME NEW c \in Cards, ResetCard(c)
  PROVE  AtrInv'
  <1>1. card' = c /\ typed' = "none" /\ ret' = "none" /\ goal'.next = "ts"
    BY DEF ResetCard
  <1>2. AtrUnderstood'
    BY <1>1, BeforeType
  <1> QED BY <1>1, <1>2 DEF AtrInv

LEMMA SetParityUnderstood ==
  ASSUME AtrInv, NEW answer \in {"done", "mute", "deaf"}, SetParity(answer)
  PROVE  AtrInv'
  <1>1. pc = "parity" /\ UNCHANGED <<card, goal, atr, typed>> /\ typed = "none" /\ ret = "none"
    BY DEF SetParity, AtrInv, info
  <1>2. \/ pc' = "ts" /\ ret' = ret
        \/ pc' = "idle" /\ ret' = "OK" /\ goal.next = "end"
        \/ pc' = "idle" /\ ret' = "IO_ERROR"
    BY DEF SetParity, Return, AtrInv
  <1>3. AtrUnderstood'
    BY <1>1, <1>2, BeforeType DEF AtrInv
  <1> QED BY <1>1, <1>2, <1>3 DEF AtrInv

LEMMA TSUnderstood ==
  ASSUME AtrInv, TakeTS \/ NoTS
  PROVE  AtrInv'
  <1>1. pc = "ts" /\ UNCHANGED <<card, typed>> /\ typed = "none" /\ ret = "none"
    BY DEF TakeTS, NoTS, AtrInv
  <1>2. /\ \/ pc' \in {"ts", "atr"} /\ ret' = ret
           \/ pc' = "parity" /\ ret' = ret /\ goal' = [parity |-> "odd", next |-> "ts"]
           \/ pc' = "idle" /\ ret' = "BAD_ATR"
        /\ goal' \in {goal, [parity |-> "odd", next |-> "ts"]}
    <2>1. CASE TakeTS
      BY <2>1 DEF TakeTS
    <2>2. CASE NoTS
      BY <1>1, <2>2 DEF NoTS, Return
    <2> QED BY <2>1, <2>2
  <1>3. AtrUnderstood'
    BY <1>1, <1>2, BeforeType
  <1> QED BY <1>1, <1>2, <1>3 DEF AtrInv

LEMMA ReadATRUnderstood ==
  ASSUME AtrInv, NEW n \in 1 .. MaxAtr + 1, ReadATR(n)
  PROVE  AtrInv'
  <1> DEFINE got == GetATR(SubSeq(Encoded(card), 1, n))
  <1>1. WellFormed(card) /\ card \in Cards
    BY CharAssumption DEF AtrInv
  <1>2. /\ UNCHANGED <<card, typed>> /\ typed = "none" /\ ret = "none" /\ atr' = got.atr
        /\ n <= Len(Encoded(card))
        /\ \/ got.ret # "OK" /\ pc' = "idle" /\ ret' = got.ret /\ goal' = goal
           \/ got.ret = "OK" /\ pc' = "parity" /\ ret' = ret /\ goal'.next = "end"
           \/ got.ret = "OK" /\ pc' = "idle" /\ ret' = "OK" /\ goal' = goal
    <2> HIDE DEF got
    <2> QED BY DEF ReadATR, Return, AtrInv, got
  <1>3. Right(card, got)
    <2>1. n \in 1 .. Len(Encoded(card))
      BY <1>1, <1>2, EncodedParts
    <2> QED BY <1>1, <2>1, GetATRRight
  <1> HIDE DEF got
  <1>4. AtrUnderstood'
    BY <1>2, <1>3, BeforeType DEF Right
  <1> QED BY <1>1, <1>2, <1>3, <1>4 DEF AtrInv, Right

LEMMA CardTypeUnderstood ==
  ASSUME AtrInv, GetCardType
  PROVE  AtrInv'
  <1>1. pc = "idle" /\ ret = "OK" /\ UNCHANGED <<card, pc, goal, atr, ret>> /\ atr = Encoded(card)
    BY DEF GetCardType, AtrInv, AtrUnderstood
  <1>2. WellFormed(card) /\ card \in Cards
    BY CharAssumption DEF AtrInv
  <1>3. /\ typed' = "OK" =>
             LET m == Meaning(card)
             IN  /\ params'.protocol = m.protocol
                 /\ m.protocol = 0 => params'.wi = m.wi
                 /\ m.protocol = 1 /\ ~OtherGroup =>
                      params'.ifsc = m.ifsc /\ params'.times = m.times /\ params'.rc = m.rc
        /\ typed' = "BAD_ATR" => EndsEarly \/ ThirdTD
    <2>1. CASE card.known = "constants"
      BY <2>1 DEF GetCardType, FromDriver
    <2>2. CASE card.known # "constants"
      <3>1. PICK r \in ProcessATR(atr, Defaults) : params' = r.params /\ typed' = r.ret
        BY <2>2 DEF GetCardType, FromATR, Fresh
      <3>2. Understood(card, r)
        BY <1>1, <1>2, ProcessRight
      <3> QED BY <3>1, <3>2 DEF Understood, OtherGroup, EndsEarly, ThirdTD
    <2> QED BY <2>1, <2>2
  <1>4. AtrUnderstood'
    BY <1>1, <1>3 DEF AtrUnderstood, OtherGroup, EndsEarly, ThirdTD
  <1> QED BY <1>1, <1>2, <1>4 DEF AtrInv

(***************************************************************************)
(* A reset that succeeded has read the whole ATR and nothing behind it,    *)
(* whatever the number of its groups and bytes; GetATR calls it too long   *)
(* only when it is; and scSmartcardProcessATR takes from it the protocol   *)
(* and the parameters the card means, or refuses it in the cases named.    *)
(***************************************************************************)
THEOREM AtrAlwaysUnderstood == Spec => []AtrUnderstood
  <1>1. Init => AtrInv
    <2> SUFFICES ASSUME Init PROVE AtrInv
      OBVIOUS
    <2>1. card \in Cards /\ typed = "none" /\ ret = "none" /\ pc = "idle" /\ goal.next = "ts"
      BY DEF Init
    <2> QED BY <2>1 DEF AtrInv, AtrUnderstood
  <1>2. AtrInv /\ [Next]_vars => AtrInv'
    <2> SUFFICES ASSUME AtrInv, [Next]_vars PROVE AtrInv'
      OBVIOUS
    <2>1. CASE UNCHANGED vars
      BY <2>1 DEF vars, AtrInv, AtrUnderstood, OtherGroup, EndsEarly, ThirdTD
    <2>2. ASSUME NEW c \in Cards, ResetCard(c) PROVE AtrInv'
      BY <2>2, ResetUnderstood
    <2>3. ASSUME NEW answer \in {"done", "mute", "deaf"}, SetParity(answer) PROVE AtrInv'
      BY <2>3, SetParityUnderstood
    <2>4. CASE TakeTS \/ NoTS
      BY <2>4, TSUnderstood
    <2>5. ASSUME NEW n \in 1 .. MaxAtr + 1, ReadATR(n) PROVE AtrInv'
      BY <2>5, ReadATRUnderstood
    <2>6. CASE GetCardType
      BY <2>6, CardTypeUnderstood
    <2> QED BY <2>1, <2>2, <2>3, <2>4, <2>5, <2>6 DEF Next
  <1>3. AtrInv => AtrUnderstood
    BY DEF AtrInv
  <1> QED BY <1>1, <1>2, <1>3, PTL DEF Spec
=============================================================================
