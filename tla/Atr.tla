-------------------------------- MODULE Atr --------------------------------
(***************************************************************************)
(* The answer to reset: how a card builds one, how the drivers of the      *)
(* character readers read it from the line (scDumbmouseGetATR,             *)
(* scEasycheckGetATR, scTowitokoGetATR), what scSmartcardProcessATR makes  *)
(* of it, and what it means.                                               *)
(*                                                                         *)
(* A byte is its name, with the interface bytes it announces and its low   *)
(* half if it announces any.  The value of an interface byte is left out:  *)
(* a parameter is the name of the byte it was taken from.                  *)
(***************************************************************************)
EXTENDS Integers, Sequences, FiniteSets

CONSTANT MaxAtr   \* sizeof(ci->atr), 32

ASSUME AtrAssumption == MaxAtr \in Nat

(***************************************************************************)
(* A card: its convention and its ATR.  groups[i] has the interface bytes  *)
(* TAi, TBi, TCi that are there (y) and the protocol TDi names (t), -1 if  *)
(* there is no TDi; hist is the number of historical bytes.                *)
(***************************************************************************)
HasTD(c, i) == c.groups[i].t >= 0
Announced(c, i) == c.groups[i].y \cup (IF HasTD(c, i) THEN {"D"} ELSE {})

\* The last byte is a check byte unless T=0 is the only protocol.
HasTCK(c) == \E i \in 1 .. Len(c.groups) : c.groups[i].t > 0

\* The last group is the one without a TDi, and protocols are in ascending order.
WellFormed(c) ==
  /\ c.groups \in Seq([y : SUBSET {"A", "B", "C"}, t : -1 .. 15]) /\ c.groups # <<>>
  /\ \A i \in DOMAIN c.groups : HasTD(c, i) <=> i < Len(c.groups)
  /\ \A i, j \in DOMAIN c.groups : i < j /\ HasTD(c, j) => c.groups[i].t <= c.groups[j].t
  /\ c.hist \in 0 .. 15

AByte(letter, i) == [name |-> <<letter, i>>, y |-> {}, low |-> 0]
TD(c, i) == [name |-> <<"D", i>>, y |-> Announced(c, i + 1), low |-> c.groups[i].t]
If(there, byte) == IF there THEN <<byte>> ELSE <<>>
InterfaceBytes(c, i) ==
  If("A" \in c.groups[i].y, AByte("A", i)) \o If("B" \in c.groups[i].y, AByte("B", i))
    \o If("C" \in c.groups[i].y, AByte("C", i)) \o If(HasTD(c, i), TD(c, i))

\* TS and T0, and the bytes of the first i groups
UpTo(c) ==
  LET upTo[i \in 0 .. Len(c.groups)] ==
        IF i = 0 THEN <<AByte("S", 0), [name |-> <<"D", 0>>, y |-> Announced(c, 1), low |-> c.hist]>>
                 ELSE upTo[i - 1] \o InterfaceBytes(c, i)
  IN  upTo

Encoded(c) == UpTo(c)[Len(c.groups)] \o [k \in 1 .. c.hist |-> AByte("H", k)]
                \o If(HasTCK(c), AByte("K", 0))

-----------------------------------------------------------------------------
(***************************************************************************)
(* The rest of GetATR after TS, when the bytes arrive: one group after     *)
(* the other, as T0 and the TDi announce them, then the historical bytes,  *)
(* then TCK if the last protocol named is not T=0.                         *)
(***************************************************************************)
Got(ret, atr) == [ret |-> ret, atr |-> atr]

\* k bytes more behind the first at
Piece(line, at, k) == IF at + k > MaxAtr THEN "PROTOCOL_ERROR"
                      ELSE IF at + k > Len(line) THEN "IO_ERROR" ELSE "OK"

Ending(line, at, prot) ==
  LET k == line[2].low
      tck == IF prot = 0 THEN 0 ELSE 1
  IN  IF Piece(line, at, k) # "OK" THEN Got(Piece(line, at, k), <<>>)
      ELSE IF Piece(line, at + k, tck) # "OK" THEN Got(Piece(line, at + k, tck), <<>>)
      ELSE Got("OK", SubSeq(line, 1, at + k + tck))

\* at is the byte that announces the next group.
GroupsFrom(line) ==
  LET from[at \in 2 .. Len(line)] ==
        LET k == Cardinality(line[at].y)
            prot == IF at = 2 THEN 0 ELSE line[at].low
        IN  IF k > 0 /\ Piece(line, at, k) # "OK" THEN Got(Piece(line, at, k), <<>>)
            ELSE IF "D" \in line[at].y THEN from[at + k] ELSE Ending(line, at + k, prot)
  IN  from

GetATR(line) == IF Len(line) < 2 THEN Got("IO_ERROR", <<>>) ELSE GroupsFrom(line)[2]

-----------------------------------------------------------------------------
(***************************************************************************)
(* scSmartcardProcessATR.  p and td are indexes of ci->atr, which count    *)
(* from 0.  A check against the length is made whether or not a byte is    *)
(* wanted at that place, so an ATR must go on after its interface bytes;   *)
(* and the sum of a T=1 card is taken over as many bytes as there are if   *)
(* no TD3 is.  A sum over other bytes comes out right by chance only.      *)
(***************************************************************************)
Default == <<"default", 0>>
Defaults == [protocol |-> 0, wi |-> Default, ifsc |-> Default,
             times |-> Default, rc |-> Default]

ProcessATR(a, before) ==
  LET y(i) == a[i + 1].y
      Has(i, letter) == IF letter \in y(i) THEN 1 ELSE 0
      Taken(i, letter, p, old) == IF letter \in y(i) THEN a[p + 1].name ELSE old
      Ends(p) == p >= Len(a)
      Bad(q) == {[ret |-> "BAD_ATR", params |-> q]}
      Ok(q) == {[ret |-> "OK", params |-> q]}
      p1 == 2 + Has(1, "A") + Has(1, "B") + Has(1, "C")
      q1 == [before EXCEPT !.protocol = a[p1 + 1].low]
      p2 == p1 + 1 + Has(p1, "A") + Has(p1, "B")
      q2 == [q1 EXCEPT !.wi = Taken(p1, "C", p2, q1.wi)]
      td2 == p2 + Has(p1, "C")
      pa == td2 + 1
      qa == [q2 EXCEPT !.ifsc = Taken(td2, "A", pa, q2.ifsc)]
      pb == pa + Has(td2, "A")
      qb == [qa EXCEPT !.times = Taken(td2, "B", pb, qa.times)]
      pc == pb + Has(td2, "B")
      qc == [qb EXCEPT !.rc = Taken(td2, "C", pc, qb.rc)]
      last == pc + Has(td2, "C") + a[2].low
  IN  IF Ends(p1) THEN Bad(before)
      ELSE IF "D" \notin y(1) THEN Ok(before)
      ELSE IF Ends(p2) THEN Bad(q1)
      ELSE IF Ends(td2) THEN Bad(q2)
      ELSE IF "D" \notin y(p1) THEN Ok(q2)
      ELSE IF Ends(pa) THEN Bad(q2)
      ELSE IF Ends(pb) THEN Bad(qa)
      ELSE IF Ends(pc) THEN Bad(qb)
      ELSE IF qc.protocol # 1 \/ last = Len(a) - 1 THEN Ok(qc)
      ELSE Ok(qc) \cup Bad(qc)

-----------------------------------------------------------------------------
(***************************************************************************)
(* What the ATR means (ISO 7816-3): the card's first protocol, the T=0     *)
(* waiting time of TC2, and the T=1 parameters of the first group after    *)
(* the second that is for T=1.                                             *)
(***************************************************************************)
FirstProtocol(c) == IF HasTD(c, 1) THEN c.groups[1].t ELSE 0
Named(c, i, letter) ==
  IF i \in DOMAIN c.groups /\ letter \in c.groups[i].y THEN <<letter, i>> ELSE Default

T1Groups(c) == {i \in 3 .. Len(c.groups) : c.groups[i - 1].t = 1}
T1Group(c) == IF T1Groups(c) = {} THEN 0
              ELSE CHOOSE i \in T1Groups(c) : \A j \in T1Groups(c) : i <= j

Meaning(c) == [protocol |-> FirstProtocol(c), wi |-> Named(c, 2, "C"),
               ifsc |-> Named(c, T1Group(c), "A"), times |-> Named(c, T1Group(c), "B"),
               rc |-> Named(c, T1Group(c), "C")]
=============================================================================
