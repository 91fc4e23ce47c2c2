------------------------------ MODULE T0_proofs ------------------------------
(***************************************************************************)
(* What scT0SendAPDU makes of a card, for every list of commands, every    *)
(* length and every response.                                              *)
(*                                                                         *)
(* First ApduGivenBack, which uses nothing of the card or the line and so  *)
(* holds of cards that keep to no protocol as well.  Then what relates     *)
(* both ends of the line: CardGetsCommand, NothingLeftBehind, TypeOK and   *)
(* the steps of ImplementsChannel, from one invariant that says at each    *)
(* read what is on the line, and OkIsOwnAnswer and AnswerWithinLe from it. *)
(***************************************************************************)
EXTENDS T0Link, TLAPS

-----------------------------------------------------------------------------
(***************************************************************************)
(* An APDU is not sent again after a failure (Again): what the failure has *)
(* left of it is then what the caller asks for.                            *)
(*                                                                         *)
(* While the command itself is exchanged, the Le byte the caller gave is   *)
(* either still in the APDU or noted in striped; when that is done, it is  *)
(* back for good, whatever TPDUs follow.                                   *)
(***************************************************************************)
LeAccounted ==
  pc # "idle" =>
    /\ ret = "busy"
    /\ stage = "command" => (wantLe.hasLe <=> (apdu.hasLe \/ striped))
    /\ stage # "command" => (wantLe.hasLe <=> apdu.hasLe)

Shape ==
  /\ apdu = [cse |-> apdu.cse, serial |-> apdu.serial, lc |-> apdu.lc, le |-> apdu.le,
             hasLe |-> apdu.hasLe]
  /\ apdu.hasLe \in BOOLEAN /\ wantLe.hasLe \in BOOLEAN /\ striped \in BOOLEAN

Inv == Shape /\ LeAccounted /\ ApduGivenBack

\* The caller says of every APDU whether it carries an Le byte, and sends no
\* APDU that a failure has changed.
Caller ==
  /\ Commands \in Seq([cse : Cases, lc : Nat, le : Nat, hasLe : BOOLEAN])
  /\ ~Again

-----------------------------------------------------------------------------
\* The initial state: no APDU has been given.
LEMMA InitInv ==
  ASSUME Init
  PROVE  Inv /\ serial \in Nat
  <1>1. apdu = NoAPDU /\ striped = FALSE /\ wantLe = [le |-> 0, hasLe |-> FALSE]
    BY DEF Init, HostInit
  <1>2. Shape
    BY <1>1 DEF NoAPDU, Shape
  <1>3. pc = "idle" /\ ret = "reset" /\ serial = 0
    BY DEF Init, HostInit
  <1> QED BY <1>2, <1>3 DEF Inv, LeAccounted, ApduGivenBack

\* The commands are numbered.
LEMMA SerialInv ==
  ASSUME serial \in Nat, [Next]_vars
  PROVE  serial' \in Nat
  BY DEF Next, AppSend, AppSendAgain, AppRefused, AppReset, HostReceives, HostTimeout,
         CardMoves, NoteSent, sessionVars, vars

\* A read that leaves the APDU and the result alone.
LEMMA GoOn ==
  ASSUME Inv, UNCHANGED <<apdu, striped, stage, ret, wantLe>>, pc # "idle"
  PROVE  Inv'
  BY DEF Inv, Shape, LeAccounted, ApduGivenBack

\* The call ends with an error, whatever the APDU looks like by then.
LEMMA Fails ==
  ASSUME NEW r, r # "OK", NEW unread, Finish(r, unread), Shape'
  PROVE  Inv'
  BY DEF Finish, Inv, LeAccounted, ApduGivenBack

\* So it does when a TPDU fails.
LEMMA TpduFailsInv ==
  ASSUME Inv, NEW r, r # "OK", NEW unread, TpduFails(r, unread), UNCHANGED wantLe
  PROVE  Inv'
  <1>1. Shape'
    BY DEF TpduFails, Finish, Inv, Shape
  <1>2. Finish(r, unread)
    BY DEF TpduFails
  <1> QED BY <1>1, <1>2, Fails

-----------------------------------------------------------------------------
\* The APDU is as it was given.
Restored == Shape' /\ (wantLe'.hasLe <=> apdu'.hasLe)

\* Then the call may end in any way.
LEMMA EndsRestored ==
  ASSUME Restored, NEW r, NEW unread, Finish(r, unread)
  PROVE  Inv'
  BY DEF Finish, Restored, Inv, Shape, LeAccounted, ApduGivenBack

\* Or it goes on with another TPDU.
LEMMA GoesOnRestored ==
  ASSUME Inv, pc # "idle", Restored, stage' # "command", UNCHANGED ret
  PROVE  Inv'
  BY DEF Restored, Inv, Shape, LeAccounted, ApduGivenBack

\* A card that is not there ends the call with an error.
LEMMA NoCardRestored ==
  ASSUME Restored, NoCard
  PROVE  Inv'
  <1>1. PICK r \in {"IO_ERROR", "CARD_CHANGED", "NO_CARD"} : Finish(r, << >>)
    BY DEF NoCard
  <1> QED BY <1>1, EndsRestored

\* The status word is looked at, and the answer fetched or not: Finish clears
\* striped and Header does not touch it.
LEMMA CheckResponseInv ==
  ASSUME Inv, pc # "idle", NEW r, NEW unread, CheckResponse(r, unread), UNCHANGED wantLe,
         (UNCHANGED striped \/ striped' = FALSE) => Restored
  PROVE  Inv'
  <1>1. CASE Len(r) < 2
    <2>1. Finish("BAD_SW", unread)
      BY <1>1 DEF CheckResponse
    <2>2. Restored
      BY <2>1 DEF Finish
    <2> QED BY <2>1, <2>2, EndsRestored
  <1>2. CASE ~(Len(r) < 2)
    <2> DEFINE n == Last2(r)[2].val[2]
    <2>1. CASE Kind(Last2(r)[1]) = "61" /\ n > 0 /\ Len(r) = 2
      <3>1. \/ Header("getrsp", 2, n) /\ stage' = "get" /\ UNCHANGED <<striped, ret>>
            \/ NoCard
        BY <1>2, <2>1 DEF CheckResponse
      <3>2. CASE stage' = "get" /\ UNCHANGED <<striped, ret>>
        BY <3>2, GoesOnRestored
      <3>3. CASE NoCard
        <4>1. striped' = FALSE
          BY <3>3 DEF NoCard, Finish
        <4> QED BY <3>3, <4>1, NoCardRestored
      <3> QED BY <3>1, <3>2, <3>3
    <2>2. CASE ~(Kind(Last2(r)[1]) = "61" /\ n > 0 /\ Len(r) = 2)
      <3>1. Finish("OK", unread)
        BY <1>2, <2>2 DEF CheckResponse
      <3>2. Restored
        BY <3>1 DEF Finish
      <3> QED BY <3>1, <3>2, EndsRestored
    <2> QED BY <2>1, <2>2
  <1> QED BY <1>1, <1>2

\* The command is sent again for its length.
LEMMA ReissueInv ==
  ASSUME Inv, pc # "idle", NEW r, Reissue(r), UNCHANGED wantLe,
         (UNCHANGED striped \/ striped' = FALSE) => Restored
  PROVE  Inv'
  <1>1. \/ stage' = "reissue" /\ UNCHANGED <<striped, ret>>
        \/ NoCard
    BY DEF Reissue
  <1>2. CASE stage' = "reissue" /\ UNCHANGED <<striped, ret>>
    BY <1>2, GoesOnRestored
  <1>3. CASE NoCard
    <2>1. striped' = FALSE
      BY <1>3 DEF NoCard, Finish
    <2> QED BY <1>3, <2>1, NoCardRestored
  <1> QED BY <1>1, <1>2, <1>3

-----------------------------------------------------------------------------
\* The command has been exchanged: its Le byte is put back.
LEMMA CommandDoneInv ==
  ASSUME Inv, pc # "idle", stage = "command", NEW r, NEW unread, CommandDone(r, unread),
         UNCHANGED wantLe
  PROVE  Inv'
  <1>1. (UNCHANGED striped \/ striped' = FALSE) => Restored
    <2> HAVE UNCHANGED striped \/ striped' = FALSE
    <2>1. apdu' = [apdu EXCEPT !.hasLe = @ \/ striped]
      BY DEF CommandDone
    <2>2. /\ apdu'.hasLe = (apdu.hasLe \/ striped)
          /\ apdu' = [cse |-> apdu'.cse, serial |-> apdu'.serial, lc |-> apdu'.lc,
                      le |-> apdu'.le, hasLe |-> apdu'.hasLe]
      BY <2>1 DEF Inv, Shape
    <2>3. wantLe.hasLe <=> (apdu.hasLe \/ striped)
      BY DEF Inv, LeAccounted
    <2>4. /\ wantLe' = wantLe /\ apdu'.hasLe \in BOOLEAN
          /\ wantLe.hasLe \in BOOLEAN /\ striped' \in BOOLEAN
      BY <2>2 DEF Inv, Shape
    <2> QED BY <2>2, <2>3, <2>4 DEF Restored, Shape
  <1>2. \/ Reissue(r)
        \/ CheckResponse(r, unread)
        \/ Finish("OK", unread)
    BY DEF CommandDone
  <1>3. CASE Reissue(r)
    BY <1>1, <1>3, ReissueInv
  <1>4. CASE CheckResponse(r, unread)
    BY <1>1, <1>4, CheckResponseInv
  <1>5. CASE Finish("OK", unread)
    <2>1. Restored
      BY <1>1, <1>5 DEF Finish
    <2> QED BY <1>5, <2>1, EndsRestored
  <1> QED BY <1>2, <1>3, <1>4, <1>5

\* And after the other TPDUs, which leave the APDU alone.
LEMMA TpduDoneInv ==
  ASSUME Inv, pc # "idle", NEW bytes, NEW unread, TpduDone(bytes, unread), UNCHANGED wantLe
  PROVE  Inv'
  <1> DEFINE r == Clip(bytes, Decoded(tpdu.p3))
  <1>1. CASE stage = "command" /\ CommandDone(r, unread)
    BY <1>1, CommandDoneInv
  <1>2. ASSUME stage # "command", UNCHANGED apdu
        PROVE  (UNCHANGED striped \/ striped' = FALSE) => Restored
    BY <1>2 DEF Restored, Inv, Shape, LeAccounted
  <1>3. CASE stage = "reissue" /\ UNCHANGED apdu
              /\ CheckResponse(Clip(r, Decoded(apdu.le)), unread)
    BY <1>2, <1>3, CheckResponseInv
  <1>4. CASE stage = "get" /\ Fetched(r, unread)
    <2>1. Finish("OK", unread) /\ UNCHANGED apdu
      BY <1>4 DEF Fetched
    <2>2. striped' = FALSE
      BY <2>1 DEF Finish
    <2> QED BY <1>2, <1>4, <2>1, <2>2, EndsRestored
  <1> QED BY <1>1, <1>3, <1>4 DEF TpduDone

-----------------------------------------------------------------------------
\* The host reads something.
LEMMA ReceiveInv ==
  ASSUME Inv, Receive, UNCHANGED wantLe
  PROVE  Inv'
  <1>1. pc # "idle"
    BY DEF Receive, AckToCard, AckFromCard, NackToCard, NackFromCard, SkipByte, Null, Sw1,
           Sw2, ReadByte, ReadBlock, Reads
  <1>2. \/ UNCHANGED callVars
        \/ \E r \in {"IO_ERROR", "WAIT_ERROR", "TIMEOUT"} : TpduFails(r, Unread)
        \/ \E bytes, unread : TpduDone(bytes, unread)
    BY DEF Receive, AckToCard, AckFromCard, NackToCard, NackFromCard, SkipByte, Null, Sw1,
           Sw2, ReadByte, ReadBlock
  <1>3. CASE UNCHANGED callVars
    BY <1>1, <1>3, GoOn DEF callVars
  <1>4. CASE \E r \in {"IO_ERROR", "WAIT_ERROR", "TIMEOUT"} : TpduFails(r, Unread)
    BY <1>4, TpduFailsInv
  <1>5. CASE \E bytes, unread : TpduDone(bytes, unread)
    BY <1>1, <1>5, TpduDoneInv
  <1> QED BY <1>2, <1>3, <1>4, <1>5

\* Nothing comes, or not all of it.
LEMMA TimeoutInv ==
  ASSUME Inv, NothingRead \/ ReadBlockShort, UNCHANGED wantLe
  PROVE  Inv'
  <1>1. CASE NothingRead
    BY <1>1, TpduFailsInv DEF NothingRead
  <1>2. CASE ReadBlockShort
    BY <1>2, TpduDoneInv DEF ReadBlockShort
  <1> QED BY <1>1, <1>2

\* What a place of a sequence holds.
LEMMA ElementOf ==
  ASSUME NEW S, NEW s \in Seq(S), NEW i \in 1..Len(s)
  PROVE  s[i] \in S
  OBVIOUS

\* The application gives a new APDU.
LEMMA AppSendInv ==
  ASSUME Inv, serial \in Nat, Caller, AppSend
  PROVE  Inv'
  <1> DEFINE c == Commands[serial + 1]
             a == [cse |-> c.cse, serial |-> serial + 1, lc |-> c.lc, le |-> c.le,
                   hasLe |-> c.hasLe]
  <1>1. SendAPDU(a) /\ wantLe' = Want(c)
    BY DEF AppSend
  <1>2. c.hasLe \in BOOLEAN
    <2>1. serial + 1 \in 1..Len(Commands)
      BY DEF AppSend, Caller
    <2>2. c \in [cse : Cases, lc : Nat, le : Nat, hasLe : BOOLEAN]
      BY <2>1, ElementOf DEF Caller
    <2> HIDE DEF c
    <2> QED BY <2>2
  <1>3. wantLe'.hasLe = c.hasLe
    BY <1>1 DEF Want
  <1>4. Strips(a) \in BOOLEAN /\ (Strips(a) => c.hasLe)
    BY <1>2 DEF Strips
  <1>5. apdu' = [a EXCEPT !.hasLe = @ /\ ~Strips(a)]
    BY <1>1 DEF SendAPDU
  <1>6. /\ apdu'.hasLe = (c.hasLe /\ ~Strips(a))
        /\ apdu' = [cse |-> apdu'.cse, serial |-> apdu'.serial, lc |-> apdu'.lc,
                    le |-> apdu'.le, hasLe |-> apdu'.hasLe]
    BY <1>5
  <1>7. \/ stage' = "command" /\ striped' = Strips(a) /\ ret' = "busy"
        \/ NoCard
    BY <1>1 DEF SendAPDU
  <1>8. striped' \in BOOLEAN
    BY <1>4, <1>7 DEF NoCard, Finish
  <1>9. Shape'
    BY <1>2, <1>3, <1>4, <1>6, <1>8 DEF Shape
  <1>10. CASE stage' = "command" /\ striped' = Strips(a) /\ ret' = "busy"
    <2>1. wantLe'.hasLe <=> (apdu'.hasLe \/ striped')
      BY <1>2, <1>3, <1>4, <1>6, <1>10
    <2> QED BY <1>9, <1>10, <2>1 DEF Inv, LeAccounted, ApduGivenBack
  <1>11. CASE NoCard
    BY <1>9, <1>11, Fails DEF NoCard
  <1> QED BY <1>7, <1>10, <1>11

LEMMA NextInv ==
  ASSUME Inv, serial \in Nat, Caller, [Next]_vars
  PROVE  Inv'
  <1>1. CASE AppSend
    BY <1>1, AppSendInv
  <1>2. CASE AppSendAgain
    BY <1>2 DEF AppSendAgain, Caller
  <1>3. CASE AppRefused
    BY <1>3 DEF AppRefused, RefuseAPDU, sessionVars, Inv, Shape, LeAccounted, ApduGivenBack
  <1>4. CASE AppReset
    BY <1>4 DEF AppReset, ResetCard, Inv, Shape, LeAccounted, ApduGivenBack
  <1>5. CASE HostReceives
    BY <1>5, ReceiveInv DEF HostReceives
  <1>6. CASE HostTimeout
    BY <1>6, TimeoutInv DEF HostTimeout
  <1>7. CASE CardMoves
    BY <1>7 DEF CardMoves, hostVars, sessionVars, Inv, Shape, LeAccounted, ApduGivenBack
  <1>8. CASE UNCHANGED vars
    BY <1>8 DEF vars, hostVars, sessionVars, Inv, Shape, LeAccounted, ApduGivenBack
  <1> QED
    BY <1>1, <1>2, <1>3, <1>4, <1>5, <1>6, <1>7, <1>8 DEF Next

\* A call of scT0SendAPDU that ends well gives the APDU back as it was, with
\* the Le byte that was stripped for the exchange (sct0.c 248, 259), whatever
\* TPDUs the card has made of it.
THEOREM ApduAlwaysGivenBack == ASSUME Caller PROVE Spec => []ApduGivenBack
  <1>1. Init => Inv /\ serial \in Nat
    BY InitInv
  <1>2. Inv /\ serial \in Nat /\ [Next]_vars => (Inv /\ serial \in Nat)'
    BY NextInv, SerialInv
  <1>3. Inv => ApduGivenBack
    BY DEF Inv
  <1> QED BY <1>1, <1>2, <1>3, PTL DEF Spec

-----------------------------------------------------------------------------
(* Bytes, APDUs and what is asked of the session.                          *)

\* What a byte of the line can be, and the bytes there are.
Kinds == {"cmd", "getrsp", "proc", "data", "sw2", "90", "6F", "6C", "61"}
Byte == [look : Looks, val : Kinds \X Int \X Int]

\* The APDUs of the session as SC_APDU has them: Lc and Le fit their byte, there
\* is data where the case has data, and an Le byte in case 2, in case 4 perhaps.
Apdus == {c \in [cse : Cases, lc : 0..(MaxLe - 1), le : 0..(MaxLe - 1), hasLe : BOOLEAN] :
             /\ HasData(c.cse) => c.lc > 0
             /\ c.hasLe => c.cse \in {2, 4}
             /\ c.cse = 2 => c.hasLe}

\* What is asked of the session.  The card keeps to the two things scT0SendCmd
\* cannot do without: no NULL between the data it has announced with ACK and the
\* status word, which are one read (sct0.c 97), and no silence in that place.
Orderly == Commands \in Seq(Apdus) /\ ~NullBeforeStatus /\ ~Stalls

\* The procedure bytes.
NullB == Procedure("null")
NackB == Procedure("nack")
AckB == Procedure("ack")
IsData(b) == Kind(b) = "data"

\* What a byte of the line is made of.
LEMMA ByteFacts ==
  ASSUME NEW l, NEW k, NEW a, NEW b
  PROVE  /\ LineByte(l, k, a, b).look = l
         /\ Kind(LineByte(l, k, a, b)) = k
         /\ LineByte(l, k, a, b).val[2] = a
         /\ LineByte(l, k, a, b).val[3] = b
         /\ l \in Looks /\ k \in Kinds /\ a \in Int /\ b \in Int => LineByte(l, k, a, b) \in Byte
  BY DEF LineByte, Kind, Byte

\* The procedure bytes are bytes, differ, and are not data.
LEMMA ProcFacts ==
  /\ NullB \in Byte /\ NackB \in Byte /\ AckB \in Byte
  /\ NullB.look = "null" /\ NackB.look = "nack" /\ AckB.look = "ack"
  /\ ~IsData(NullB) /\ ~IsData(NackB) /\ ~IsData(AckB)
  BY ByteFacts DEF NullB, NackB, AckB, Procedure, Looks, Kinds, IsData

\* A status word says whose it is and how much there is to fetch.
LEMMA StatusFacts ==
  ASSUME NEW k \in {"90", "6F", "6C", "61"}, NEW n \in Int, apdu.serial \in Int
  PROVE  /\ StatusWord(k, n) \in Seq(Byte) /\ Len(StatusWord(k, n)) = 2
         /\ StatusWord(k, n)[1].look = "sw" /\ Kind(StatusWord(k, n)[1]) = k
         /\ StatusWord(k, n)[1].val[2] = apdu.serial
         /\ StatusWord(k, n)[2].val[2] = n
         /\ Kind(StatusWord(k, n)[2]) = "sw2"
  BY ByteFacts DEF StatusWord, Looks, Kinds

\* The data of a response are data of that command.
LEMMA ResponseFacts ==
  ASSUME NEW s \in Int, NEW len \in Nat, NEW look \in Looks
  PROVE  /\ Response(s, len, look) \in Seq(Byte)
         /\ Len(Response(s, len, look)) = len
         /\ \A k \in 1..len : /\ IsData(Response(s, len, look)[k])
                              /\ Response(s, len, look)[k].val[2] = s
  <1>1. \A k \in 1..len : LineByte(look, "data", s, k) \in Byte
    BY ByteFacts DEF Kinds
  <1>2. Response(s, len, look) \in [1..len -> Byte]
    BY <1>1 DEF Response
  <1>3. Response(s, len, look) \in Seq(Byte) /\ Len(Response(s, len, look)) = len
    BY <1>2
  <1>4. \A k \in 1..len : Response(s, len, look)[k] = LineByte(look, "data", s, k)
    BY DEF Response
  <1> QED BY <1>3, <1>4, ByteFacts DEF IsData

\* A part of the command is that part.
LEMMA CmdPartFacts ==
  ASSUME NEW n \in Nat, NEW from \in Int, apdu.serial \in Int
  PROVE  /\ [k \in 1..n |-> CmdByte(from + k)] \in Seq(Byte)
         /\ Len([k \in 1..n |-> CmdByte(from + k)]) = n
         /\ \A i \in 1..n : [k \in 1..n |-> CmdByte(from + k)][i] = CmdByte(from + i)
  <1>1. \A k \in 1..n : CmdByte(from + k) \in Byte
    BY ByteFacts DEF Kinds, Looks, CmdByte
  <1>2. [k \in 1..n |-> CmdByte(from + k)] \in [1..n -> Byte]
    BY <1>1
  <1> QED BY <1>2

-----------------------------------------------------------------------------
(* Sequences.                                                              *)

\* What Append, Tail and \o do to a sequence.
LEMMA AppendFacts ==
  ASSUME NEW S, NEW s \in Seq(S), NEW e \in S
  PROVE  /\ Append(s, e) \in Seq(S) /\ Len(Append(s, e)) = Len(s) + 1
         /\ \A i \in 1..Len(s) : Append(s, e)[i] = s[i]
         /\ Append(s, e)[Len(s) + 1] = e
  OBVIOUS

LEMMA TailFacts ==
  ASSUME NEW S, NEW s \in Seq(S), s # << >>
  PROVE  /\ Tail(s) \in Seq(S) /\ Len(Tail(s)) = Len(s) - 1 /\ Len(s) > 0
         /\ \A i \in 1..(Len(s) - 1) : Tail(s)[i] = s[i + 1]
         /\ Head(s) = s[1] /\ Head(s) \in S
  OBVIOUS

LEMMA ConcatFacts ==
  ASSUME NEW S, NEW s \in Seq(S), NEW t \in Seq(S)
  PROVE  /\ s \o t \in Seq(S) /\ Len(s \o t) = Len(s) + Len(t)
         /\ \A i \in 1..Len(s) : (s \o t)[i] = s[i]
         /\ \A i \in 1..Len(t) : (s \o t)[Len(s) + i] = t[i]
  OBVIOUS

\* Sequences with the same elements are the same.
LEMMA SameSequence ==
  ASSUME NEW S, NEW s \in Seq(S), NEW t \in Seq(S), Len(s) = Len(t),
         \A i \in 1..Len(s) : s[i] = t[i]
  PROVE  s = t
  OBVIOUS

\* A pair behind a sequence.
LEMMA PairFacts ==
  ASSUME NEW S, NEW g \in Seq(S), NEW s \in Seq(S), Len(s) = 2
  PROVE  /\ s[1] \in S /\ s[2] \in S /\ Len(g) \in Nat
         /\ g \o s \in Seq(S) /\ Len(g \o s) = Len(g) + 2
         /\ \A i \in 1..Len(g) : (g \o s)[i] = g[i]
         /\ (g \o s)[Len(g) + 1] = s[1] /\ (g \o s)[Len(g) + 2] = s[2]
  <1>1. 1 \in 1..Len(s) /\ 2 \in 1..Len(s) /\ Len(g) \in Nat
    OBVIOUS
  <1>2. \A t \in Seq(S) : \A i \in 1..Len(t) : t[i] \in S
    OBVIOUS
  <1>3. s[1] \in S /\ s[2] \in S
    BY <1>1, <1>2
  <1> DEFINE c == g \o s
  <1>4. /\ c \in Seq(S) /\ Len(c) = Len(g) + Len(s)
        /\ \A i \in 1..Len(g) : c[i] = g[i]
        /\ \A i \in 1..Len(s) : c[Len(g) + i] = s[i]
    BY ConcatFacts
  <1> HIDE DEF c
  <1>5. c[Len(g) + 1] = s[1] /\ c[Len(g) + 2] = s[2]
    BY <1>1, <1>4
  <1> QED BY <1>1, <1>3, <1>4, <1>5 DEF c

\* SW1 and SW2, read one by one, are the status word.
LEMMA TwoBytes ==
  ASSUME NEW S, NEW g \in Seq(S), NEW s \in Seq(S), Len(s) = 2
  PROVE  Append(Append(g, s[1]), s[2]) = g \o s
  <1> DEFINE a == Append(g, s[1])
             b == Append(a, s[2])
             c == g \o s
  <1>1. s[1] \in S /\ s[2] \in S
    BY PairFacts
  <1>2. /\ a \in Seq(S) /\ Len(a) = Len(g) + 1 /\ \A i \in 1..Len(g) : a[i] = g[i]
        /\ a[Len(g) + 1] = s[1] /\ Len(g) \in Nat
    BY <1>1, AppendFacts
  <1> HIDE DEF a
  <1>3. /\ b \in Seq(S) /\ Len(b) = Len(a) + 1 /\ \A i \in 1..Len(a) : b[i] = a[i]
        /\ b[Len(a) + 1] = s[2]
    BY <1>1, <1>2, AppendFacts
  <1>4. /\ c \in Seq(S) /\ Len(c) = Len(g) + 2 /\ \A i \in 1..Len(g) : c[i] = g[i]
        /\ c[Len(g) + 1] = s[1] /\ c[Len(g) + 2] = s[2]
    BY PairFacts
  <1> HIDE DEF b, c
  <1>5. \A i \in 1..Len(b) : b[i] = c[i]
    <2> TAKE i \in 1..Len(b)
    <2>1. i \in 1..Len(g) \/ i = Len(g) + 1 \/ i = Len(g) + 2
      BY <1>2, <1>3
    <2>2. i \in 1..Len(g) => i \in 1..Len(a)
      BY <1>2
    <2>3. CASE i \in 1..Len(g)
      BY <1>2, <1>3, <1>4, <2>2, <2>3
    <2>4. CASE i = Len(g) + 1
      <3>1. i \in 1..Len(a)
        BY <1>2, <2>4
      <3> QED BY <1>2, <1>3, <1>4, <2>4, <3>1
    <2>5. CASE i = Len(g) + 2
      <3>1. i = Len(a) + 1
        BY <1>2, <2>5
      <3> QED BY <1>3, <1>4, <2>5, <3>1
    <2> QED BY <2>1, <2>3, <2>4, <2>5
  <1>6. Len(b) = Len(c)
    BY <1>2, <1>3, <1>4
  <1>7. b = c
    BY ONLY <1>3, <1>4, <1>5, <1>6, SameSequence
  <1> QED BY <1>7 DEF a, b, c

-----------------------------------------------------------------------------
(* The invariant of the line: what the card does and what the host has read. *)

\* How much the header asks for, what the card remembers of a command, and
\* whether it has executed the current one.
D == Decoded(tpdu.p3)
Execution == [serial : Nat, bytes : Seq(Byte), ok : BOOLEAN]
Performed == \E i \in DOMAIN executed : executed[i].serial = apdu.serial

\* The types of the host and of the card.
HostTypes ==
  /\ pc \in {"idle", "procedure", "status2", "byte", "block"}
  /\ stage \in {"command", "reissue", "get"}
  /\ apdu \in [cse : Cases, serial : Nat, lc : 0..(MaxLe - 1), le : 0..(MaxLe - 1),
               hasLe : BOOLEAN]
  /\ tpdu.cse \in Cases /\ tpdu.p3 \in 0..(MaxLe - 1)
  /\ rsp \in Seq(Byte) /\ Len(rsp) <= MaxLe + 2
  /\ spointer \in 0..apdu.lc /\ nulls \in Nat
  /\ ret \in Errors \cup {"OK", "busy", "reset", "BAD_PARAM"}
  /\ serial \in 0..Len(Commands) /\ clean \in BOOLEAN /\ striped \in BOOLEAN

CardTypes ==
  /\ cst \in {"header", "take", "give", "end", "tail"}
  /\ toCard \in Seq(Byte) /\ got \in Seq(Byte) /\ avail \in Seq(Byte)
  /\ executed \in Seq(Execution)

\* A header on its way.
HeaderByte(ins, n) == LineByte("other", ins, apdu.serial, n)

\* The card between header and status, whether or not the host still listens: the
\* header it waits for is the one of the TPDU, and of a command that is not case 2
\* one the card has not executed; the bytes it takes are those of the command, in
\* order, and no more are on the way than it has asked for.
CardSide ==
  /\ pc # "idle" \/ ~clean => apdu.serial = serial
  /\ HasData(apdu.cse) => apdu.lc > 0
  /\ \A i \in DOMAIN executed : executed[i].serial <= serial
  /\ cst = "header" =>
        \/ toCard = << >>
        \/ \E ins \in {"cmd", "getrsp"}, n \in 0..(MaxLe - 1) :
              /\ toCard = <<HeaderByte(ins, n)>>
              /\ ins = "cmd" /\ apdu.cse # 2 => n = P3(apdu) /\ ~Performed
  /\ cst = "take" =>
        /\ HasData(apdu.cse) /\ ~Performed
        /\ \A k \in 1..Len(got) : got[k] = CmdByte(k)
        /\ want = apdu.lc - Len(got) /\ want > 0 /\ expect \in 0..want
        /\ Len(toCard) <= expect
        /\ \A k \in 1..Len(toCard) : toCard[k] = CmdByte(Len(got) + k)
  /\ cst # "take" => expect = 0
  /\ cst \in {"give", "end", "tail"} => toCard = << >>

\* The response the card holds is of the current command.
AvailOwn ==
  /\ Len(avail) \in RspLens
  /\ \A k \in 1..Len(avail) : IsData(avail[k]) /\ avail[k].val[2] = apdu.serial

\* The line ends with the status word.
EndsWithStatus ==
  /\ toHost[Len(toHost) - 1] = status[1]
  /\ toHost[Len(toHost)] = status[2]

\* The first p bytes of the line while the card sends byte by byte: NULLs, and
\* ~ACKs each with its byte of data.  nr[i] is how many bytes of data the host has
\* when it has read i of them.
Parts(p, nr) ==
  /\ p \in 0..Len(toHost) /\ nr \in [0..p -> 0..Len(gave)]
  /\ nr[0] = Len(rsp)
  /\ \A i \in 1..p :
        \/ toHost[i] = NullB /\ nr[i] = nr[i - 1]
        \/ /\ toHost[i] = NackB /\ nr[i] = nr[i - 1]
           /\ i < p /\ IsData(toHost[i + 1])
        \/ /\ toHost[i] = avail[nr[i]] /\ nr[i] = nr[i - 1] + 1
           /\ IF i = 1 THEN pc = "byte" ELSE toHost[i - 1] = NackB
  /\ pc = "byte" => p > 0 /\ IsData(toHost[1])

\* What may follow them: nothing yet, the status word, or a block.
Stepwise(p, nr) ==
  cst \in {"give", "end"} /\ Len(toHost) = p /\ nr[p] = Len(gave)

WithStatus(p, nr) ==
  cst = "header" /\ Len(toHost) = p + 2 /\ nr[p] = Len(gave) /\ EndsWithStatus

\* Behind the first from bytes there is, from byte n + 1 of the data on, all that
\* was asked for, and the status word if the card has sent it.
AllGiven(from, n) ==
  /\ tpdu.cse = 2 /\ Len(gave) = D /\ n < D
  /\ \/ cst = "tail" /\ Len(toHost) = from + (D - n)
     \/ cst = "header" /\ Len(toHost) = from + (D - n) + 2 /\ EndsWithStatus
  /\ \A k \in (n + 1)..D : toHost[from + k - n] = avail[k]
WithBlock(p, nr) == toHost[p + 1] = AckB /\ AllGiven(p + 1, nr[p])

\* The three reads in which the host can be while the card answers: the loop, the
\* block behind an ACK, the second byte of the status word.
Stream ==
  /\ pc \in {"procedure", "byte"}
  /\ \E p, nr : /\ Parts(p, nr)
                /\ Stepwise(p, nr) \/ WithStatus(p, nr) \/ WithBlock(p, nr)
Block == pc = "block" /\ AllGiven(0, Len(rsp))

Second == pc = "status2" /\ cst = "header" /\ toHost = <<status[2]>>
          /\ rsp = Append(gave, status[1])

\* The header is with the card, which has not looked at it.
Waiting ==
  /\ cst = "header" /\ pc = "procedure" /\ toHost = << >>
  /\ rsp = << >> /\ spointer = 0
  /\ toCard = <<HeaderByte(IF stage = "get" THEN "getrsp" ELSE "cmd", tpdu.p3)>>

\* The card has asked for bytes of the command, or has been sent them.
Asked ==
  /\ toCard = << >> /\ spointer = Len(got)
  /\ \E p \in 0..Len(toHost) :
        /\ \A i \in 1..p : toHost[i] = NullB
        /\ \/ Len(toHost) = p /\ expect = 0
           \/ Len(toHost) = p + 1 /\ toHost[p + 1] = AckB /\ expect = want
           \/ Len(toHost) = p + 1 /\ toHost[p + 1] = NackB /\ expect = 1

Answered ==
  /\ toHost = << >> /\ expect > 0 /\ Len(toCard) = expect
  /\ \/ spointer <= Len(got) /\ expect = want
     \/ spointer = Len(got) + expect

Taking ==
  /\ cst = "take" /\ stage = "command" /\ pc = "procedure"
  /\ rsp = << >> /\ gave = << >>
  /\ Asked \/ Answered

\* The status word the card has in mind, and what it commits it to.
StatusDue(k, n) ==
  /\ status = StatusWord(k, n)
  /\ k \in {"6C", "61"} => AvailOwn /\ n = Coded(Len(avail))
  /\ k = "6C" => apdu.cse = 2
  /\ k = "61" => stage # "get" /\ (apdu.cse = 4 \/ (apdu.cse = 2 /\ Case2Fetch))
  /\ cst \in {"give", "tail"} \/ gave # << >> =>
        k = "90" /\ tpdu.cse = 2 /\ AvailOwn /\ D <= Len(avail)

\* What the card has given is the beginning of what it holds, what it is about to
\* give the rest, and what the host has collected a part of the former.
Given ==
  /\ gave \in Seq(Byte) /\ Len(gave) <= Len(avail)
  /\ \A k \in 1..Len(gave) : gave[k] = avail[k]
  /\ cst = "give" => /\ Len(gave) < D /\ rest \in Seq(Byte)
                     /\ Len(rest) = D - Len(gave)
                     /\ \A k \in 1..Len(rest) : rest[k] = avail[Len(gave) + k]
  /\ cst # "give" => gave = << >> \/ Len(gave) = D
  /\ pc # "status2" => /\ Len(rsp) <= Len(gave)
                       /\ \A k \in 1..Len(rsp) : rsp[k] = avail[k]

\* The card answers.
Telling ==
  /\ cst # "take" /\ toCard = << >> /\ Performed
  /\ \E k \in {"90", "6F", "6C", "61"}, n \in 0..(MaxLe - 1) : StatusDue(k, n)
  /\ Given
  /\ Stream \/ Block \/ Second

\* Which TPDU of the APDU it is.
Stages ==
  /\ stage = "command" => tpdu.cse = apdu.cse /\ tpdu.p3 = P3(apdu)
  /\ stage # "command" => tpdu.cse = 2 /\ Performed
  /\ stage = "reissue" => apdu.cse = 2
  /\ stage = "get" => /\ apdu.cse = 4 \/ (apdu.cse = 2 /\ Case2Fetch)
                      /\ AvailOwn /\ D <= Len(avail)

\* During a call one of the three holds; between calls the card waits.
Busy ==
  pc # "idle" =>
    /\ clean /\ ret = "busy" /\ toHost \in Seq(Byte)
    /\ Stages
    /\ Waiting \/ Taking \/ Telling
Idle == pc = "idle" => ret # "busy" /\ (clean => cst = "header" /\ toCard = << >>)

\* A call that ends well: the command has been executed, the answer is its own,
\* and a 61 that is left is one of MaxLe bytes, coded as 0, which scT0SendAPDU
\* takes for nothing.
Outcome ==
  ret = "OK" =>
    /\ pc = "idle" /\ clean /\ apdu.serial = serial /\ Performed
    /\ apduRsp \in Seq(Byte) /\ Len(apduRsp) > 1 /\ apduRsp[1].val[2] = serial
    /\ Kind(status[1]) = "61" => MaxLe \in RspLens

\* The inductive invariant.
LinkInv ==
  /\ HostTypes /\ CardTypes /\ CardSide /\ Busy /\ Idle /\ Outcome
  /\ CardGetsCommand

-----------------------------------------------------------------------------
(* It holds at first, and in every step of the card.                       *)

\* Nothing has been sent.
LEMMA LinkInit ==
  ASSUME Init, Orderly
  PROVE  LinkInv
  <1>1. HostTypes /\ CardTypes
    <2>1. Len(Commands) \in Nat
      BY DEF Orderly
    <2>2. apdu \in [cse : Cases, serial : Nat, lc : 0..(MaxLe - 1), le : 0..(MaxLe - 1),
                   hasLe : BOOLEAN]
      BY LimitsAssumption DEF Init, HostInit, NoAPDU, Cases
    <2>3. apdu.lc = 0
      BY DEF Init, HostInit, NoAPDU
    <2>4. HostTypes
      <3>1. 0 \in 0..(MaxLe - 1) /\ 0 \in 0..0 /\ 0 \in 0..Len(Commands) /\ 0 <= MaxLe + 2
        BY <2>1, LimitsAssumption
      <3>2. striped \in BOOLEAN /\ clean \in BOOLEAN
        BY DEF Init, HostInit
      <3>3. rsp \in Seq(Byte) /\ Len(rsp) <= MaxLe + 2
        BY LimitsAssumption DEF Init, HostInit
      <3>4. serial \in 0..Len(Commands) /\ spointer \in 0..apdu.lc
        BY <2>3, <3>1 DEF Init, HostInit
      <3>5. tpdu.cse \in Cases /\ tpdu.p3 \in 0..(MaxLe - 1)
        BY <3>1 DEF Init, HostInit, Cases
      <3>6. ret \in Errors \cup {"OK", "busy", "reset", "BAD_PARAM"}
        BY DEF Init, HostInit
      <3>7. nulls \in Nat /\ stage = "command" /\ pc = "idle"
        BY DEF Init, HostInit
      <3> QED BY <2>2, <3>2, <3>3, <3>4, <3>5, <3>6, <3>7 DEF HostTypes
    <2> QED BY <2>4 DEF Init, HostInit, CardInit, CardTypes
  <1>2. CardSide /\ Idle /\ CardGetsCommand /\ Outcome /\ Busy
    BY DEF Init, HostInit, CardInit, NoAPDU, CardSide, Idle, Outcome, Busy, CardGetsCommand,
           HasData
  <1> QED BY <1>1, <1>2 DEF LinkInv

\* Between calls, and while nothing has failed, the card does not move.
LEMMA CardWaits ==
  ASSUME LinkInv, pc = "idle", clean, CardStep
  PROVE  FALSE
  BY DEF LinkInv, Idle, CardStep, CardRefuses, CardCase1, CardCase2, CardCase3, CardGetResponse,
         TakesHeader, CardAsks, CardTakes, CardGivesAll, CardGivesOne, CardStatus, CardNull

\* What the card has executed is one more.
LEMMA ExecutesFacts ==
  ASSUME CardTypes, HostTypes, NEW ok \in BOOLEAN, Executes(ok), UNCHANGED apdu,
         got' \in Seq(Byte)
  PROVE  /\ executed' \in Seq(Execution)
         /\ DOMAIN executed' = 1..(Len(executed) + 1)
         /\ DOMAIN executed = 1..Len(executed)
         /\ \A i \in DOMAIN executed : executed'[i] = executed[i]
         /\ executed'[Len(executed) + 1] = [serial |-> apdu.serial, bytes |-> got', ok |-> ok]
         /\ Performed'
  <1> DEFINE e == [serial |-> apdu.serial, bytes |-> got', ok |-> ok]
  <1>1. e \in Execution
    BY DEF HostTypes, Execution
  <1>2. executed' = Append(executed, e) /\ executed \in Seq(Execution)
    BY DEF Executes, CardTypes
  <1> HIDE DEF e
  <1>3. /\ executed' \in Seq(Execution)
        /\ DOMAIN executed' = 1..(Len(executed) + 1)
        /\ DOMAIN executed = 1..Len(executed)
        /\ \A i \in DOMAIN executed : executed'[i] = executed[i]
        /\ executed'[Len(executed) + 1] = e
    BY <1>1, <1>2
  <1>4. Performed'
    <2>1. Len(executed) + 1 \in DOMAIN executed' /\ e.serial = apdu.serial
      BY <1>2, <1>3 DEF e
    <2> QED BY <1>3, <2>1 DEF Performed
  <1> QED BY <1>3, <1>4 DEF e

\* A command executed for the first time, or again for its length, leaves
\* CardGetsCommand true.
LEMMA ExecutesOnce ==
  ASSUME CardTypes, HostTypes, CardSide, CardGetsCommand, NEW ok \in BOOLEAN, Executes(ok),
         UNCHANGED apdu, UNCHANGED serial, got' \in Seq(Byte), apdu.cse = 2 \/ ~Performed,
         ok /\ HasData(apdu.cse) => got' = [k \in 1..apdu.lc |-> CmdByte(k)],
         apdu.serial = serial
  PROVE  CardGetsCommand' /\ \A i \in DOMAIN executed' : executed'[i].serial <= serial'
  <1> DEFINE e == [serial |-> apdu.serial, bytes |-> got', ok |-> ok]
             n == Len(executed) + 1
  <1>1. /\ DOMAIN executed' = 1..n /\ DOMAIN executed = 1..Len(executed) /\ n \in Nat
        /\ \A i \in DOMAIN executed : executed'[i] = executed[i]
        /\ executed'[n] = e
    BY ExecutesFacts DEF CardTypes
  <1>2. \A i \in DOMAIN executed' : i \in DOMAIN executed \/ i = n
    BY <1>1
  <1>3. \A k : CmdByte(k)' = CmdByte(k)
    BY DEF CmdByte
  <1>4. e.serial = apdu.serial /\ e.bytes = got' /\ e.ok = ok
    OBVIOUS
  <1> HIDE DEF e, n
  <1>5. ASSUME NEW i \in DOMAIN executed', executed'[i].ok,
               executed'[i].serial = apdu.serial, HasData(apdu.cse)
        PROVE  executed'[i].bytes = [k \in 1..apdu.lc |-> CmdByte(k)]
    <2>1. CASE i \in DOMAIN executed
      BY <1>1, <1>5, <2>1 DEF CardGetsCommand
    <2>2. CASE i = n
      BY <1>1, <1>4, <1>5, <2>2
    <2> QED BY <1>2, <2>1, <2>2
  <1>6. ASSUME NEW i \in DOMAIN executed', NEW j \in DOMAIN executed', i # j,
               executed'[j].serial = executed'[i].serial, executed'[i].serial = apdu.serial
        PROVE  apdu.cse = 2
    <2>1. CASE i \in DOMAIN executed /\ j \in DOMAIN executed
      BY <1>1, <1>6, <2>1 DEF CardGetsCommand
    <2>2. CASE i = n \/ j = n
      BY <1>1, <1>2, <1>6, <2>2 DEF Performed
    <2> QED BY <1>2, <2>1, <2>2
  <1>7. \A i \in DOMAIN executed' : executed'[i].serial <= serial'
    <2>1. serial <= serial
      BY DEF HostTypes
    <2> QED BY <1>1, <1>2, <1>4, <2>1 DEF CardSide
  <1> QED BY <1>3, <1>5, <1>6, <1>7 DEF CardGetsCommand

\* A step of the card.
HostStays == UNCHANGED hostVars /\ UNCHANGED sessionVars

LEMMA HostStaysFacts ==
  ASSUME HostStays
  PROVE  /\ UNCHANGED <<pc, stage, apdu, striped, tpdu, rsp, spointer, nulls, apduRsp, sw, ret,
                        serial, clean, wantLe>>
         /\ \A k : CmdByte(k)' = CmdByte(k)
         /\ \A ins, n : HeaderByte(ins, n)' = HeaderByte(ins, n)
         /\ \A k, n : StatusWord(k, n)' = StatusWord(k, n)
         /\ D' = D
  BY DEF HostStays, hostVars, sessionVars, CmdByte, HeaderByte, StatusWord, D

\* In every card step the host goes on as it was.
LEMMA HostPart ==
  ASSUME LinkInv, HostStays, pc # "idle" \/ ~clean
  PROVE  /\ HostTypes' /\ Idle' /\ Outcome'
         /\ ( /\ Stages /\ Performed' /\ (AvailOwn => AvailOwn')
              /\ (stage = "get" => UNCHANGED avail) ) => Stages'
  <1>1. HostTypes'
    BY HostStaysFacts DEF LinkInv, HostTypes
  <1>2. ret # "OK"
    BY DEF LinkInv, Outcome
  <1>3. Idle' /\ Outcome'
    BY <1>2, HostStaysFacts DEF LinkInv, Idle, Outcome
  <1>4. ( /\ Stages /\ Performed' /\ (AvailOwn => AvailOwn')
          /\ (stage = "get" => UNCHANGED avail) ) => Stages'
    BY HostStaysFacts DEF Stages, P3
  <1> QED BY <1>1, <1>3, <1>4

\* Le coded and decoded, within a byte.
LEMMA LimitFacts ==
  ASSUME HostTypes
  PROVE  /\ MaxLe \in Nat /\ MaxLe > 0 /\ D \in 1..MaxLe
         /\ P3(apdu) \in 0..(MaxLe - 1)
         /\ \A n \in 0..(MaxLe - 1) : Decoded(n) \in 1..MaxLe
         /\ \A len \in 1..MaxLe : Coded(len) \in 0..(MaxLe - 1) /\ Decoded(Coded(len)) = len
  <1>1. MaxLe \in Nat /\ MaxLe > 0
    BY LimitsAssumption
  <1>2. \A n \in 0..(MaxLe - 1) : Decoded(n) \in 1..MaxLe
    BY <1>1 DEF Decoded
  <1>3. ASSUME NEW len \in 1..MaxLe
        PROVE  Coded(len) \in 0..(MaxLe - 1) /\ Decoded(Coded(len)) = len
    <2>1. CASE len = MaxLe
      <3>1. len % MaxLe = 0
        BY <1>1, <2>1
      <3> QED BY <1>1, <2>1, <3>1 DEF Coded, Decoded
    <2>2. CASE len < MaxLe
      <3>1. len % MaxLe = len
        BY <1>1, <2>2
      <3> QED BY <1>1, <2>2, <3>1 DEF Coded, Decoded
    <2> QED BY <1>1, <2>1, <2>2
  <1>4. D \in 1..MaxLe
    BY <1>2 DEF D, HostTypes
  <1>5. P3(apdu) \in 0..(MaxLe - 1)
    BY <1>1 DEF P3, HostTypes
  <1> QED BY <1>1, <1>2, <1>3, <1>4, <1>5

\* The card takes a header: the host waits for its answer to this very one.
LEMMA TakesHeaderFacts ==
  ASSUME LinkInv, NEW ins \in {"cmd", "getrsp"}, TakesHeader(ins)
  PROVE  /\ pc # "idle" \/ ~clean
         /\ toCard' = << >> /\ apdu.serial = serial
         /\ HeaderP3 \in 0..(MaxLe - 1)
         /\ ins = "cmd" /\ apdu.cse # 2 => HeaderP3 = P3(apdu) /\ ~Performed
         /\ pc # "idle" => /\ Waiting /\ HeaderP3 = tpdu.p3 /\ Stages
                           /\ ins = "getrsp" <=> stage = "get"
  <1>1. cst = "header" /\ toCard # << >> /\ Kind(Head(toCard)) = ins /\ toCard' = Tail(toCard)
    BY DEF TakesHeader
  <1>2. PICK i \in {"cmd", "getrsp"}, n \in 0..(MaxLe - 1) :
           /\ toCard = <<HeaderByte(i, n)>>
           /\ i = "cmd" /\ apdu.cse # 2 => n = P3(apdu) /\ ~Performed
    BY <1>1 DEF LinkInv, CardSide
  <1>3. Head(toCard) = HeaderByte(i, n) /\ toCard' = << >>
    BY <1>1, <1>2
  <1>4. i = ins /\ HeaderP3 = n
    BY <1>1, <1>3, ByteFacts DEF HeaderByte, HeaderP3
  <1>5. (pc # "idle" \/ ~clean) /\ apdu.serial = serial
    BY <1>1 DEF LinkInv, Idle, CardSide
  <1>6. ASSUME pc # "idle"
        PROVE  Waiting /\ Stages /\ HeaderP3 = tpdu.p3 /\ (ins = "getrsp" <=> stage = "get")
    <2>1. Waiting /\ Stages
      BY <1>1, <1>6 DEF LinkInv, Busy, Taking, Telling
    <2>2. toCard = <<HeaderByte(IF stage = "get" THEN "getrsp" ELSE "cmd", tpdu.p3)>>
      BY <2>1 DEF Waiting
    <2>3. HeaderByte(ins, n) = HeaderByte(IF stage = "get" THEN "getrsp" ELSE "cmd", tpdu.p3)
      BY <1>2, <1>4, <2>2
    <2>4. /\ ins = IF stage = "get" THEN "getrsp" ELSE "cmd"
          /\ n = tpdu.p3
      BY <2>3, ByteFacts DEF HeaderByte
    <2> QED BY <1>4, <2>1, <2>4
  <1> QED BY <1>2, <1>3, <1>4, <1>5, <1>6

\* The card begins to answer: nothing is on the line yet.
LEMMA TellsFromStart ==
  ASSUME LinkInv, HostStays, pc = "procedure", toHost = << >>, rsp = << >>, toCard' = << >>,
         gave' = << >>, UNCHANGED toHost, Performed', cst' \in {"give", "end"}, avail' \in Seq(Byte),
         \E k \in {"90", "6F", "6C", "61"}, n \in 0..(MaxLe - 1) : StatusDue(k, n)',
         cst' = "give" => /\ rest' \in Seq(Byte) /\ Len(rest') = D
                          /\ \A k \in 1..Len(rest') : rest'[k] = avail'[k]
  PROVE  Telling' /\ toHost' \in Seq(Byte)
  <1> USE HostStaysFacts, LimitFacts DEF LinkInv
  <1>1. toHost' = << >> /\ rsp' = << >> /\ pc' = "procedure"
    OBVIOUS
  <1>2. Given'
    BY <1>1 DEF Given
  <1>3. Stream'
    <2> DEFINE nr == [i \in 0..0 |-> 0]
    <2>1. Parts(0, nr)'
      BY <1>1 DEF Parts
    <2>2. Stepwise(0, nr)'
      BY <1>1 DEF Stepwise
    <2> QED BY <1>1, <2>1, <2>2 DEF Stream
  <1>4. toHost' \in Seq(Byte)
    BY <1>1
  <1> QED BY <1>1, <1>2, <1>3, <1>4 DEF Telling

\* What has to be shown of a card step.
LEMMA StepConclusion ==
  ASSUME LinkInv, HostStays, pc # "idle" \/ ~clean, CardTypes', CardSide', CardGetsCommand',
         pc # "idle" => /\ (Waiting \/ Taking \/ Telling)' /\ Stages' /\ toHost' \in Seq(Byte)
  PROVE  LinkInv'
  <1>1. HostTypes' /\ Idle' /\ Outcome'
    BY HostPart
  <1>2. Busy'
    BY HostStaysFacts DEF LinkInv, Busy
  <1> QED BY <1>1, <1>2 DEF LinkInv

\* The card has dealt with the command as soon as it has read the header.
LEMMA HeaderOnly ==
  ASSUME LinkInv, HostStays, TakesHeader("cmd"), NEW ok \in BOOLEAN, Executes(ok),
         got' = << >>, ok => ~HasData(apdu.cse), avail' \in Seq(Byte),
         cst' \in {"give", "end"},
         \E k \in {"90", "6F", "6C", "61"}, n \in 0..(MaxLe - 1) :
             pc # "idle" => StatusDue(k, n)',
         cst' = "give" => /\ rest' \in Seq(Byte) /\ (pc # "idle" => Len(rest') = D)
                          /\ \A k \in 1..Len(rest') : rest'[k] = avail'[k],
         AvailOwn' \/ UNCHANGED avail
  PROVE  LinkInv'
  <1> USE HostStaysFacts DEF LinkInv
  <1>1. /\ pc # "idle" \/ ~clean
        /\ toCard' = << >> /\ apdu.serial = serial
        /\ apdu.cse # 2 => ~Performed
        /\ pc # "idle" => Waiting /\ Stages /\ stage # "get"
    BY TakesHeaderFacts
  <1>2. gave' = << >> /\ UNCHANGED <<toHost, expect>> /\ cst = "header"
    BY DEF TakesHeader
  <1>3. got' \in Seq(Byte)
    OBVIOUS
  <1>4. CardGetsCommand' /\ \A i \in DOMAIN executed' : executed'[i].serial <= serial'
    BY <1>1, <1>3, ExecutesOnce
  <1>5. executed' \in Seq(Execution) /\ Performed'
    BY <1>3, ExecutesFacts
  <1>6. CardTypes'
    BY <1>1, <1>3, <1>5 DEF CardTypes
  <1>7. CardSide'
    BY <1>1, <1>2, <1>4 DEF CardSide
  <1>8. ASSUME pc # "idle"
        PROVE  /\ (Waiting \/ Taking \/ Telling)' /\ Stages' /\ toHost' \in Seq(Byte)
    <2>1. Telling' /\ toHost' \in Seq(Byte)
      BY <1>1, <1>2, <1>5, <1>8, TellsFromStart DEF Waiting
    <2>2. Stages'
      BY <1>1, <1>5, <1>8 DEF Stages, P3
    <2> QED BY <2>1, <2>2
  <1> QED BY <1>1, <1>4, <1>6, <1>7, <1>8, StepConclusion

\* The steps that begin an answer or a command: refusal, case 1, case 2 with its
\* three answers, case 3 and 4, GET RESPONSE.
LEMMA CardRefusesInv ==
  ASSUME LinkInv, HostStays, CardRefuses
  PROVE  LinkInv'
  <1> USE HostStaysFacts DEF LinkInv
  <1>1. /\ TakesHeader("cmd") /\ got' = << >> /\ Executes(FALSE) /\ Ends("6F", 0)
        /\ UNCHANGED avail
    BY DEF CardRefuses
  <1>2. cst' = "end" /\ gave' = << >> /\ status' = StatusWord("6F", 0)
    BY <1>1 DEF Ends, TakesHeader
  <1>3. StatusDue("6F", 0)'
    BY <1>2 DEF StatusDue
  <1>4. 0 \in 0..(MaxLe - 1)
    BY LimitFacts
  <1>5. avail' \in Seq(Byte)
    BY <1>1 DEF CardTypes
  <1> QED BY <1>1, <1>2, <1>3, <1>4, <1>5, HeaderOnly

LEMMA CardCase1Inv ==
  ASSUME LinkInv, HostStays, CardCase1
  PROVE  LinkInv'
  <1> USE HostStaysFacts DEF LinkInv
  <1>1. /\ TakesHeader("cmd") /\ got' = << >> /\ Executes(TRUE) /\ Ends("90", 0)
        /\ UNCHANGED avail /\ apdu.cse = 1
    BY DEF CardCase1
  <1>2. cst' = "end" /\ gave' = << >> /\ status' = StatusWord("90", 0)
    BY <1>1 DEF Ends, TakesHeader
  <1>3. StatusDue("90", 0)'
    BY <1>2 DEF StatusDue
  <1>4. 0 \in 0..(MaxLe - 1)
    BY LimitFacts
  <1>5. avail' \in Seq(Byte) /\ ~HasData(apdu.cse)
    BY <1>1 DEF CardTypes, HasData
  <1> QED BY <1>1, <1>2, <1>3, <1>4, <1>5, HeaderOnly

\* A response the card makes up is of the current command.
LEMMA AvailFacts ==
  ASSUME HostTypes, NEW len \in RspLens, NEW look \in DataLooks, UNCHANGED apdu,
         avail' = Response(apdu.serial, len, look)
  PROVE  avail' \in Seq(Byte) /\ Len(avail') = len /\ len \in 1..MaxLe /\ AvailOwn'
  <1>1. len \in 1..MaxLe /\ look \in Looks /\ apdu.serial \in Int
    BY SessionAssumption DEF HostTypes
  <1>2. len \in Nat
    BY <1>1, LimitsAssumption
  <1> QED BY <1>1, <1>2, ResponseFacts DEF AvailOwn

LEMMA CardCase2Inv ==
  ASSUME LinkInv, HostStays, CardCase2
  PROVE  LinkInv'
  <1> USE HostStaysFacts DEF LinkInv
  <1>1. TakesHeader("cmd") /\ got' = << >> /\ Executes(TRUE) /\ apdu.cse = 2
    BY DEF CardCase2
  <1>2. PICK len \in RspLens, look \in DataLooks :
           /\ avail' = Response(apdu.serial, len, look)
           /\ \/ Ends("6C", Coded(len))
              \/ Case2Fetch /\ Ends("61", Coded(len))
              \/ /\ len >= Decoded(HeaderP3)
                 /\ cst' = "give" /\ status' = StatusWord("90", 0)
                 /\ rest' = SubSeq(avail', 1, Decoded(HeaderP3))
    BY DEF CardCase2
  <1>3. avail' \in Seq(Byte) /\ Len(avail') = len /\ len \in 1..MaxLe /\ AvailOwn'
    BY <1>2, AvailFacts
  <1>4. Coded(len) \in 0..(MaxLe - 1) /\ Coded(len)' = Coded(len)
    BY <1>3, LimitFacts
  <1>5. /\ pc # "idle" => Waiting /\ Stages /\ stage # "get" /\ HeaderP3 = tpdu.p3
        /\ HeaderP3 \in 0..(MaxLe - 1)
    BY <1>1, TakesHeaderFacts
  <1>6. gave' = << >>
    BY <1>1 DEF TakesHeader
  <1>7. ~HasData(apdu.cse)
    BY <1>1 DEF HasData
  <1>8. CASE Ends("6C", Coded(len))
    <2>1. cst' = "end" /\ status' = StatusWord("6C", Coded(len))
      BY <1>8 DEF Ends
    <2>2. StatusDue("6C", Coded(len))'
      BY <1>1, <1>3, <1>6, <2>1 DEF StatusDue
    <2> QED BY <1>1, <1>3, <1>4, <1>7, <2>1, <2>2, HeaderOnly
  <1>9. CASE Case2Fetch /\ Ends("61", Coded(len))
    <2>1. cst' = "end" /\ status' = StatusWord("61", Coded(len))
      BY <1>9 DEF Ends
    <2>2. pc # "idle" => StatusDue("61", Coded(len))'
      BY <1>1, <1>3, <1>5, <1>6, <1>9, <2>1 DEF StatusDue
    <2> QED BY <1>1, <1>3, <1>4, <1>7, <2>1, <2>2, HeaderOnly
  <1>10. CASE /\ len >= Decoded(HeaderP3)
              /\ cst' = "give" /\ status' = StatusWord("90", 0)
              /\ rest' = SubSeq(avail', 1, Decoded(HeaderP3))
    <2>1. Decoded(HeaderP3) \in 1..MaxLe /\ (pc # "idle" => Decoded(HeaderP3) = D)
      BY <1>5, LimitFacts DEF D
    <2>2. /\ rest' \in Seq(Byte) /\ Len(rest') = Decoded(HeaderP3)
          /\ \A k \in 1..Len(rest') : rest'[k] = avail'[k]
      BY <1>3, <1>10, <2>1
    <2>3. pc # "idle" => tpdu.cse = 2
      BY <1>1, <1>5 DEF Stages
    <2>4. pc # "idle" => StatusDue("90", 0)'
      BY <1>3, <1>6, <1>10, <2>1, <2>3 DEF StatusDue
    <2>5. 0 \in 0..(MaxLe - 1)
      BY LimitFacts
    <2> QED BY <1>1, <1>3, <1>7, <1>10, <2>1, <2>2, <2>4, <2>5, HeaderOnly
  <1> QED BY <1>2, <1>8, <1>9, <1>10

LEMMA CardCase3Inv ==
  ASSUME LinkInv, HostStays, CardCase3
  PROVE  LinkInv'
  <1> USE HostStaysFacts DEF LinkInv
  <1>1. /\ TakesHeader("cmd") /\ HasData(apdu.cse) /\ got' = << >>
        /\ cst' = "take" /\ want' = HeaderP3 /\ UNCHANGED <<avail, rest, status, executed>>
    BY DEF CardCase3
  <1>2. UNCHANGED <<toHost, expect>> /\ gave' = << >>
    BY <1>1 DEF TakesHeader
  <1>3. /\ pc # "idle" \/ ~clean
        /\ toCard' = << >> /\ apdu.serial = serial
        /\ HeaderP3 = P3(apdu) /\ ~Performed
        /\ pc # "idle" => Waiting /\ Stages /\ stage # "get"
    BY <1>1, TakesHeaderFacts DEF HasData
  <1>4. expect' = 0 /\ P3(apdu) = apdu.lc /\ apdu.lc \in Nat /\ apdu.lc > 0
    BY <1>1, <1>2, LimitFacts DEF CardSide, TakesHeader, P3, HostTypes
  <1>5. CardTypes'
    BY <1>1, <1>3 DEF CardTypes
  <1>6. ~Performed'
    BY <1>1, <1>3 DEF Performed
  <1>7. CardSide'
    BY <1>1, <1>3, <1>4, <1>6 DEF CardSide
  <1>8. CardGetsCommand'
    BY <1>1 DEF CardGetsCommand
  <1>9. ASSUME pc # "idle"
        PROVE  Taking' /\ Stages' /\ toHost' \in Seq(Byte)
    <2>1. toHost' = << >> /\ rsp' = << >> /\ spointer' = 0 /\ pc' = "procedure"
      BY <1>2, <1>3, <1>9 DEF Waiting
    <2>2. stage = "command"
      BY <1>1, <1>3, <1>9 DEF Stages, HasData, HostTypes
    <2>3. Asked'
      BY <1>1, <1>3, <1>4, <2>1 DEF Asked
    <2>4. Stages'
      BY <1>3, <1>9, <2>2 DEF Stages, P3
    <2> QED BY <1>1, <1>2, <2>1, <2>2, <2>3, <2>4 DEF Taking
  <1> QED BY <1>3, <1>5, <1>7, <1>8, <1>9, StepConclusion

LEMMA CardGetResponseInv ==
  ASSUME LinkInv, HostStays, CardGetResponse
  PROVE  LinkInv'
  <1> USE HostStaysFacts DEF LinkInv
  <1>1. /\ TakesHeader("getrsp") /\ cst' = "give" /\ status' = StatusWord("90", 0)
        /\ rest' = SubSeq(avail, 1, Decoded(HeaderP3))
        /\ UNCHANGED <<want, got, avail, executed>>
    BY DEF CardGetResponse
  <1>2. gave' = << >> /\ UNCHANGED <<toHost, expect>> /\ expect = 0
    BY <1>1 DEF TakesHeader, CardSide
  <1>3. /\ pc # "idle" \/ ~clean
        /\ toCard' = << >> /\ apdu.serial = serial
        /\ pc # "idle" => Waiting /\ Stages /\ stage = "get" /\ HeaderP3 = tpdu.p3
    BY <1>1, TakesHeaderFacts
  <1>4. CardTypes'
    BY <1>1, <1>3 DEF CardTypes
  <1>5. CardSide'
    BY <1>1, <1>2, <1>3 DEF CardSide
  <1>6. CardGetsCommand'
    BY <1>1 DEF CardGetsCommand
  <1>7. ASSUME pc # "idle"
        PROVE  Telling' /\ Stages' /\ toHost' \in Seq(Byte)
    <2>1. AvailOwn /\ D <= Len(avail) /\ tpdu.cse = 2 /\ Performed
      BY <1>3, <1>7 DEF Stages
    <2>2. AvailOwn' /\ Performed'
      BY <1>1, <2>1 DEF AvailOwn, Performed
    <2>3. StatusDue("90", 0)'
      BY <1>1, <2>1, <2>2 DEF StatusDue
    <2>4. 0 \in 0..(MaxLe - 1) /\ D \in 1..MaxLe /\ D = Decoded(HeaderP3)
      BY <1>3, <1>7, LimitFacts DEF D
    <2>5. /\ rest' \in Seq(Byte) /\ Len(rest') = D
          /\ \A k \in 1..Len(rest') : rest'[k] = avail'[k]
      BY <1>1, <2>1, <2>4 DEF CardTypes
    <2>6. Telling' /\ toHost' \in Seq(Byte)
      <3>1. avail' \in Seq(Byte)
        BY <1>1 DEF CardTypes
      <3> QED BY <1>1, <1>2, <1>3, <1>7, <2>2, <2>3, <2>4, <2>5, <3>1, TellsFromStart DEF Waiting
    <2>7. Stages'
      BY <1>1, <1>3, <1>7, <2>2 DEF Stages, P3
    <2> QED BY <2>6, <2>7
  <1> QED BY <1>3, <1>4, <1>5, <1>6, <1>7, StepConclusion

\* The card asks for bytes of the command.
LEMMA CardAsksInv ==
  ASSUME LinkInv, HostStays, CardAsks
  PROVE  LinkInv'
  <1> USE HostStaysFacts DEF LinkInv
  <1>1. /\ cst = "take" /\ expect = 0
        /\ UNCHANGED <<toCard, cst, want, got, avail, rest, gave, status, cardNulls, executed>>
        /\ \/ toHost' = toHost \o <<AckB>> /\ expect' = want
           \/ toHost' = toHost \o <<NackB>> /\ expect' = 1
    BY DEF CardAsks, Send, AckB, NackB
  <1>2. (pc # "idle" \/ ~clean) /\ want \in Int /\ want > 0 /\ got \in Seq(Byte)
    BY <1>1 DEF Idle, CardSide, CardTypes, HostTypes
  <1>3. CardTypes' /\ CardGetsCommand'
    BY <1>1 DEF CardTypes, CardGetsCommand
  <1>4. CardSide'
    <2>1. Len(toCard) = 0 /\ expect' \in 0..want
      BY <1>1, <1>2 DEF CardSide, CardTypes
    <2>2. Performed' = Performed
      BY <1>1 DEF Performed
    <2> QED BY <1>1, <1>2, <2>1, <2>2 DEF CardSide
  <1>5. ASSUME pc # "idle"
        PROVE  Taking' /\ Stages' /\ toHost' \in Seq(Byte)
    <2>1. Taking /\ Stages /\ toHost \in Seq(Byte)
      BY <1>1, <1>5 DEF Busy, Waiting, Telling
    <2>2. PICK p \in 0..Len(toHost) :
             /\ \A i \in 1..p : toHost[i] = NullB
             /\ Len(toHost) = p
      BY <1>1, <1>2, <2>1 DEF Taking, Asked, Answered
    <2>3. PICK b \in {AckB, NackB} :
             /\ toHost' = toHost \o <<b>>
             /\ b = AckB => expect' = want
             /\ b = NackB => expect' = 1
      <3>1. AckB # NackB
        BY ProcFacts
      <3> QED BY <1>1, <3>1
    <2>4. <<b>> \in Seq(Byte) /\ Len(<<b>>) = 1 /\ <<b>>[1] = b
      BY ProcFacts
    <2>5. /\ toHost' \in Seq(Byte) /\ Len(toHost') = p + 1
          /\ \A i \in 1..p : toHost'[i] = NullB
          /\ toHost'[p + 1] = b
      BY <2>1, <2>2, <2>3, <2>4, ConcatFacts
    <2>6. toCard = << >> /\ spointer = Len(got)
      BY <1>1, <2>1 DEF Taking, Asked, Answered
    <2>7. Asked'
      BY <1>1, <2>2, <2>3, <2>5, <2>6 DEF Asked
    <2>8. Stages'
      BY <1>1, <2>1 DEF Stages, P3, Performed, AvailOwn
    <2> QED BY <1>1, <2>1, <2>5, <2>7, <2>8 DEF Taking
  <1> QED BY <1>2, <1>3, <1>4, <1>5, StepConclusion

\* The card takes a byte of the command; the last one makes it execute.
LEMMA CardTakesInv ==
  ASSUME LinkInv, HostStays, CardTakes
  PROVE  LinkInv'
  <1> USE HostStaysFacts DEF LinkInv
  <1>1. /\ cst = "take" /\ expect > 0 /\ toCard # << >>
        /\ got' = Append(got, Head(toCard)) /\ toCard' = Tail(toCard)
        /\ want' = want - 1 /\ expect' = expect - 1
        /\ UNCHANGED <<toHost, rest, gave>>
    BY DEF CardTakes
  <1>2. /\ pc # "idle" \/ ~clean
        /\ HasData(apdu.cse) /\ ~Performed /\ apdu.serial = serial
        /\ want = apdu.lc - Len(got) /\ want > 0 /\ expect \in 0..want
        /\ want \in Int /\ expect \in Int /\ apdu.lc \in Nat
    <2>1. pc # "idle" \/ ~clean
      BY <1>1 DEF Idle
    <2>2. apdu.lc \in Nat /\ Len(got) \in Nat
      BY LimitFacts DEF HostTypes, CardTypes
    <2> QED BY <1>1, <2>1, <2>2 DEF CardSide
  <1>3. /\ toCard' \in Seq(Byte) /\ Len(toCard') = Len(toCard) - 1 /\ Len(toCard) > 0
        /\ \A i \in 1..Len(toCard') : toCard'[i] = toCard[i + 1]
        /\ Head(toCard) = toCard[1] /\ Head(toCard) \in Byte
    BY <1>1, TailFacts DEF CardTypes
  <1>4. /\ got' \in Seq(Byte) /\ Len(got') = Len(got) + 1
        /\ \A i \in 1..Len(got) : got'[i] = got[i]
        /\ got'[Len(got) + 1] = toCard[1]
    BY <1>1, <1>3, AppendFacts DEF CardTypes
  <1>5. Len(got) \in Nat /\ Len(toCard) \in Nat
    BY DEF CardTypes
  <1>6. \A k \in 1..Len(got') : got'[k] = CmdByte(k)
    <2>1. toCard[1] = CmdByte(Len(got) + 1)
      BY <1>1, <1>3, <1>5 DEF CardSide
    <2> QED BY <1>1, <1>4, <1>5, <2>1 DEF CardSide
  <1>7. \A k \in 1..Len(toCard') : toCard'[k] = CmdByte(Len(got') + k)
    <2>1. \A k \in 1..Len(toCard) : toCard[k] = CmdByte(Len(got) + k)
      BY <1>1 DEF CardSide
    <2>2. ASSUME NEW k \in 1..Len(toCard')
          PROVE  toCard'[k] = CmdByte(Len(got') + k)
      <3>1. k + 1 \in 1..Len(toCard) /\ Len(got) + (k + 1) = Len(got') + k
        BY <1>3, <1>4, <1>5
      <3> QED BY <1>3, <2>1, <3>1
    <2> QED BY <2>2
  <1>8. Len(toCard') <= expect'
    BY <1>1, <1>2, <1>3, <1>5 DEF CardSide
  <1>9. CASE want' > 0
    <2>1. UNCHANGED <<cst, avail, status, executed>>
      BY <1>9 DEF CardTakes
    <2>2. CardTypes' /\ CardGetsCommand'
      BY <1>3, <1>4, <2>1 DEF CardTypes, CardGetsCommand
    <2>3. Performed' = Performed
      BY <2>1 DEF Performed
    <2>4. CardSide'
      BY <1>1, <1>2, <1>4, <1>6, <1>7, <1>8, <1>9, <2>1, <2>3 DEF CardSide
    <2>5. ASSUME pc # "idle"
          PROVE  Taking' /\ Stages' /\ toHost' \in Seq(Byte)
      <3>1. Taking /\ Stages /\ toHost \in Seq(Byte)
        BY <1>1, <2>5 DEF Busy, Waiting, Telling
      <3>2. Answered
        BY <1>1, <3>1 DEF Taking, Asked
      <3>3. CASE expect' > 0
        <4>1. Answered'
          <5>1. spointer \in Int
            BY DEF HostTypes
          <5>2. \/ spointer <= Len(got') /\ expect' = want'
                \/ spointer = Len(got') + expect'
            <6>1. spointer' = spointer
              OBVIOUS
            <6>2. CASE spointer <= Len(got) /\ expect = want
              BY <1>1, <1>4, <1>5, <5>1, <6>1, <6>2
            <6>3. CASE spointer = Len(got) + expect
              BY <1>1, <1>2, <1>4, <1>5, <5>1, <6>1, <6>3
            <6> QED BY <3>2, <6>2, <6>3 DEF Answered
          <5>3. toHost' = << >> /\ Len(toCard') = expect'
            BY <1>1, <1>3, <3>2 DEF Answered
          <5> QED BY <3>3, <5>2, <5>3 DEF Answered
        <4>2. Taking' /\ toHost' \in Seq(Byte)
          BY <1>1, <2>1, <3>1, <4>1 DEF Taking
        <4>3. Stages'
          BY <2>1, <3>1 DEF Taking, Stages, P3, Performed
        <4> QED BY <4>2, <4>3
      <3>4. CASE ~(expect' > 0)
        <4>1. expect' = 0 /\ toCard' = << >> /\ spointer = Len(got')
          BY <1>1, <1>2, <1>3, <1>4, <1>5, <1>9, <3>2, <3>4 DEF Answered
        <4>2. Asked'
          BY <1>1, <3>2, <4>1 DEF Asked, Answered
        <4>3. Taking' /\ toHost' \in Seq(Byte)
          BY <1>1, <2>1, <3>1, <4>2 DEF Taking
        <4>4. Stages'
          BY <2>1, <3>1 DEF Taking, Stages, P3, Performed
        <4> QED BY <4>3, <4>4
      <3> QED BY <3>3, <3>4
    <2> QED BY <1>2, <2>2, <2>4, <2>5, StepConclusion
  <1>10. CASE ~(want' > 0)
    <2>1. /\ Executes(TRUE)
          /\ \/ Ends("90", 0) /\ UNCHANGED avail
             \/ \E len \in RspLens, look \in DataLooks :
                   /\ apdu.cse = 4
                   /\ avail' = Response(apdu.serial, len, look)
                   /\ Ends("61", Coded(len))
      BY <1>10 DEF CardTakes
    <2>2. Len(got') = apdu.lc /\ expect' = 0 /\ toCard' = << >>
      BY <1>1, <1>2, <1>3, <1>4, <1>5, <1>8, <1>10
    <2>3. got' = [k \in 1..apdu.lc |-> CmdByte(k)]
      BY <1>4, <1>6, <2>2
    <2>4. CardGetsCommand' /\ \A i \in DOMAIN executed' : executed'[i].serial <= serial'
      BY <1>2, <1>4, <2>1, <2>3, ExecutesOnce
    <2>5. executed' \in Seq(Execution) /\ Performed'
      BY <1>4, <2>1, ExecutesFacts
    <2>6. /\ avail' \in Seq(Byte) /\ cst' = "end"
          /\ gave' = << >> => \E k \in {"90", "6F", "6C", "61"}, n \in 0..(MaxLe - 1) : 
                 (pc # "idle" => StatusDue(k, n)')
      <3>1. 0 \in 0..(MaxLe - 1)
        BY LimitFacts
      <3>2. CASE Ends("90", 0) /\ UNCHANGED avail
        <4>1. gave' = << >> => StatusDue("90", 0)'
          BY <3>2 DEF Ends, StatusDue
        <4> QED BY <3>1, <3>2, <4>1 DEF Ends, CardTypes
      <3>3. ASSUME NEW len \in RspLens, NEW look \in DataLooks, apdu.cse = 4,
                   avail' = Response(apdu.serial, len, look), Ends("61", Coded(len))
            PROVE  /\ avail' \in Seq(Byte) /\ cst' = "end"
                   /\ gave' = << >> => \E k \in {"90", "6F", "6C", "61"}, n \in 0..(MaxLe - 1) : 
                         (pc # "idle" => StatusDue(k, n)')
        <4>1. avail' \in Seq(Byte) /\ Len(avail') = len /\ len \in 1..MaxLe /\ AvailOwn'
          BY <3>3, AvailFacts
        <4>2. Coded(len) \in 0..(MaxLe - 1) /\ Coded(len)' = Coded(len)
          BY <4>1, LimitFacts
        <4>3. pc # "idle" => stage # "get"
          BY <1>1 DEF Busy, Waiting, Telling, Taking
        <4>4. gave' = << >> /\ pc # "idle" => StatusDue("61", Coded(len))'
          <5>1. cst' = "end" /\ status' = StatusWord("61", Coded(len))
            BY <3>3 DEF Ends
          <5> QED BY <3>3, <4>1, <4>2, <4>3, <5>1 DEF StatusDue
        <4>5. gave' = << >> => \E n \in 0..(MaxLe - 1) : (pc # "idle" => StatusDue("61", n)')
          BY <4>2, <4>4
        <4>6. cst' = "end"
          BY <3>3 DEF Ends
        <4> QED BY <4>1, <4>5, <4>6
      <3> QED BY <2>1, <3>2, <3>3
    <2>7. CardTypes'
      BY <1>3, <1>4, <2>5, <2>6 DEF CardTypes
    <2>8. CardSide'
      BY <1>2, <2>2, <2>4, <2>6 DEF CardSide
    <2>9. ASSUME pc # "idle"
          PROVE  Telling' /\ Stages' /\ toHost' \in Seq(Byte)
      <3>1. Taking /\ Stages
        BY <1>1, <2>9 DEF Busy, Waiting, Telling
      <3>2. toHost = << >> /\ rsp = << >> /\ pc = "procedure" /\ gave = << >> /\ stage = "command"
        BY <1>1, <3>1 DEF Taking, Asked, Answered
      <3>3. Telling' /\ toHost' \in Seq(Byte)
        BY <1>1, <2>2, <2>5, <2>6, <2>9, <3>2, TellsFromStart
      <3>4. Stages'
        BY <3>1, <3>2 DEF Stages, P3
      <3> QED BY <3>3, <3>4
    <2> QED BY <1>2, <2>4, <2>7, <2>8, <2>9, StepConclusion
  <1> QED BY <1>9, <1>10

\* What the card sends goes behind what the host has not read yet.
LEMMA PartsBefore ==
  ASSUME NEW p, NEW nr, Parts(p, nr), toHost \in Seq(Byte), NEW bytes \in Seq(Byte),
         toHost' = toHost \o bytes, UNCHANGED <<pc, avail, rsp>>,
         gave \in Seq(Byte), gave' \in Seq(Byte), Len(gave) <= Len(gave')
  PROVE  Parts(p, nr)'
  <1>1. /\ toHost' \in Seq(Byte) /\ Len(toHost') = Len(toHost) + Len(bytes)
        /\ \A i \in 1..Len(toHost) : toHost'[i] = toHost[i]
        /\ Len(toHost) \in Nat /\ Len(bytes) \in Nat
    BY ConcatFacts
  <1>2. p \in 0..Len(toHost) /\ p \in Int
    BY <1>1 DEF Parts
  <1>3. nr \in [0..p -> 0..Len(gave')]
    BY DEF Parts
  <1>4. \A i \in 1..p : toHost'[i] = toHost[i]
    BY <1>1, <1>2
  <1>5. p > 0 => toHost'[1] = toHost[1]
    BY <1>1, <1>2
  <1>6. ASSUME NEW i \in 1..p
        PROVE  \/ toHost'[i] = NullB /\ nr[i] = nr[i - 1]
               \/ /\ toHost'[i] = NackB /\ nr[i] = nr[i - 1]
                  /\ i < p /\ IsData(toHost'[i + 1])
               \/ /\ toHost'[i] = avail'[nr[i]] /\ nr[i] = nr[i - 1] + 1
                  /\ IF i = 1 THEN pc' = "byte" ELSE toHost'[i - 1] = NackB
    <2>1. CASE toHost[i] = NullB /\ nr[i] = nr[i - 1]
      BY <1>4, <2>1
    <2>2. CASE toHost[i] = NackB /\ nr[i] = nr[i - 1] /\ i < p /\ IsData(toHost[i + 1])
      <3>1. i + 1 \in 1..p
        BY <1>2, <2>2
      <3> QED BY <1>4, <2>2, <3>1
    <2>3. CASE /\ toHost[i] = avail[nr[i]] /\ nr[i] = nr[i - 1] + 1
               /\ IF i = 1 THEN pc = "byte" ELSE toHost[i - 1] = NackB
      <3>1. i # 1 => i - 1 \in 1..p
        BY <1>2
      <3> QED BY <1>4, <2>3, <3>1
    <2> QED BY <2>1, <2>2, <2>3 DEF Parts
  <1>7. p \in 0..Len(toHost')
    BY <1>1, <1>2
  <1> QED BY <1>3, <1>5, <1>6, <1>7 DEF Parts

\* Where the host can be while the card sends data.
LEMMA TellingFacts ==
  ASSUME LinkInv, pc # "idle", cst \in {"give", "end", "tail"}
  PROVE  /\ Telling /\ Stages /\ toHost \in Seq(Byte) /\ gave \in Seq(Byte)
         /\ Len(gave) \in Nat /\ Len(toHost) \in Nat /\ Len(rsp) \in Nat /\ Len(avail) \in Nat
         /\ cst = "tail" => Stream \/ Block
         /\ cst # "tail" => /\ pc \in {"procedure", "byte"}
                            /\ \E p, nr : Parts(p, nr) /\ Len(toHost) = p /\ nr[p] = Len(gave)
  <1>1. Telling /\ Stages /\ toHost \in Seq(Byte)
    BY DEF LinkInv, Busy, Waiting, Taking
  <1>2. gave \in Seq(Byte)
    BY <1>1 DEF Telling, Given
  <1>3. Len(gave) \in Nat /\ Len(toHost) \in Nat /\ Len(rsp) \in Nat /\ Len(avail) \in Nat
    BY <1>1, <1>2 DEF LinkInv, HostTypes, CardTypes
  <1>4. Stream \/ Block
    BY <1>1 DEF Telling, Second
  <1>5. cst # "tail" => /\ pc \in {"procedure", "byte"}
                        /\ \E p, nr : Parts(p, nr) /\ Len(toHost) = p /\ nr[p] = Len(gave)
    BY <1>4 DEF Stream, Block, AllGiven, WithBlock, WithStatus, Stepwise
  <1> QED BY <1>1, <1>2, <1>3, <1>4, <1>5

\* What is true of the card outside the line when it only sends.
LEMMA SendsOnly ==
  ASSUME LinkInv, HostStays, cst \in {"give", "end", "tail"},
         cst' \in {"give", "end", "tail", "header"},
         UNCHANGED <<toCard, want, expect, got, avail, status, executed>>
  PROVE  /\ CardTypes' /\ CardSide' /\ CardGetsCommand' /\ (pc # "idle" \/ ~clean)
         /\ Stages => Stages'
         /\ Performed' = Performed /\ AvailOwn' = AvailOwn /\ toCard' = << >>
  <1> USE HostStaysFacts DEF LinkInv
  <1>1. toCard = << >> /\ expect = 0
    BY DEF CardSide
  <1>2. CardTypes' /\ CardGetsCommand'
    BY DEF CardTypes, CardGetsCommand
  <1>3. Performed' = Performed /\ AvailOwn' = AvailOwn
    BY DEF Performed, AvailOwn
  <1>4. CardSide'
    BY <1>1, <1>3 DEF CardSide
  <1>5. pc # "idle" \/ ~clean
    BY DEF Idle
  <1>6. Stages => Stages'
    BY <1>3 DEF Stages, P3
  <1> QED BY <1>1, <1>2, <1>3, <1>4, <1>5, <1>6

\* ACK and all the data.
LEMMA CardGivesAllInv ==
  ASSUME LinkInv, HostStays, CardGivesAll
  PROVE  LinkInv'
  <1>1. /\ cst = "give" /\ cst' = "tail"
        /\ toHost' = toHost \o (<<AckB>> \o rest) /\ gave' = gave \o rest
        /\ UNCHANGED <<toCard, want, expect, got, avail, status, executed>>
    BY DEF CardGivesAll, Send, AckB
  <1>2. /\ CardTypes' /\ CardSide' /\ CardGetsCommand' /\ (pc # "idle" \/ ~clean)
        /\ Stages => Stages'
        /\ Performed' = Performed /\ AvailOwn' = AvailOwn /\ toCard' = << >>
    BY <1>1, SendsOnly
  <1>3. ASSUME pc # "idle"
        PROVE  Telling' /\ Stages' /\ toHost' \in Seq(Byte)
    <2>1. /\ Telling /\ Stages /\ toHost \in Seq(Byte) /\ gave \in Seq(Byte)
          /\ Len(gave) \in Nat /\ Len(toHost) \in Nat /\ Len(rsp) \in Nat /\ Len(avail) \in Nat
          /\ pc \in {"procedure", "byte"}
      BY <1>1, <1>3, TellingFacts
    <2>2. PICK p, nr : Parts(p, nr) /\ Len(toHost) = p /\ nr[p] = Len(gave)
      BY <1>1, <1>3, TellingFacts
    <2>3. /\ Len(gave) < D /\ rest \in Seq(Byte)
          /\ Len(rest) = D - Len(gave) /\ Len(gave) <= Len(avail)
          /\ \A k \in 1..Len(rest) : rest[k] = avail[Len(gave) + k]
          /\ \A k \in 1..Len(gave) : gave[k] = avail[k]
          /\ Len(rsp) <= Len(gave) /\ \A k \in 1..Len(rsp) : rsp[k] = avail[k]
          /\ D \in 1..MaxLe
      BY <1>1, <2>1, LimitFacts DEF Telling, Given, LinkInv
    <2>4. PICK k \in {"90", "6F", "6C", "61"}, n \in 0..(MaxLe - 1) : StatusDue(k, n)
      BY <2>1 DEF Telling
    <2>5. k = "90" /\ tpdu.cse = 2 /\ AvailOwn /\ D <= Len(avail)
      BY <1>1, <2>4 DEF StatusDue
    <2>6. StatusDue(k, n)'
      BY <1>1, <1>2, <2>4, <2>5, HostStaysFacts DEF StatusDue
    <2>7. /\ gave' \in Seq(Byte) /\ Len(gave') = D
          /\ \A i \in 1..Len(gave) : gave'[i] = gave[i]
          /\ \A i \in 1..Len(rest) : gave'[Len(gave) + i] = rest[i]
      BY <1>1, <2>1, <2>3, ConcatFacts
    <2>8. \A i \in 1..Len(gave') : gave'[i] = avail[i]
      <3> TAKE i \in 1..Len(gave')
      <3>1. CASE i <= Len(gave)
        BY <2>1, <2>3, <2>7, <3>1
      <3>2. CASE i > Len(gave)
        <4>1. i - Len(gave) \in 1..Len(rest) /\ Len(gave) + (i - Len(gave)) = i
          BY <2>1, <2>3, <2>7, <3>2
        <4> QED BY <2>3, <2>7, <4>1
      <3> QED BY <2>1, <2>7, <3>1, <3>2
    <2>9. Given'
      BY <1>1, <2>1, <2>3, <2>5, <2>7, <2>8, HostStaysFacts DEF Given
    <2> DEFINE sent == <<AckB>> \o rest
    <2>10. /\ sent \in Seq(Byte) /\ Len(sent) = 1 + Len(rest)
           /\ sent[1] = AckB /\ \A i \in 1..Len(rest) : sent[1 + i] = rest[i]
      <3> DEFINE ack == <<AckB>>
      <3>1. ack \in Seq(Byte) /\ Len(ack) = 1 /\ ack[1] = AckB
        BY ProcFacts
      <3>2. sent = ack \o rest
        OBVIOUS
      <3> HIDE DEF ack, sent
      <3>3. /\ sent \in Seq(Byte) /\ Len(sent) = Len(ack) + Len(rest)
            /\ \A i \in 1..Len(ack) : sent[i] = ack[i]
            /\ \A i \in 1..Len(rest) : sent[Len(ack) + i] = rest[i]
        <4>1. rest \in Seq(Byte) /\ ack \in Seq(Byte)
          BY <2>3, <3>1
        <4> QED BY <3>2, <4>1, ConcatFacts
      <3>4. 1 \in 1..Len(ack)
        BY <3>1
      <3>5. sent[1] = AckB
        BY <3>1, <3>3, <3>4
      <3> QED BY <3>1, <3>3, <3>5
    <2> HIDE DEF sent
    <2>11. /\ toHost' \in Seq(Byte) /\ Len(toHost') = p + 1 + Len(rest)
           /\ \A i \in 1..Len(sent) : toHost'[p + i] = sent[i]
      <3>1. toHost' = toHost \o sent
        BY <1>1 DEF sent
      <3>2. /\ toHost' \in Seq(Byte) /\ Len(toHost') = Len(toHost) + Len(sent)
            /\ \A i \in 1..Len(sent) : toHost'[Len(toHost) + i] = sent[i]
        <4>1. toHost \in Seq(Byte) /\ sent \in Seq(Byte)
          BY <2>1, <2>10
        <4> QED BY <3>1, <4>1, ConcatFacts
      <3>3. Len(rest) \in Nat
        BY <2>3
      <3> QED BY <2>1, <2>2, <2>10, <3>2, <3>3
    <2>12. Parts(p, nr)'
      <3>1. toHost' = toHost \o sent
        BY <1>1 DEF sent
      <3>2. Len(gave) <= Len(gave')
        BY <2>1, <2>3, <2>7
      <3> QED BY <1>1, <2>1, <2>2, <2>7, <2>10, <3>1, <3>2, PartsBefore, HostStaysFacts
    <2>13. AllGiven(p + 1, nr[p])'
      <3>1. \A i \in (Len(gave) + 1)..D : toHost'[p + 1 + i - Len(gave)] = avail[i]
        <4> TAKE i \in (Len(gave) + 1)..D
        <4> DEFINE j == i - Len(gave)
        <4>1. j \in 1..Len(rest) /\ 1 + j \in 1..Len(sent) /\ p + (1 + j) = p + 1 + i - Len(gave)
              /\ Len(gave) + j = i
          BY <2>1, <2>2, <2>3, <2>10
        <4>2. toHost'[p + (1 + j)] = sent[1 + j]
          BY <2>11, <4>1
        <4>3. sent[1 + j] = rest[j] /\ rest[j] = avail[Len(gave) + j]
          BY <2>3, <2>10, <4>1
        <4> QED BY <4>1, <4>2, <4>3
      <3> QED BY <1>1, <2>1, <2>2, <2>3, <2>5, <2>7, <2>11, <3>1, HostStaysFacts DEF AllGiven
    <2>14. toHost'[p + 1] = AckB
      BY <2>1, <2>3, <2>10, <2>11
    <2>15. Stream'
      BY <2>1, <2>12, <2>13, <2>14, HostStaysFacts DEF Stream, WithBlock
    <2> QED BY <1>1, <1>2, <2>1, <2>6, <2>9, <2>11, <2>15, HostStaysFacts DEF Telling
  <1> QED BY <1>2, <1>3, StepConclusion

\* ~ACK and one byte.
LEMMA CardGivesOneInv ==
  ASSUME LinkInv, HostStays, CardGivesOne
  PROVE  LinkInv'
  <1>1. /\ cst = "give" /\ cst' = IF Len(rest) = 1 THEN "end" ELSE "give"
        /\ toHost' = toHost \o <<NackB, Head(rest)>>
        /\ gave' = Append(gave, Head(rest)) /\ rest' = Tail(rest)
        /\ UNCHANGED <<toCard, want, expect, got, avail, status, executed>>
    BY DEF CardGivesOne, Send, NackB
  <1>2. /\ CardTypes' /\ CardSide' /\ CardGetsCommand' /\ (pc # "idle" \/ ~clean)
        /\ Stages => Stages'
        /\ Performed' = Performed /\ AvailOwn' = AvailOwn /\ toCard' = << >>
    BY <1>1, SendsOnly
  <1>3. ASSUME pc # "idle"
        PROVE  Telling' /\ Stages' /\ toHost' \in Seq(Byte)
    <2>1. /\ Telling /\ Stages /\ toHost \in Seq(Byte) /\ gave \in Seq(Byte)
          /\ Len(gave) \in Nat /\ Len(toHost) \in Nat /\ Len(rsp) \in Nat /\ Len(avail) \in Nat
          /\ pc \in {"procedure", "byte"}
      BY <1>1, <1>3, TellingFacts
    <2>2. PICK p, nr : Parts(p, nr) /\ Len(toHost) = p /\ nr[p] = Len(gave)
      BY <1>1, <1>3, TellingFacts
    <2>3. /\ Len(gave) < D /\ rest \in Seq(Byte)
          /\ Len(rest) = D - Len(gave) /\ Len(gave) <= Len(avail)
          /\ \A k \in 1..Len(rest) : rest[k] = avail[Len(gave) + k]
          /\ \A k \in 1..Len(gave) : gave[k] = avail[k]
          /\ Len(rsp) <= Len(gave) /\ \A k \in 1..Len(rsp) : rsp[k] = avail[k]
          /\ D \in 1..MaxLe
      BY <1>1, <2>1, LimitFacts DEF Telling, Given, LinkInv
    <2>4. PICK k \in {"90", "6F", "6C", "61"}, n \in 0..(MaxLe - 1) : StatusDue(k, n)
      BY <2>1 DEF Telling
    <2>5. k = "90" /\ tpdu.cse = 2 /\ AvailOwn /\ D <= Len(avail)
      BY <1>1, <2>4 DEF StatusDue
    <2>6. StatusDue(k, n)'
      BY <1>1, <1>2, <2>4, <2>5, HostStaysFacts DEF StatusDue
    <2>7. /\ rest # << >> /\ rest' \in Seq(Byte) /\ Len(rest') = Len(rest) - 1
          /\ \A i \in 1..Len(rest') : rest'[i] = rest[i + 1]
          /\ Head(rest) = rest[1] /\ rest[1] \in Byte
          /\ rest[1] = avail[Len(gave) + 1]
      <3>1. rest \in Seq(Byte) /\ rest # << >>
        BY <2>1, <2>3
      <3>2. /\ rest' \in Seq(Byte) /\ Len(rest') = Len(rest) - 1
            /\ \A i \in 1..(Len(rest) - 1) : rest'[i] = rest[i + 1]
            /\ Head(rest) = rest[1] /\ rest[1] \in Byte
        BY <1>1, <3>1, TailFacts
      <3>3. 1 \in 1..Len(rest)
        BY <2>1, <2>3
      <3> QED BY <2>3, <3>1, <3>2, <3>3
    <2>8. /\ gave' \in Seq(Byte) /\ Len(gave') = Len(gave) + 1
          /\ \A i \in 1..Len(gave) : gave'[i] = gave[i]
          /\ gave'[Len(gave) + 1] = rest[1]
      BY <1>1, <2>1, <2>7, AppendFacts
    <2>9. Given'
      <3>1. \A i \in 1..Len(gave') : gave'[i] = avail[i]
        <4> TAKE i \in 1..Len(gave')
        <4>1. CASE i <= Len(gave)
          BY <2>1, <2>3, <2>8, <4>1
        <4>2. CASE i = Len(gave) + 1
          BY <2>7, <2>8, <4>2
        <4>3. i <= Len(gave) \/ i = Len(gave) + 1
          BY <2>1, <2>8
        <4> QED BY <4>1, <4>2, <4>3
      <3>2. \A i \in 1..Len(rest') : rest'[i] = avail[Len(gave') + i]
        <4> TAKE i \in 1..Len(rest')
        <4>1. i + 1 \in 1..Len(rest) /\ Len(gave) + (i + 1) = Len(gave') + i
          BY <2>1, <2>3, <2>7, <2>8
        <4> QED BY <2>3, <2>7, <4>1
      <3>3. cst' = "give" => Len(gave') < D /\ Len(rest') = D - Len(gave')
        <4>1. cst' = "give" => Len(rest) # 1
          BY <1>1
        <4>2. D \in Int /\ Len(rest) \in Nat
          BY <2>3, LimitFacts
        <4> QED BY <2>1, <2>3, <2>7, <2>8, <4>1, <4>2
      <3>4. cst' # "give" => Len(gave') = D
        <4>1. cst' # "give" => Len(rest) = 1
          BY <1>1
        <4>2. D \in Int /\ Len(rest) \in Nat
          BY <2>3, LimitFacts
        <4> QED BY <2>1, <2>3, <2>7, <2>8, <4>1, <4>2
      <3>5. Len(gave') <= Len(avail) /\ Len(rsp) <= Len(gave')
        BY <2>1, <2>3, <2>5, <2>8
      <3> QED BY <1>1, <2>3, <2>7, <2>8, <3>1, <3>2, <3>3, <3>4, <3>5, HostStaysFacts DEF Given
    <2> DEFINE two == <<NackB, rest[1]>>
    <2>10. two \in Seq(Byte) /\ Len(two) = 2 /\ two[1] = NackB /\ two[2] = rest[1]
      BY <2>7, ProcFacts
    <2>11. toHost' = toHost \o two
      BY <1>1, <2>7
    <2> HIDE DEF two
    <2>12. /\ toHost' \in Seq(Byte) /\ Len(toHost') = p + 2
           /\ toHost'[p + 1] = NackB /\ toHost'[p + 2] = rest[1]
      <3>1. toHost \in Seq(Byte) /\ two \in Seq(Byte)
        BY <2>1, <2>10
      <3>2. /\ toHost' \in Seq(Byte) /\ Len(toHost') = Len(toHost) + Len(two)
            /\ \A i \in 1..Len(two) : toHost'[Len(toHost) + i] = two[i]
        BY <2>11, <3>1, ConcatFacts
      <3> QED BY <2>1, <2>2, <2>10, <3>2
    <2>13. Parts(p, nr)'
      <3>1. Len(gave) <= Len(gave')
        BY <2>1, <2>8
      <3> QED BY <1>1, <2>1, <2>2, <2>8, <2>10, <2>11, <3>1, PartsBefore, HostStaysFacts
    <2> DEFINE q == p + 2
               mr == [i \in 0..(p + 2) |-> IF i <= p THEN nr[i]
                                           ELSE IF i = p + 1 THEN nr[p] ELSE nr[p] + 1]
    <2>14. p \in Nat /\ nr \in [0..p -> 0..Len(gave)] /\ nr[p] = Len(gave) /\ nr[0] = Len(rsp)
      BY <2>1, <2>2 DEF Parts
    <2>15. /\ mr \in [0..q -> 0..Len(gave')]
           /\ \A i \in 0..p : mr[i] = nr[i]
           /\ mr[p + 1] = Len(gave) /\ mr[q] = Len(gave')
      BY <2>1, <2>8, <2>14
    <2> HIDE DEF mr
    <2>16. Parts(q, mr)'
      <3>1. \A i \in 1..p :
               \/ toHost'[i] = NullB /\ nr[i] = nr[i - 1]
               \/ /\ toHost'[i] = NackB /\ nr[i] = nr[i - 1]
                  /\ i < p /\ IsData(toHost'[i + 1])
               \/ /\ toHost'[i] = avail'[nr[i]] /\ nr[i] = nr[i - 1] + 1
                  /\ IF i = 1 THEN pc' = "byte" ELSE toHost'[i - 1] = NackB
        BY <2>13 DEF Parts
      <3>2. IsData(toHost'[p + 2])
        <4>1. Len(gave) + 1 \in 1..Len(avail)
          BY <2>1, <2>3, <2>5
        <4> QED BY <2>5, <2>7, <2>12, <4>1 DEF AvailOwn
      <3>3. ASSUME NEW i \in 1..q
            PROVE  \/ toHost'[i] = NullB /\ mr[i] = mr[i - 1]
                   \/ /\ toHost'[i] = NackB /\ mr[i] = mr[i - 1]
                      /\ i < q /\ IsData(toHost'[i + 1])
                   \/ /\ toHost'[i] = avail'[mr[i]] /\ mr[i] = mr[i - 1] + 1
                      /\ IF i = 1 THEN pc' = "byte" ELSE toHost'[i - 1] = NackB
        <4>1. CASE i \in 1..p
          <5>1. mr[i] = nr[i] /\ mr[i - 1] = nr[i - 1]
            BY <2>14, <2>15, <4>1
          <5>2. i < p => i < q
            BY <2>14
          <5> QED BY <3>1, <4>1, <5>1, <5>2
        <4>2. CASE i = p + 1
          <5>1. i - 1 = p /\ i + 1 = p + 2 /\ i < q /\ p \in 0..p
            BY <2>14, <4>2
          <5>2. mr[i] = mr[i - 1]
            BY <2>14, <2>15, <4>2, <5>1
          <5> QED BY <2>12, <3>2, <4>2, <5>1, <5>2
        <4>3. CASE i = p + 2
          <5>1. i - 1 = p + 1 /\ i # 1
            BY <2>14, <4>3
          <5>2. mr[i] = mr[i - 1] + 1 /\ mr[i] = Len(gave) + 1
            BY <2>8, <2>15, <4>3, <5>1
          <5> QED BY <1>1, <2>7, <2>12, <4>3, <5>1, <5>2
        <4> QED BY <2>14, <4>1, <4>2, <4>3
      <3>4. mr[0] = Len(rsp') /\ q \in 0..Len(toHost')
        BY <2>12, <2>14, <2>15, HostStaysFacts
      <3>5. pc' = "byte" => q > 0 /\ IsData(toHost'[1])
        BY <2>13, <2>14 DEF Parts
      <3> HIDE DEF q
      <3> QED BY <2>15, <3>3, <3>4, <3>5 DEF Parts
    <2>17. Stepwise(q, mr)'
      BY <1>1, <2>12, <2>15 DEF Stepwise
    <2>18. Stream'
      BY <2>1, <2>16, <2>17, HostStaysFacts DEF Stream
    <2> QED BY <1>1, <1>2, <2>1, <2>6, <2>9, <2>12, <2>18, HostStaysFacts DEF Telling
  <1> QED BY <1>2, <1>3, StepConclusion

\* The status word behind a block.
LEMMA AllGivenThenStatus ==
  ASSUME NEW from \in Nat, NEW n \in Nat, AllGiven(from, n), cst = "tail", cst' = "header",
         toHost \in Seq(Byte), status \in Seq(Byte), Len(status) = 2, toHost' = toHost \o status,
         UNCHANGED <<tpdu, gave, avail, status>>, D \in Nat
  PROVE  AllGiven(from, n)'
  <1>1. /\ toHost' \in Seq(Byte) /\ Len(toHost') = Len(toHost) + Len(status)
        /\ \A i \in 1..Len(toHost) : toHost'[i] = toHost[i]
        /\ \A i \in 1..Len(status) : toHost'[Len(toHost) + i] = status[i]
    <2>1. toHost \in Seq(Byte) /\ status \in Seq(Byte) /\ toHost' = toHost \o status
      OBVIOUS
    <2> QED BY ONLY <2>1, ConcatFacts
  <1>2. /\ tpdu.cse = 2 /\ Len(gave) = D /\ n < D
        /\ Len(toHost) = from + (D - n)
        /\ \A k \in (n + 1)..D : toHost[from + k - n] = avail[k]
    BY DEF AllGiven
  <1>3. D' = D
    BY DEF D
  <1>4. Len(toHost') = from + (D - n) + 2
    BY <1>1, <1>2
  <1>5. EndsWithStatus'
    <2>1. 1 \in 1..Len(status) /\ 2 \in 1..Len(status) /\ Len(toHost) \in Nat
      OBVIOUS
    <2>2. toHost'[Len(toHost) + 1] = status[1] /\ toHost'[Len(toHost) + 2] = status[2]
      BY <1>1, <2>1
    <2>3. Len(toHost') - 1 = Len(toHost) + 1 /\ Len(toHost') = Len(toHost) + 2
      BY <1>1, <2>1
    <2>4. status' = status
      OBVIOUS
    <2> QED BY ONLY <2>2, <2>3, <2>4 DEF EndsWithStatus
  <1>6. \A k \in (n + 1)..D : toHost'[from + k - n] = avail[k]
    <2> TAKE k \in (n + 1)..D
    <2>1. from + k - n \in 1..Len(toHost)
      BY <1>2
    <2> QED BY <1>1, <1>2, <2>1
  <1> QED BY <1>2, <1>3, <1>4, <1>5, <1>6 DEF AllGiven

\* The card ends the TPDU.
LEMMA CardStatusInv ==
  ASSUME LinkInv, HostStays, CardStatus
  PROVE  LinkInv'
  <1>1. /\ cst \in {"end", "tail"} /\ cst' = "header" /\ toHost' = toHost \o status
        /\ UNCHANGED <<toCard, want, expect, got, avail, rest, gave, status, executed>>
    BY DEF CardStatus, Send
  <1>2. /\ CardTypes' /\ CardSide' /\ CardGetsCommand' /\ (pc # "idle" \/ ~clean)
        /\ Stages => Stages'
        /\ Performed' = Performed /\ AvailOwn' = AvailOwn /\ toCard' = << >>
    BY <1>1, SendsOnly
  <1>3. ASSUME pc # "idle"
        PROVE  Telling' /\ Stages' /\ toHost' \in Seq(Byte)
    <2>1. /\ Telling /\ Stages /\ toHost \in Seq(Byte) /\ gave \in Seq(Byte)
          /\ Len(gave) \in Nat /\ Len(toHost) \in Nat /\ Len(rsp) \in Nat /\ Len(avail) \in Nat
      BY <1>1, <1>3, TellingFacts
    <2>2. PICK k \in {"90", "6F", "6C", "61"}, n \in 0..(MaxLe - 1) : StatusDue(k, n)
      BY <2>1 DEF Telling
    <2>3. status \in Seq(Byte) /\ Len(status) = 2
      <3>1. n \in Int /\ apdu.serial \in Int
        <4>1. n \in Int
          BY LimitsAssumption
        <4>2. apdu.serial \in Nat
          BY DEF LinkInv, HostTypes
        <4> QED BY <4>1, <4>2
      <3>2. status = StatusWord(k, n)
        BY <2>2 DEF StatusDue
      <3> QED BY <3>1, <3>2, StatusFacts
    <2>4. StatusDue(k, n)'
      BY <1>1, <1>2, <2>2, HostStaysFacts DEF StatusDue
    <2>5. Given'
      BY <1>1, <2>1, HostStaysFacts DEF Given, Telling
    <2>6. /\ toHost' \in Seq(Byte) /\ Len(toHost') = Len(toHost) + 2
          /\ toHost'[Len(toHost) + 1] = status[1] /\ toHost'[Len(toHost) + 2] = status[2]
      <3>1. /\ toHost' \in Seq(Byte) /\ Len(toHost') = Len(toHost) + Len(status)
            /\ \A i \in 1..Len(status) : toHost'[Len(toHost) + i] = status[i]
        <4>1. toHost \in Seq(Byte) /\ status \in Seq(Byte) /\ toHost' = toHost \o status
          BY <1>1, <2>1, <2>3
        <4> QED BY ONLY <4>1, ConcatFacts
      <3> QED BY <2>3, <3>1
    <2>7. D \in Nat
      BY LimitFacts DEF LinkInv
    <2>8. ASSUME NEW p, NEW nr, Parts(p, nr)
          PROVE  Parts(p, nr)' /\ p \in Nat /\ (nr[p] \in Nat)
      <3>1. Parts(p, nr)'
        <4>1. toHost \in Seq(Byte) /\ status \in Seq(Byte) /\ toHost' = toHost \o status
          BY <1>1, <2>1, <2>3
        <4>2. UNCHANGED <<pc, avail, rsp>>
          BY <1>1, HostStaysFacts
        <4>3. gave \in Seq(Byte) /\ gave' \in Seq(Byte) /\ Len(gave) <= Len(gave')
          BY <1>1, <2>1
        <4> QED BY ONLY <2>8, <4>1, <4>2, <4>3, PartsBefore
      <3>2. p \in Nat /\ nr \in [0..p -> 0..Len(gave)]
        BY <2>1, <2>8 DEF Parts
      <3> QED BY <2>1, <3>1, <3>2
    <2>9. CASE cst = "end"
      <3>1. PICK p, nr : Parts(p, nr) /\ Len(toHost) = p /\ nr[p] = Len(gave)
        BY <1>3, <2>9, TellingFacts
      <3>2. EndsWithStatus'
        <4>1. Len(toHost') - 1 = Len(toHost) + 1 /\ Len(toHost') = Len(toHost) + 2
          BY <2>1, <2>6
        <4> QED BY ONLY <1>1, <2>6, <4>1 DEF EndsWithStatus
      <3>3. WithStatus(p, nr)'
        BY <1>1, <2>6, <3>1, <3>2 DEF WithStatus
      <3>4. pc \in {"procedure", "byte"}
        BY <1>3, <2>9, TellingFacts
      <3>5. Stream'
        BY <2>8, <3>1, <3>3, <3>4, HostStaysFacts DEF Stream
      <3> QED BY <1>1, <1>2, <2>1, <2>4, <2>5, <2>6, <3>5, HostStaysFacts DEF Telling
    <2>10. CASE cst = "tail" /\ Block
      <3>1. AllGiven(0, Len(rsp)) /\ pc = "block"
        BY <2>10 DEF Block
      <3>2. AllGiven(0, Len(rsp))'
        BY <1>1, <2>1, <2>3, <2>7, <2>10, <3>1, AllGivenThenStatus, HostStaysFacts
      <3>3. Block'
        BY <3>1, <3>2, HostStaysFacts DEF Block
      <3> QED BY <1>1, <1>2, <2>1, <2>4, <2>5, <2>6, <3>3, HostStaysFacts DEF Telling
    <2>11. CASE cst = "tail" /\ Stream
      <3>1. PICK p, nr : Parts(p, nr) /\ toHost[p + 1] = AckB /\ AllGiven(p + 1, nr[p])
        BY <2>11 DEF Stream, Stepwise, WithStatus, WithBlock
      <3>2. Parts(p, nr)' /\ p \in Nat /\ nr[p] \in Nat
        BY <2>8, <3>1
      <3>3. p + 1 \in Nat
        BY <3>2
      <3>4. AllGiven(p + 1, nr[p])'
        BY <1>1, <2>1, <2>3, <2>7, <2>11, <3>1, <3>2, <3>3, AllGivenThenStatus, HostStaysFacts
      <3>5. toHost'[p + 1] = AckB
        <4>1. p + 1 \in 1..Len(toHost)
          BY <2>7, <2>11, <3>1, <3>2 DEF AllGiven
        <4>2. toHost \in Seq(Byte) /\ status \in Seq(Byte) /\ toHost' = toHost \o status
          BY <1>1, <2>1, <2>3
        <4>3. \A i \in 1..Len(toHost) : toHost'[i] = toHost[i]
          BY ONLY <4>2, ConcatFacts
        <4> QED BY <3>1, <4>1, <4>3
      <3>6. Stream'
        BY <2>11, <3>2, <3>4, <3>5, HostStaysFacts DEF Stream, WithBlock
      <3> QED BY <1>1, <1>2, <2>1, <2>4, <2>5, <2>6, <3>6, HostStaysFacts DEF Telling
    <2>12. cst = "tail" => Stream \/ Block
      BY <1>1, <1>3, TellingFacts
    <2>13. Stages'
      BY <1>2, <2>1
    <2> QED BY <1>1, <2>6, <2>9, <2>10, <2>11, <2>12, <2>13
  <1> QED BY <1>2, <1>3, StepConclusion

\* A NULL behind a line that holds parts of the answer.
LEMMA NullAtEnd ==
  ASSUME NEW p, NEW nr, Parts(p, nr), Len(toHost) = p, nr[p] = Len(gave),
         toHost \in Seq(Byte), gave \in Seq(Byte), toHost' = toHost \o <<NullB>>,
         UNCHANGED <<pc, avail, rsp, gave>>
  PROVE  \E mr : Parts(p + 1, mr)' /\ Len(toHost') = p + 1 /\ mr[p + 1] = Len(gave)
  <1> DEFINE one == <<NullB>>
  <1>1. one \in Seq(Byte) /\ Len(one) = 1 /\ one[1] = NullB
    BY ProcFacts
  <1>2. toHost' = toHost \o one
    OBVIOUS
  <1> HIDE DEF one
  <1>3. /\ toHost' \in Seq(Byte) /\ Len(toHost') = Len(toHost) + Len(one)
        /\ \A i \in 1..Len(one) : toHost'[Len(toHost) + i] = one[i]
    <2>1. toHost \in Seq(Byte)
      OBVIOUS
    <2> QED BY ONLY <1>1, <1>2, <2>1, ConcatFacts
  <1>4. p \in Nat /\ Len(gave) \in Nat
    OBVIOUS
  <1>5. Len(toHost') = p + 1 /\ toHost'[p + 1] = NullB
    <2>1. 1 \in 1..Len(one) /\ Len(toHost) = p
      BY <1>1
    <2> QED BY ONLY <1>1, <1>3, <1>4, <2>1
  <1>6. Parts(p, nr)'
    <2>1. /\ toHost \in Seq(Byte) /\ gave \in Seq(Byte) /\ gave' \in Seq(Byte)
          /\ Len(gave) <= Len(gave')
      OBVIOUS
    <2>2. Parts(p, nr) /\ UNCHANGED <<pc, avail, rsp>>
      OBVIOUS
    <2> QED BY ONLY <1>1, <1>2, <2>1, <2>2, PartsBefore
  <1> DEFINE mr == [i \in 0..(p + 1) |-> IF i <= p THEN nr[i] ELSE nr[p]]
  <1>7. nr \in [0..p -> 0..Len(gave)] /\ nr[0] = Len(rsp)
    BY DEF Parts
  <1>8. /\ mr \in [0..(p + 1) -> 0..Len(gave')]
        /\ \A i \in 0..p : mr[i] = nr[i]
        /\ mr[p + 1] = nr[p]
    BY <1>4, <1>7
  <1> HIDE DEF mr
  <1>9. \A i \in 1..p :
           \/ toHost'[i] = NullB /\ nr[i] = nr[i - 1]
           \/ /\ toHost'[i] = NackB /\ nr[i] = nr[i - 1]
              /\ i < p /\ IsData(toHost'[i + 1])
           \/ /\ toHost'[i] = avail'[nr[i]] /\ nr[i] = nr[i - 1] + 1
              /\ IF i = 1 THEN pc' = "byte" ELSE toHost'[i - 1] = NackB
    BY <1>6 DEF Parts
  <1>10. ASSUME NEW i \in 1..(p + 1)
         PROVE  \/ toHost'[i] = NullB /\ mr[i] = mr[i - 1]
                \/ /\ toHost'[i] = NackB /\ mr[i] = mr[i - 1]
                   /\ i < p + 1 /\ IsData(toHost'[i + 1])
                \/ /\ toHost'[i] = avail'[mr[i]] /\ mr[i] = mr[i - 1] + 1
                   /\ IF i = 1 THEN pc' = "byte" ELSE toHost'[i - 1] = NackB
    <2>1. CASE i \in 1..p
      <3>1. mr[i] = nr[i] /\ mr[i - 1] = nr[i - 1] /\ (i < p => i < p + 1)
        BY <1>4, <1>8, <2>1
      <3> QED BY <1>9, <2>1, <3>1
    <2>2. CASE i = p + 1
      <3>1. i - 1 = p /\ p \in 0..p
        BY <1>4, <2>2
      <3>2. mr[i] = mr[i - 1]
        BY <1>8, <2>2, <3>1
      <3> QED BY <1>5, <2>2, <3>2
    <2> QED BY <1>4, <2>1, <2>2
  <1>11. mr[0] = Len(rsp') /\ p + 1 \in 0..Len(toHost')
    BY <1>4, <1>5, <1>7, <1>8
  <1>12. pc' = "byte" => p + 1 > 0 /\ IsData(toHost'[1])
    BY <1>4, <1>6 DEF Parts
  <1>13. Parts(p + 1, mr)'
    BY ONLY <1>8, <1>10, <1>11, <1>12 DEF Parts
  <1> QED BY <1>5, <1>8, <1>13

\* The card asks for time.
LEMMA CardNullInv ==
  ASSUME LinkInv, Orderly, HostStays, CardNull
  PROVE  LinkInv'
  <1>1. /\ cst \in {"give", "end"} \/ (cst = "take" /\ expect = 0)
        /\ toHost' = toHost \o <<NullB>>
        /\ UNCHANGED <<toCard, cst, want, expect, got, avail, rest, gave, status, executed>>
    BY DEF CardNull, Send, NullB, Orderly
  <1>2. CardTypes' /\ CardGetsCommand' /\ Performed' = Performed /\ AvailOwn' = AvailOwn
    BY <1>1, HostStaysFacts DEF CardTypes, CardGetsCommand, Performed, AvailOwn, LinkInv
  <1>3. CardSide' /\ (pc # "idle" \/ ~clean)
    BY <1>1, <1>2, HostStaysFacts DEF CardSide, LinkInv, Idle
  <1>4. ASSUME pc # "idle", cst \in {"give", "end"}
        PROVE  Telling' /\ Stages' /\ toHost' \in Seq(Byte)
    <2>1. /\ Telling /\ Stages /\ toHost \in Seq(Byte) /\ gave \in Seq(Byte)
          /\ pc \in {"procedure", "byte"}
      BY <1>4, TellingFacts
    <2>2. PICK p, nr : Parts(p, nr) /\ Len(toHost) = p /\ nr[p] = Len(gave)
      BY <1>4, TellingFacts
    <2>3. UNCHANGED <<pc, avail, rsp, gave>>
      BY <1>1, HostStaysFacts
    <2>4. PICK mr : Parts(p + 1, mr)' /\ Len(toHost') = p + 1 /\ mr[p + 1] = Len(gave)
      <3>1. toHost \in Seq(Byte) /\ gave \in Seq(Byte) /\ toHost' = toHost \o <<NullB>>
        BY <1>1, <2>1
      <3> QED BY ONLY <2>2, <2>3, <3>1, NullAtEnd
    <2>5. Stepwise(p + 1, mr)'
      BY <1>1, <1>4, <2>4 DEF Stepwise
    <2>6. Stream'
      BY <2>1, <2>3, <2>4, <2>5 DEF Stream
    <2>7. PICK k \in {"90", "6F", "6C", "61"}, n \in 0..(MaxLe - 1) : StatusDue(k, n)
      BY <2>1 DEF Telling
    <2>8. StatusDue(k, n)'
      BY <1>1, <1>2, <2>7, HostStaysFacts DEF StatusDue
    <2>9. Given'
      BY <1>1, <2>1, HostStaysFacts DEF Given, Telling
    <2>10. Stages'
      BY <1>1, <1>2, <2>1, HostStaysFacts DEF Stages, P3
    <2>11. toHost' \in Seq(Byte)
      <3>1. <<NullB>> \in Seq(Byte)
        BY ProcFacts
      <3> QED BY <1>1, <2>1, <3>1, ConcatFacts
    <2> QED BY <1>1, <1>2, <2>1, <2>6, <2>8, <2>9, <2>10, <2>11 DEF Telling
  <1>5. ASSUME pc # "idle", cst = "take"
        PROVE  Taking' /\ Stages' /\ toHost' \in Seq(Byte)
    <2>1. Taking /\ Stages /\ toHost \in Seq(Byte)
      BY <1>5 DEF LinkInv, Busy, Waiting, Telling
    <2>2. expect = 0 /\ want > 0 /\ want \in Int
      <3>1. Len(got) \in Nat /\ apdu.lc \in Int
        BY LimitsAssumption DEF LinkInv, CardTypes, HostTypes
      <3> QED BY <1>1, <1>5, <3>1 DEF LinkInv, CardSide
    <2>3. PICK p \in 0..Len(toHost) : Len(toHost) = p /\ \A i \in 1..p : toHost[i] = NullB
      BY <2>1, <2>2 DEF Taking, Asked, Answered
    <2>4. /\ toHost' \in Seq(Byte) /\ Len(toHost') = p + 1
          /\ \A i \in 1..(p + 1) : toHost'[i] = NullB
      <3> DEFINE one == <<NullB>>
      <3>1. one \in Seq(Byte) /\ Len(one) = 1 /\ one[1] = NullB
        BY ProcFacts
      <3>2. toHost' = toHost \o one
        BY <1>1
      <3> HIDE DEF one
      <3>3. toHost \in Seq(Byte) /\ Len(toHost) \in Nat
        BY <2>1
      <3>4. /\ toHost' \in Seq(Byte) /\ Len(toHost') = Len(toHost) + Len(one)
            /\ \A i \in 1..Len(toHost) : toHost'[i] = toHost[i]
            /\ \A i \in 1..Len(one) : toHost'[Len(toHost) + i] = one[i]
        BY ONLY <3>1, <3>2, <3>3, ConcatFacts
      <3>5. 1 \in 1..Len(one) /\ toHost'[p + 1] = NullB
        BY <2>3, <3>1, <3>4
      <3>6. \A i \in 1..p : toHost'[i] = NullB
        BY <2>3, <3>4
      <3> QED BY <2>3, <3>1, <3>3, <3>4, <3>5, <3>6
    <2>5. toCard = << >> /\ spointer = Len(got)
      BY <2>1, <2>2 DEF Taking, Asked, Answered
    <2>6. Asked'
      <3>1. p + 1 \in 0..Len(toHost')
        BY <2>1, <2>3, <2>4
      <3> QED BY <1>1, <2>2, <2>4, <2>5, <3>1, HostStaysFacts DEF Asked
    <2>7. Taking'
      BY <1>1, <2>1, <2>6, HostStaysFacts DEF Taking
    <2>8. Stages'
      BY <1>1, <1>2, <2>1, HostStaysFacts DEF Stages, P3
    <2> QED BY <2>4, <2>7, <2>8
  <1> QED BY <1>1, <1>2, <1>3, <1>4, <1>5, StepConclusion

\* Any step of the card.
LEMMA CardInv ==
  ASSUME LinkInv, Orderly, CardMoves
  PROVE  LinkInv'
  <1>1. HostStays /\ CardStep
    BY DEF CardMoves, HostStays
  <1> QED
    BY <1>1, CardRefusesInv, CardCase1Inv, CardCase2Inv, CardCase3Inv, CardGetResponseInv,
       CardAsksInv, CardTakesInv, CardGivesAllInv, CardGivesOneInv, CardStatusInv, CardNullInv
       DEF CardStep

-----------------------------------------------------------------------------
(* And when a TPDU ends.                                                   *)

\* What a step of the host between two reads leaves alone.
CardStays == UNCHANGED cardVars /\ UNCHANGED serial

\* The APDU but for its Le byte.
SameCommand ==
  /\ apdu'.cse = apdu.cse /\ apdu'.serial = apdu.serial
  /\ apdu'.lc = apdu.lc /\ apdu'.le = apdu.le
  /\ apdu' \in [cse : Cases, serial : Nat, lc : 0..(MaxLe - 1), le : 0..(MaxLe - 1),
                hasLe : BOOLEAN]

\* What depends on the command alone is as it was.
LEMMA SameCommandFacts ==
  ASSUME SameCommand, CardStays
  PROVE  /\ \A k : CmdByte(k)' = CmdByte(k)
         /\ \A ins, n : HeaderByte(ins, n)' = HeaderByte(ins, n)
         /\ \A k, n : StatusWord(k, n)' = StatusWord(k, n)
         /\ P3(apdu)' = P3(apdu) /\ Performed' = Performed /\ AvailOwn' = AvailOwn
         /\ UNCHANGED <<cst, want, expect, got, avail, rest, gave, status, executed, serial>>
         /\ CardGetsCommand => CardGetsCommand'
  <1>1. /\ \A k : CmdByte(k)' = CmdByte(k)
        /\ \A ins, n : HeaderByte(ins, n)' = HeaderByte(ins, n)
        /\ \A k, n : StatusWord(k, n)' = StatusWord(k, n)
    BY DEF SameCommand, CmdByte, HeaderByte, StatusWord
  <1>2. P3(apdu)' = P3(apdu)
    BY DEF SameCommand, P3
  <1>3. UNCHANGED <<cst, want, expect, got, avail, rest, gave, status, executed, serial>>
    BY DEF CardStays, cardVars
  <1>4. Performed' = Performed /\ AvailOwn' = AvailOwn
    BY <1>3 DEF SameCommand, Performed, AvailOwn
  <1>5. CardGetsCommand => CardGetsCommand'
    BY <1>1, <1>3 DEF SameCommand, CardGetsCommand
  <1> QED BY <1>1, <1>2, <1>3, <1>4, <1>5

\* So is the card while the host only reads.
LEMMA CardSideStays ==
  ASSUME LinkInv, CardStays, SameCommand, pc # "idle", UNCHANGED toCard
  PROVE  CardSide' /\ CardTypes' /\ CardGetsCommand'
  <1>1. CardTypes' /\ CardGetsCommand'
    BY SameCommandFacts DEF LinkInv, CardTypes
  <1>2. CardSide'
    BY SameCommandFacts DEF LinkInv, CardSide, SameCommand
  <1> QED BY <1>1, <1>2

\* A call ends.
LEMMA FinishTypes ==
  ASSUME LinkInv, CardStays, SameCommand, NEW r \in Errors \cup {"OK"}, NEW unread,
         Finish(r, unread), NoteFailure
  PROVE  /\ HostTypes' /\ ret' = r /\ pc' = "idle" /\ UNCHANGED toCard
         /\ clean' = (clean /\ r = "OK")
  <1>1. /\ pc' = "idle" /\ stage' = "command" /\ rsp' = << >> /\ spointer' = 0 /\ nulls' = 0
        /\ tpdu' = [cse |-> 1, p3 |-> 0] /\ ret' = r /\ UNCHANGED toCard /\ serial' = serial
        /\ striped' = FALSE
    BY DEF Finish, CardStays
  <1>2. clean' = (clean /\ r = "OK")
    BY <1>1 DEF NoteFailure
  <1>3. HostTypes'
    <2>1. tpdu'.cse \in Cases /\ tpdu'.p3 \in 0..(MaxLe - 1)
      BY <1>1, LimitsAssumption DEF Cases
    <2>2. rsp' \in Seq(Byte) /\ Len(rsp') <= MaxLe + 2 /\ spointer' \in 0..apdu'.lc
      BY <1>1, LimitsAssumption DEF LinkInv, HostTypes, SameCommand
    <2>3. clean' \in BOOLEAN
      BY <1>2
    <2> QED BY <1>1, <2>1, <2>2, <2>3 DEF LinkInv, HostTypes, SameCommand
  <1> QED BY <1>1, <1>2, <1>3

\* It ends with an error: nothing is claimed any more.
LEMMA EndsBadly ==
  ASSUME LinkInv, CardStays, SameCommand, pc # "idle", NEW r \in Errors, NEW unread,
         Finish(r, unread), NoteFailure
  PROVE  LinkInv'
  <1>1. /\ HostTypes' /\ ret' = r /\ pc' = "idle" /\ UNCHANGED toCard
        /\ clean' = (clean /\ r = "OK")
    BY FinishTypes
  <1>2. r # "OK" /\ r # "busy"
    BY DEF Errors
  <1>3. CardSide' /\ CardTypes' /\ CardGetsCommand'
    BY <1>1, CardSideStays
  <1>4. Busy' /\ Idle' /\ Outcome'
    BY <1>1, <1>2 DEF Busy, Idle, Outcome
  <1> QED BY <1>1, <1>3, <1>4 DEF LinkInv

\* It ends well.
LEMMA EndsWell ==
  ASSUME LinkInv, CardStays, SameCommand, pc # "idle", NEW unread, Finish("OK", unread),
         NoteFailure, cst = "header", toCard = << >>, Performed,
         apduRsp' \in Seq(Byte), Len(apduRsp') > 1, apduRsp'[1].val[2] = apdu.serial,
         Kind(status[1]) = "61" => MaxLe \in RspLens
  PROVE  LinkInv'
  <1>1. /\ HostTypes' /\ ret' = "OK" /\ pc' = "idle" /\ UNCHANGED toCard
        /\ clean' = (clean /\ "OK" = "OK")
    BY FinishTypes
  <1>2. CardSide' /\ CardTypes' /\ CardGetsCommand'
    BY <1>1, CardSideStays
  <1>3. apdu.serial = serial /\ clean /\ clean'
    BY <1>1 DEF LinkInv, CardSide, Busy
  <1>4. Busy' /\ Idle'
    BY <1>1, SameCommandFacts DEF Busy, Idle
  <1>5. Outcome'
    BY <1>1, <1>3, SameCommandFacts DEF Outcome, SameCommand
  <1> QED BY <1>1, <1>2, <1>4, <1>5 DEF LinkInv

\* It goes on with another TPDU, of case 2: the card waits for its header.
LEMMA NextTpdu ==
  ASSUME LinkInv, CardStays, SameCommand, pc # "idle", NEW n \in 0..(MaxLe - 1),
         NEW ins \in {"cmd", "getrsp"}, Header(ins, 2, n), UNCHANGED <<striped, ret>>, NoteFailure,
         stage' = IF ins = "cmd" THEN "reissue" ELSE "get",
         cst = "header", toCard = << >>, Performed,
         ins = "cmd" => apdu.cse = 2,
         ins = "getrsp" => /\ apdu.cse = 4 \/ (apdu.cse = 2 /\ Case2Fetch)
                           /\ AvailOwn /\ Decoded(n) <= Len(avail)
  PROVE  LinkInv'
  <1>1. /\ pc' = "procedure" /\ tpdu' = [cse |-> 2, p3 |-> n]
        /\ rsp' = << >> /\ spointer' = 0 /\ nulls' = 0 /\ toHost' = << >>
        /\ toCard' = Append(toCard, LineByte("other", ins, apdu'.serial, n))
        /\ serial' = serial
    BY DEF Header, CardStays
  <1>2. toCard' = <<HeaderByte(ins, n)>> /\ HeaderByte(ins, n) \in Byte
    <2>1. n \in Int
      BY LimitsAssumption
    <2>2. apdu.serial \in Int
      BY DEF LinkInv, HostTypes
    <2>3. HeaderByte(ins, n) \in Byte
      BY <2>1, <2>2, ByteFacts DEF HeaderByte, Looks, Kinds
    <2> QED BY <1>1, <2>3 DEF HeaderByte, SameCommand
  <1>3. clean' = clean /\ clean /\ apdu.serial = serial /\ ret = "busy"
    BY <1>1 DEF LinkInv, CardSide, Busy, NoteFailure
  <1>4. tpdu'.cse = 2 /\ tpdu'.p3 = n
    BY <1>1
  <1>5. HostTypes'
    <2>1. rsp' \in Seq(Byte) /\ Len(rsp') <= MaxLe + 2 /\ spointer' \in 0..apdu'.lc
      BY <1>1, LimitsAssumption DEF LinkInv, HostTypes, SameCommand
    <2>2. stage' \in {"command", "reissue", "get"}
      OBVIOUS
    <2> QED BY <1>1, <1>3, <1>4, <2>1, <2>2 DEF LinkInv, HostTypes, SameCommand, Cases
  <1>6. CardTypes'
    BY <1>2, SameCommandFacts DEF LinkInv, CardTypes
  <1>7. CardSide'
    <2>1. ins = "cmd" /\ apdu.cse # 2 => n = P3(apdu) /\ ~Performed
      OBVIOUS
    <2>2. expect = 0
      BY DEF LinkInv, CardSide
    <2> QED BY <1>1, <1>2, <1>3, <2>1, <2>2, SameCommandFacts DEF LinkInv, CardSide, SameCommand
  <1>8. Waiting'
    BY <1>1, <1>2, <1>4, SameCommandFacts DEF Waiting
  <1>9. Stages'
    BY <1>1, <1>4, SameCommandFacts DEF Stages, D, SameCommand
  <1>10. Busy' /\ Idle' /\ Outcome'
    BY <1>1, <1>3, <1>8, <1>9 DEF Busy, Idle, Outcome
  <1> QED BY <1>5, <1>6, <1>7, <1>10, SameCommandFacts DEF LinkInv

\* The first le bytes.
Cut(g, le) == SubSeq(g, 1, IF Len(g) < le THEN Len(g) ELSE le)

LEMMA CutFacts ==
  ASSUME NEW S, NEW g \in Seq(S), NEW le \in Nat
  PROVE  /\ Cut(g, le) \in Seq(S)
         /\ Len(Cut(g, le)) = IF Len(g) < le THEN Len(g) ELSE le
         /\ Len(Cut(g, le)) \in Nat /\ Len(Cut(g, le)) <= Len(g)
         /\ \A i \in 1..Len(Cut(g, le)) : Cut(g, le)[i] = g[i]
         /\ Len(g) <= le => Cut(g, le) = g
  <1> DEFINE n == IF Len(g) < le THEN Len(g) ELSE le
  <1>1. n \in 0..Len(g) /\ Len(g) \in Nat /\ (Len(g) <= le => n = Len(g))
    OBVIOUS
  <1>2. Cut(g, le) = SubSeq(g, 1, n)
    BY DEF Cut
  <1> HIDE DEF n
  <1>3. /\ Cut(g, le) \in Seq(S) /\ Len(Cut(g, le)) = n
        /\ \A i \in 1..n : Cut(g, le)[i] = g[i]
    BY <1>1, <1>2
  <1>4. Len(g) <= le => Cut(g, le) = g
    BY <1>1, <1>3, SameSequence
  <1> QED BY <1>1, <1>3, <1>4 DEF n

\* "Don't copy more than requested" (sct0.c 294, 358): the data are cut, the status
\* word stays.
LEMMA ClipFacts ==
  ASSUME NEW S, NEW g \in Seq(S), NEW s \in Seq(S), Len(s) = 2, NEW le \in Nat
  PROVE  Clip(g \o s, le) = Cut(g, le) \o s
  <1> DEFINE b == g \o s
  <1>1. /\ b \in Seq(S) /\ Len(b) = Len(g) + 2 /\ Len(g) \in Nat
        /\ \A i \in 1..Len(g) : b[i] = g[i]
        /\ \A i \in 1..2 : b[Len(g) + i] = s[i]
    <2>1. g \in Seq(S) /\ s \in Seq(S)
      OBVIOUS
    <2>2. /\ b \in Seq(S) /\ Len(b) = Len(g) + Len(s)
          /\ \A i \in 1..Len(g) : b[i] = g[i]
          /\ \A i \in 1..Len(s) : b[Len(g) + i] = s[i]
      BY ONLY <2>1, ConcatFacts
    <2> QED BY <2>2
  <1> HIDE DEF b
  <1>2. CASE Len(g) > le
    <2> DEFINE x == SubSeq(b, 1, le)
               y == SubSeq(b, Len(b) - 1, Len(b))
    <2>1. x \in Seq(S) /\ Len(x) = le /\ \A i \in 1..le : x[i] = g[i]
      <3>1. le \in 0..Len(b) /\ \A i \in 1..le : i \in 1..Len(g)
        BY <1>1, <1>2
      <3>2. x \in Seq(S) /\ Len(x) = le /\ \A i \in 1..le : x[i] = b[i]
        BY <1>1, <3>1
      <3> QED BY <1>1, <3>1, <3>2
    <2>2. y \in Seq(S) /\ Len(y) = 2 /\ \A i \in 1..2 : y[i] = s[i]
      BY <1>1, <1>2
    <2>3. y = s
      BY <2>2, SameSequence
    <2>4. x = Cut(g, le)
      <3> DEFINE c == Cut(g, le)
      <3>1. /\ c \in Seq(S) /\ Len(c) = le
            /\ \A i \in 1..Len(c) : c[i] = g[i]
        BY <1>1, <1>2, CutFacts
      <3> HIDE DEF c, x
      <3>2. Len(x) = Len(c) /\ \A i \in 1..Len(x) : x[i] = c[i]
        BY <2>1, <3>1
      <3>3. x = c
        BY ONLY <2>1, <3>1, <3>2, SameSequence
      <3> QED BY <3>3 DEF c
    <2>5. Clip(b, le) = x \o y
      BY <1>1, <1>2 DEF Clip
    <2> QED BY <2>3, <2>4, <2>5 DEF b
  <1>3. CASE Len(g) <= le
    <2>1. Clip(b, le) = b
      BY <1>1, <1>3 DEF Clip
    <2>2. Cut(g, le) = g
      BY <1>3, CutFacts
    <2> QED BY <2>1, <2>2 DEF b
  <1> QED BY <1>1, <1>2, <1>3

\* The last two bytes are the status word.
LEMMA LastFacts ==
  ASSUME NEW S, NEW g \in Seq(S), NEW s \in Seq(S), Len(s) = 2
  PROVE  /\ Last2(g \o s) = s /\ Len(g \o s) = Len(g) + 2 /\ g \o s \in Seq(S)
         /\ Len(g) \in Nat
         /\ (g \o s)[1] = IF Len(g) = 0 THEN s[1] ELSE g[1]
         /\ (g \o s)[2] = IF Len(g) = 0 THEN s[2] ELSE (g \o s)[2]
  <1> DEFINE b == g \o s
  <1>1. /\ b \in Seq(S) /\ Len(b) = Len(g) + Len(s) /\ Len(g) \in Nat
        /\ \A i \in 1..Len(g) : b[i] = g[i]
        /\ \A i \in 1..Len(s) : b[Len(g) + i] = s[i]
    BY ConcatFacts
  <1> HIDE DEF b
  <1> DEFINE y == SubSeq(b, Len(b) - 1, Len(b))
  <1>2. y \in Seq(S) /\ Len(y) = 2 /\ \A i \in 1..2 : y[i] = s[i]
    BY <1>1
  <1>3. y = s
    BY <1>2, SameSequence
  <1>4. Len(g) = 0 => b[1] = s[1] /\ b[2] = s[2]
    BY <1>1
  <1>5. Len(g) # 0 => b[1] = g[1]
    BY <1>1
  <1> QED BY <1>1, <1>3, <1>4, <1>5 DEF b, Last2

\* What the card has to say is complete and has been read: a TPDU has ended well.
Said == pc # "idle" /\ cst = "header" /\ Telling

\* What is known then.
LEMMA SaidFacts ==
  ASSUME LinkInv, Said
  PROVE  /\ Stages /\ toCard = << >> /\ Performed /\ clean
         /\ gave \in Seq(Byte) /\ Len(gave) \in Nat
         /\ gave = << >> \/ (Len(gave) = D /\ AvailOwn /\ tpdu.cse = 2)
         /\ \A k \in 1..Len(gave) : gave[k].val[2] = apdu.serial
         /\ status \in Seq(Byte) /\ Len(status) = 2 /\ status[1].val[2] = apdu.serial
         /\ Kind(status[1]) = "61" => /\ AvailOwn /\ stage # "get" /\ gave = << >>
                                      /\ status[2].val[2] = Coded(Len(avail))
                                      /\ apdu.cse = 4 \/ (apdu.cse = 2 /\ Case2Fetch)
         /\ Kind(status[1]) = "6C" => /\ AvailOwn /\ apdu.cse = 2 /\ gave = << >>
                                      /\ status[2].val[2] = Coded(Len(avail))
  <1>1. Telling /\ Stages /\ clean
    BY DEF LinkInv, Busy, Said
  <1>2. /\ toCard = << >> /\ Performed /\ Given
        /\ gave \in Seq(Byte) /\ Len(gave) \in Nat /\ Len(gave) <= Len(avail)
        /\ gave = << >> \/ Len(gave) = D
    BY <1>1 DEF Telling, Given, Said
  <1>3. PICK k \in {"90", "6F", "6C", "61"}, n \in 0..(MaxLe - 1) : StatusDue(k, n)
    BY <1>1 DEF Telling
  <1>4. n \in Int /\ apdu.serial \in Int
    BY LimitsAssumption DEF LinkInv, HostTypes
  <1>5. /\ status = StatusWord(k, n) /\ status \in Seq(Byte) /\ Len(status) = 2
        /\ Kind(status[1]) = k /\ status[1].val[2] = apdu.serial /\ status[2].val[2] = n
    BY <1>3, <1>4, StatusFacts DEF StatusDue
  <1>6. gave # << >> => AvailOwn /\ tpdu.cse = 2 /\ k = "90"
    BY <1>3 DEF StatusDue
  <1>7. \A j \in 1..Len(gave) : gave[j].val[2] = apdu.serial
    <2> TAKE j \in 1..Len(gave)
    <2>1. gave # << >> /\ j \in 1..Len(avail) /\ gave[j] = avail[j]
      BY <1>1, <1>2 DEF LinkInv, CardTypes, Telling, Given
    <2> QED BY <1>6, <2>1 DEF AvailOwn
  <1>8. /\ k = "61" => /\ AvailOwn /\ stage # "get" /\ n = Coded(Len(avail))
                       /\ apdu.cse = 4 \/ (apdu.cse = 2 /\ Case2Fetch)
        /\ k = "6C" => AvailOwn /\ apdu.cse = 2 /\ n = Coded(Len(avail))
    BY <1>3 DEF StatusDue
  <1> QED BY <1>1, <1>2, <1>5, <1>6, <1>7, <1>8

\* A call that ends with the data, cut, and the status word.
LEMMA AnswerEnds ==
  ASSUME LinkInv, CardStays, SameCommand, Said, NEW unread, Finish("OK", unread), NoteFailure,
         NEW le \in Nat \ {0}, apduRsp' = Cut(gave, le) \o status,
         Kind(status[1]) = "61" => MaxLe \in RspLens
  PROVE  LinkInv'
  <1>1. /\ toCard = << >> /\ Performed /\ gave \in Seq(Byte) /\ Len(gave) \in Nat
        /\ \A k \in 1..Len(gave) : gave[k].val[2] = apdu.serial
        /\ status \in Seq(Byte) /\ Len(status) = 2 /\ status[1].val[2] = apdu.serial
    BY SaidFacts
  <1> DEFINE g == Cut(gave, le)
  <1>2. /\ g \in Seq(Byte) /\ Len(g) \in Nat /\ Len(g) <= Len(gave)
        /\ \A i \in 1..Len(g) : g[i] = gave[i]
    BY <1>1, CutFacts
  <1>3. apduRsp' = g \o status
    OBVIOUS
  <1> HIDE DEF g
  <1>4. /\ apduRsp' \in Seq(Byte) /\ Len(apduRsp') = Len(g) + 2
        /\ apduRsp'[1] = IF Len(g) = 0 THEN status[1] ELSE g[1]
    BY ONLY <1>1, <1>2, <1>3, LastFacts
  <1>5. apduRsp'[1].val[2] = apdu.serial
    <2>1. CASE Len(g) = 0
      BY <1>1, <1>4, <2>1
    <2>2. CASE Len(g) # 0
      <3>1. 1 \in 1..Len(g) /\ 1 \in 1..Len(gave)
        BY <1>1, <1>2, <2>2
      <3> QED BY <1>1, <1>2, <1>4, <2>2, <3>1
    <2> QED BY <2>1, <2>2
  <1> QED BY <1>1, <1>2, <1>4, <1>5, EndsWell DEF Said

\* Only the Le byte of the APDU is ever touched.
LEMMA LeOnly ==
  ASSUME LinkInv, NEW b \in BOOLEAN, apdu' = [apdu EXCEPT !.hasLe = b]
  PROVE  SameCommand
  BY DEF LinkInv, HostTypes, SameCommand

\* The card is not there for the next TPDU.
LEMMA NotThere ==
  ASSUME LinkInv, CardStays, SameCommand, pc # "idle", NoCard, NoteFailure
  PROVE  LinkInv'
  <1>1. PICK r \in {"IO_ERROR", "CARD_CHANGED", "NO_CARD"} : Finish(r, << >>)
    BY DEF NoCard
  <1>2. r \in Errors
    BY DEF Errors
  <1> QED BY <1>1, <1>2, EndsBadly

\* The status word of a TPDU decides.
LEMMA CheckResponseKeeps ==
  ASSUME LinkInv, CardStays, SameCommand, Said, NEW unread, NoteFailure,
         NEW le \in Nat \ {0}, NEW r, r = Cut(gave, le) \o status, CheckResponse(r, unread)
  PROVE  LinkInv'
  <1>1. /\ toCard = << >> /\ Performed /\ gave \in Seq(Byte) /\ Len(gave) \in Nat
        /\ status \in Seq(Byte) /\ Len(status) = 2
        /\ Kind(status[1]) = "61" => /\ AvailOwn /\ stage # "get" /\ gave = << >>
                                     /\ status[2].val[2] = Coded(Len(avail))
                                     /\ apdu.cse = 4 \/ (apdu.cse = 2 /\ Case2Fetch)
    BY SaidFacts
  <1> DEFINE g == Cut(gave, le)
             n == status[2].val[2]
  <1>2. g \in Seq(Byte) /\ Len(g) \in Nat /\ (gave = << >> => Len(g) = 0)
    <2>1. g \in Seq(Byte) /\ Len(g) \in Nat /\ Len(g) <= Len(gave)
      BY <1>1, CutFacts
    <2> QED BY <2>1
  <1>3. r = g \o status
    OBVIOUS
  <1> HIDE DEF g
  <1>4. Last2(r) = status /\ Len(r) = Len(g) + 2
    BY ONLY <1>1, <1>2, <1>3, LastFacts
  <1>5. apduRsp' = r /\ ~(Len(r) < 2)
    BY <1>2, <1>4 DEF CheckResponse
  <1>6. ASSUME Kind(status[1]) = "61"
        PROVE  /\ Len(r) = 2 /\ n = Coded(Len(avail)) /\ n \in 0..(MaxLe - 1)
               /\ Decoded(n) = Len(avail) /\ Len(avail) \in RspLens
    <2>1. Len(avail) \in RspLens /\ RspLens \subseteq 1..MaxLe
      BY <1>1, <1>6, SessionAssumption DEF AvailOwn
    <2>2. Len(avail) \in 1..MaxLe
      BY <2>1
    <2> QED BY <1>1, <1>2, <1>4, <1>6, <2>1, <2>2, LimitFacts DEF LinkInv
  <1>7. CASE Kind(status[1]) = "61" /\ n > 0 /\ Len(r) = 2
    <2>1. \/ Header("getrsp", 2, n) /\ stage' = "get" /\ UNCHANGED <<striped, ret>>
          \/ NoCard
      BY <1>4, <1>5, <1>7 DEF CheckResponse
    <2>2. CASE Header("getrsp", 2, n) /\ stage' = "get" /\ UNCHANGED <<striped, ret>>
      <3>1. Decoded(n) <= Len(avail)
        BY <1>6, <1>7, LimitFacts DEF LinkInv, CardTypes
      <3> HIDE DEF n
      <3> QED BY <1>1, <1>6, <1>7, <2>2, <3>1, NextTpdu DEF Said
    <2> QED BY <2>1, <2>2, NotThere DEF Said
  <1>8. CASE ~(Kind(status[1]) = "61" /\ n > 0 /\ Len(r) = 2)
    <2>1. Finish("OK", unread)
      BY <1>4, <1>5, <1>8 DEF CheckResponse
    <2>2. Kind(status[1]) = "61" => MaxLe \in RspLens
      <3>1. ASSUME Kind(status[1]) = "61"
            PROVE  MaxLe \in RspLens
        <4>1. n = 0
          BY <1>6, <1>8, <3>1, LimitsAssumption
        <4> QED BY <1>6, <3>1, <4>1 DEF Decoded
      <3> QED BY <3>1
    <2> QED BY <1>5, <2>1, <2>2, AnswerEnds
  <1> QED BY <1>7, <1>8

\* A TPDU that ends with what the card has given keeps the invariant, whichever of
\* the three it is.
LEMMA TpduEnds ==
  ASSUME LinkInv, CardStays, Said, NEW unread, NoteFailure, TpduDone(gave \o status, unread)
  PROVE  LinkInv'
  <1>1. /\ Stages /\ toCard = << >> /\ Performed /\ clean
        /\ gave \in Seq(Byte) /\ Len(gave) \in Nat
        /\ gave = << >> \/ (Len(gave) = D /\ AvailOwn /\ tpdu.cse = 2)
        /\ status \in Seq(Byte) /\ Len(status) = 2
    BY SaidFacts
  <1>13. /\ Kind(status[1]) = "61" => stage # "get" /\ apdu.cse \in {2, 4}
         /\ Kind(status[1]) = "6C" => /\ AvailOwn /\ apdu.cse = 2 /\ gave = << >>
                                      /\ status[2].val[2] = Coded(Len(avail))
    BY SaidFacts
  <1>2. MaxLe \in Nat \ {0} /\ D \in Nat \ {0} /\ Decoded(apdu.le) \in Nat \ {0}
    <2>1. apdu.le \in 0..(MaxLe - 1)
      BY DEF LinkInv, HostTypes
    <2>2. Decoded(apdu.le) \in 1..MaxLe /\ D \in 1..MaxLe /\ MaxLe \in Nat /\ MaxLe > 0
      BY <2>1, LimitFacts DEF LinkInv
    <2> QED BY <2>2
  <1> DEFINE r == gave \o status
  <1>3. Cut(gave, D) = gave
    BY <1>1, <1>2, CutFacts
  <1>4. Clip(r, D) = r
    <2>1. Clip(gave \o status, D) = Cut(gave, D) \o status
      BY <1>1, <1>2, ClipFacts
    <2> QED BY <1>3, <2>1
  <1>5. r = Cut(gave, D) \o status
    BY <1>3
  <1>6. /\ Len(r) = Len(gave) + 2
        /\ gave = << >> => r[1] = status[1] /\ r[2] = status[2]
    <2>1. /\ Len(r) = Len(gave) + 2
          /\ r[1] = IF Len(gave) = 0 THEN status[1] ELSE gave[1]
          /\ r[2] = IF Len(gave) = 0 THEN status[2] ELSE r[2]
      BY <1>1, LastFacts
    <2> QED BY <2>1
  <1>7. pc # "idle" /\ Decoded(tpdu.p3) = D
    BY DEF Said, D
  <1> HIDE DEF r
  <1>8. \/ stage = "command" /\ CommandDone(r, unread)
        \/ /\ stage = "reissue" /\ apdu' = apdu
           /\ CheckResponse(Clip(r, Decoded(apdu.le)), unread)
        \/ stage = "get" /\ Fetched(r, unread)
    BY <1>4, <1>7 DEF TpduDone, r
  <1>9. CASE stage = "command" /\ CommandDone(r, unread)
    <2>1. SameCommand
      <3>1. PICK b \in BOOLEAN : apdu' = [apdu EXCEPT !.hasLe = b]
        BY <1>9 DEF CommandDone, LinkInv, HostTypes
      <3> QED BY <3>1, LeOnly
    <2>2. CASE apdu.cse = 2 /\ Len(r) = 2 /\ Kind(r[1]) = "6C"
      <3>1. gave = << >>
        <4>1. Len(gave) = 0
          <5>1. Len(r) = Len(gave) + 2 /\ Len(r) = 2 /\ Len(gave) \in Nat
            BY <1>1, <1>6, <2>2
          <5>2. \A x, y \in Nat : y = 2 /\ y = x + 2 => x = 0
            OBVIOUS
          <5> QED BY <5>1, <5>2
        <4>2. gave \in Seq(Byte)
          BY <1>1
        <4> QED BY ONLY <4>1, <4>2
      <3>2. Kind(status[1]) = "6C"
        BY <1>6, <2>2, <3>1
      <3> DEFINE n == status[2].val[2]
      <3>3. Len(avail) \in RspLens /\ n = Coded(Len(avail)) /\ RspLens \subseteq 1..MaxLe
        BY <1>13, <3>2, SessionAssumption DEF AvailOwn
      <3>4. n \in 0..(MaxLe - 1)
        <4>1. Len(avail) \in 1..MaxLe
          BY <3>3
        <4> QED BY <3>3, <4>1, LimitFacts DEF LinkInv
      <3>5. Reissue(r)
        BY <1>9, <2>2 DEF CommandDone
      <3>6. \/ Header("cmd", 2, n) /\ stage' = "reissue" /\ UNCHANGED <<striped, ret>>
            \/ NoCard
        BY <1>6, <3>1, <3>5 DEF Reissue
      <3> HIDE DEF n
      <3>7. CASE Header("cmd", 2, n) /\ stage' = "reissue" /\ UNCHANGED <<striped, ret>>
        BY <1>1, <2>1, <2>2, <3>4, <3>7, NextTpdu DEF Said
      <3> QED BY <1>7, <2>1, <3>6, <3>7, NotThere
    <2>3. CASE ~(apdu.cse = 2 /\ Len(r) = 2 /\ Kind(r[1]) = "6C") /\ apdu.cse \in {2, 4}
      <3>1. CheckResponse(r, unread)
        BY <1>9, <2>3 DEF CommandDone
      <3> QED BY <1>2, <1>5, <2>1, <3>1, CheckResponseKeeps
    <2>4. CASE apdu.cse \notin {2, 4}
      <3>1. Finish("OK", unread) /\ apduRsp' = r
        BY <1>9, <2>4 DEF CommandDone
      <3> QED BY <1>13, <1>2, <1>5, <2>1, <2>4, <3>1, AnswerEnds
    <2> QED BY <2>2, <2>3, <2>4
  <1>10. CASE /\ stage = "reissue" /\ apdu' = apdu
              /\ CheckResponse(Clip(r, Decoded(apdu.le)), unread)
    <2>1. SameCommand
      BY <1>10 DEF SameCommand, LinkInv, HostTypes
    <2>2. Clip(r, Decoded(apdu.le)) = Cut(gave, Decoded(apdu.le)) \o status
      BY <1>1, <1>2, ClipFacts DEF r
    <2> QED BY <1>2, <1>10, <2>1, <2>2, CheckResponseKeeps
  <1>11. CASE stage = "get" /\ Fetched(r, unread)
    <2>1. SameCommand
      BY <1>11 DEF SameCommand, LinkInv, HostTypes, Fetched
    <2>2. LeOfCaller \in Nat \ {0}
      BY <1>2 DEF LeOfCaller
    <2>3. Clip(r, LeOfCaller) = Cut(gave, LeOfCaller) \o status
      BY <1>1, <2>2, ClipFacts DEF r
    <2>4. Finish("OK", unread) /\ apduRsp' = Cut(gave, LeOfCaller) \o status
      BY <1>11, <2>3 DEF Fetched
    <2>5. Kind(status[1]) # "61"
      BY <1>13, <1>11
    <2> QED BY <2>1, <2>2, <2>4, <2>5, AnswerEnds
  <1>12. QED
    BY <1>8, <1>9, <1>10, <1>11

-----------------------------------------------------------------------------
(* And in every read.                                                      *)

\* A read behind which the TPDU goes on.
Reading == CardStays /\ UNCHANGED <<callVars>> /\ NoteFailure /\ pc # "idle" /\ pc' # "idle"

LEMMA ReadingFacts ==
  ASSUME LinkInv, Reading
  PROVE  /\ UNCHANGED <<stage, apdu, striped, tpdu, apduRsp, sw, ret, clean>>
         /\ SameCommand /\ D' = D /\ clean /\ ret = "busy"
         /\ UNCHANGED <<cst, want, expect, got, avail, rest, gave, status, executed, serial>>
         /\ Performed' = Performed /\ AvailOwn' = AvailOwn /\ (Stages => Stages')
         /\ \A k : CmdByte(k)' = CmdByte(k)
         /\ \A k, n : StatusWord(k, n)' = StatusWord(k, n)
         /\ CardGetsCommand'
  <1>1. UNCHANGED <<stage, apdu, striped, tpdu, apduRsp, sw, ret>>
    BY DEF Reading, callVars
  <1>2. SameCommand
    BY <1>1 DEF SameCommand, LinkInv, HostTypes
  <1>3. CardStays
    BY DEF Reading
  <1>4. /\ UNCHANGED <<cst, want, expect, got, avail, rest, gave, status, executed, serial>>
        /\ Performed' = Performed /\ AvailOwn' = AvailOwn /\ P3(apdu)' = P3(apdu)
        /\ \A k : CmdByte(k)' = CmdByte(k)
        /\ \A k, n : StatusWord(k, n)' = StatusWord(k, n)
        /\ CardGetsCommand'
    BY <1>2, <1>3, SameCommandFacts DEF LinkInv
  <1>5. clean /\ ret = "busy"
    BY DEF LinkInv, Busy, Reading
  <1>6. clean' = clean
    BY <1>5 DEF NoteFailure, Reading
  <1>7. D' = D
    BY <1>1 DEF D
  <1>8. Stages => Stages'
    BY <1>1, <1>4, <1>7 DEF Stages
  <1> QED BY <1>1, <1>2, <1>4, <1>5, <1>6, <1>7, <1>8

\* What has to be shown of such a read.
LEMMA ReadGoesOn ==
  ASSUME LinkInv, Reading, pc' \in {"procedure", "status2", "byte", "block"},
         rsp' \in Seq(Byte), Len(rsp') <= MaxLe + 2, spointer' \in 0..apdu.lc, nulls' \in Nat,
         toHost' \in Seq(Byte), toCard' \in Seq(Byte), CardSide', (Waiting \/ Taking \/ Telling)'
  PROVE  LinkInv'
  <1>1. HostTypes' /\ CardTypes'
    BY ReadingFacts DEF LinkInv, HostTypes, CardTypes
  <1>2. Busy'
    <2>1. Stages
      BY DEF LinkInv, Busy, Reading
    <2> QED BY <2>1, ReadingFacts DEF Busy
  <1>3. Idle' /\ Outcome'
    BY ReadingFacts DEF Idle, Outcome
  <1> QED BY <1>1, <1>2, <1>3, ReadingFacts DEF LinkInv

\* The bytes of the answer are read on.
LEMMA TellingGoesOn ==
  ASSUME LinkInv, Reading, Telling, UNCHANGED <<toCard, spointer>>, nulls' \in Nat,
         pc' \in {"procedure", "status2", "byte", "block"},
         rsp' \in Seq(Byte), Len(rsp') <= MaxLe + 2, toHost' \in Seq(Byte),
         pc' # "status2" => /\ Len(rsp') <= Len(gave)
                            /\ \A k \in 1..Len(rsp') : rsp'[k] = avail[k],
         (Stream \/ Block \/ Second)'
  PROVE  LinkInv'
  <1>1. CardSide'
    BY CardSideStays, ReadingFacts DEF Reading
  <1>2. Telling'
    <2>1. \E k \in {"90", "6F", "6C", "61"}, n \in 0..(MaxLe - 1) : StatusDue(k, n)'
      <3>1. PICK k \in {"90", "6F", "6C", "61"}, n \in 0..(MaxLe - 1) : StatusDue(k, n)
        BY DEF Telling
      <3>2. StatusDue(k, n)'
        BY <3>1, ReadingFacts DEF StatusDue
      <3> QED BY <3>2
    <2>2. Given'
      BY ReadingFacts DEF Telling, Given
    <2> QED BY <2>1, <2>2, ReadingFacts DEF Telling
  <1>3. toCard' \in Seq(Byte) /\ spointer' \in 0..apdu.lc
    BY DEF LinkInv, HostTypes, CardTypes
  <1> QED BY <1>1, <1>2, <1>3, ReadGoesOn

\* What a read of one byte leaves of the line.
LEMMA ShiftFacts ==
  ASSUME toHost \in Seq(Byte), toHost # << >>, toHost' = Unread
  PROVE  /\ toHost' \in Seq(Byte) /\ Len(toHost') = Len(toHost) - 1 /\ Len(toHost) \in Nat \ {0}
         /\ \A i \in 1..(Len(toHost) - 1) : toHost'[i] = toHost[i + 1]
         /\ Head(toHost) = toHost[1] /\ Head(toHost) \in Byte
  <1>1. /\ Tail(toHost) \in Seq(Byte) /\ Len(Tail(toHost)) = Len(toHost) - 1 /\ Len(toHost) > 0
        /\ \A i \in 1..(Len(toHost) - 1) : Tail(toHost)[i] = toHost[i + 1]
        /\ Head(toHost) = toHost[1] /\ Head(toHost) \in Byte
    BY TailFacts
  <1> QED BY <1>1 DEF Unread

\* A byte has been read: the block is one byte nearer, the parts are one fewer.
LEMMA AllGivenShift ==
  ASSUME toHost \in Seq(Byte), toHost # << >>, toHost' = Unread,
         UNCHANGED <<tpdu, gave, avail, cst, status>>, D \in Nat,
         NEW from \in Nat \ {0}, NEW n \in Nat, AllGiven(from, n)
  PROVE  AllGiven(from - 1, n)'
  <1>1. D' = D
    BY DEF D
  <1>2. /\ Len(toHost') = Len(toHost) - 1 /\ Len(toHost) \in Nat
        /\ \A i \in 1..(Len(toHost) - 1) : toHost'[i] = toHost[i + 1]
    BY ShiftFacts
  <1>3. tpdu.cse = 2 /\ Len(gave) = D /\ n < D
    BY DEF AllGiven
  <1>4. /\ Len(toHost) >= from + (D - n)
        /\ \A k \in (n + 1)..D : toHost[from + k - n] = avail[k]
    BY <1>2 DEF AllGiven
  <1>5. ASSUME NEW k \in (n + 1)..D
        PROVE  toHost'[(from - 1) + k - n] = avail[k]
    <2>1. (from - 1) + k - n \in 1..(Len(toHost) - 1) /\ ((from - 1) + k - n) + 1 = from + k - n
      BY <1>2, <1>3, <1>4
    <2> QED BY <1>2, <1>4, <2>1
  <1>6. CASE cst = "tail" /\ Len(toHost) = from + (D - n)
    <2>1. Len(toHost') = (from - 1) + (D - n)
      BY <1>2, <1>6
    <2> QED BY <1>1, <1>3, <1>5, <1>6, <2>1 DEF AllGiven
  <1>7. CASE cst = "header" /\ Len(toHost) = from + (D - n) + 2 /\ EndsWithStatus
    <2>1. Len(toHost') = (from - 1) + (D - n) + 2
      BY <1>2, <1>7
    <2>2. EndsWithStatus'
      <3>1. /\ Len(toHost') - 1 \in 1..(Len(toHost) - 1) /\ Len(toHost') \in 1..(Len(toHost) - 1)
            /\ (Len(toHost') - 1) + 1 = Len(toHost) - 1 /\ Len(toHost') + 1 = Len(toHost)
        BY <1>2, <1>3, <1>7
      <3> QED BY <1>2, <1>7, <3>1 DEF EndsWithStatus
    <2> QED BY <1>1, <1>3, <1>5, <1>7, <2>1, <2>2 DEF AllGiven
  <1> QED BY <1>6, <1>7 DEF AllGiven

LEMMA PartsShift ==
  ASSUME toHost \in Seq(Byte), toHost # << >>, toHost' = Unread, UNCHANGED <<gave, avail>>,
         Len(gave) \in Nat, Len(rsp) \in Nat, NEW p \in Nat \ {0}, NEW nr, Parts(p, nr),
         pc \in {"procedure", "byte"}, pc' = IF toHost[1] = NackB THEN "byte" ELSE "procedure",
         Len(rsp') = nr[1]
  PROVE  \E mr : Parts(p - 1, mr)' /\ mr[p - 1] = nr[p] /\ mr \in [0..(p - 1) -> 0..Len(gave)]
  <1> DEFINE q == p - 1
             mr == [i \in 0..(p - 1) |-> nr[i + 1]]
  <1>1. /\ p \in 1..Len(toHost) /\ nr \in [0..p -> 0..Len(gave)] /\ nr[0] = Len(rsp)
        /\ \A i \in 1..p :
              \/ toHost[i] = NullB /\ nr[i] = nr[i - 1]
              \/ /\ toHost[i] = NackB /\ nr[i] = nr[i - 1]
                 /\ i < p /\ IsData(toHost[i + 1])
              \/ /\ toHost[i] = avail[nr[i]] /\ nr[i] = nr[i - 1] + 1
                 /\ IF i = 1 THEN pc = "byte" ELSE toHost[i - 1] = NackB
    BY DEF Parts
  <1>2. /\ Len(toHost') = Len(toHost) - 1 /\ Len(toHost) \in Nat
        /\ \A i \in 1..(Len(toHost) - 1) : toHost'[i] = toHost[i + 1]
    BY ShiftFacts
  <1>3. /\ q \in 0..Len(toHost') /\ q + 1 = p /\ mr \in [0..q -> 0..Len(gave)]
        /\ \A i \in 0..q : mr[i] = nr[i + 1]
        /\ \A i \in 1..q : toHost'[i] = toHost[i + 1] /\ i + 1 \in 1..p /\ (i + 1) - 1 = i
                           /\ i - 1 \in 0..q /\ (i - 1) + 1 = i
    BY <1>1, <1>2
  <1> HIDE DEF mr
  <1>4. mr[0] = Len(rsp')
    BY <1>3
  <1>5. ASSUME NEW i \in 1..q
        PROVE  \/ toHost'[i] = NullB /\ mr[i] = mr[i - 1]
               \/ /\ toHost'[i] = NackB /\ mr[i] = mr[i - 1]
                  /\ i < q /\ IsData(toHost'[i + 1])
               \/ /\ toHost'[i] = avail[mr[i]] /\ mr[i] = mr[i - 1] + 1
                  /\ IF i = 1 THEN pc' = "byte" ELSE toHost'[i - 1] = NackB
    <2>1. toHost'[i] = toHost[i + 1] /\ mr[i] = nr[i + 1] /\ mr[i - 1] = nr[i]
      BY <1>3
    <2>2. \/ toHost[i + 1] = NullB /\ nr[i + 1] = nr[i]
          \/ /\ toHost[i + 1] = NackB /\ nr[i + 1] = nr[i]
             /\ i + 1 < p /\ IsData(toHost[(i + 1) + 1])
          \/ /\ toHost[i + 1] = avail[nr[i + 1]] /\ nr[i + 1] = nr[i] + 1
             /\ IF i + 1 = 1 THEN pc = "byte" ELSE toHost[i] = NackB
      BY <1>1, <1>3
    <2>3. CASE toHost[i + 1] = NullB /\ nr[i + 1] = nr[i]
      BY <2>1, <2>3
    <2>4. CASE /\ toHost[i + 1] = NackB /\ nr[i + 1] = nr[i]
               /\ i + 1 < p /\ IsData(toHost[(i + 1) + 1])
      <3>1. i < q /\ i + 1 \in 1..q
        BY <1>3, <2>4
      <3>2. IsData(toHost'[i + 1])
        BY <1>3, <2>4, <3>1
      <3> QED BY <2>1, <2>4, <3>1, <3>2
    <2>5. CASE /\ toHost[i + 1] = avail[nr[i + 1]] /\ nr[i + 1] = nr[i] + 1
               /\ IF i + 1 = 1 THEN pc = "byte" ELSE toHost[i] = NackB
      <3>1. toHost[i] = NackB
        BY <2>5
      <3>2. CASE i = 1
        BY <2>1, <2>5, <3>1, <3>2
      <3>3. CASE i # 1
        <4>1. i - 1 \in 1..q
          BY <3>3
        <4>2. toHost'[i - 1] = toHost[i]
          BY <1>3, <4>1
        <4> QED BY <2>1, <2>5, <3>1, <3>3, <4>2
      <3> QED BY <3>2, <3>3
    <2> QED BY <2>2, <2>3, <2>4, <2>5
  <1>6. pc' = "byte" => q > 0 /\ IsData(toHost'[1])
    <2>1. ASSUME toHost[1] = NackB
          PROVE  1 < p /\ IsData(toHost[2])
      <3>1. 1 \in 1..p
        BY <1>1
      <3>2. CASE pc = "byte"
        <4>1. IsData(toHost[1])
          BY <3>2 DEF Parts
        <4> QED BY <2>1, <4>1, ProcFacts
      <3>3. CASE pc # "byte"
        BY <1>1, <2>1, <3>1, <3>3, ProcFacts
      <3> QED BY <3>2, <3>3
    <2>2. 1 < p => 1 \in 1..q /\ 1 + 1 = 2
      BY <1>3
    <2> QED BY <1>3, <2>1, <2>2
  <1>7. Parts(q, mr)'
    BY <1>3, <1>4, <1>5, <1>6 DEF Parts
  <1>8. mr[q] = nr[p]
    <2>1. q \in 0..q
      BY <1>3
    <2> QED BY <1>3, <2>1
  <1> HIDE DEF mr
  <1>9. Parts(p - 1, mr)' /\ mr[p - 1] = nr[p] /\ mr \in [0..(p - 1) -> 0..Len(gave)]
    BY <1>3, <1>7, <1>8
  <1> QED BY <1>9

\* So the rest of the answer follows as before.
LEMMA StreamShift ==
  ASSUME toHost \in Seq(Byte), toHost # << >>, toHost' = Unread, D \in Nat,
         UNCHANGED <<tpdu, gave, avail, cst, status>>,
         Len(gave) \in Nat, Len(rsp) \in Nat, NEW p \in Nat \ {0}, NEW nr, Parts(p, nr),
         Stepwise(p, nr) \/ WithStatus(p, nr) \/ WithBlock(p, nr),
         pc \in {"procedure", "byte"}, pc' = IF toHost[1] = NackB THEN "byte" ELSE "procedure",
         Len(rsp') = nr[1]
  PROVE  Stream'
  <1>1. PICK mr : /\ Parts(p - 1, mr)' /\ mr[p - 1] = nr[p]
                  /\ mr \in [0..(p - 1) -> 0..Len(gave)]
    BY PartsShift
  <1>2. /\ Len(toHost') = Len(toHost) - 1 /\ Len(toHost) \in Nat
        /\ \A i \in 1..(Len(toHost) - 1) : toHost'[i] = toHost[i + 1]
    BY ShiftFacts
  <1>3. nr[p] \in Nat
    BY DEF Parts
  <1>4. CASE Stepwise(p, nr)
    <2>1. Stepwise(p - 1, mr)'
      BY <1>1, <1>2, <1>4 DEF Stepwise
    <2> QED BY <1>1, <2>1 DEF Stream
  <1>5. CASE WithStatus(p, nr)
    <2>1. /\ Len(toHost') - 1 \in 1..(Len(toHost) - 1) /\ Len(toHost') \in 1..(Len(toHost) - 1)
          /\ (Len(toHost') - 1) + 1 = Len(toHost) - 1 /\ Len(toHost') + 1 = Len(toHost)
      BY <1>2, <1>5 DEF WithStatus
    <2>2. EndsWithStatus'
      BY <1>2, <1>5, <2>1 DEF EndsWithStatus, WithStatus
    <2>3. WithStatus(p - 1, mr)'
      BY <1>1, <1>2, <1>5, <2>2 DEF WithStatus
    <2> QED BY <1>1, <2>3 DEF Stream
  <1>6. CASE WithBlock(p, nr)
    <2>1. AllGiven(p + 1, nr[p]) /\ toHost[p + 1] = AckB
      BY <1>6 DEF WithBlock
    <2>2. p + 1 \in Nat \ {0} /\ (p + 1) - 1 = p
      OBVIOUS
    <2>3. AllGiven(p, nr[p])'
      BY <1>3, <2>1, <2>2, AllGivenShift
    <2>4. p \in 1..(Len(toHost) - 1)
      <3>1. Len(toHost) >= p + 1
        BY <1>2, <1>3, <2>1 DEF AllGiven
      <3> QED BY <1>2, <3>1
    <2>5. WithBlock(p - 1, mr)'
      <3>1. toHost'[p] = AckB /\ (p - 1) + 1 = p
        BY <1>2, <2>1, <2>4
      <3> QED BY <1>1, <2>3, <3>1 DEF WithBlock
    <2> QED BY <1>1, <2>5 DEF Stream
  <1> QED BY <1>4, <1>5, <1>6

\* What is known while the card answers.
LEMMA ToldFacts ==
  ASSUME LinkInv, pc # "idle", Telling
  PROVE  /\ status \in Seq(Byte) /\ Len(status) = 2 /\ status[1].look = "sw"
         /\ gave \in Seq(Byte) /\ Len(gave) \in Nat /\ Len(gave) <= MaxLe
         /\ gave # << >> => tpdu.cse = 2
         /\ \A k \in 1..Len(gave) : gave[k] = avail[k]
         /\ avail \in Seq(Byte) /\ toHost \in Seq(Byte) /\ rsp \in Seq(Byte)
         /\ Len(rsp) \in Nat /\ D \in Nat /\ D <= MaxLe /\ MaxLe \in Nat
         /\ pc # "status2" => /\ Len(rsp) <= Len(gave)
                              /\ \A k \in 1..Len(rsp) : rsp[k] = avail[k]
         /\ Len(gave) <= Len(avail) /\ Len(avail) \in Nat
         /\ gave # << >> => AvailOwn
  <1>1. Given
    BY DEF Telling
  <1>2. PICK k \in {"90", "6F", "6C", "61"}, n \in 0..(MaxLe - 1) : StatusDue(k, n)
    BY DEF Telling
  <1>3. n \in Int /\ apdu.serial \in Int
    BY LimitsAssumption DEF LinkInv, HostTypes
  <1>4. status \in Seq(Byte) /\ Len(status) = 2 /\ status[1].look = "sw"
    BY <1>2, <1>3, StatusFacts DEF StatusDue
  <1>5. gave # << >> => tpdu.cse = 2 /\ AvailOwn
    BY <1>2 DEF StatusDue
  <1>6. /\ avail \in Seq(Byte) /\ toHost \in Seq(Byte) /\ rsp \in Seq(Byte)
        /\ Len(rsp) \in Nat /\ Len(avail) \in Nat
    BY DEF LinkInv, HostTypes, CardTypes, Busy
  <1>7. D \in 1..MaxLe /\ MaxLe \in Nat
    BY LimitFacts DEF LinkInv
  <1>8. gave \in Seq(Byte) /\ Len(gave) \in Nat /\ Len(gave) <= MaxLe
    <2>1. gave \in Seq(Byte) /\ Len(gave) \in Nat
      BY <1>1 DEF Given
    <2>2. CASE cst = "give"
      <3>1. Len(gave) < D
        BY <1>1, <2>2 DEF Given
      <3> QED BY <1>7, <2>1, <3>1
    <2>3. CASE cst # "give"
      <3>1. gave = << >> \/ Len(gave) = D
        BY <1>1, <2>3 DEF Given
      <3> QED BY <1>7, <2>1, <3>1
    <2> QED BY <2>2, <2>3
  <1> QED BY <1>1, <1>4, <1>5, <1>6, <1>7, <1>8 DEF Given

\* What may follow the parts.
Follows(p, nr) == Stepwise(p, nr) \/ WithStatus(p, nr) \/ WithBlock(p, nr)

\* What the loop of scT0SendCmd finds on the line while the card tells.
LEMMA NextByte ==
  ASSUME LinkInv, Telling, pc = "procedure", toHost # << >>
  PROVE  \/ /\ toHost[1] = NullB \/ (toHost[1] = NackB /\ tpdu.cse = 2)
            /\ \E p, nr : /\ p \in Nat \ {0} /\ Parts(p, nr) /\ Follows(p, nr)
                         /\ nr[1] = Len(rsp)
         \/ toHost[1] = AckB /\ tpdu.cse = 2 /\ AllGiven(1, Len(rsp))
         \/ /\ cst = "header" /\ Len(toHost) = 2 /\ Len(rsp) = Len(gave)
            /\ toHost[1] = status[1] /\ toHost[2] = status[2]
  <1>1. PICK p, nr : Parts(p, nr) /\ Follows(p, nr)
    BY DEF Telling, Stream, Block, Second, Follows
  <1>2. /\ p \in 0..Len(toHost) /\ nr \in [0..p -> 0..Len(gave)] /\ nr[0] = Len(rsp)
        /\ toHost \in Seq(Byte) /\ Len(toHost) \in Nat
    BY <1>1, ToldFacts DEF Parts
  <1>3. CASE p = 0
    <2>1. ~Stepwise(p, nr)
      <3>1. Len(toHost) # 0
        BY <1>2
      <3> QED BY <1>3, <3>1 DEF Stepwise
    <2>2. CASE WithStatus(p, nr)
      BY <1>2, <1>3, <2>2 DEF WithStatus, EndsWithStatus
    <2>3. CASE WithBlock(p, nr)
      BY <1>2, <1>3, <2>3 DEF WithBlock, AllGiven
    <2> QED BY <1>1, <2>1, <2>2, <2>3 DEF Follows
  <1>4. CASE p > 0
    <2>1. 1 \in 1..p /\ p \in Nat \ {0} /\ 1 - 1 = 0 /\ 1 + 1 = 2
      BY <1>2, <1>4
    <2>2. \/ toHost[1] = NullB /\ nr[1] = nr[0]
          \/ toHost[1] = NackB /\ nr[1] = nr[0] /\ 1 < p /\ IsData(toHost[2])
      BY <1>1, <2>1 DEF Parts
    <2>3. toHost[1] = NackB => tpdu.cse = 2
      <3>1. ASSUME toHost[1] = NackB
            PROVE  gave # << >>
        <4>1. nr[1] = nr[0] /\ 1 < p /\ IsData(toHost[2])
          BY <2>2, <3>1, ProcFacts
        <4>2. 2 \in 1..p /\ 2 - 1 = 1
          BY <1>2, <4>1
        <4>3. \/ toHost[2] = NullB
              \/ toHost[2] = NackB
              \/ nr[2] = nr[1] + 1
          BY <1>1, <4>2 DEF Parts
        <4>4. nr[2] = nr[1] + 1
          BY <4>1, <4>3, ProcFacts
        <4>5. nr[2] \in 0..Len(gave) /\ nr[1] \in 0..Len(gave)
          BY <1>2, <2>1, <4>2
        <4>6. Len(gave) # 0
          BY <4>4, <4>5, ToldFacts
        <4> QED BY <4>6
      <3> QED BY <3>1, ToldFacts
    <2> QED BY <1>1, <1>2, <2>1, <2>2, <2>3
  <1> QED BY <1>2, <1>3, <1>4

\* And what it reads behind ~ACK.
LEMMA NextData ==
  ASSUME LinkInv, Telling, pc = "byte"
  PROVE  /\ toHost # << >> /\ toHost[1] = avail[Len(rsp) + 1] /\ toHost[1] # NackB
         /\ Len(rsp) + 1 <= Len(gave)
         /\ \E p, nr : /\ p \in Nat \ {0} /\ Parts(p, nr) /\ Follows(p, nr)
                      /\ nr[1] = Len(rsp) + 1
  <1>1. PICK p, nr : Parts(p, nr) /\ Follows(p, nr)
    BY DEF Telling, Stream, Block, Second, Follows
  <1>2. /\ p \in 0..Len(toHost) /\ nr \in [0..p -> 0..Len(gave)] /\ nr[0] = Len(rsp)
        /\ toHost \in Seq(Byte) /\ Len(toHost) \in Nat
        /\ p > 0 /\ IsData(toHost[1])
    BY <1>1, ToldFacts DEF Parts
  <1>3. 1 \in 1..p /\ p \in Nat \ {0} /\ 1 - 1 = 0 /\ toHost # << >>
    BY <1>2
  <1>4. toHost[1] # NullB /\ toHost[1] # NackB
    BY <1>2, ProcFacts
  <1>5. toHost[1] = avail[nr[1]] /\ nr[1] = nr[0] + 1
    BY <1>1, <1>3, <1>4 DEF Parts
  <1>6. nr[1] \in 0..Len(gave)
    BY <1>2, <1>3
  <1>7. nr[1] <= Len(gave)
    BY <1>6, ToldFacts
  <1> QED BY <1>1, <1>2, <1>3, <1>4, <1>5, <1>7

\* A read that fails ends the call with an error.
LEMMA ReadFails ==
  ASSUME LinkInv, CardStays, NoteFailure, pc # "idle", NEW r \in Errors, NEW unread,
         TpduFails(r, unread)
  PROVE  LinkInv'
  <1>1. Finish(r, unread) /\ apdu' = apdu
    BY DEF TpduFails
  <1>2. SameCommand
    BY <1>1 DEF SameCommand, LinkInv, HostTypes
  <1> QED BY <1>1, <1>2, EndsBadly

\* The loop looks at the first byte of the line.
LEMMA ReadsFirst ==
  ASSUME NEW look, Reads(look), toHost \in Seq(Byte)
  PROVE  pc = "procedure" /\ toHost # << >> /\ toHost[1].look = look /\ Head(toHost) = toHost[1]
  BY DEF Reads

\* The reads of the loop while the card answers, one by one: NULL, ~ACK, the byte
\* behind it, ACK, SW1.
LEMMA ToldNull ==
  ASSUME LinkInv, CardStays, NoteFailure, Telling, Null
  PROVE  LinkInv'
  <1>1. Reads("null") /\ pc # "idle"
    BY DEF Null, Reads
  <1>2. pc = "procedure" /\ toHost # << >> /\ toHost[1].look = "null"
    BY <1>1, ReadsFirst, ToldFacts
  <1>3. CASE /\ nulls' = nulls + 1 /\ toHost' = Unread
             /\ UNCHANGED <<toCard, pc, rsp, spointer, callVars>>
    <2>1. PICK p, nr : /\ p \in Nat \ {0} /\ Parts(p, nr) /\ Follows(p, nr)
                       /\ nr[1] = Len(rsp) /\ toHost[1] = NullB
      <3>1. /\ toHost[1] # AckB /\ toHost[1] # NackB
            /\ ~(toHost[1] = status[1])
        BY <1>1, <1>2, ProcFacts, ToldFacts
      <3> QED BY <1>2, <3>1, NextByte
    <2>2. toHost[1] # NackB /\ pc' = "procedure" /\ Len(rsp') = nr[1]
      BY <1>2, <1>3, <2>1, ProcFacts
    <2>3. UNCHANGED <<tpdu, gave, avail, cst, status>>
      BY <1>3 DEF callVars, CardStays, cardVars
    <2>4. Stream'
      <3>1. /\ toHost \in Seq(Byte) /\ D \in Nat /\ Len(gave) \in Nat /\ Len(rsp) \in Nat
            /\ toHost' = Unread /\ pc \in {"procedure", "byte"}
        BY <1>1, <1>2, <1>3, ToldFacts
      <3>2. pc' = IF toHost[1] = NackB THEN "byte" ELSE "procedure"
        BY <2>2
      <3> QED BY <1>2, <2>1, <2>2, <2>3, <3>1, <3>2, StreamShift DEF Follows
    <2>5. toHost' \in Seq(Byte)
      BY <1>1, <1>2, <1>3, ShiftFacts, ToldFacts
    <2>6. nulls' \in Nat /\ rsp' \in Seq(Byte) /\ Len(rsp') <= MaxLe + 2
      BY <1>3 DEF LinkInv, HostTypes
    <2>7. /\ Len(rsp') <= Len(gave)
          /\ \A k \in 1..Len(rsp') : rsp'[k] = avail[k]
      BY <1>1, <1>2, <1>3, ToldFacts
    <2>8. Reading
      BY <1>2, <1>3 DEF Reading
    <2> QED BY <1>3, <2>2, <2>4, <2>5, <2>6, <2>7, <2>8, TellingGoesOn
  <1>4. CASE \E r \in {"WAIT_ERROR", "TIMEOUT"} : TpduFails(r, Unread)
    BY <1>1, <1>4, ReadFails DEF Errors
  <1> QED BY <1>3, <1>4 DEF Null

LEMMA ToldNack ==
  ASSUME LinkInv, CardStays, NoteFailure, Telling, NackFromCard
  PROVE  LinkInv'
  <1>1. Reads("nack") /\ pc # "idle"
    BY DEF NackFromCard, Reads
  <1>2. pc = "procedure" /\ toHost # << >> /\ toHost[1].look = "nack"
    BY <1>1, ReadsFirst, ToldFacts
  <1>3. pc' = "byte" /\ toHost' = Unread /\ UNCHANGED <<toCard, rsp, spointer, nulls, callVars>>
    BY DEF NackFromCard
  <1>4. PICK p, nr : /\ p \in Nat \ {0} /\ Parts(p, nr) /\ Follows(p, nr)
                     /\ nr[1] = Len(rsp) /\ toHost[1] = NackB
    <2>1. /\ toHost[1] # AckB /\ toHost[1] # NullB
          /\ ~(toHost[1] = status[1])
      BY <1>1, <1>2, ProcFacts, ToldFacts
    <2> QED BY <1>2, <2>1, NextByte
  <1>5. UNCHANGED <<tpdu, gave, avail, cst, status>>
    BY <1>3 DEF callVars, CardStays, cardVars
  <1>6. Stream'
    <2>1. /\ toHost \in Seq(Byte) /\ D \in Nat /\ Len(gave) \in Nat /\ Len(rsp) \in Nat
          /\ toHost' = Unread /\ pc \in {"procedure", "byte"}
      BY <1>1, <1>2, <1>3, ToldFacts
    <2>2. /\ pc' = IF toHost[1] = NackB THEN "byte" ELSE "procedure"
          /\ Len(rsp') = nr[1]
      BY <1>3, <1>4
    <2> QED BY <1>2, <1>4, <1>5, <2>1, <2>2, StreamShift DEF Follows
  <1>7. toHost' \in Seq(Byte)
    BY <1>1, <1>2, <1>3, ShiftFacts, ToldFacts
  <1>8. nulls' \in Nat /\ rsp' \in Seq(Byte) /\ Len(rsp') <= MaxLe + 2
    BY <1>3 DEF LinkInv, HostTypes
  <1>9. /\ Len(rsp') <= Len(gave)
        /\ \A k \in 1..Len(rsp') : rsp'[k] = avail[k]
    BY <1>1, <1>2, <1>3, ToldFacts
  <1>10. Reading
    BY <1>2, <1>3 DEF Reading
  <1> QED BY <1>3, <1>6, <1>7, <1>8, <1>9, <1>10, TellingGoesOn

LEMMA ToldByte ==
  ASSUME LinkInv, CardStays, NoteFailure, Telling, ReadByte
  PROVE  LinkInv'
  <1>1. /\ pc = "byte" /\ toHost # << >> /\ pc' = "procedure" /\ toHost' = Unread
        /\ rsp' = Collect(Head(toHost)) /\ UNCHANGED <<toCard, spointer, nulls, callVars>>
    BY DEF ReadByte
  <1>2. /\ toHost[1] = avail[Len(rsp) + 1] /\ toHost[1] # NackB
        /\ Len(rsp) + 1 <= Len(gave)
    BY <1>1, NextData
  <1>3. PICK p, nr : /\ p \in Nat \ {0} /\ Parts(p, nr) /\ Follows(p, nr)
                     /\ nr[1] = Len(rsp) + 1
    BY <1>1, NextData
  <1>4. /\ toHost \in Seq(Byte) /\ rsp \in Seq(Byte) /\ Len(rsp) \in Nat /\ D \in Nat
        /\ Len(gave) \in Nat /\ Len(gave) <= MaxLe /\ MaxLe \in Nat
        /\ \A k \in 1..Len(rsp) : rsp[k] = avail[k]
    BY <1>1, ToldFacts
  <1>5. Head(toHost) = toHost[1] /\ toHost[1] \in Byte /\ toHost' \in Seq(Byte)
    BY <1>1, <1>4, ShiftFacts
  <1>6. rsp' = Append(rsp, toHost[1])
    BY <1>1, <1>2, <1>4, <1>5 DEF Collect
  <1>7. /\ rsp' \in Seq(Byte) /\ Len(rsp') = Len(rsp) + 1
        /\ \A k \in 1..Len(rsp) : rsp'[k] = rsp[k]
        /\ rsp'[Len(rsp) + 1] = toHost[1]
    BY ONLY <1>4, <1>5, <1>6, AppendFacts
  <1>8. \A k \in 1..Len(rsp') : rsp'[k] = avail[k]
    <2> TAKE k \in 1..Len(rsp')
    <2>1. k \in 1..Len(rsp) \/ k = Len(rsp) + 1
      BY <1>4, <1>7
    <2> QED BY <1>2, <1>4, <1>7, <2>1
  <1>9. UNCHANGED <<tpdu, gave, avail, cst, status>>
    BY <1>1 DEF callVars, CardStays, cardVars
  <1>10. Stream'
    <2>1. /\ pc' = IF toHost[1] = NackB THEN "byte" ELSE "procedure"
          /\ Len(rsp') = nr[1] /\ pc \in {"procedure", "byte"}
      BY <1>1, <1>2, <1>3, <1>7
    <2> QED BY <1>1, <1>3, <1>4, <1>9, <2>1, StreamShift DEF Follows
  <1>11. nulls' \in Nat /\ Len(rsp') <= MaxLe + 2 /\ Len(rsp') <= Len(gave)
    BY <1>1, <1>2, <1>4, <1>7 DEF LinkInv, HostTypes
  <1>12. Reading
    BY <1>1 DEF Reading
  <1> QED BY <1>1, <1>5, <1>7, <1>8, <1>10, <1>11, <1>12, TellingGoesOn

LEMMA ToldAck ==
  ASSUME LinkInv, CardStays, NoteFailure, Telling, AckFromCard
  PROVE  LinkInv'
  <1>1. Reads("ack") /\ pc # "idle"
    BY DEF AckFromCard, Reads
  <1>2. pc = "procedure" /\ toHost # << >> /\ toHost[1].look = "ack"
    BY <1>1, ReadsFirst, ToldFacts
  <1>3. pc' = "block" /\ toHost' = Unread /\ UNCHANGED <<toCard, rsp, spointer, nulls, callVars>>
    BY DEF AckFromCard
  <1>4. AllGiven(1, Len(rsp))
    <2>1. /\ toHost[1] # NackB /\ toHost[1] # NullB
          /\ ~(toHost[1] = status[1])
      BY <1>1, <1>2, ProcFacts, ToldFacts
    <2> QED BY <1>2, <2>1, NextByte
  <1>5. UNCHANGED <<tpdu, gave, avail, cst, status>>
    BY <1>3 DEF callVars, CardStays, cardVars
  <1>6. /\ toHost \in Seq(Byte) /\ D \in Nat /\ Len(gave) \in Nat /\ Len(rsp) \in Nat
        /\ Len(rsp) <= Len(gave) /\ \A k \in 1..Len(rsp) : rsp[k] = avail[k]
    BY <1>1, <1>2, <1>3, ToldFacts
  <1>7. AllGiven(0, Len(rsp))'
    <2>1. 1 \in Nat \ {0} /\ 1 - 1 = 0
      OBVIOUS
    <2> DEFINE n == Len(rsp)
    <2>3. n \in Nat /\ AllGiven(1, n)
      BY <1>4, <1>6
    <2>4. n' = n
      BY <1>3
    <2>5. \A m \in Nat : AllGiven(1, m) => AllGiven(0, m)'
      BY <1>2, <1>3, <1>5, <1>6, <2>1, AllGivenShift
    <2> QED BY <1>3, <2>3, <2>4, <2>5
  <1>8. Block'
    BY <1>3, <1>7 DEF Block
  <1>9. nulls' \in Nat /\ rsp' \in Seq(Byte) /\ Len(rsp') <= MaxLe + 2
    BY <1>3 DEF LinkInv, HostTypes
  <1>10. toHost' \in Seq(Byte)
    BY <1>1, <1>2, <1>3, ShiftFacts, ToldFacts
  <1>11. /\ Len(rsp') <= Len(gave)
         /\ \A k \in 1..Len(rsp') : rsp'[k] = avail[k]
    BY <1>3, <1>6
  <1>12. Reading
    BY <1>2, <1>3 DEF Reading
  <1> QED BY <1>3, <1>8, <1>9, <1>10, <1>11, <1>12, TellingGoesOn

LEMMA ToldSw1 ==
  ASSUME LinkInv, CardStays, NoteFailure, Telling, Sw1
  PROVE  LinkInv'
  <1>1. Reads("sw") /\ pc # "idle"
    BY DEF Sw1, Reads
  <1>2. pc = "procedure" /\ toHost # << >> /\ toHost[1].look = "sw" /\ Head(toHost) = toHost[1]
    BY <1>1, ReadsFirst, ToldFacts
  <1>3. /\ pc' = "status2" /\ toHost' = Unread /\ rsp' = Collect(toHost[1])
        /\ UNCHANGED <<toCard, spointer, nulls, callVars>>
    BY <1>2 DEF Sw1
  <1>4. /\ cst = "header" /\ Len(toHost) = 2 /\ Len(rsp) = Len(gave)
        /\ toHost[1] = status[1] /\ toHost[2] = status[2]
    <2>1. toHost[1] # NackB /\ toHost[1] # NullB /\ toHost[1] # AckB
      BY <1>2, ProcFacts
    <2> QED BY <1>2, <2>1, NextByte
  <1>5. /\ toHost \in Seq(Byte) /\ rsp \in Seq(Byte) /\ gave \in Seq(Byte)
        /\ Len(gave) \in Nat /\ Len(gave) <= MaxLe /\ MaxLe \in Nat
        /\ \A k \in 1..Len(gave) : gave[k] = avail[k]
        /\ \A k \in 1..Len(rsp) : rsp[k] = avail[k]
    BY <1>1, <1>2, ToldFacts
  <1>6. rsp = gave
    <2>1. \A k \in 1..Len(rsp) : rsp[k] = gave[k]
      BY <1>4, <1>5
    <2> QED BY ONLY <1>4, <1>5, <2>1, SameSequence
  <1>7. toHost[1] \in Byte /\ toHost' \in Seq(Byte) /\ Len(toHost') = 1 /\ toHost'[1] = toHost[2]
    BY <1>2, <1>3, <1>4, <1>5, ShiftFacts
  <1>8. rsp' = Append(gave, status[1])
    BY <1>3, <1>4, <1>5, <1>6 DEF Collect
  <1>9. rsp' \in Seq(Byte) /\ Len(rsp') = Len(gave) + 1
    BY <1>4, <1>5, <1>7, <1>8, AppendFacts
  <1>10. UNCHANGED <<cst, gave, status>>
    BY <1>3 DEF CardStays, cardVars
  <1>11. Second'
    <2>1. toHost' = <<status[2]>>
      BY <1>4, <1>7
    <2> QED BY <1>3, <1>4, <1>8, <1>10, <2>1 DEF Second
  <1>12. nulls' \in Nat /\ Len(rsp') <= MaxLe + 2
    BY <1>3, <1>5, <1>9 DEF LinkInv, HostTypes
  <1>13. Reading
    BY <1>2, <1>3 DEF Reading
  <1> QED BY <1>3, <1>7, <1>9, <1>11, <1>12, <1>13, TellingGoesOn

\* SW2: the TPDU ends, and what has been collected is what the card has given.
LEMMA ToldSw2 ==
  ASSUME LinkInv, CardStays, NoteFailure, Telling, Sw2
  PROVE  /\ Said /\ TpduDone(gave \o status, Unread)
         /\ LinkInv'
  <1>1. pc = "status2" /\ TpduDone(Collect(Head(toHost)), Unread)
    BY DEF Sw2
  <1>2. cst = "header" /\ toHost = <<status[2]>> /\ rsp = Append(gave, status[1])
    BY <1>1 DEF Telling, Stream, Block, Second
  <1>3. /\ gave \in Seq(Byte) /\ status \in Seq(Byte) /\ Len(status) = 2
        /\ Len(gave) \in Nat /\ Len(gave) <= MaxLe /\ MaxLe \in Nat
    BY <1>1, ToldFacts
  <1>4. Len(rsp) = Len(gave) + 1
    <2>1. status[1] \in Byte
      BY <1>3, PairFacts
    <2> QED BY <1>2, <1>3, <2>1, AppendFacts
  <1>5. Collect(Head(toHost)) = Append(Append(gave, status[1]), status[2])
    BY <1>2, <1>3, <1>4 DEF Collect
  <1>6. Append(Append(gave, status[1]), status[2]) = gave \o status
    BY <1>3, TwoBytes
  <1>7. Said
    BY <1>1, <1>2 DEF Said
  <1>8. TpduDone(gave \o status, Unread)
    BY <1>1, <1>5, <1>6
  <1> QED BY <1>7, <1>8, TpduEnds

\* The block behind ACK ends it in the same way.
LEMMA ToldBlock ==
  ASSUME LinkInv, CardStays, NoteFailure, Telling, ReadBlock
  PROVE  /\ Said /\ \E unread : TpduDone(gave \o status, unread)
         /\ LinkInv'
  <1>1. /\ pc = "block" /\ Wanted > 0 /\ Len(toHost) >= Wanted
        /\ TpduDone(rsp \o SubSeq(toHost, 1, Wanted), SubSeq(toHost, Wanted + 1, Len(toHost)))
    BY DEF ReadBlock
  <1>2. AllGiven(0, Len(rsp))
    BY <1>1 DEF Telling, Stream, Block, Second
  <1>3. /\ gave \in Seq(Byte) /\ status \in Seq(Byte) /\ Len(status) = 2
        /\ toHost \in Seq(Byte) /\ Len(toHost) \in Nat
        /\ Len(gave) \in Nat /\ rsp \in Seq(Byte) /\ Len(rsp) \in Nat /\ D \in Nat
        /\ \A k \in 1..Len(gave) : gave[k] = avail[k]
        /\ \A k \in 1..Len(rsp) : rsp[k] = avail[k]
    BY <1>1, ToldFacts
  <1>4. Wanted = D + 2 - Len(rsp)
    BY DEF Wanted, D
  <1>5. /\ cst = "header" /\ Len(toHost) = Wanted /\ Len(gave) = D /\ Len(rsp) < D
        /\ toHost[Wanted - 1] = status[1] /\ toHost[Wanted] = status[2]
        /\ \A k \in (Len(rsp) + 1)..D : toHost[k - Len(rsp)] = avail[k]
    <2>1. \/ cst = "tail" /\ Len(toHost) = 0 + (D - Len(rsp))
          \/ cst = "header" /\ Len(toHost) = 0 + (D - Len(rsp)) + 2 /\ EndsWithStatus
      BY <1>2 DEF AllGiven
    <2>2. Len(gave) = D /\ Len(rsp) < D
          /\ \A k \in (Len(rsp) + 1)..D : toHost[0 + k - Len(rsp)] = avail[k]
      BY <1>2 DEF AllGiven
    <2>3. \A k \in (Len(rsp) + 1)..D : 0 + k - Len(rsp) = k - Len(rsp)
      BY <1>3
    <2>4. cst = "header" /\ Len(toHost) = Wanted /\ EndsWithStatus
      BY <1>1, <1>3, <1>4, <2>1
    <2> QED BY <2>2, <2>3, <2>4 DEF EndsWithStatus
  <1> DEFINE b == SubSeq(toHost, 1, Wanted)
             x == rsp \o b
             y == gave \o status
  <1>6. b = toHost
    <2>1. \A s \in Seq(Byte) : SubSeq(s, 1, Len(s)) = s
      OBVIOUS
    <2> QED BY <1>3, <1>5, <2>1
  <1>7. /\ x \in Seq(Byte) /\ Len(x) = Len(rsp) + Wanted
        /\ \A i \in 1..Len(rsp) : x[i] = rsp[i]
        /\ \A i \in 1..Wanted : x[Len(rsp) + i] = toHost[i]
    BY <1>3, <1>5, <1>6, ConcatFacts
  <1>8. /\ y \in Seq(Byte) /\ Len(y) = D + 2
        /\ \A i \in 1..D : y[i] = gave[i]
        /\ y[D + 1] = status[1] /\ y[D + 2] = status[2]
    <2>1. /\ y \in Seq(Byte) /\ Len(y) = Len(gave) + 2
          /\ \A i \in 1..Len(gave) : y[i] = gave[i]
          /\ y[Len(gave) + 1] = status[1] /\ y[Len(gave) + 2] = status[2]
      BY ONLY <1>3, PairFacts
    <2> HIDE DEF y
    <2> QED BY <1>5, <2>1
  <1> HIDE DEF b, x, y
  <1>9. \A i \in 1..Len(x) : x[i] = y[i]
    <2> TAKE i \in 1..Len(x)
    <2>1. Len(x) = D + 2
      BY <1>3, <1>4, <1>7
    <2>2. CASE i <= Len(rsp)
      <3>1. i \in 1..Len(rsp) /\ i \in 1..D
        BY <1>3, <1>5, <2>2
      <3> QED BY <1>3, <1>5, <1>7, <1>8, <3>1
    <2>3. CASE i > Len(rsp) /\ i <= D
      <3> DEFINE j == i - Len(rsp)
      <3>1. j \in 1..Wanted /\ Len(rsp) + j = i /\ i \in (Len(rsp) + 1)..D /\ i \in 1..D
        BY <1>3, <1>4, <1>5, <2>3
      <3>2. x[i] = toHost[j]
        BY <1>7, <3>1
      <3>3. toHost[j] = avail[i] /\ gave[i] = avail[i] /\ y[i] = gave[i]
        BY <1>3, <1>5, <1>8, <3>1
      <3> QED BY <3>2, <3>3
    <2>4. CASE i = D + 1 \/ i = D + 2
      <3>1. /\ Wanted - 1 \in 1..Wanted /\ Wanted \in 1..Wanted
            /\ Len(rsp) + (Wanted - 1) = D + 1 /\ Len(rsp) + Wanted = D + 2
        BY <1>3, <1>4, <1>5
      <3> QED BY <1>5, <1>7, <1>8, <2>4, <3>1
    <2>5. i <= Len(rsp) \/ (i > Len(rsp) /\ i <= D) \/ i = D + 1 \/ i = D + 2
      BY <1>3, <2>1
    <2> QED BY <2>2, <2>3, <2>4, <2>5
  <1>10. x = y
    <2>1. Len(x) = Len(y)
      BY <1>3, <1>4, <1>7, <1>8
    <2> QED BY ONLY <1>7, <1>8, <1>9, <2>1, SameSequence
  <1>11. Said
    BY <1>1, <1>5 DEF Said
  <1>12. TpduDone(gave \o status, SubSeq(toHost, Wanted + 1, Len(toHost)))
    BY <1>1, <1>10 DEF b, x, y
  <1> QED BY <1>11, <1>12, TpduEnds

\* A card that tells asks for nothing, and sends nothing that is skipped.
LEMMA ToldOnly ==
  ASSUME LinkInv, Telling, AckToCard \/ NackToCard \/ SkipByte
  PROVE  FALSE
  <1>1. \/ Reads("ack") /\ tpdu.cse # 2
        \/ Reads("nack") /\ tpdu.cse # 2
        \/ Reads("other")
    BY DEF AckToCard, NackToCard, SkipByte, HasData
  <1>2. pc = "procedure" /\ toHost # << >>
    BY <1>1 DEF Reads
  <1>3. \/ toHost[1].look = "ack" /\ tpdu.cse # 2
        \/ toHost[1].look = "nack" /\ tpdu.cse # 2
        \/ toHost[1].look = "other"
    BY <1>1, <1>2, ReadsFirst, ToldFacts
  <1>4. \/ toHost[1] = NullB
        \/ toHost[1] = NackB /\ tpdu.cse = 2
        \/ toHost[1] = AckB /\ tpdu.cse = 2
        \/ toHost[1].look = "sw"
    BY <1>2, NextByte, ToldFacts
  <1> QED BY <1>3, <1>4, ProcFacts

\* Any read while the card answers.
LEMMA ToldReceive ==
  ASSUME LinkInv, CardStays, NoteFailure, Telling, Receive
  PROVE  LinkInv'
  BY ToldOnly, ToldNull, ToldNack, ToldByte, ToldAck, ToldSw1, ToldSw2, ToldBlock DEF Receive

\* The card takes the bytes of the command.
LEMMA TakingFacts ==
  ASSUME LinkInv, Taking
  PROVE  /\ pc = "procedure" /\ cst = "take" /\ stage = "command"
         /\ HasData(apdu.cse) /\ ~Performed /\ tpdu.cse \in {3, 4}
         /\ \A k \in 1..Len(got) : got[k] = CmdByte(k)
         /\ want = apdu.lc - Len(got) /\ want > 0 /\ expect \in 0..want
         /\ Len(got) \in Nat /\ apdu.lc \in Nat /\ apdu.serial \in Nat /\ want \in Nat
         /\ apdu.serial = serial /\ toHost \in Seq(Byte) /\ spointer \in 0..apdu.lc
  <1>1. pc = "procedure" /\ cst = "take" /\ stage = "command"
    BY DEF Taking
  <1>2. tpdu.cse = apdu.cse /\ toHost \in Seq(Byte)
    BY <1>1 DEF LinkInv, Busy, Stages
  <1>3. Len(got) \in Nat /\ apdu.lc \in Nat /\ apdu.serial \in Nat
    BY LimitsAssumption DEF LinkInv, HostTypes, CardTypes
  <1>4. /\ HasData(apdu.cse) /\ ~Performed
        /\ \A k \in 1..Len(got) : got[k] = CmdByte(k)
        /\ want = apdu.lc - Len(got) /\ want > 0 /\ expect \in 0..want
        /\ apdu.serial = serial
    BY <1>1 DEF LinkInv, CardSide
  <1>5. spointer \in 0..apdu.lc
    BY DEF LinkInv, HostTypes
  <1> QED BY <1>1, <1>2, <1>3, <1>4, <1>5 DEF HasData

\* The bytes asked for go out.
LEMMA HandsOver ==
  ASSUME LinkInv, Reading, Taking, toCard = << >>, NEW n \in Nat, n = expect, n > 0,
         toCard' = [k \in 1..n |-> CmdByte(Len(got) + k)],
         toHost' = << >>, UNCHANGED <<pc, rsp, nulls>>, spointer' \in 0..apdu.lc,
         (spointer' <= Len(got) /\ n = want) \/ spointer' = Len(got) + n
  PROVE  LinkInv'
  <1>1. /\ toCard' \in Seq(Byte) /\ Len(toCard') = n
        /\ \A k \in 1..n : toCard'[k] = CmdByte(Len(got) + k)
    <2>1. Len(got) \in Int /\ apdu.serial \in Int
      BY TakingFacts
    <2> QED BY <2>1, CmdPartFacts
  <1>2. CardSide'
    <2>1. cst' = "take" => /\ HasData(apdu'.cse) /\ ~Performed'
                           /\ \A k \in 1..Len(got') : got'[k] = CmdByte(k)'
                           /\ want' = apdu'.lc - Len(got') /\ want' > 0 /\ expect' \in 0..want'
                           /\ Len(toCard') <= expect'
                           /\ \A k \in 1..Len(toCard') : toCard'[k] = CmdByte(Len(got) + k)'
      BY <1>1, TakingFacts, ReadingFacts
    <2>2. cst' = "take" /\ got' = got /\ apdu' = apdu /\ serial' = serial /\ executed' = executed
      BY TakingFacts, ReadingFacts
    <2>3. /\ apdu.serial = serial /\ (HasData(apdu.cse) => apdu.lc > 0)
          /\ \A i \in DOMAIN executed : executed[i].serial <= serial
      BY TakingFacts DEF LinkInv, CardSide
    <2> QED BY <2>1, <2>2, <2>3 DEF CardSide
  <1>3. Taking'
    BY <1>1, ReadingFacts DEF Taking, Answered
  <1>4. rsp' \in Seq(Byte) /\ Len(rsp') <= MaxLe + 2 /\ nulls' \in Nat
    BY DEF LinkInv, HostTypes
  <1>5. pc' = "procedure" /\ toHost' \in Seq(Byte)
    BY TakingFacts
  <1> QED BY <1>1, <1>2, <1>3, <1>4, <1>5, ReadGoesOn

\* Any read while the card takes the command.
LEMMA TakingReceive ==
  ASSUME LinkInv, CardStays, NoteFailure, Taking, Receive
  PROVE  LinkInv'
  <1>1. /\ pc = "procedure" /\ stage = "command" /\ tpdu.cse \in {3, 4} /\ toHost \in Seq(Byte)
        /\ Len(got) \in Nat /\ apdu.lc \in Nat /\ want = apdu.lc - Len(got) /\ want > 0
        /\ spointer \in 0..apdu.lc
    BY TakingFacts
  <1>2. toHost # << >>
    BY <1>1 DEF Receive, AckToCard, AckFromCard, NackToCard, NackFromCard, SkipByte, Null, Sw1,
                Sw2, ReadByte, ReadBlock, Reads
  <1>3. Asked
    BY <1>2 DEF Taking, Answered
  <1>4. PICK p \in 0..Len(toHost) :
           /\ \A i \in 1..p : toHost[i] = NullB
           /\ \/ Len(toHost) = p /\ expect = 0
              \/ Len(toHost) = p + 1 /\ toHost[p + 1] = AckB /\ expect = want
              \/ Len(toHost) = p + 1 /\ toHost[p + 1] = NackB /\ expect = 1
    BY <1>3 DEF Asked
  <1>5. toCard = << >> /\ spointer = Len(got) /\ Len(toHost) \in Nat \ {0}
    BY <1>1, <1>2, <1>3 DEF Asked
  <1>6. CASE p > 0
    <2>1. toHost[1] = NullB
      BY <1>4, <1>6
    <2>2. Head(toHost) = NullB
      BY <1>1, <1>2, <2>1
    <2>3. Null
      BY <1>1, <2>2, ProcFacts DEF Receive, AckToCard, AckFromCard, NackToCard, NackFromCard,
           SkipByte, Sw1, Sw2, ReadByte, ReadBlock, Reads
    <2>4. CASE /\ nulls' = nulls + 1 /\ toHost' = Unread
               /\ UNCHANGED <<toCard, pc, rsp, spointer, callVars>>
      <3>1. Reading
        BY <1>1, <2>4 DEF Reading
      <3>2. /\ toHost' \in Seq(Byte) /\ Len(toHost') = Len(toHost) - 1
            /\ \A i \in 1..(Len(toHost) - 1) : toHost'[i] = toHost[i + 1]
        BY <1>1, <1>2, <2>4, ShiftFacts
      <3>3. Asked'
        <4> DEFINE q == p - 1
        <4>1. q \in 0..Len(toHost') /\ q + 1 = p
          BY <1>4, <1>5, <1>6, <3>2
        <4>2. \A i \in 1..q : toHost'[i] = NullB
          BY <1>4, <1>5, <3>2, <4>1
        <4>3. \/ Len(toHost') = q /\ expect' = 0
              \/ Len(toHost') = q + 1 /\ toHost'[q + 1] = AckB /\ expect' = want'
              \/ Len(toHost') = q + 1 /\ toHost'[q + 1] = NackB /\ expect' = 1
          <5>1. Len(toHost) = p + 1 => p \in 1..(Len(toHost) - 1)
            BY <1>4, <1>6
          <5>2. expect' = expect /\ want' = want
            BY <3>1, ReadingFacts
          <5> QED BY <1>4, <1>5, <3>2, <4>1, <5>1, <5>2
        <4>4. toCard' = << >> /\ spointer' = Len(got')
          BY <1>5, <2>4, <3>1, ReadingFacts
        <4> HIDE DEF q
        <4> QED BY <4>1, <4>2, <4>3, <4>4 DEF Asked
      <3>4. Taking'
        BY <2>4, <3>1, <3>3, ReadingFacts DEF Taking
      <3>5. CardSide'
        BY <2>4, <3>1, CardSideStays, ReadingFacts DEF Reading
      <3>6. /\ rsp' \in Seq(Byte) /\ Len(rsp') <= MaxLe + 2 /\ nulls' \in Nat
            /\ toCard' \in Seq(Byte) /\ spointer' \in 0..apdu.lc /\ pc' = "procedure"
        BY <1>1, <2>4 DEF LinkInv, HostTypes, CardTypes
      <3> QED BY <3>1, <3>2, <3>4, <3>5, <3>6, ReadGoesOn
    <2>5. CASE \E r \in {"WAIT_ERROR", "TIMEOUT"} : TpduFails(r, Unread)
      BY <1>1, <2>5, ReadFails DEF Errors
    <2> QED BY <2>3, <2>4, <2>5 DEF Null
  <1>7. CASE p = 0
    <2>1. /\ Len(toHost) = 1 /\ Head(toHost) = toHost[1]
          /\ \/ toHost[1] = AckB /\ expect = want
             \/ toHost[1] = NackB /\ expect = 1
      BY <1>1, <1>2, <1>4, <1>5, <1>7
    <2>2. Tail(toHost) = << >>
      <3>1. \A s \in Seq(Byte) : Len(s) = 1 => Tail(s) = << >>
        OBVIOUS
      <3> QED BY <1>1, <2>1, <3>1
    <2>3. CASE toHost[1] = AckB /\ expect = want
      <3>1. AckToCard
        BY <1>1, <2>1, <2>3, ProcFacts DEF Receive, AckFromCard, NackToCard, NackFromCard,
             SkipByte, Null, Sw1, Sw2, ReadByte, ReadBlock, Reads
      <3>2. CASE /\ toCard' = toCard \o [k \in 1..(apdu.lc - spointer) |-> CmdByte(spointer + k)]
                 /\ toHost' = Unread
                 /\ UNCHANGED <<pc, rsp, spointer, nulls, callVars>>
        <4>1. want \in Nat /\ apdu.lc - spointer = want
          BY <1>1, <1>5
        <4>2. toCard' = [k \in 1..want |-> CmdByte(Len(got) + k)]
          <5> DEFINE f == [k \in 1..want |-> CmdByte(Len(got) + k)]
          <5>1. f \in Seq(Byte)
            <6>1. Len(got) \in Int /\ apdu.serial \in Int
              BY TakingFacts
            <6> QED BY <4>1, <6>1, CmdPartFacts
          <5>2. toCard' = << >> \o f
            BY <1>5, <3>2, <4>1
          <5> HIDE DEF f
          <5>3. << >> \o f = f
            BY <5>1
          <5> QED BY <5>2, <5>3 DEF f
        <4>3. Reading
          BY <1>1, <3>2 DEF Reading
        <4>4. toHost' = << >> /\ spointer' <= Len(got) /\ spointer' \in 0..apdu.lc
          BY <1>1, <1>5, <2>2, <3>2 DEF Unread
        <4> QED BY <1>1, <1>5, <2>3, <3>2, <4>1, <4>2, <4>3, <4>4, HandsOver
      <3>3. CASE TpduFails("IO_ERROR", Unread)
        BY <1>1, <3>3, ReadFails DEF Errors
      <3> QED BY <3>1, <3>2, <3>3 DEF AckToCard
    <2>4. CASE toHost[1] = NackB /\ expect = 1
      <3>1. NackToCard
        BY <1>1, <2>1, <2>4, ProcFacts DEF Receive, AckFromCard, AckToCard, NackFromCard,
             SkipByte, Null, Sw1, Sw2, ReadByte, ReadBlock, Reads
      <3>2. CASE /\ toCard' = Append(toCard, CmdByte(spointer + 1))
                 /\ spointer' = spointer + 1
                 /\ toHost' = Unread
                 /\ UNCHANGED <<pc, rsp, nulls, callVars>>
        <4>1. toCard' = [k \in 1..1 |-> CmdByte(Len(got) + k)]
          <5>1. toCard' = <<CmdByte(Len(got) + 1)>>
            BY <1>5, <3>2
          <5>2. \A f : <<f>> = [k \in 1..1 |-> f]
            OBVIOUS
          <5>3. \A k \in 1..1 : Len(got) + k = Len(got) + 1
            OBVIOUS
          <5> QED BY <5>1, <5>2, <5>3
        <4>2. Reading
          BY <1>1, <3>2 DEF Reading
        <4>3. /\ toHost' = << >> /\ spointer' = Len(got) + 1 /\ spointer' \in 0..apdu.lc
          BY <1>1, <1>5, <2>2, <3>2 DEF Unread
        <4> QED BY <1>1, <1>5, <2>4, <3>2, <4>1, <4>2, <4>3, HandsOver
      <3>3. CASE TpduFails("IO_ERROR", Unread)
        BY <1>1, <3>3, ReadFails DEF Errors
      <3> QED BY <3>1, <3>2, <3>3 DEF NackToCard
    <2> QED BY <2>1, <2>3, <2>4
  <1> QED BY <1>4, <1>6, <1>7

\* Any read.
LEMMA LinkReceives ==
  ASSUME LinkInv, HostReceives
  PROVE  LinkInv'
  <1>1. Receive /\ NoteFailure /\ CardStays /\ pc # "idle"
    BY DEF HostReceives, CardStays, Receive, AckToCard, AckFromCard, NackToCard, NackFromCard,
           SkipByte, Null, Sw1, Sw2, ReadByte, ReadBlock, Reads
  <1>2. Taking \/ Telling
    <2>1. ~Waiting
      BY <1>1 DEF Waiting, Receive, AckToCard, AckFromCard, NackToCard, NackFromCard,
                  SkipByte, Null, Sw1, Sw2, ReadByte, ReadBlock, Reads
    <2> QED BY <1>1, <2>1 DEF LinkInv, Busy
  <1> QED BY <1>1, <1>2, TakingReceive, ToldReceive

\* Nothing comes.
LEMMA LinkTimeout ==
  ASSUME LinkInv, Orderly, HostTimeout
  PROVE  LinkInv'
  <1>1. NothingRead /\ NoteFailure /\ CardStays
    BY DEF HostTimeout, Orderly, CardStays
  <1>2. pc # "idle" /\ TpduFails("IO_ERROR", toHost)
    BY <1>1 DEF NothingRead
  <1> QED BY <1>1, <1>2, ReadFails DEF Errors

-----------------------------------------------------------------------------
(* And when the application acts.                                          *)

\* The application gives the next APDU.
LEMMA LinkSends ==
  ASSUME LinkInv, Orderly, clean, serial < Len(Commands), NoteSent, UNCHANGED <<cardVars, clean>>,
         NEW a \in [cse : Cases, serial : Nat, lc : 0..(MaxLe - 1), le : 0..(MaxLe - 1),
                    hasLe : BOOLEAN],
         a.serial = serial + 1, HasData(a.cse) => a.lc > 0, SendAPDU(a)
  PROVE  LinkInv'
  <1>1. /\ apdu' = [a EXCEPT !.hasLe = @ /\ ~Strips(a)] /\ pc = "idle"
        /\ \/ /\ Header("cmd", a.cse, P3(a))
              /\ stage' = "command" /\ striped' = Strips(a) /\ ret' = "busy"
           \/ NoCard
    BY DEF SendAPDU
  <1>2. /\ apdu'.cse = a.cse /\ apdu'.serial = serial + 1 /\ apdu'.lc = a.lc /\ apdu'.le = a.le
        /\ apdu' \in [cse : Cases, serial : Nat, lc : 0..(MaxLe - 1), le : 0..(MaxLe - 1),
                      hasLe : BOOLEAN]
    BY <1>1
  <1>3. /\ cst = "header" /\ toCard = << >> /\ serial \in Nat /\ Len(Commands) \in Nat
        /\ \A i \in DOMAIN executed : executed[i].serial <= serial
        /\ expect = 0 /\ clean' = clean
        /\ UNCHANGED <<cst, want, expect, got, avail, rest, gave, status, executed>>
    BY <1>1 DEF LinkInv, Idle, CardSide, HostTypes, cardVars, Orderly
  <1>4. \A i \in DOMAIN executed : executed[i] \in Execution
    BY DEF LinkInv, CardTypes
  <1>5. \A i \in DOMAIN executed' : executed'[i].serial # apdu'.serial
    <2>1. \A i \in DOMAIN executed : executed[i].serial \in Nat
      BY <1>4 DEF Execution
    <2> QED BY <1>2, <1>3, <2>1
  <1>6. ~Performed' /\ CardGetsCommand'
    BY <1>5 DEF Performed, CardGetsCommand
  <1>7. HasData(apdu'.cse) => apdu'.lc > 0
    BY <1>2
  <1>8. 0 \in 0..apdu'.lc /\ MaxLe \in Nat /\ MaxLe > 0
    BY <1>2, LimitsAssumption
  <1>9. CASE Header("cmd", a.cse, P3(a)) /\ stage' = "command" /\ striped' = Strips(a)
             /\ ret' = "busy"
    <2>1. /\ pc' = "procedure" /\ tpdu' = [cse |-> a.cse, p3 |-> P3(a)]
          /\ rsp' = << >> /\ spointer' = 0 /\ nulls' = 0 /\ toHost' = << >>
          /\ toCard' = Append(toCard, LineByte("other", "cmd", apdu'.serial, P3(a)))
      BY <1>9 DEF Header
    <2>2. P3(a) \in 0..(MaxLe - 1) /\ P3(apdu)' = P3(a)
      BY <1>2, <1>8 DEF P3
    <2>3. toCard' = <<HeaderByte("cmd", P3(a))'>> /\ HeaderByte("cmd", P3(a))' \in Byte
      <3>1. P3(a) \in Int /\ apdu'.serial \in Int
        BY <1>2, <1>8, <2>2
      <3>2. LineByte("other", "cmd", apdu'.serial, P3(a)) \in Byte
        BY <3>1, ByteFacts DEF Looks, Kinds
      <3> QED BY <1>3, <2>1, <3>2 DEF HeaderByte
    <2>4. serial' = serial + 1 /\ serial' \in 0..Len(Commands)
      BY <1>3, <2>1 DEF NoteSent
    <2>5. HostTypes'
      <3>1. tpdu'.cse \in Cases /\ tpdu'.p3 \in 0..(MaxLe - 1)
        BY <2>1, <2>2
      <3>2. rsp' \in Seq(Byte) /\ Len(rsp') <= MaxLe + 2
        BY <1>8, <2>1
      <3>3. striped' \in BOOLEAN
        BY <1>9 DEF Strips
      <3> QED BY <1>2, <1>3, <1>8, <1>9, <2>1, <2>4, <3>1, <3>2, <3>3 DEF LinkInv, HostTypes
    <2>6. CardTypes'
      BY <1>3, <2>3 DEF LinkInv, CardTypes
    <2>7. CardSide'
      <3>1. \A i \in DOMAIN executed' : executed'[i].serial <= serial'
        <4>1. \A i \in DOMAIN executed : executed[i].serial \in Nat
          BY <1>4 DEF Execution
        <4> QED BY <1>3, <2>4, <4>1
      <3>2. \E ins \in {"cmd", "getrsp"}, n \in 0..(MaxLe - 1) :
               /\ toCard' = <<HeaderByte(ins, n)'>>
               /\ ins = "cmd" /\ apdu'.cse # 2 => n = P3(apdu)' /\ ~Performed'
        BY <1>6, <2>2, <2>3
      <3> QED BY <1>2, <1>3, <1>7, <2>4, <3>1, <3>2 DEF CardSide
    <2>8. Waiting'
      BY <1>3, <1>9, <2>1, <2>3 DEF Waiting
    <2>9. Stages'
      BY <1>2, <1>9, <2>1, <2>2 DEF Stages
    <2>10. Busy' /\ Idle' /\ Outcome'
      BY <1>3, <1>9, <2>1, <2>8, <2>9 DEF Busy, Idle, Outcome
    <2> QED BY <1>6, <2>5, <2>6, <2>7, <2>10 DEF LinkInv
  <1>10. CASE NoCard
    <2>1. PICK r \in {"IO_ERROR", "CARD_CHANGED", "NO_CARD"} : Finish(r, << >>)
      BY <1>10 DEF NoCard
    <2>2. /\ pc' = "idle" /\ stage' = "command" /\ rsp' = << >> /\ spointer' = 0 /\ nulls' = 0
          /\ tpdu' = [cse |-> 1, p3 |-> 0] /\ ret' = r /\ toCard' = toCard /\ serial' = serial
          /\ striped' = FALSE /\ r \in Errors
      BY <2>1 DEF Finish, NoteSent, Errors
    <2>3. HostTypes'
      <3>1. tpdu'.cse \in Cases /\ tpdu'.p3 \in 0..(MaxLe - 1)
        BY <1>8, <2>2 DEF Cases
      <3>2. rsp' \in Seq(Byte) /\ Len(rsp') <= MaxLe + 2
        BY <1>8, <2>2
      <3> QED BY <1>2, <1>3, <1>8, <2>2, <3>1, <3>2 DEF LinkInv, HostTypes
    <2>4. CardTypes'
      BY <1>3, <2>2 DEF LinkInv, CardTypes
    <2>5. CardSide'
      BY <1>3, <1>7, <2>2 DEF CardSide
    <2>6. Busy' /\ Idle' /\ Outcome'
      BY <1>3, <2>2 DEF Busy, Idle, Outcome, Errors
    <2> QED BY <1>6, <2>3, <2>4, <2>5, <2>6 DEF LinkInv
  <1> QED BY <1>1, <1>9, <1>10

LEMMA LinkSendsNext ==
  ASSUME LinkInv, Orderly, AppSend
  PROVE  LinkInv'
  <1> DEFINE c == Commands[serial + 1]
             a == [cse |-> c.cse, serial |-> serial + 1, lc |-> c.lc, le |-> c.le,
                   hasLe |-> c.hasLe]
  <1>1. /\ serial < Len(Commands) /\ clean /\ SendAPDU(a) /\ NoteSent
        /\ UNCHANGED <<cardVars, clean>>
    BY DEF AppSend
  <1>2. serial \in Nat /\ serial + 1 \in 1..Len(Commands)
    BY <1>1 DEF Orderly, LinkInv, HostTypes
  <1>3. c \in Apdus
    <2>1. Commands \in Seq(Apdus)
      BY DEF Orderly
    <2> QED BY <1>2, <2>1, ElementOf
  <1> HIDE DEF c
  <1>4. /\ a \in [cse : Cases, serial : Nat, lc : 0..(MaxLe - 1), le : 0..(MaxLe - 1),
                  hasLe : BOOLEAN]
        /\ a.serial = serial + 1 /\ (HasData(a.cse) => a.lc > 0)
    BY <1>2, <1>3 DEF Apdus
  <1> HIDE DEF a
  <1> QED BY <1>1, <1>4, LinkSends

\* The application sends a failed APDU again, as the call has left it.
LEMMA LinkSendsAgain ==
  ASSUME LinkInv, Orderly, AppSendAgain
  PROVE  LinkInv'
  <1> DEFINE a == [apdu EXCEPT !.serial = serial + 1]
  <1>1. /\ serial < Len(Commands) /\ clean /\ SendAPDU(a) /\ NoteSent
        /\ UNCHANGED <<cardVars, clean>>
    BY DEF AppSendAgain
  <1>2. serial \in Nat
    BY DEF LinkInv, HostTypes, Orderly
  <1>3. /\ a \in [cse : Cases, serial : Nat, lc : 0..(MaxLe - 1), le : 0..(MaxLe - 1),
                  hasLe : BOOLEAN]
        /\ a.serial = serial + 1 /\ (HasData(a.cse) => a.lc > 0)
    BY <1>2 DEF LinkInv, HostTypes, CardSide
  <1> HIDE DEF a
  <1> QED BY <1>1, <1>3, LinkSends

\* An APDU is refused, the card reset.
LEMMA LinkRefused ==
  ASSUME LinkInv, AppRefused
  PROVE  LinkInv'
  <1>1. /\ pc = "idle" /\ ret' = "BAD_PARAM"
        /\ UNCHANGED <<pc, stage, apdu, striped, tpdu, rsp, spointer, nulls, toCard, toHost,
                       serial, clean, cst, want, expect, got, avail, rest, gave, status, executed>>
    BY DEF AppRefused, RefuseAPDU, lineVars, cardVars, sessionVars
  <1>2. HostTypes' /\ CardTypes'
    BY <1>1 DEF LinkInv, HostTypes, CardTypes
  <1>3. CardSide' /\ CardGetsCommand'
    BY <1>1 DEF LinkInv, CardSide, CardGetsCommand, P3, Performed, HeaderByte, CmdByte
  <1>4. Busy' /\ Idle' /\ Outcome'
    BY <1>1 DEF LinkInv, Busy, Idle, Outcome
  <1> QED BY <1>2, <1>3, <1>4 DEF LinkInv

LEMMA LinkReset ==
  ASSUME LinkInv, AppReset
  PROVE  LinkInv'
  <1>1. /\ pc = "idle" /\ ret' = "reset" /\ clean' = TRUE /\ toCard' = << >>
        /\ UNCHANGED <<pc, stage, apdu, striped, tpdu, rsp, spointer, nulls, serial>>
        /\ cst' = "header" /\ expect' = 0 /\ got' = << >> /\ avail' = << >> /\ executed' = << >>
    BY DEF AppReset, ResetCard, CardReset
  <1>2. HostTypes' /\ CardTypes'
    BY <1>1 DEF LinkInv, HostTypes, CardTypes
  <1>3. CardSide' /\ CardGetsCommand'
    BY <1>1 DEF LinkInv, CardSide, CardGetsCommand
  <1>4. Busy' /\ Idle' /\ Outcome'
    BY <1>1 DEF Busy, Idle, Outcome
  <1> QED BY <1>2, <1>3, <1>4 DEF LinkInv

\* Nothing happens.
LEMMA LinkStutters ==
  ASSUME LinkInv, UNCHANGED vars
  PROVE  LinkInv'
  <1>1. /\ HostStays
        /\ UNCHANGED <<toCard, toHost, cst, want, expect, got, avail, rest, gave, status, executed>>
    BY DEF vars, lineVars, cardVars, HostStays
  <1>2. HostTypes' /\ CardTypes' /\ Idle' /\ Outcome' /\ CardGetsCommand'
    BY <1>1, HostStaysFacts DEF LinkInv, HostTypes, CardTypes, Idle, Outcome, CardGetsCommand,
                                Performed
  <1>3. Performed' = Performed /\ AvailOwn' = AvailOwn /\ P3(apdu)' = P3(apdu)
    BY <1>1, HostStaysFacts DEF Performed, AvailOwn, P3
  <1>4. CardSide'
    BY <1>1, <1>3, HostStaysFacts DEF LinkInv, CardSide
  <1>5. Stages => Stages'
    BY <1>1, <1>3, HostStaysFacts DEF Stages
  <1>6. Waiting => Waiting'
    BY <1>1, HostStaysFacts DEF Waiting
  <1>7. Taking => Taking'
    BY <1>1, HostStaysFacts DEF Taking, Asked, Answered
  <1>8. Telling => Telling'
    <2>1. \A k, n : StatusDue(k, n) => StatusDue(k, n)'
      BY <1>1, <1>3, HostStaysFacts DEF StatusDue
    <2>2. Given => Given'
      BY <1>1, HostStaysFacts DEF Given
    <2>3. \A from, n : AllGiven(from, n) => AllGiven(from, n)'
      BY <1>1, HostStaysFacts DEF AllGiven, EndsWithStatus
    <2>4. ASSUME Stream
          PROVE  Stream'
      <3>1. PICK p, nr : Parts(p, nr) /\ Follows(p, nr)
        BY <2>4 DEF Stream, Follows
      <3>2. Parts(p, nr)'
        BY <1>1, <3>1, HostStaysFacts DEF Parts
      <3>3. Follows(p, nr)'
        BY <1>1, <2>3, <3>1, HostStaysFacts DEF Follows, Stepwise, WithStatus, WithBlock,
                                                EndsWithStatus
      <3>4. pc' \in {"procedure", "byte"}
        BY <1>1, <2>4, HostStaysFacts DEF Stream
      <3>5. Stepwise(p, nr)' \/ WithStatus(p, nr)' \/ WithBlock(p, nr)'
        BY <3>3 DEF Follows
      <3> QED BY <3>2, <3>4, <3>5 DEF Stream
    <2>5. Block => Block'
      BY <1>1, <2>3, HostStaysFacts DEF Block
    <2>6. Second => Second'
      BY <1>1, HostStaysFacts DEF Second
    <2> QED BY <1>1, <1>3, <2>1, <2>2, <2>4, <2>5, <2>6 DEF Telling
  <1>9. Busy'
    BY <1>1, <1>5, <1>6, <1>7, <1>8, HostStaysFacts DEF LinkInv, Busy
  <1> QED BY <1>2, <1>4, <1>9 DEF LinkInv

\* Any step.
LEMMA LinkNext ==
  ASSUME LinkInv, Orderly, [Next]_vars
  PROVE  LinkInv'
  <1>1. CASE UNCHANGED vars
    BY <1>1, LinkStutters
  <1> QED BY <1>1, LinkSendsNext, LinkSendsAgain, LinkRefused, LinkReset, LinkReceives,
             LinkTimeout, CardInv DEF Next

\* The invariant holds of every session of any commands with a card that keeps to
\* Orderly, whatever else it chooses to do.
THEOREM LinkStays ==
  ASSUME Orderly
  PROVE  Spec => []LinkInv
  <1>1. Init => LinkInv
    BY LinkInit
  <1>2. LinkInv /\ [Next]_vars => LinkInv'
    BY LinkNext
  <1> QED BY <1>1, <1>2, PTL DEF Spec

\* A command the card executes has reached it byte for byte, in order, whatever
\* mixture of ACK and ~ACK it has asked with (sct0.c 78-171), and is executed once
\* unless it is reissued for its length.
THEOREM CommandReachesCard ==
  ASSUME Orderly
  PROVE  Spec => []CardGetsCommand
  <1>1. LinkInv => CardGetsCommand
    BY DEF LinkInv
  <1> QED BY <1>1, LinkStays, PTL

\* The types; that spointer never passes Lc and the buffer of scT0SendCmd holds are
\* not in the types of the single steps, but follow from what the card asks for.
THEOREM TypesStay ==
  ASSUME Orderly
  PROVE  Spec => []TypeOK
  <1>1. LinkInv => TypeOK
    <2>1. LinkInv => Len(rsp) \in 0..(MaxLe + 2) /\ tpdu.p3 \in Nat
      BY LimitsAssumption DEF LinkInv, HostTypes
    <2> QED BY <2>1 DEF LinkInv, HostTypes, CardTypes, TypeOK
  <1> QED BY <1>1, LinkStays, PTL

\* When a call ends well, nothing that the card has announced with 61 is left
\* (sct0.c 308-375).  A card that announces MaxLe bytes with 61 00 is excluded: the
\* code fetches nothing for it.
THEOREM AnswerIsFetched ==
  ASSUME Orderly, MaxLe \notin RspLens
  PROVE  Spec => []NothingLeftBehind
  <1>1. LinkInv => NothingLeftBehind
    BY DEF LinkInv, Outcome, NothingLeftBehind
  <1> QED BY <1>1, LinkStays, PTL

-----------------------------------------------------------------------------
(* The session is a command channel.                                       *)

\* The variables of CommandChannel as the session shows them.
ChanState == IF ~clean THEN "broken" ELSE IF pc = "idle" THEN "ready" ELSE "busy"
ChanPerformed == {executed[i].serial : i \in DOMAIN executed}
ChanAnswer == IF ret = "OK" /\ apduRsp # << >> THEN apduRsp[1].val[2] ELSE 0

\* The actions of CommandChannel in these terms.
LEMMA ChannelViews ==
  /\ Channel!Send <=> /\ ChanState = "ready" /\ ChanState' = "busy" /\ serial' = serial + 1
                      /\ ChanAnswer' = 0 /\ ChanPerformed' = ChanPerformed
  /\ Channel!Perform <=> /\ ChanState \in {"busy", "broken"} /\ serial \notin ChanPerformed
                         /\ ChanPerformed' = ChanPerformed \cup {serial}
                         /\ ChanState' = ChanState /\ serial' = serial /\ ChanAnswer' = ChanAnswer
  /\ Channel!Succeed <=> /\ ChanState = "busy" /\ serial \in ChanPerformed /\ ChanState' = "ready"
                         /\ ChanAnswer' = serial /\ serial' = serial
                         /\ ChanPerformed' = ChanPerformed
  /\ Channel!Fail <=> /\ ChanState = "busy" /\ ChanState' = "broken" /\ serial' = serial
                      /\ ChanPerformed' = ChanPerformed /\ ChanAnswer' = ChanAnswer
  /\ Channel!Refuse <=> /\ ChanState # "busy" /\ ChanAnswer' = 0 /\ ChanState' = ChanState
                        /\ serial' = serial /\ ChanPerformed' = ChanPerformed
  /\ Channel!Reset <=> /\ ChanState # "busy" /\ ChanState' = "ready" /\ ChanPerformed' = {}
                       /\ ChanAnswer' = 0 /\ serial' = serial
  /\ UNCHANGED Channel!chanVars <=> /\ ChanState' = ChanState /\ serial' = serial
                                    /\ ChanPerformed' = ChanPerformed /\ ChanAnswer' = ChanAnswer
  BY DEF ChanState, ChanPerformed, ChanAnswer, Channel!chanVars, Channel!Send, Channel!Perform,
         Channel!Succeed, Channel!Fail, Channel!Refuse, Channel!Reset

\* The current command is among those the channel counts as performed.
LEMMA PerformedNow ==
  Performed <=> apdu.serial \in ChanPerformed
  BY DEF Performed, ChanPerformed

\* Sending is Send, or Refuse if the card is not there.
LEMMA SendsOnChannel ==
  ASSUME LinkInv, LinkInv', NEW a, SendAPDU(a), clean, NoteSent, UNCHANGED <<cardVars, clean>>
  PROVE  Channel!Send \/ Channel!Refuse
  <1>1. /\ pc = "idle" /\ ChanPerformed' = ChanPerformed /\ ChanState = "ready" /\ clean'
    BY DEF SendAPDU, cardVars, ChanPerformed, ChanState
  <1>2. CASE pc' = "idle"
    <2>1. NoCard
      BY <1>2 DEF SendAPDU, Header
    <2>2. ret' # "OK"
      BY <2>1 DEF NoCard, Finish
    <2>3. ChanAnswer' = 0 /\ ChanState' = "ready" /\ serial' = serial
      BY <1>1, <1>2, <2>2 DEF ChanAnswer, ChanState, NoteSent
    <2> QED BY <1>1, <2>3, ChannelViews
  <1>3. CASE pc' # "idle"
    <2>1. ret' = "busy"
      BY <1>3 DEF LinkInv, Busy
    <2>2. ChanAnswer' = 0 /\ ChanState' = "busy" /\ serial' = serial + 1
      BY <1>1, <1>3, <2>1 DEF ChanAnswer, ChanState, NoteSent
    <2> QED BY <1>1, <2>2, ChannelViews
  <1> QED BY <1>2, <1>3

\* A read is a stutter, or the end of the call: Succeed with the answer to this
\* command, or Fail.
LEMMA ReadsOnChannel ==
  ASSUME LinkInv, LinkInv', pc # "idle", NoteFailure, UNCHANGED <<cardVars, serial>>
  PROVE  Channel!Succeed \/ Channel!Fail \/ UNCHANGED Channel!chanVars
  <1>1. /\ clean /\ ret = "busy" /\ ChanState = "busy" /\ ChanAnswer = 0
        /\ ChanPerformed' = ChanPerformed /\ serial' = serial
    BY DEF LinkInv, Busy, ChanState, ChanAnswer, cardVars, ChanPerformed
  <1>2. CASE pc' # "idle"
    <2>1. ret' = "busy" /\ clean'
      BY <1>2 DEF LinkInv, Busy
    <2>2. ChanState' = "busy" /\ ChanAnswer' = 0
      BY <1>2, <2>1 DEF ChanState, ChanAnswer
    <2> QED BY <1>1, <2>2, ChannelViews
  <1>3. CASE pc' = "idle" /\ ret' = "OK"
    <2>1. /\ clean' /\ apdu'.serial = serial' /\ Performed'
          /\ Len(apduRsp') > 1 /\ apduRsp'[1].val[2] = serial'
      BY <1>3 DEF LinkInv, Outcome
    <2>2. apduRsp' # << >>
      BY <2>1
    <2>3. ChanState' = "ready" /\ ChanAnswer' = serial
      BY <1>1, <1>3, <2>1, <2>2 DEF ChanState, ChanAnswer
    <2>4. serial \in ChanPerformed
      <3>1. Performed' <=> apdu'.serial \in ChanPerformed'
        BY DEF Performed, ChanPerformed
      <3> QED BY <1>1, <2>1, <3>1
    <2> QED BY <1>1, <2>3, <2>4, ChannelViews
  <1>4. CASE pc' = "idle" /\ ret' # "OK"
    <2>1. ~clean'
      BY <1>4 DEF NoteFailure
    <2>2. ChanState' = "broken" /\ ChanAnswer' = 0
      BY <1>4, <2>1 DEF ChanState, ChanAnswer
    <2> QED BY <1>1, <2>2, ChannelViews
  <1> QED BY <1>2, <1>3, <1>4

\* A step of the card is Perform, if it executes the command for the first time.
LEMMA CardOnChannel ==
  ASSUME LinkInv, CardMoves
  PROVE  Channel!Perform \/ UNCHANGED Channel!chanVars
  <1>1. HostStays /\ CardStep
    BY DEF CardMoves, HostStays
  <1>2. ChanState' = ChanState /\ serial' = serial /\ ChanAnswer' = ChanAnswer
    BY <1>1, HostStaysFacts DEF ChanState, ChanAnswer
  <1>3. pc # "idle" \/ ~clean
    BY <1>1, CardWaits
  <1>4. ChanState \in {"busy", "broken"} /\ apdu.serial = serial
    BY <1>3 DEF ChanState, LinkInv, CardSide
  <1>5. executed' = executed \/ \E ok \in BOOLEAN : Executes(ok)
    BY <1>1 DEF CardStep, CardRefuses, CardCase1, CardCase2, CardCase3, CardGetResponse,
                CardAsks, CardTakes, CardGivesAll, CardGivesOne, CardStatus, CardNull
  <1>6. CASE executed' = executed
    <2>1. ChanPerformed' = ChanPerformed
      BY <1>6 DEF ChanPerformed
    <2> QED BY <1>2, <2>1, ChannelViews
  <1>7. CASE \E ok \in BOOLEAN : Executes(ok)
    <2>1. PICK ok \in BOOLEAN : Executes(ok)
      BY <1>7
    <2> DEFINE e == [serial |-> apdu.serial, bytes |-> got', ok |-> ok]
    <2>2. executed' = Append(executed, e) /\ executed \in Seq(Execution) /\ e.serial = serial
      BY <1>4, <2>1 DEF Executes, LinkInv, CardTypes
    <2> HIDE DEF e
    <2>3. /\ DOMAIN executed' = 1..(Len(executed) + 1) /\ DOMAIN executed = 1..Len(executed)
          /\ \A i \in 1..Len(executed) : executed'[i] = executed[i]
          /\ executed'[Len(executed) + 1] = e /\ Len(executed) \in Nat
      BY <2>2
    <2>4. ChanPerformed' = ChanPerformed \cup {serial}
      <3>1. \A i \in 1..(Len(executed) + 1) : i \in 1..Len(executed) \/ i = Len(executed) + 1
        BY <2>3
      <3>2. \A i \in 1..Len(executed) : i \in 1..(Len(executed) + 1)
        BY <2>3
      <3>3. Len(executed) + 1 \in 1..(Len(executed) + 1)
        BY <2>3
      <3> QED BY <2>2, <2>3, <3>1, <3>2, <3>3 DEF ChanPerformed
    <2>5. CASE serial \in ChanPerformed
      <3>1. ChanPerformed' = ChanPerformed
        BY <2>4, <2>5
      <3> QED BY <1>2, <3>1, ChannelViews
    <2>6. CASE serial \notin ChanPerformed
      BY <1>2, <1>4, <2>4, <2>6, ChannelViews
    <2> QED BY <2>5, <2>6
  <1> QED BY <1>5, <1>6, <1>7

\* Every step is a step of the channel or a stutter.
LEMMA StepOnChannel ==
  ASSUME LinkInv, LinkInv', Orderly, [Next]_vars
  PROVE  [Channel!Next]_(Channel!chanVars)
  <1>1. CASE AppSend
    <2>1. Channel!Send \/ Channel!Refuse
      BY <1>1, SendsOnChannel DEF AppSend
    <2> QED BY <2>1 DEF Channel!Next
  <1>2. CASE AppSendAgain
    <2>1. Channel!Send \/ Channel!Refuse
      BY <1>2, SendsOnChannel DEF AppSendAgain
    <2> QED BY <2>1 DEF Channel!Next
  <1>3. CASE AppRefused
    <2>1. /\ pc = "idle" /\ ret' = "BAD_PARAM" /\ pc' = pc /\ clean' = clean /\ serial' = serial
          /\ executed' = executed
      BY <1>3 DEF AppRefused, RefuseAPDU, cardVars, sessionVars
    <2>2. /\ ChanState # "busy" /\ ChanAnswer' = 0 /\ ChanState' = ChanState
          /\ ChanPerformed' = ChanPerformed
      BY <2>1 DEF ChanState, ChanAnswer, ChanPerformed
    <2> QED BY <2>1, <2>2, ChannelViews DEF Channel!Next
  <1>4. CASE AppReset
    <2>1. /\ pc = "idle" /\ ret' = "reset" /\ pc' = pc /\ clean' = TRUE /\ serial' = serial
          /\ executed' = << >>
      BY <1>4 DEF AppReset, ResetCard, CardReset
    <2>2. /\ ChanState # "busy" /\ ChanAnswer' = 0 /\ ChanState' = "ready" /\ ChanPerformed' = {}
      BY <2>1 DEF ChanState, ChanAnswer, ChanPerformed
    <2> QED BY <2>1, <2>2, ChannelViews DEF Channel!Next
  <1>5. CASE HostReceives \/ HostTimeout
    <2>1. pc # "idle" /\ NoteFailure /\ UNCHANGED <<cardVars, serial>>
      BY <1>5 DEF HostReceives, HostTimeout, Orderly, NothingRead, Receive, AckToCard, AckFromCard,
                  NackToCard, NackFromCard, SkipByte, Null, Sw1, Sw2, ReadByte, ReadBlock, Reads
    <2> QED BY <2>1, ReadsOnChannel DEF Channel!Next
  <1>6. CASE CardMoves
    BY <1>6, CardOnChannel DEF Channel!Next
  <1>7. CASE UNCHANGED vars
    <2>1. UNCHANGED <<pc, ret, apduRsp, clean, serial, executed>>
      BY <1>7 DEF vars, hostVars, cardVars, sessionVars
    <2> QED BY <2>1, ChannelViews DEF ChanState, ChanAnswer, ChanPerformed
  <1> QED BY <1>1, <1>2, <1>3, <1>4, <1>5, <1>6, <1>7 DEF Next

\* The safety part of ImplementsChannel: one APDU, though it may be three TPDUs, is
\* one command of CommandChannel, performed at most once and answered with its own
\* answer.  Initial states map to initial states and steps to steps or stutters.
THEOREM KeepsChannel ==
  ASSUME Orderly
  PROVE  Spec => Channel!Init /\ [][Channel!Next]_(Channel!chanVars)
  <1>1. Init => Channel!Init
    BY DEF Init, HostInit, CardInit, Channel!Init
  <1>2. LinkInv /\ LinkInv' /\ [Next]_vars => [Channel!Next]_(Channel!chanVars)
    BY StepOnChannel
  <1> QED BY <1>1, <1>2, LinkStays, PTL DEF Spec

-----------------------------------------------------------------------------
(* The answer is the answer the caller wants.                              *)

\* During a call what the caller wants can be told from the APDU: its Le byte is
\* there or, of case 4, noted in striped.
LeWanted ==
  pc # "idle" =>
    /\ wantLe.le = IF wantLe.hasLe THEN Decoded(apdu.le) ELSE MaxLe
    /\ apdu.cse = 2 => wantLe.hasLe
    /\ striped <=> (apdu.cse = 4 /\ wantLe.hasLe)

\* After a call that ended well: the data the card has given, cut to what the caller
\* wants, and its status word.
Answer ==
  ret = "OK" =>
    /\ apduRsp = Cut(gave, wantLe.le) \o status
    /\ gave \in Seq(Byte) /\ status \in Seq(Byte) /\ Len(status) = 2
    /\ wantLe.le \in Nat

\* The inductive invariant of the two theorems below.
AnswerInv == LinkInv /\ LeWanted /\ Answer

\* How much the caller wants.
LEMMA WantedIs ==
  ASSUME LinkInv, LeWanted, pc # "idle"
  PROVE  /\ wantLe.le \in Nat
         /\ wantLe.hasLe => wantLe.le = Decoded(apdu.le)
         /\ ~wantLe.hasLe => wantLe.le = MaxLe
  <1>1. apdu.le \in 0..(MaxLe - 1)
    BY DEF LinkInv, HostTypes
  <1>2. Decoded(apdu.le) \in 1..MaxLe /\ MaxLe \in Nat
    BY <1>1, LimitFacts DEF LinkInv
  <1>3. /\ wantLe.hasLe => wantLe.le = Decoded(apdu.le)
        /\ ~wantLe.hasLe => wantLe.le = MaxLe
    BY DEF LeWanted
  <1> QED BY <1>2, <1>3

\* The card is not there: no answer.
LEMMA NoCardFails ==
  ASSUME NoCard
  PROVE  pc' = "idle" /\ ret' # "OK"
  BY DEF NoCard, Finish

\* If the status word asks for nothing more, the answer is what was handed over.
LEMMA CheckedAnswer ==
  ASSUME NEW r, NEW unread, CheckResponse(r, unread), ret # "OK"
  PROVE  /\ pc' = "idle" /\ ret' = "OK" => apduRsp' = r
         /\ pc' # "idle" => striped' = striped
  <1>1. apduRsp' = r
    BY DEF CheckResponse
  <1>2. \/ \E x \in {"BAD_SW", "OK"} : Finish(x, unread)
        \/ pc' = "procedure" /\ striped' = striped
        \/ NoCard
    BY DEF CheckResponse, Header
  <1> QED BY <1>1, <1>2, NoCardFails DEF Finish

\* In each of the three TPDUs the cut that the code makes, by cmd[4], by apdu->le or
\* by what striped says, is the cut of what the caller wants.
LEMMA OwnAnswer ==
  ASSUME LinkInv, LeWanted, ~Case2Fetch, Said, NEW unread, TpduDone(gave \o status, unread)
  PROVE  /\ pc' = "idle" /\ ret' = "OK" => apduRsp' = Cut(gave, wantLe.le) \o status
         /\ pc' # "idle" => striped' = striped
         /\ apdu'.cse = apdu.cse /\ apdu'.le = apdu.le
  <1>1. /\ Stages
        /\ gave \in Seq(Byte) /\ Len(gave) \in Nat
        /\ gave = << >> \/ (Len(gave) = D /\ AvailOwn /\ tpdu.cse = 2)
        /\ status \in Seq(Byte) /\ Len(status) = 2
    BY SaidFacts
  <1>2. /\ wantLe.le \in Nat
        /\ wantLe.hasLe => wantLe.le = Decoded(apdu.le)
        /\ ~wantLe.hasLe => wantLe.le = MaxLe
        /\ apdu.cse = 2 => wantLe.hasLe
        /\ striped <=> (apdu.cse = 4 /\ wantLe.hasLe)
    BY WantedIs DEF Said, LeWanted
  <1>3. D \in Nat /\ ret # "OK"
    <2>1. D \in 1..MaxLe
      BY LimitFacts DEF LinkInv
    <2> QED BY <2>1 DEF LinkInv, Busy, Said
  <1> DEFINE r == gave \o status
             want0 == Cut(gave, wantLe.le) \o status
  <1>4. Clip(r, D) = r
    <2>1. Clip(gave \o status, D) = Cut(gave, D) \o status
      BY <1>1, <1>3, ClipFacts
    <2>2. Cut(gave, D) = gave
      BY <1>1, <1>3, CutFacts
    <2> QED BY <2>1, <2>2
  <1>5. Len(gave) <= wantLe.le => r = want0
    BY <1>1, <1>2, CutFacts
  <1> HIDE DEF r
  <1>6. \/ stage = "command" /\ CommandDone(r, unread)
        \/ /\ stage = "reissue" /\ apdu' = apdu
           /\ CheckResponse(Clip(r, Decoded(apdu.le)), unread)
        \/ stage = "get" /\ Fetched(r, unread)
    BY <1>4 DEF TpduDone, r, D
  <1>7. CASE stage = "command" /\ CommandDone(r, unread)
    <2>1. r = want0
      <3>1. CASE gave = << >>
        BY <1>1, <1>2, <1>5, <3>1
      <3>2. CASE Len(gave) = D /\ tpdu.cse = 2
        <4>1. apdu.cse = 2 /\ tpdu.p3 = P3(apdu)
          BY <1>1, <1>7, <3>2 DEF Stages
        <4>2. D = Decoded(apdu.le)
          BY <4>1 DEF P3, D, HasData
        <4> QED BY <1>2, <1>3, <1>5, <3>2, <4>1, <4>2
      <3> QED BY <1>1, <3>1, <3>2
    <2>2. apdu'.cse = apdu.cse /\ apdu'.le = apdu.le
      BY <1>7 DEF CommandDone, LinkInv, HostTypes
    <2>3. \/ Reissue(r)
          \/ CheckResponse(r, unread)
          \/ Finish("OK", unread) /\ apduRsp' = r
      BY <1>7 DEF CommandDone
    <2>4. CASE Reissue(r)
      <3>1. (pc' = "procedure" /\ striped' = striped) \/ NoCard
        BY <2>4 DEF Reissue, Header
      <3> QED BY <2>2, <3>1, NoCardFails
    <2>5. CASE CheckResponse(r, unread)
      BY <1>3, <2>1, <2>2, <2>5, CheckedAnswer
    <2>6. CASE Finish("OK", unread) /\ apduRsp' = r
      BY <2>1, <2>2, <2>6 DEF Finish
    <2> QED BY <2>3, <2>4, <2>5, <2>6
  <1>8. CASE /\ stage = "reissue" /\ apdu' = apdu
             /\ CheckResponse(Clip(r, Decoded(apdu.le)), unread)
    <2>1. apdu.cse = 2
      BY <1>1, <1>8 DEF Stages
    <2>2. Clip(r, Decoded(apdu.le)) = want0
      BY <1>1, <1>2, <2>1, ClipFacts DEF r
    <2> QED BY <1>3, <1>8, <2>2, CheckedAnswer
  <1>9. CASE stage = "get" /\ Fetched(r, unread)
    <2>1. apdu.cse = 4
      BY <1>1, <1>9 DEF Stages
    <2>2. LeOfCaller = wantLe.le
      BY <1>2, <2>1 DEF LeOfCaller
    <2>3. Clip(r, LeOfCaller) = want0
      BY <1>1, <1>2, <2>2, ClipFacts DEF r
    <2> QED BY <1>9, <2>3 DEF Fetched, Finish
  <1> QED BY <1>6, <1>7, <1>8, <1>9

\* Only two reads end a call well.
LEMMA ReadsEnd ==
  ASSUME Receive
  PROVE  \/ UNCHANGED callVars
         \/ UNCHANGED apdu /\ pc' = "idle" /\ ret' # "OK"
         \/ Sw2 \/ ReadBlock
  BY DEF Receive, AckToCard, AckFromCard, NackToCard, NackFromCard, SkipByte, Null, Sw1,
         ReadByte, TpduFails, Finish

\* A read.
LEMMA AnswerReceives ==
  ASSUME AnswerInv, ~Case2Fetch, HostReceives
  PROVE  AnswerInv'
  <1>1. /\ LinkInv /\ LeWanted /\ Receive /\ NoteFailure /\ CardStays /\ wantLe' = wantLe
        /\ pc # "idle" /\ gave' = gave /\ status' = status
    BY DEF AnswerInv, HostReceives, CardStays, cardVars, Receive, AckToCard, AckFromCard,
           NackToCard, NackFromCard, SkipByte, Null, Sw1, Sw2, ReadByte, ReadBlock, Reads
  <1>2. LinkInv'
    BY <1>1, LinkReceives
  <1>3. ret = "busy" /\ (pc' # "idle" => ret' = "busy")
    BY <1>1, <1>2 DEF LinkInv, Busy
  <1>4. CASE UNCHANGED callVars
    <2>1. LeWanted' /\ Answer'
      BY <1>1, <1>3, <1>4 DEF callVars, LeWanted, Answer
    <2> QED BY <1>2, <2>1 DEF AnswerInv
  <1>5. CASE UNCHANGED apdu /\ pc' = "idle" /\ ret' # "OK"
    BY <1>2, <1>5 DEF AnswerInv, LeWanted, Answer
  <1>6. CASE Sw2 \/ ReadBlock
    <2>1. Telling
      BY <1>1, <1>6 DEF LinkInv, Busy, Waiting, Taking, Sw2, ReadBlock
    <2>2. Said /\ \E unread : TpduDone(gave \o status, unread)
      BY <1>1, <1>6, <2>1, ToldSw2, ToldBlock
    <2>3. PICK unread : TpduDone(gave \o status, unread)
      BY <2>2
    <2>4. /\ pc' = "idle" /\ ret' = "OK" => apduRsp' = Cut(gave, wantLe.le) \o status
          /\ pc' # "idle" => striped' = striped
          /\ apdu'.cse = apdu.cse /\ apdu'.le = apdu.le
      BY <1>1, <2>2, <2>3, OwnAnswer
    <2>5. wantLe.le \in Nat /\ gave \in Seq(Byte) /\ status \in Seq(Byte) /\ Len(status) = 2
      BY <1>1, <2>2, WantedIs, SaidFacts
    <2>6. LeWanted'
      BY <1>1, <2>4 DEF LeWanted
    <2>7. Cut(gave, wantLe.le)' = Cut(gave, wantLe.le)
      BY <1>1 DEF Cut
    <2>8. Answer'
      BY <1>1, <1>3, <2>4, <2>5, <2>7 DEF Answer
    <2> QED BY <1>2, <2>6, <2>8 DEF AnswerInv
  <1> QED BY <1>1, <1>4, <1>5, <1>6, ReadsEnd

\* The next APDU.
LEMMA AnswerSends ==
  ASSUME AnswerInv, Orderly, AppSend
  PROVE  AnswerInv'
  <1> DEFINE c == Commands[serial + 1]
             a == [cse |-> c.cse, serial |-> serial + 1, lc |-> c.lc, le |-> c.le,
                   hasLe |-> c.hasLe]
  <1>1. LinkInv'
    BY LinkSendsNext DEF AnswerInv
  <1>2. SendAPDU(a) /\ wantLe' = Want(c)
    BY DEF AppSend
  <1>3. c \in Apdus
    <2>1. serial \in Nat /\ serial + 1 \in 1..Len(Commands) /\ Commands \in Seq(Apdus)
      BY DEF Orderly, AnswerInv, LinkInv, HostTypes, AppSend
    <2> QED BY <2>1, ElementOf
  <1> HIDE DEF c
  <1>4. /\ wantLe'.hasLe = c.hasLe /\ c.hasLe \in BOOLEAN
        /\ wantLe'.le = IF c.hasLe THEN Decoded(c.le) ELSE MaxLe
        /\ c.cse = 2 => c.hasLe
        /\ a.cse = c.cse /\ a.le = c.le /\ a.hasLe = c.hasLe
    BY <1>2, <1>3 DEF Want, Apdus
  <1>5. /\ apdu' = [a EXCEPT !.hasLe = @ /\ ~Strips(a)]
        /\ \/ pc' = "procedure" /\ striped' = Strips(a) /\ ret' = "busy"
           \/ NoCard
    BY <1>2 DEF SendAPDU, Header
  <1>6. apdu'.cse = c.cse /\ apdu'.le = c.le
    BY <1>5
  <1> HIDE DEF a
  <1>7. CASE pc' = "procedure" /\ striped' = Strips(a) /\ ret' = "busy"
    <2>1. LeWanted' /\ Answer'
      BY <1>4, <1>6, <1>7 DEF LeWanted, Answer, Strips
    <2> QED BY <1>1, <2>1 DEF AnswerInv
  <1>8. CASE NoCard
    BY <1>1, <1>8, NoCardFails DEF AnswerInv, LeWanted, Answer
  <1> QED BY <1>5, <1>7, <1>8

\* Any step.
LEMMA AnswerNext ==
  ASSUME AnswerInv, Orderly, ~Again, ~Case2Fetch, [Next]_vars
  PROVE  AnswerInv'
  <1>1. LinkInv'
    BY LinkNext DEF AnswerInv
  <1>2. CASE AppSend
    BY <1>2, AnswerSends
  <1>3. CASE AppSendAgain
    BY <1>3 DEF AppSendAgain
  <1>4. CASE AppRefused
    BY <1>1, <1>4 DEF AppRefused, RefuseAPDU, AnswerInv, LeWanted, Answer
  <1>5. CASE AppReset
    BY <1>1, <1>5 DEF AppReset, ResetCard, AnswerInv, LeWanted, Answer
  <1>6. CASE HostReceives
    BY <1>6, AnswerReceives
  <1>7. CASE HostTimeout
    <2>1. pc' = "idle" /\ ret' # "OK"
      BY <1>7 DEF HostTimeout, NothingRead, TpduFails, Finish, Orderly
    <2> QED BY <1>1, <2>1 DEF AnswerInv, LeWanted, Answer
  <1>8. CASE CardMoves
    <2>1. UNCHANGED <<pc, wantLe, apdu, striped, ret>> /\ CardStep
      BY <1>8 DEF CardMoves, hostVars, sessionVars
    <2>2. ret # "OK"
      BY <2>1, CardWaits DEF AnswerInv, LinkInv, Outcome
    <2> QED BY <1>1, <2>1, <2>2 DEF AnswerInv, LeWanted, Answer
  <1>9. CASE UNCHANGED vars
    <2>1. UNCHANGED <<pc, wantLe, apdu, striped, ret, apduRsp, gave, status>>
      BY <1>9 DEF vars, hostVars, sessionVars, cardVars
    <2>2. Cut(gave, wantLe.le)' = Cut(gave, wantLe.le)
      BY <2>1 DEF Cut
    <2> QED BY <1>1, <2>1, <2>2 DEF AnswerInv, LeWanted, Answer
  <1> QED BY <1>2, <1>3, <1>4, <1>5, <1>6, <1>7, <1>8, <1>9 DEF Next

\* It always holds.
LEMMA AnswerStays ==
  ASSUME Orderly, ~Again, ~Case2Fetch
  PROVE  Spec => []AnswerInv
  <1>1. Init => AnswerInv
    <2>1. Init => LeWanted /\ Answer
      BY DEF Init, HostInit, LeWanted, Answer
    <2> QED BY <2>1, LinkInit DEF AnswerInv
  <1>2. AnswerInv /\ [Next]_vars => AnswerInv'
    BY AnswerNext
  <1> QED BY <1>1, <1>2, PTL DEF Spec

\* SC_EXIT_OK comes with the card's data, cut to what the caller wants, and the
\* status word, in whatever portions and however they looked (sct0.c 190-375).
\* Without Case2Fetch, because the code does not cut what it fetches for a case 2
\* command, and without Again, because a failed call may have lost the Le byte.
THEOREM OkCarriesOwnAnswer ==
  ASSUME Orderly, ~Again, ~Case2Fetch
  PROVE  Spec => []OkIsOwnAnswer
  <1>1. AnswerInv => OkIsOwnAnswer
    BY DEF AnswerInv, Answer, OkIsOwnAnswer, Cut
  <1> QED BY <1>1, AnswerStays, PTL

\* The caller is never given more bytes than it asked for and the status word.
THEOREM AnswerFitsLe ==
  ASSUME Orderly, ~Again, ~Case2Fetch
  PROVE  Spec => []AnswerWithinLe
  <1>1. AnswerInv => AnswerWithinLe
    <2> SUFFICES ASSUME AnswerInv, ret = "OK"
                 PROVE  Len(apduRsp) <= wantLe.le + 2
      BY DEF AnswerWithinLe
    <2>1. /\ apduRsp = Cut(gave, wantLe.le) \o status /\ gave \in Seq(Byte)
          /\ status \in Seq(Byte) /\ Len(status) = 2 /\ wantLe.le \in Nat
      BY DEF AnswerInv, Answer
    <2> DEFINE g == Cut(gave, wantLe.le)
    <2>2. g \in Seq(Byte) /\ Len(g) \in Nat /\ Len(g) <= wantLe.le
      <3>1. /\ g \in Seq(Byte) /\ Len(g) \in Nat
            /\ Len(g) = IF Len(gave) < wantLe.le THEN Len(gave) ELSE wantLe.le
        BY <2>1, CutFacts
      <3> HIDE DEF g
      <3> QED BY <2>1, <3>1
    <2>3. apduRsp = g \o status
      BY <2>1
    <2> HIDE DEF g
    <2>4. Len(apduRsp) = Len(g) + 2
      BY ONLY <2>1, <2>2, <2>3, LastFacts
    <2> QED BY <2>1, <2>2, <2>4
  <1> QED BY <1>1, AnswerStays, PTL
=============================================================================
