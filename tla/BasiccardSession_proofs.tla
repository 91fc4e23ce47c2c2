----------------------- MODULE BasiccardSession_proofs -----------------------
(***************************************************************************)
(* OkIsRun and StaysInStep for every set of lengths and keys and sessions  *)
(* of any length.  Both rest on SessionsAgree: as the host leaves its      *)
(* session before it sends StartEncr or EndEncr, and enters one only on    *)
(* the card's answer, it never enciphers for a card that is in no session  *)
(* or another mode.                                                        *)
(***************************************************************************)
EXTENDS BasiccardSession, TLAPS

Inv == SessionsAgree /\ (~host.session => host = Closed) /\ OkIsRun

\* A message moves the state of a side and leaves its session as it is.
LEMMA MovedKeepsSession ==
  ASSUME NEW side, NEW id
  PROVE  /\ Moved(side, id).session = side.session
         /\ Moved(side, id).algo = side.algo
  BY DEF Moved

LEMMA AfterEncrKeepsSession ==
  ASSUME NEW c
  PROVE  /\ AfterEncr(c).session = host.session
         /\ AfterEncr(c).algo = host.algo
         /\ ~host.session => AfterEncr(c) = host
  BY MovedKeepsSession DEF AfterEncr, Coded

LEMMA CardAfterKeepsSession ==
  ASSUME NEW c
  PROVE  /\ CardAfter(c).session = card.session
         /\ CardAfter(c).algo = card.algo
  BY MovedKeepsSession DEF CardAfter

\* Neither side enters or leaves a session.
SameSessions ==
  /\ host'.session = host.session /\ host'.algo = host.algo
  /\ ~host.session => host' = host
  /\ card'.session = card.session /\ card'.algo = card.algo

LEMMA SameSessionsAgree ==
  ASSUME Inv, SameSessions
  PROVE  SessionsAgree' /\ (~host'.session => host' = Closed)
  BY DEF Inv, SessionsAgree, SameSessions

\* A mode that checks is the mode of a session, of the host's and the card's.
LEMMA CheckedInSession ==
  ASSUME Inv, host.algo \in Checked
  PROVE  host.session /\ card.session /\ card.algo = host.algo
  <1>1. Closed.algo \notin Checked
    BY DEF Closed, Checked, Algos
  <1>2. host.session
    BY <1>1 DEF Inv
  <1> QED BY <1>2 DEF Inv, SessionsAgree

\* In a mode that checks, the card runs the very command or nothing.
LEMMA CheckedRuns ==
  ASSUME Inv, host.algo \in Checked, NEW c, NEW ran \in Runs(c)
  PROVE  ran \in {"this", "nothing"}
  BY CheckedInSession DEF Runs

LEMMA UnsentStep ==
  ASSUME Inv, NEW c, Refuse(c) \/ Reject(c) \/ LoseCommand(c)
  PROVE  Inv'
  <1>1. SameSessions
    BY AfterEncrKeepsSession DEF Refuse, Reject, LoseCommand, SameSessions
  <1>2. call'.ret # "OK"
    BY DEF Refuse, Reject, LoseCommand, Ended
  <1> QED BY <1>1, <1>2, SameSessionsAgree DEF Inv, OkIsRun

LEMMA AnswerLostStep ==
  ASSUME Inv, NEW c, AnswerLost(c)
  PROVE  Inv'
  <1>1. SameSessions
    BY AfterEncrKeepsSession, CardAfterKeepsSession, MovedKeepsSession
       DEF AnswerLost, SameSessions
  <1>2. call'.ret # "OK"
    BY DEF AnswerLost, Ended
  <1> QED BY <1>1, <1>2, SameSessionsAgree DEF Inv, OkIsRun

LEMMA StatusOnlyStep ==
  ASSUME Inv, NEW c, StatusOnly(c)
  PROVE  Inv'
  <1>1. SameSessions
    BY AfterEncrKeepsSession, CardAfterKeepsSession DEF StatusOnly, SameSessions
  <1>2. call'.algo \in Checked => call'.sw # "ok"
    BY CheckedInSession DEF StatusOnly, Ended
  <1> QED BY <1>1, <1>2, SameSessionsAgree DEF Inv, OkIsRun

LEMMA AnsweredStep ==
  ASSUME Inv, NEW c, Answered(c)
  PROVE  Inv'
  <1> DEFINE good == host.session /\ card.session /\ AfterEncr(c) = CardAfter(c)
             plain == ~host.session /\ ~card.session
  <1>1. PICK ran \in Runs(c) \ {"nothing"} :
          /\ host' = IF host.session THEN Moved(AfterEncr(c), msgs') ELSE host
          /\ card' = IF card.session THEN Moved(CardAfter(c), msgs') ELSE card
          /\ call' = Ended(c, IF host.algo \in Checked /\ ~good THEN "BAD_CHECKSUM" ELSE "OK",
                           "ok", ran, IF good \/ plain THEN "own" ELSE "other")
    BY DEF Answered
  <1>2. SameSessions
    BY <1>1, AfterEncrKeepsSession, CardAfterKeepsSession, MovedKeepsSession
       DEF SameSessions
  <1>3. OkIsRun'
    <2> SUFFICES ASSUME call'.ret = "OK", call'.algo \in Checked
                 PROVE  call'.ran = "this" /\ call'.answer # "other"
      BY DEF OkIsRun
    <2>1. host.algo \in Checked
      BY <1>1 DEF Ended
    <2>2. good
      BY <1>1, <2>1 DEF Ended
    <2>3. ran = "this"
      BY <2>1, CheckedRuns
    <2> QED BY <1>1, <2>2, <2>3 DEF Ended
  <1> QED BY <1>2, <1>3, SameSessionsAgree DEF Inv

LEMMA StartEncrStep ==
  ASSUME Inv, NEW algo, NEW key, NEW cardkey, StartEncr_(algo, key, cardkey)
  PROVE  Inv'
  <1>1. call'.sw = "ok" => call'.ran = "this" /\ call'.answer = "none"
    BY DEF StartEncr_, Ended
  <1>2. SessionsAgree' /\ (~host'.session => host' = Closed)
    BY <1>1 DEF StartEncr_, SessionsAgree, Opened, Closed
  <1> QED BY <1>1, <1>2 DEF Inv, OkIsRun

LEMMA EndEncrStep ==
  ASSUME Inv, EndEncr_
  PROVE  Inv'
  <1>1. call'.sw = "ok" => call'.ran = "this" /\ call'.answer = "none"
    BY DEF EndEncr_, Ended
  <1>2. SessionsAgree' /\ (~host'.session => host' = Closed)
    BY DEF EndEncr_, SessionsAgree, Closed
  <1> QED BY <1>1, <1>2 DEF Inv, OkIsRun

LEMMA InvInductive == Inv /\ [Next]_vars => Inv'
  <1> SUFFICES ASSUME Inv, [Next]_vars PROVE Inv'
    OBVIOUS
  <1>1. CASE UNCHANGED vars
    BY <1>1 DEF vars, Inv, SessionsAgree, OkIsRun
  <1>2. ASSUME NEW c, \/ Refuse(c) \/ Reject(c) \/ LoseCommand(c) \/ AnswerLost(c)
                      \/ StatusOnly(c) \/ Answered(c)
        PROVE  Inv'
    BY <1>2, UnsentStep, AnswerLostStep, StatusOnlyStep, AnsweredStep
  <1>3. ASSUME NEW algo, NEW key, NEW cardkey, StartEncr_(algo, key, cardkey)
        PROVE  Inv'
    BY <1>3, StartEncrStep
  <1>4. CASE EndEncr_
    BY <1>4, EndEncrStep
  <1>5. CASE ResetCard
    BY <1>5 DEF ResetCard, Inv, SessionsAgree, OkIsRun, Closed
  <1>6. CASE Return
    BY <1>6 DEF Return, Inv, SessionsAgree, OkIsRun, Idle
  <1> QED BY <1>1, <1>2, <1>3, <1>4, <1>5, <1>6 DEF Next

(***************************************************************************)
(* A good answer in a mode that checks is the card's answer to this very   *)
(* command, whatever was lost before.                                      *)
(***************************************************************************)
THEOREM OkIsAlwaysRun == Spec => []OkIsRun
  <1>1. Init => Inv
    BY DEF Init, Inv, SessionsAgree, OkIsRun, Closed, Idle
  <1>2. Inv => OkIsRun
    BY DEF Inv
  <1> QED BY <1>1, <1>2, InvInductive, PTL DEF Spec

(***************************************************************************)
(* The host enciphers only for a card that is in a session of that mode.   *)
(***************************************************************************)
THEOREM SessionsAlwaysAgree == Spec => []SessionsAgree
  <1>1. Init => Inv
    BY DEF Init, Inv, SessionsAgree, OkIsRun, Closed, Idle
  <1>2. Inv => SessionsAgree
    BY DEF Inv
  <1> QED BY <1>1, <1>2, InvInductive, PTL DEF Spec

-----------------------------------------------------------------------------
(***************************************************************************)
(* What StaysInStep rests on: EncrCAPDU turns every command of the driver  *)
(* into one a reader driver takes, but for Unsendable.  Before that, the   *)
(* three numbers of a command that is not refused agree.                   *)
(***************************************************************************)
WellShaped(c) ==
  /\ c = [guard |-> c.guard, cse |-> c.cse, p3 |-> c.p3, cmdlen |-> c.cmdlen, room |-> c.room,
          answer |-> c.answer, secured |-> c.secured, clears |-> c.clears,
          follow |-> c.follow, sum |-> c.sum]
  /\ c.p3 \in 0..255
  /\ \/ c.cse = 1 /\ c.cmdlen = 4
     \/ c.cse = 2 /\ c.cmdlen = 5
     \/ c.cse = 3 /\ c.cmdlen = 5 + c.p3
     \/ c.cse = 4 /\ c.cmdlen = 6 + c.p3

LEMMA ByteRange ==
  ASSUME NEW n \in Int
  PROVE  Byte(n) \in 0..255 /\ (n \in 0..255 => Byte(n) = n)
  BY DEF Byte

LEMMA CommandShape ==
  ASSUME NEW c \in Commands, c.guard
  PROVE  WellShaped(c)
  <1>1. ASSUME NEW g, NEW p3 \in 0..255, NEW n, NEW room, NEW answer, NEW cse,
               c = Cmd(g, cse, p3, n, room, answer),
               \/ cse = 1 /\ n = 4
               \/ cse = 2 /\ n = 5
               \/ cse = 3 /\ n = 5 + p3
               \/ cse = 4 /\ n = 6 + p3
        PROVE  WellShaped(c)
    BY <1>1 DEF WellShaped, Cmd
  <1>2. CASE c \in {GetState, EepromSize, EepromCrc, SetState, GetApplId, AssignNad}
    BY <1>2 DEF GetState, EepromSize, EepromCrc, SetState, GetApplId, AssignNad, Cmd, WellShaped
  <1>3. ASSUME NEW b \in BOOLEAN, c = ClearEeprom(b)
        PROVE  WellShaped(c)
    <2>1. ~b
      BY <1>3 DEF ClearEeprom, NotEnh3, KeepsSw, Cmd
    <2> QED BY <1>3, <2>1 DEF ClearEeprom, NotEnh3, Cmd, WellShaped
  <1>4. ASSUME NEW b \in BOOLEAN, NEW n \in Bytes, c = WriteEeprom(b, n)
        PROVE  WellShaped(c)
    <2>1. ~b
      BY <1>4 DEF WriteEeprom, NotEnh3, KeepsSw, Cmd
    <2>2. n \in 0..255 /\ Byte(n) = n
      BY LenAssumption, ByteRange DEF Bytes
    <2> QED BY <1>1, <1>4, <2>1, <2>2 DEF WriteEeprom, NotEnh3
  <1>5. ASSUME NEW n \in Lens, c = ReadEeprom(n)
        PROVE  WellShaped(c)
    <2>1. Byte(n) \in 0..255
      BY LenAssumption, ByteRange
    <2> QED BY <1>1, <1>5, <2>1 DEF ReadEeprom
  <1>6. ASSUME NEW n \in Bytes, c = Echo(n)
        PROVE  WellShaped(c)
    BY <1>1, <1>6 DEF Echo, Bytes
  <1>7. ASSUME NEW n \in Bytes, NEW m \in Lens, c = FileIo(n, m)
        PROVE  WellShaped(c)
    BY <1>1, <1>7 DEF FileIo, Bytes
  <1> QED BY <1>2, <1>3, <1>4, <1>5, <1>6, <1>7 DEF Commands

LEMMA PlainAccepted ==
  ASSUME NEW c, WellShaped(c)
  PROVE  Accepted(c, t0)
  BY T0Assumption DEF WellShaped, Accepted, Lengths

LEMMA EncipheredAccepted ==
  ASSUME NEW c, WellShaped(c), NEW algo \in Algos, c.cmdlen <= Limit(algo), t0 \in BOOLEAN,
         ~Unsendable(algo, c)
  PROVE  Accepted(Enciphered(algo, c, FALSE), t0)
  <1>1. CASE algo = "LFSR"
    BY <1>1, PlainAccepted DEF Enciphered
  <1>2. CASE algo # "LFSR"
    <2> DEFINE lc == IF c.cse \in {3, 4} THEN c.p3 ELSE 0
               le == IF c.cse \in {2, 4} THEN 1 ELSE 0
               o  == Overhead(algo)
               e  == Enciphered(algo, c, FALSE)
    <2>1. o \in {4, 8} /\ lc \in 0..255 /\ le \in {0, 1}
      BY DEF Overhead, WellShaped
    <2>2. algo \in Checked
      BY <1>2 DEF Checked
    <2>3. lc + o \in 0..255
      <3>1. CASE algo = "LFSR CRC"
        <4>1. o = 4
          BY <3>1 DEF Overhead
        <4>2. CASE c.cse \in {3, 4}
          <5>1. c.p3 \in 0..255 /\ c.p3 \notin 252..255
            BY <2>2, <3>1, <4>2 DEF Unsendable, WellShaped
          <5> QED BY <4>1, <4>2, <5>1
        <4>3. CASE c.cse \notin {3, 4}
          BY <4>1, <4>3
        <4> QED BY <4>2, <4>3
      <3>2. CASE algo # "LFSR CRC"
        <4>1. Limit(algo) = 252 /\ o = 8
          <5>1. algo \notin Stream
            BY <1>2, <3>2 DEF Stream
          <5>2. Limit(algo) = 252
            BY <5>1 DEF Limit
          <5>3. o = 8
            BY <3>2 DEF Overhead
          <5> QED BY <5>2, <5>3
        <4>2. c.cmdlen <= 252
          BY <4>1
        <4> QED BY <4>1, <4>2 DEF WellShaped
      <3> QED BY <3>1, <3>2
    <2>4. e.cse = 4 /\ e.p3 = lc + o
      BY <1>2, <2>3, ByteRange DEF Enciphered, WellShaped
    <2>5. e.cmdlen = 5 + lc + o + le
      <3> DEFINE header == 5 - (IF c.cse = 1 THEN 1 ELSE 0)
                 data   == c.cmdlen - header - (IF c.cse = 4 THEN 1 ELSE 0)
      <3>1. data = lc
        BY DEF WellShaped
      <3>2. e.cmdlen = 5 + data + o + le
        BY <1>2 DEF Enciphered, WellShaped
      <3> QED BY <3>1, <3>2
    <2>6. le = 1 \/ t0
      BY <2>2 DEF Unsendable, WellShaped
    <2>7. Lengths(4, lc + o, t0) = (IF t0 THEN 5 + (lc + o) ELSE 6 + (lc + o)) .. 6 + (lc + o)
      BY DEF Lengths
    <2>8. 5 + lc + o + le \in (IF t0 THEN 5 + (lc + o) ELSE 6 + (lc + o)) .. 6 + (lc + o)
      <3> HIDE DEF lc, le, o
      <3>1. CASE le = 1
        BY <2>1, <3>1
      <3>2. CASE le = 0
        BY <2>1, <2>6, <3>2
      <3> QED BY <2>1, <3>1, <3>2
    <2> QED BY <2>4, <2>5, <2>7, <2>8 DEF Accepted
  <1> QED BY <1>1, <1>2

(***************************************************************************)
(* Both sides have the four parts of a session, and a session has one of   *)
(* the modes.                                                              *)
(***************************************************************************)
SideShape(side) ==
  side = [session |-> side.session, algo |-> side.algo, key |-> side.key, iv |-> side.iv]

Shape ==
  /\ t0 \in BOOLEAN /\ SideShape(host) /\ SideShape(card)
  /\ host.session \in BOOLEAN /\ card.session \in BOOLEAN
  /\ host.session => host.algo \in Algos

LEMMA MovedShape ==
  ASSUME NEW side, NEW id, SideShape(side)
  PROVE  SideShape(Moved(side, id))
  BY DEF SideShape, Moved

LEMMA AfterShape ==
  ASSUME Shape, NEW c
  PROVE  SideShape(AfterEncr(c)) /\ SideShape(CardAfter(c))
  BY MovedShape DEF Shape, AfterEncr, CardAfter

LEMMA ShapeInv ==
  ASSUME Inv, Shape, [Next]_vars
  PROVE  Shape'
  <1>1. ASSUME SideShape(host'), SideShape(card'), SameSessions, t0' = t0
        PROVE  Shape'
    BY <1>1 DEF Shape, SameSessions
  <1>2. ASSUME NEW c, \/ Refuse(c) \/ Reject(c) \/ LoseCommand(c) \/ AnswerLost(c)
                      \/ StatusOnly(c) \/ Answered(c)
        PROVE  Shape'
    <2>1. SideShape(host') /\ SideShape(card')
      BY <1>2, AfterShape, MovedShape
         DEF Refuse, Reject, LoseCommand, AnswerLost, StatusOnly, Answered, Shape
    <2>2. SameSessions
      BY <1>2, AfterEncrKeepsSession, CardAfterKeepsSession, MovedKeepsSession
         DEF Refuse, Reject, LoseCommand, AnswerLost, StatusOnly, Answered, SameSessions
    <2>3. t0' = t0
      BY <1>2 DEF Refuse, Reject, LoseCommand, AnswerLost, StatusOnly, Answered
    <2> QED BY <1>1, <2>1, <2>2, <2>3
  <1>3. ASSUME NEW algo \in Algos, NEW key, NEW cardkey, StartEncr_(algo, key, cardkey)
        PROVE  Shape'
    <2>1. host' \in {Opened(algo, key), Closed} /\ card' \in {Opened(algo, cardkey), card}
      BY <1>3 DEF StartEncr_
    <2>2. SideShape(host') /\ SideShape(card')
      BY <2>1 DEF SideShape, Opened, Closed, Shape
    <2> QED BY <1>3, <2>1, <2>2 DEF StartEncr_, Shape, Opened, Closed
  <1>4. CASE EndEncr_ \/ ResetCard
    <2>1. host' = Closed /\ card' \in {Closed, card} /\ t0' = t0
      BY <1>4 DEF EndEncr_, ResetCard
    <2>2. SideShape(Closed) /\ Closed.session = FALSE
      BY DEF SideShape, Closed
    <2> QED BY <2>1, <2>2 DEF Shape
  <1>5. CASE Return \/ UNCHANGED vars
    BY <1>5 DEF Return, vars, Shape, SideShape
  <1> QED BY <1>2, <1>3, <1>4, <1>5 DEF Next

-----------------------------------------------------------------------------
StepInStep ==
  host.session /\ host'.session /\ host.iv = card.iv /\ host.key = card.key
    /\ host'.iv # card'.iv =>
    \/ call'.ret = "IO_ERROR"
    \/ call'.ret = "CMD_LENGTH" /\ Unsendable(host.algo, call'.cmd)

\* Two sides in step are equal, and a command both handle keeps them so.
LEMMA BothHandle ==
  ASSUME Inv, Shape, NEW c, host.session, host.iv = card.iv, host.key = card.key
  PROVE  host = card /\ AfterEncr(c) = CardAfter(c)
  <1>1. host = card
    BY DEF Inv, SessionsAgree, Shape, SideShape
  <1> QED BY <1>1 DEF AfterEncr, CardAfter, Coded, MsgsAfter

\* A command the reader driver refuses is one of Unsendable.
LEMMA RejectInStep ==
  ASSUME Inv, Shape, NEW c \in Commands, Reject(c)
  PROVE  StepInStep
  <1> SUFFICES ASSUME host.session, host.iv = card.iv, host'.iv # card'.iv
               PROVE  call'.ret = "CMD_LENGTH" /\ Unsendable(host.algo, call'.cmd)
    BY DEF StepInStep
  <1>1. call'.ret = "CMD_LENGTH" /\ call'.cmd = c
    BY DEF Reject, Ended
  <1>2. host.algo \in Algos /\ t0 \in BOOLEAN
    BY DEF Shape
  <1>3. c.cmdlen <= Limit(host.algo)
    <2>1. ~(c.cmdlen > Limit(host.algo))
      BY DEF Reject, TooLong
    <2>2. c.cmdlen \in Int /\ Limit(host.algo) \in Int
      BY CommandShape DEF Reject, WellShaped, Limit
    <2> QED BY <2>1, <2>2
  <1>4. ~Accepted(Enciphered(host.algo, c, FALSE), t0)
    BY DEF Reject, Sent
  <1>5. WellShaped(c)
    BY CommandShape DEF Reject
  <1>6. Unsendable(host.algo, c)
    BY <1>2, <1>3, <1>4, <1>5, EncipheredAccepted
  <1> QED BY <1>1, <1>6

LEMMA StepsInStep ==
  ASSUME Inv, Shape, [Next]_vars
  PROVE  [StepInStep]_vars
  <1>1. ASSUME NEW c \in Commands, Refuse(c) \/ LoseCommand(c) \/ AnswerLost(c)
        PROVE  StepInStep
    BY <1>1 DEF Refuse, LoseCommand, AnswerLost, Ended, StepInStep
  <1>2. ASSUME NEW c \in Commands, StatusOnly(c)
        PROVE  StepInStep
    BY <1>2, BothHandle DEF StatusOnly, StepInStep
  <1>3. ASSUME NEW c \in Commands, Answered(c)
        PROVE  StepInStep
    <2> SUFFICES ASSUME host.session, host.iv = card.iv, host.key = card.key
                 PROVE  host' = card'
      BY DEF StepInStep
    <2>1. host = card /\ AfterEncr(c) = CardAfter(c)
      BY BothHandle
    <2>2. /\ host' = Moved(AfterEncr(c), msgs')
          /\ card' = Moved(CardAfter(c), msgs')
      BY <1>3, <2>1 DEF Answered
    <2> QED BY <2>1, <2>2
  <1>4. ASSUME NEW algo, NEW key, NEW cardkey, StartEncr_(algo, key, cardkey)
        PROVE  StepInStep
    <2> SUFFICES ASSUME host'.session
                 PROVE  host'.iv = card'.iv
      BY DEF StepInStep
    <2>1. call'.sw = "ok" => call'.ran = "this"
      BY <1>4 DEF StartEncr_, Ended
    <2>2. call'.sw = "ok"
      BY <1>4 DEF StartEncr_, Closed
    <2> QED BY <1>4, <2>1, <2>2 DEF StartEncr_, Opened
  <1>5. CASE EndEncr_ \/ ResetCard
    BY <1>5 DEF EndEncr_, ResetCard, Closed, StepInStep
  <1>6. CASE Return
    BY <1>6 DEF Return, StepInStep
  <1> QED BY <1>1, <1>2, <1>3, <1>4, <1>5, <1>6, RejectInStep DEF Next

(***************************************************************************)
(* Host and card stay in step unless a message is lost or a command is of  *)
(* those no reader driver takes: of all lengths a caller can give, no      *)
(* others make EncrCAPDU move the cipher on for a command that cannot go   *)
(* out.                                                                    *)
(***************************************************************************)
THEOREM AlwaysStaysInStep == Spec => StaysInStep
  <1>1. Init => Inv /\ Shape
    BY T0Assumption
       DEF Init, Inv, Shape, SideShape, SessionsAgree, OkIsRun, Closed, Idle
  <1>2. Inv /\ Shape /\ [Next]_vars => (Inv /\ Shape)' /\ [StepInStep]_vars
    BY InvInductive, ShapeInv, StepsInStep
  <1> QED BY <1>1, <1>2, PTL DEF Spec, StaysInStep, StepInStep
=============================================================================
