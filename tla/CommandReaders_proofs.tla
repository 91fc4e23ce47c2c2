------------------------ MODULE CommandReaders_proofs ------------------------
(***************************************************************************)
(* OkIsOwnAnswer for any APDUs, any number of calls and any number of      *)
(* faults, commands and answers lost altogether among them.                *)
(*                                                                         *)
(* The argument: while an answer is awaited, all that is on the line, in   *)
(* either direction, belongs to the current step, and so does what the     *)
(* reader would repeat if it were asked to: the drivers ask only after     *)
(* something has arrived.                                                  *)
(*                                                                         *)
(* RunsApduOnce for any APDUs, calls, faults and readers, commands lost    *)
(* altogether among the faults.  The argument: a run of the card is spent  *)
(* when the driver sends the APDU, not when the reader takes it; all that  *)
(* may follow the APDU on the line are requests for the last answer, which *)
(* run nothing; and what runs is the frame the driver made of the APDU.    *)
(***************************************************************************)
EXTENDS CommandReaders, SequenceTheorems, TLAPS

StepNames == {"apdu", "reset", "settype", "status", "off", "on", "atr", "peek", "mode"}
Commands == [of : Nat, kind : StepNames \cup {"again"}, whole : BOOLEAN]
Answers == [of : Nat, form : {"whole", "nak"} \cup {"lost", "cut", "sum", "two"}]

TypeInv ==
  /\ step \in Nat /\ runs \in Nat /\ again \in BOOLEAN
  /\ inbox \in Seq(Commands) /\ wire \in Seq(Answers) /\ last \in Answers
  /\ pc \in {"idle", "send", "wait"}
  /\ script \in Seq(StepNames)
  /\ pc # "idle" => script # <<>>

\* An answer is awaited, or about to be asked for again.
Awaits == pc = "wait" \/ (pc = "send" /\ again)

\* No message is of a later step; of an awaited one, all are of this step.
InboxInStep ==
  /\ \A i \in 1 .. Len(inbox) : inbox[i].of <= step
  /\ Awaits => \A i \in 1 .. Len(inbox) : inbox[i].of = step

WireInStep == pc = "wait" => \A i \in 1 .. Len(wire) : wire[i].of = step

\* What the reader is about to repeat, or may be asked to, is of this step.
LastInStep ==
  /\ last.of <= step
  /\ pc = "wait" /\ wire # <<>> => last.of = step
  /\ Awaits /\ inbox # <<>> /\ Head(inbox).kind = "again" => last.of = step
  /\ pc = "send" /\ again => last.of = step /\ reader = "intertex"

\* A good answer to an APDU means that the card ran it.
ApduRun ==
  IsApdu /\ pc # "idle" =>
    /\ script = <<"apdu">>
    /\ \A i \in 1 .. Len(inbox) : inbox[i].of = step /\ inbox[i].kind \in {"apdu", "again"}
    /\ last.of = step /\ last.form = "whole" => runs > 0
    /\ pc = "wait" => \A i \in 1 .. Len(wire) : wire[i].form = "whole" => runs > 0

Inv == TypeInv /\ InboxInStep /\ WireInStep /\ LastInStep /\ ApduRun /\ OkIsOwnAnswer

-----------------------------------------------------------------------------
\* The first of a sequence and the rest of it
LEMMA HeadAndTail ==
  ASSUME NEW S, NEW s \in Seq(S), s # <<>>
  PROVE  /\ Head(s) \in S /\ Head(s) = s[1] /\ 1 \in 1 .. Len(s)
         /\ Tail(s) \in Seq(S)
         /\ \A i \in 1 .. Len(Tail(s)) : i + 1 \in 1 .. Len(s) /\ Tail(s)[i] = s[i + 1]
  OBVIOUS

LEMMA ScriptOfOne ==
  ASSUME NEW S, NEW a \in S
  PROVE  <<a>> \in Seq(S) /\ <<a>> # <<>>
  OBVIOUS

LEMMA ScriptOfTwo ==
  ASSUME NEW S, NEW a \in S, NEW b \in S
  PROVE  <<a, b>> \in Seq(S) /\ <<a, b>> # <<>>
  OBVIOUS

LEMMA LongScripts ==
  ASSUME NEW S, NEW a \in S, NEW b \in S, NEW c \in S, NEW d \in S
  PROVE  /\ <<a, b, c, d>> \in Seq(S) /\ <<a, b, c, d>> # <<>>
         /\ <<a, b, b, c, d>> \in Seq(S) /\ <<a, b, b, c, d>> # <<>>
  OBVIOUS

LEMMA ScriptNames ==
  ASSUME NEW r, NEW s \in Scripts(r)
  PROVE  s \in Seq(StepNames) /\ s # <<>>
  <1>1. /\ "reset" \in StepNames /\ "settype" \in StepNames /\ "status" \in StepNames
        /\ "off" \in StepNames /\ "on" \in StepNames /\ "atr" \in StepNames
        /\ "peek" \in StepNames /\ "mode" \in StepNames
    BY DEF StepNames
  <1>2. \/ s = <<"reset">> \/ s = <<"status">> \/ s = <<"off">> \/ s = <<"on">>
        \/ s = <<"reset", "settype">> \/ s = <<"reset", "mode">>
        \/ s = <<"off", "on", "atr", "peek">> \/ s = <<"off", "on", "on", "atr", "peek">>
    BY DEF Scripts
  <1>3. CASE s = <<"reset">> \/ s = <<"status">> \/ s = <<"off">> \/ s = <<"on">>
    BY <1>1, <1>3, ScriptOfOne
  <1>4. CASE s = <<"reset", "settype">> \/ s = <<"reset", "mode">>
    BY <1>1, <1>4, ScriptOfTwo
  <1>5. CASE \/ s = <<"off", "on", "atr", "peek">>
             \/ s = <<"off", "on", "on", "atr", "peek">>
    BY <1>1, <1>5, LongScripts
  <1> QED BY <1>2, <1>3, <1>4, <1>5

LEMMA CommandStep ==
  ASSUME Inv, NEW steps, Command(steps)
  PROVE  Inv'
  <1>1. TypeInv'
    <2>1. steps \in Seq(StepNames) /\ steps # <<>>
      BY ScriptNames DEF Command
    <2>2. script' = steps /\ pc' = "send"
      BY DEF Command, Begin
    <2>3. script' \in Seq(StepNames) /\ script' # <<>>
      BY <2>1, <2>2
    <2>4. step' \in Nat /\ runs' \in Nat
      BY DEF Command, Begin, Inv, TypeInv
    <2>5. again' = FALSE /\ UNCHANGED <<inbox, wire, last>>
      BY DEF Command, Called, Begin
    <2> QED BY <2>2, <2>3, <2>4, <2>5 DEF Inv, TypeInv
  <1>2. ~IsApdu'
    BY DEF Command, Begin, IsApdu
  <1>3. InboxInStep' /\ WireInStep' /\ LastInStep'
    BY DEF Command, Called, Begin, Inv, TypeInv, InboxInStep, WireInStep, LastInStep,
           Awaits, Answers
  <1> QED BY <1>1, <1>2, <1>3 DEF Inv, ApduRun, OkIsOwnAnswer, Command, Begin

LEMMA SendAPDUStep ==
  ASSUME Inv, NEW c, SendAPDU(c)
  PROVE  Inv'
  <1>1. CASE Called /\ Refuse(c)
    BY <1>1 DEF Called, Refuse, Inv, TypeInv, InboxInStep, WireInStep, LastInStep,
                Awaits, ApduRun, OkIsOwnAnswer
  <1>2. CASE Called /\ Begin(<<"apdu">>, c)
    <2>1. TypeInv'
      <3>1. "apdu" \in StepNames
        BY DEF StepNames
      <3>2. <<"apdu">> \in Seq(StepNames) /\ <<"apdu">> # <<>>
        BY <3>1, ScriptOfOne
      <3>3. script' \in Seq(StepNames) /\ script' # <<>>
        BY <1>2, <3>2 DEF Begin
      <3>4. step' \in Nat /\ runs' \in Nat
        BY <1>2 DEF Begin, Inv, TypeInv
      <3>5. again' = FALSE /\ pc' = "send" /\ UNCHANGED <<inbox, wire, last>>
        BY <1>2 DEF Called, Begin
      <3> QED BY <3>3, <3>4, <3>5 DEF Inv, TypeInv
    <2>2. InboxInStep' /\ WireInStep' /\ LastInStep'
      BY <1>2 DEF Called, Begin, Inv, TypeInv, InboxInStep, WireInStep, LastInStep,
                  Awaits, Answers
    <2>3. last'.of # step'
      BY <1>2 DEF Called, Begin, Inv, TypeInv, LastInStep, Answers
    <2>4. ApduRun'
      BY <1>2, <2>3 DEF Called, Begin, ApduRun
    <2> QED BY <1>2, <2>1, <2>2, <2>4 DEF Begin, Inv, OkIsOwnAnswer
  <1> QED BY <1>1, <1>2 DEF SendAPDU

LEMMA DirectStep ==
  ASSUME Inv, NEW c, NEW answered \in BOOLEAN, Direct(c, answered)
  PROVE  Inv'
  <1>1. TypeInv' /\ InboxInStep' /\ WireInStep' /\ LastInStep'
    BY DEF Direct, Called, Inv, TypeInv, InboxInStep, WireInStep, LastInStep,
           Awaits, Answers
  <1>2. pc' = "idle" /\ step' \in Nat
    BY DEF Direct, Called, Inv, TypeInv
  <1>3. CASE answered
    BY <1>1, <1>2, <1>3 DEF Direct, Inv, ApduRun, OkIsOwnAnswer
  <1>4. CASE ~answered
    BY <1>1, <1>2, <1>4 DEF Direct, Inv, ApduRun, OkIsOwnAnswer
  <1> QED BY <1>3, <1>4

-----------------------------------------------------------------------------
\* The command on the line: of this step, and asking for the last answer
\* again only from the Intertex.
LEMMA SendCmdStep ==
  ASSUME Inv, NEW fate \in Fates, SendCmd(fate)
  PROVE  Inv'
  <1> DEFINE kind == IF again THEN "again" ELSE script[1]
             cmd == [of |-> step, kind |-> kind, whole |-> fate = "whole"]
  <1>1. kind \in StepNames \cup {"again"} /\ (kind = "again" => again)
    BY HeadAndTail DEF SendCmd, Inv, TypeInv, StepNames
  <1>2. (inbox' = <<>> /\ fate = "lost") \/ inbox' = <<cmd>>
    BY DEF SendCmd, Posted
  <1>4. cmd \in Commands
    BY <1>1 DEF Commands, Inv, TypeInv
  <1>5. TypeInv'
    <2>1. <<cmd>> \in Seq(Commands)
      BY <1>4, ScriptOfOne
    <2>2. inbox' \in Seq(Commands)
      <3>1. <<>> \in Seq(Commands)
        OBVIOUS
      <3> QED BY <1>2, <2>1, <3>1
    <2>3. wire' \in Seq(Answers)
      BY DEF SendCmd, Flushed
    <2> QED BY <2>2, <2>3 DEF SendCmd, Inv, TypeInv
  <1>6. /\ \A i \in 1 .. Len(inbox') : inbox'[i] = cmd
        /\ inbox' # <<>> => Head(inbox') = cmd
    BY <1>2
  <1>7. cmd.of = step /\ cmd.kind = kind
    OBVIOUS
  <1> HIDE DEF cmd, kind
  <1>8. InboxInStep' /\ WireInStep'
    BY <1>6, <1>7 DEF SendCmd, Flushed, Inv, TypeInv, InboxInStep, WireInStep
  <1>9. LastInStep'
    <2>1. kind = "again" => last.of = step
      BY <1>1 DEF SendCmd, Inv, LastInStep
    <2> QED BY <1>6, <1>7, <2>1 DEF SendCmd, Flushed, Inv, LastInStep
  <1>10. ApduRun'
    <2>1. IsApdu /\ ~again => kind = "apdu"
      BY DEF kind, SendCmd, Inv, ApduRun
    <2>2. IsApdu => kind \in {"apdu", "again"}
      BY <2>1 DEF kind
    <2> QED BY <1>6, <1>7, <2>2 DEF SendCmd, Flushed, Inv, ApduRun, IsApdu
  <1> QED BY <1>5, <1>8, <1>9, <1>10 DEF SendCmd, Inv, OkIsOwnAnswer, IsApdu

LEMMA NoConnectStep ==
  ASSUME Inv, NoConnect
  PROVE  Inv'
  BY DEF NoConnect, Flushed, Inv, TypeInv, InboxInStep, WireInStep, LastInStep, Awaits,
         ApduRun, OkIsOwnAnswer, IsApdu

(***************************************************************************)
(* What the reader answers: to a command its own answer or a complaint, of *)
(* the command's step, and to a repetition what it answered last.          *)
(***************************************************************************)
LEMMA ReplyFacts ==
  ASSUME Inv, NEW f \in Commands
  PROVE  /\ Reply(f) \in Answers
         /\ Reply(f).of = f.of \/ (f.kind = "again" /\ Reply(f) = last)
         /\ Reply(f).form = "whole" => \/ f.kind = "again" /\ Reply(f) = last
                                       \/ f.kind # "again" /\ f.whole
  BY DEF Reply, Commands, Answers, Inv, TypeInv

LEMMA BoxTakesStep ==
  ASSUME Inv, NEW form \in {"whole"} \cup Spoilt, BoxTakes(form)
  PROVE  Inv'
  <1> DEFINE f == Head(inbox)
             a == Reply(f)
  <1>1. inbox # <<>> /\ inbox' = Tail(inbox) /\ last' = a
    BY DEF BoxTakes
  <1>2. /\ f \in Commands /\ f = inbox[1] /\ 1 \in 1 .. Len(inbox)
        /\ inbox' \in Seq(Commands)
        /\ \A i \in 1 .. Len(inbox') : i + 1 \in 1 .. Len(inbox) /\ inbox'[i] = inbox[i + 1]
    BY <1>1, HeadAndTail DEF Inv, TypeInv
  <1>3. \E b \in Answers : /\ wire' = wire \/ wire' = Append(wire, b)
                           /\ b.of = a.of /\ (b.form = "whole" => a.form = "whole")
    <2>1. a \in Answers
      BY <1>2, ReplyFacts
    <2>2. CASE wire' = Append(wire, a)
      BY <2>1, <2>2
    <2>3. CASE /\ form \in Spoilt
               /\ wire' = IF form = "lost" THEN wire
                          ELSE Append(wire, [a EXCEPT !.form = form])
      <3>1. form \in {"lost", "cut", "sum", "two"}
        BY <2>3 DEF Spoilt
      <3>2. /\ [a EXCEPT !.form = form] \in Answers
            /\ [a EXCEPT !.form = form].of = a.of
            /\ [a EXCEPT !.form = form].form = form
        BY <2>1, <3>1 DEF Answers
      <3> QED BY <2>3, <3>1, <3>2
    <2> QED BY <2>2, <2>3 DEF BoxTakes
  <1>4. PICK b \in Answers : /\ wire' = wire \/ wire' = Append(wire, b)
                             /\ b.of = a.of /\ (b.form = "whole" => a.form = "whole")
    BY <1>3
  <1>5. /\ a \in Answers
        /\ a.of = f.of \/ (f.kind = "again" /\ a = last)
        /\ a.form = "whole" => \/ f.kind = "again" /\ a = last
                               \/ f.kind # "again" /\ f.whole
    BY <1>2, ReplyFacts
  <1>6. /\ runs' \in Nat /\ runs' >= runs
        /\ f.whole /\ f.kind = "apdu" => runs' > 0
    BY DEF BoxTakes, Inv, TypeInv
  <1>7. UNCHANGED <<reader, pc, script, sent, step, again, heard, ret>>
    BY DEF BoxTakes, host
  <1>8. wire' \in Seq(Answers) /\ \A i \in 1 .. Len(wire') :
          wire'[i] = b \/ (i \in 1 .. Len(wire) /\ wire'[i] = wire[i])
    BY <1>4 DEF Inv, TypeInv
  <1> HIDE DEF f, a
  <1>9. a.of <= step /\ (Awaits => a.of = step)
    <2>1. f.of <= step /\ (Awaits => f.of = step)
      BY <1>2 DEF Inv, InboxInStep
    <2>2. last.of <= step /\ (Awaits /\ f.kind = "again" => last.of = step)
      BY <1>1 DEF f, Inv, LastInStep
    <2> QED BY <1>5, <2>1, <2>2
  <1>10. TypeInv'
    BY <1>1, <1>2, <1>5, <1>6, <1>7, <1>8 DEF Inv, TypeInv
  <1>11. InboxInStep'
    BY <1>2, <1>7 DEF Inv, InboxInStep, Awaits
  <1>12. WireInStep'
    BY <1>4, <1>7, <1>8, <1>9 DEF Inv, WireInStep, Awaits
  <1>13. LastInStep'
    BY <1>1, <1>7, <1>9 DEF Inv, LastInStep, Awaits
  <1>14. ApduRun'
    <2> SUFFICES ASSUME IsApdu, pc # "idle" PROVE ApduRun'
      BY <1>7 DEF ApduRun, IsApdu
    <2>1. f.of = step /\ f.kind \in {"apdu", "again"}
      BY <1>2 DEF Inv, ApduRun
    <2>2. a.of = step /\ a.form = "whole" => runs' > 0
      BY <1>5, <1>6, <2>1 DEF Inv, TypeInv, ApduRun
    <2>3. pc = "wait" => \A i \in 1 .. Len(wire') : wire'[i].form = "whole" => runs' > 0
      <3> SUFFICES ASSUME pc = "wait", NEW i \in 1 .. Len(wire'), wire'[i].form = "whole"
                   PROVE  runs' > 0
        OBVIOUS
      <3>1. CASE wire'[i] = b
        BY <3>1, <1>4, <1>9, <2>2 DEF Awaits
      <3>2. CASE i \in 1 .. Len(wire) /\ wire'[i] = wire[i]
        BY <3>2, <1>6 DEF Inv, TypeInv, ApduRun
      <3> QED BY <1>8, <3>1, <3>2
    <2> QED BY <1>1, <1>2, <1>7, <2>2, <2>3 DEF Inv, ApduRun
  <1>15. OkIsOwnAnswer'
    BY <1>6, <1>7 DEF Inv, TypeInv, OkIsOwnAnswer, IsApdu
  <1> QED BY <1>10, <1>11, <1>12, <1>13, <1>14, <1>15 DEF Inv

-----------------------------------------------------------------------------
\* An answer that is whole is the first on the line, and of this step.
LEMMA ReceivedFacts ==
  ASSUME Inv, Receive, Received.form \in {"whole", "two"} \/ reader = "intertex"
  PROVE  /\ Received.form # "none" => wire # <<>>
         /\ Received.form = "whole" =>
              Received.of = step /\ (IsApdu => runs > 0)
  <1>1. wire = <<>> => Received.form = "none"
    BY DEF Received
  <1>2. Received.form = "whole" => wire # <<>> /\ Received = wire[1] /\ 1 \in 1 .. Len(wire)
    <2> SUFFICES ASSUME Received.form = "whole", wire # <<>>
                 PROVE  Received = wire[1] /\ 1 \in 1 .. Len(wire)
      BY <1>1
    <2>1. Head(wire) = wire[1] /\ 1 \in 1 .. Len(wire)
      BY HeadAndTail DEF Inv, TypeInv
    <2> QED BY <2>1 DEF Received, Joined
  <1>3. pc = "wait"
    BY DEF Receive
  <1> QED BY <1>1, <1>2, <1>3 DEF Inv, WireInStep, ApduRun

LEMMA ReceiveWire ==
  ASSUME Inv, Receive
  PROVE  wire' \in Seq(Answers)
  BY HeadAndTail DEF Receive, Inv, TypeInv

LEMMA AcceptStep ==
  ASSUME Inv, Accept
  PROVE  Inv'
  <1>1. Received.of = step /\ (IsApdu => runs > 0)
    BY ReceivedFacts DEF Accept
  <1>2. wire' \in Seq(Answers)
    BY ReceiveWire DEF Accept
  <1>3. heard' = [step |-> step, of |-> step]
    BY <1>1 DEF Accept, StepDone
  <1>4. pc = "wait" /\ UNCHANGED <<reader, sent, last, runs, inbox>>
    BY DEF Accept, Receive, Patient
  <1>5. CASE Len(script) = 1
    <2>1. pc' = "idle" /\ script' = <<>> /\ UNCHANGED <<step, again>>
      BY <1>5 DEF Accept, StepDone
    <2> QED BY <1>1, <1>2, <1>3, <1>4, <2>1
            DEF Inv, TypeInv, InboxInStep, WireInStep, LastInStep, Awaits, ApduRun,
                OkIsOwnAnswer, IsApdu
  <1>6. CASE Len(script) # 1
    <2>1. pc' = "send" /\ script' = Tail(script) /\ step' = step + 1 /\ again' = FALSE
      BY <1>6 DEF Accept, StepDone
    <2>2. ~IsApdu
      <3>1. Len(<<"apdu">>) = 1
        OBVIOUS
      <3> QED BY <1>4, <1>6, <3>1 DEF Inv, ApduRun
    <2>3. Tail(script) \in Seq(StepNames) /\ Tail(script) # <<>>
      <3>1. script \in Seq(StepNames) /\ script # <<>>
        BY <1>4 DEF Inv, TypeInv
      <3> HIDE DEF Inv
      <3>2. Tail(script) \in Seq(StepNames)
        BY <3>1, HeadAndTail
      <3>3. Len(Tail(script)) = Len(script) - 1 /\ Len(script) # 0 /\ Len(script) \in Nat
        BY <3>1
      <3>4. Len(Tail(script)) # 0
        BY <1>6, <3>3
      <3>5. Len(<<>>) = 0
        OBVIOUS
      <3>6. Tail(script) # <<>>
        BY <3>4, <3>5, Zenon
      <3> QED BY <3>2, <3>6
    <2>4. TypeInv'
      <3>1. script' \in Seq(StepNames) /\ script' # <<>>
        BY <2>1, <2>3
      <3>2. step' \in Nat
        BY <2>1 DEF Inv, TypeInv
      <3> QED BY <1>2, <1>4, <2>1, <3>1, <3>2 DEF Inv, TypeInv
    <2>5. InboxInStep' /\ LastInStep'
      <3>1. \A i \in 1 .. Len(inbox) : inbox[i] \in Commands
        BY DEF Inv, TypeInv
      <3> QED BY <1>4, <2>1, <3>1
              DEF Inv, TypeInv, InboxInStep, LastInStep, Awaits, Commands, Answers
    <2> QED BY <1>3, <1>4, <2>1, <2>2, <2>4, <2>5
            DEF Inv, WireInStep, ApduRun, OkIsOwnAnswer, IsApdu
  <1> QED BY <1>5, <1>6

\* The call ends with an error; only the look at the Intertex's status, which
\* is no APDU, may fail and the call be well.
LEMMA GiveUpStep ==
  ASSUME Inv, NEW errors, "OK" \notin errors, Receive, Patient, GiveUp(errors)
  PROVE  Inv'
  <1>1. wire' \in Seq(Answers)
    BY ReceiveWire
  <1>2. /\ pc = "wait" /\ pc' = "idle" /\ script' = <<>>
        /\ UNCHANGED <<reader, sent, step, again, heard, last, runs, inbox>>
    BY DEF Receive, Patient, GiveUp
  <1>3. IsApdu => ret' # "OK"
    <2> SUFFICES ASSUME IsApdu PROVE ret' # "OK"
      OBVIOUS
    <2>1. script[1] = "apdu"
      BY <1>2 DEF Inv, ApduRun
    <2> QED BY <2>1 DEF GiveUp
  <1>4. TypeInv'
    BY <1>1, <1>2 DEF Inv, TypeInv
  <1> QED BY <1>2, <1>3, <1>4
          DEF Inv, InboxInStep, WireInStep, LastInStep, Awaits, ApduRun, OkIsOwnAnswer,
              IsApdu

LEMMA EndStep ==
  ASSUME Inv, Reports \/ Fail
  PROVE  Inv'
  <1>1. "OK" \notin {"NO_CARD", "UNKNOWN_ERROR", "BAD_ATR"} /\ "OK" \notin Failures
    BY DEF Failures
  <1> QED BY <1>1, GiveUpStep DEF Reports, Fail

LEMMA ResendStep ==
  ASSUME Inv, Resend
  PROVE  Inv'
  <1>1. wire' \in Seq(Answers)
    BY ReceiveWire DEF Resend
  <1>2. /\ pc = "wait" /\ pc' = "send" /\ again' = FALSE
        /\ UNCHANGED <<reader, script, sent, step, heard, last, runs, inbox>>
    BY DEF Resend, Receive, Patient
  <1>3. TypeInv'
    BY <1>1, <1>2 DEF Inv, TypeInv
  <1> QED BY <1>2, <1>3
          DEF Inv, InboxInStep, WireInStep, LastInStep, Awaits, ApduRun, OkIsOwnAnswer,
              IsApdu

LEMMA RepeatLastStep ==
  ASSUME Inv, RepeatLast
  PROVE  Inv'
  <1>1. wire' \in Seq(Answers)
    BY ReceiveWire DEF RepeatLast
  <1>2. /\ pc = "wait" /\ pc' = "send" /\ again' = TRUE /\ reader = "intertex"
        /\ UNCHANGED <<reader, script, sent, step, heard, last, runs, inbox>>
    BY DEF RepeatLast, Receive, Patient
  <1>3. wire # <<>>
    <2>1. Received.form = "sum"
      BY <1>2 DEF RepeatLast, AsksAgain
    <2> QED BY <1>2, <2>1, ReceivedFacts DEF RepeatLast
  <1>4. last.of = step
    BY <1>2, <1>3 DEF Inv, LastInStep
  <1>5. TypeInv'
    BY <1>1, <1>2 DEF Inv, TypeInv
  <1> QED BY <1>2, <1>4, <1>5
          DEF Inv, InboxInStep, WireInStep, LastInStep, Awaits, ApduRun, OkIsOwnAnswer,
              IsApdu

LEMMA NakStep ==
  ASSUME Inv, NEW fate \in Fates, Nak(fate)
  PROVE  Inv'
  <1> DEFINE cmd == [of |-> step, kind |-> "again", whole |-> fate = "whole"]
  <1>0. wire # <<>>
    <2>1. AsksAgain /\ reader = "acr20"
      BY DEF Nak
    <2>2. Received.form # "none"
      BY <2>1 DEF AsksAgain
    <2> QED BY <2>2 DEF Received
  <1>1. /\ pc = "wait" /\ pc' = "wait" /\ again' = TRUE /\ reader = "acr20"
        /\ wire # <<>> /\ wire' = <<>>
        /\ inbox' = inbox \/ inbox' = Append(inbox, cmd)
        /\ UNCHANGED <<reader, script, sent, step, heard, last, runs>>
    BY <1>0 DEF Nak, Receive
  <1>2. cmd \in Commands /\ cmd.of = step /\ cmd.kind = "again"
    BY DEF Commands, Inv, TypeInv
  <1> HIDE DEF cmd
  <1>3. /\ inbox' \in Seq(Commands)
        /\ \A i \in 1 .. Len(inbox') :
             inbox'[i] = cmd \/ (i \in 1 .. Len(inbox) /\ inbox'[i] = inbox[i])
    <2>1. inbox \in Seq(Commands)
      BY DEF Inv, TypeInv
    <2>2. CASE inbox' = inbox
      BY <2>1, <2>2
    <2>3. CASE inbox' = Append(inbox, cmd)
      BY <1>2, <2>1, <2>3
    <2> QED BY <1>1, <2>2, <2>3
  <1>4. TypeInv'
    BY <1>1, <1>3 DEF Inv, TypeInv
  <1>5. InboxInStep' /\ WireInStep'
    <2>1. step \in Nat /\ \A i \in 1 .. Len(inbox) : inbox[i].of = step
      BY <1>1 DEF Inv, TypeInv, InboxInStep, Awaits
    <2>2. \A i \in 1 .. Len(inbox') : inbox'[i].of = step
      BY <1>2, <1>3, <2>1
    <2>3. \A i \in 1 .. Len(inbox') : inbox'[i].of <= step
      BY <2>1, <2>2
    <2>4. InboxInStep'
      BY <1>1, <2>2, <2>3 DEF InboxInStep
    <2>5. WireInStep'
      BY <1>1 DEF WireInStep
    <2> QED BY <2>4, <2>5
  <1>6. LastInStep'
    <2>1. last.of = step
      BY <1>1 DEF Inv, LastInStep
    <2> QED BY <1>1, <2>1 DEF Inv, LastInStep, Awaits
  <1>7. ApduRun'
    BY <1>1, <1>2, <1>3 DEF Inv, ApduRun, IsApdu
  <1> QED BY <1>1, <1>4, <1>5, <1>6, <1>7 DEF Inv, OkIsOwnAnswer, IsApdu

-----------------------------------------------------------------------------
LEMMA InvInductive ==
  ASSUME Inv, [Next]_vars
  PROVE  Inv'
  <1>1. CASE UNCHANGED vars
    BY <1>1 DEF vars, Inv, TypeInv, InboxInStep, WireInStep, LastInStep, Awaits, ApduRun,
                OkIsOwnAnswer, IsApdu
  <1>2. ASSUME NEW steps, Command(steps) PROVE Inv'
    BY <1>2, CommandStep
  <1>3. ASSUME NEW c, NEW answered \in BOOLEAN, SendAPDU(c) \/ Direct(c, answered)
        PROVE  Inv'
    BY <1>3, SendAPDUStep, DirectStep
  <1>4. ASSUME NEW fate \in Fates, SendCmd(fate) PROVE Inv'
    BY <1>4, SendCmdStep
  <1>5. ASSUME NEW form \in {"whole"} \cup Spoilt, BoxTakes(form) PROVE Inv'
    BY <1>5, BoxTakesStep
  <1>6. ASSUME NEW fate \in Fates, Nak(fate) PROVE Inv'
    BY <1>6, NakStep
  <1>7. CASE NoConnect \/ Accept \/ Reports \/ Resend \/ RepeatLast \/ Fail
    BY <1>7, NoConnectStep, AcceptStep, EndStep, ResendStep, RepeatLastStep
  <1> QED BY <1>1, <1>2, <1>3, <1>4, <1>5, <1>6, <1>7 DEF Next

(***************************************************************************)
(* An answer a driver accepts is the one to its own command, and an APDU   *)
(* reported as done has been run, whatever the line spoils and loses.      *)
(***************************************************************************)
THEOREM OkIsAlwaysOwnAnswer == Spec => []OkIsOwnAnswer
  <1>1. Init => Inv
    <2> SUFFICES ASSUME Init PROVE Inv
      OBVIOUS
    <2>1. TypeInv
      <3>1. Idle \in Answers
        BY DEF Idle, Answers
      <3>2. step \in Nat /\ runs \in Nat
        BY DEF Init
      <3>3. inbox \in Seq(Commands) /\ wire \in Seq(Answers) /\ script \in Seq(StepNames)
        BY DEF Init
      <3> QED BY <3>1, <3>2, <3>3 DEF Init, TypeInv
    <2> QED BY <2>1 DEF Init, Idle, Inv, InboxInStep, WireInStep, LastInStep, Awaits,
                        ApduRun, OkIsOwnAnswer, IsApdu
  <1>2. Inv /\ [Next]_vars => Inv'
    BY InvInductive
  <1>3. Inv => OkIsOwnAnswer
    BY DEF Inv
  <1> QED BY <1>1, <1>2, <1>3, PTL DEF Spec

-----------------------------------------------------------------------------
(***************************************************************************)
(* RunsApduOnce.  Pending says whether an APDU is on the line to the       *)
(* reader, Limit how often the card may run it: once, and once more when   *)
(* scAcr20SendCmd has taken an answer of two bytes for a NAK.              *)
(***************************************************************************)
Pending == IF inbox # <<>> /\ Head(inbox).kind = "apdu" THEN 1 ELSE 0
Limit == IF senderr THEN 2 ELSE 1

\* The types the argument needs; a call under way has a step to do.
RunTypes ==
  /\ step \in Nat /\ runs \in Nat /\ senderr \in BOOLEAN /\ again \in BOOLEAN
  /\ pc \in {"idle", "send", "wait"}
  /\ script \in Seq(StepNames) /\ (pc # "idle" => script # <<>>)
  /\ inbox \in Seq(Commands)

\* The APDU of a call is its only step, and no other call sends one.
ApduAlone ==
  /\ pc # "idle" =>
       IF IsApdu THEN script = <<"apdu">> ELSE \A i \in 1 .. Len(script) : script[i] # "apdu"
  /\ ~IsApdu => runs = 0 /\ Pending = 0
  /\ \A i \in 2 .. Len(inbox) : inbox[i].kind = "again"

\* A run is spent when the command is sent, not when the reader takes it.
Counted == runs + Pending <= IF pc = "send" /\ ~again THEN Limit - 1 ELSE Limit

\* The APDU is one of the program's, as scT0SendAPDU or scT1SendAPDU hands it on.
HandedOver ==
  IsApdu => \E s \in Shapes, t0 \in BOOLEAN, data \in LastBytes : sent = Handed(s, t0, data)

\* What the card ran last is the APDU of this call, the way its driver framed it.
RanAsFramed == runs > 0 => ran = Frame(reader, sent)

\* The inductive invariant of RunsApduOnce.
RunInv == RunTypes /\ ApduAlone /\ Counted /\ HandedOver /\ RanAsFramed

\* The values Pending and Limit take.
LEMMA PendingFacts ==
  /\ Pending \in 0 .. 1 /\ Limit \in {1, 2}
  /\ inbox = <<>> => Pending = 0
  BY DEF Pending, Limit

\* No step of a reset, a status or an activation is an APDU.
LEMMA NoApduScripts ==
  ASSUME NEW r, NEW s \in Scripts(r)
  PROVE  \A i \in 1 .. Len(s) : s[i] # "apdu"
  <1>1. \/ s = <<"reset">> \/ s = <<"status">> \/ s = <<"off">> \/ s = <<"on">>
        \/ s = <<"reset", "settype">> \/ s = <<"reset", "mode">>
        \/ s = <<"off", "on", "atr", "peek">> \/ s = <<"off", "on", "on", "atr", "peek">>
    BY DEF Scripts
  <1> QED BY <1>1

\* A call that begins has run nothing, and has its APDU as its only step.
LEMMA BeginRuns ==
  ASSUME RunInv, Called, NEW steps \in Seq(StepNames), steps # <<>>, NEW c, Begin(steps, c),
         c # NoApdu => /\ steps = <<"apdu">>
                       /\ \E s \in Shapes, t0 \in BOOLEAN, data \in LastBytes :
                             c = Handed(s, t0, data),
         c = NoApdu => \A i \in 1 .. Len(steps) : steps[i] # "apdu"
  PROVE  RunInv'
  <1>1. /\ inbox' = <<>> /\ runs' = 0 /\ pc' = "send" /\ script' = steps /\ sent' = c
        /\ step' = step + 1 /\ senderr' = FALSE /\ again' = FALSE
    BY DEF Called, Begin
  <1>2. Pending' = 0 /\ Limit' = 1
    BY <1>1 DEF Pending, Limit
  <1>3. RunTypes'
    <2>1. <<>> \in Seq(Commands) /\ step' \in Nat
      BY <1>1 DEF RunInv, RunTypes
    <2> QED BY <1>1, <2>1 DEF RunTypes
  <1>4. ApduAlone' /\ HandedOver'
    BY <1>1, <1>2 DEF ApduAlone, HandedOver, IsApdu
  <1> QED BY <1>1, <1>2, <1>3, <1>4 DEF RunInv, Counted, RanAsFramed

\* Every call of the program: begun, refused, or made to the system at once.
LEMMA CallRuns ==
  ASSUME RunInv,
         \/ \E steps \in Scripts(reader) : Command(steps)
         \/ \E s \in Shapes, t0 \in Protocols(reader), data \in LastBytes :
              \/ SendAPDU(Handed(s, t0, data))
              \/ \E answered \in BOOLEAN : Direct(Handed(s, t0, data), answered)
  PROVE  RunInv'
  <1>1. ASSUME NEW steps \in Scripts(reader), Command(steps)
        PROVE  RunInv'
    BY <1>1, ScriptNames, NoApduScripts, BeginRuns DEF Command
  <1>2. ASSUME NEW s \in Shapes, NEW t0 \in Protocols(reader), NEW data \in LastBytes,
               NEW c, c = Handed(s, t0, data),
               SendAPDU(c) \/ \E answered \in BOOLEAN : Direct(c, answered)
        PROVE  RunInv'
    <2>1. t0 \in BOOLEAN
      BY <1>2 DEF Protocols
    <2>2. c # NoApdu
      <3>1. c.cse \in 1 .. 4
        BY <1>2, ReaderAssumption DEF Handed
      <3> QED BY <3>1 DEF NoApdu
    <2>3. \E x \in Shapes, y \in BOOLEAN, z \in LastBytes : c = Handed(x, y, z)
      BY <1>2, <2>1
    <2>4. CASE Called /\ Begin(<<"apdu">>, c)
      <3>1. "apdu" \in StepNames
        BY DEF StepNames
      <3>2. <<"apdu">> \in Seq(StepNames) /\ <<"apdu">> # <<>>
        BY <3>1, ScriptOfOne
      <3> QED BY <2>2, <2>3, <2>4, <3>2, BeginRuns
    <2>5. CASE \/ Called /\ Refuse(c)
               \/ \E answered \in BOOLEAN : Direct(c, answered)
      <3>1. /\ inbox' = <<>> /\ sent' = c /\ pc = "idle" /\ pc' = "idle"
            /\ UNCHANGED <<reader, script, senderr, again>>
            /\ step' \in Nat
            /\ runs' = 0 \/ (runs' = 1 /\ ran' = Frame(reader, c))
        BY <2>5 DEF Called, Refuse, Direct, RunInv, RunTypes
      <3>2. Pending' = 0 /\ Limit' \in {1, 2}
        BY <3>1 DEF Pending, Limit
      <3>3. RunTypes'
        BY <3>1 DEF RunInv, RunTypes
      <3>4. ApduAlone' /\ HandedOver' /\ Counted' /\ RanAsFramed'
        BY <2>2, <2>3, <3>1, <3>2 DEF ApduAlone, HandedOver, Counted, RanAsFramed, IsApdu
      <3> QED BY <3>3, <3>4 DEF RunInv
    <2> QED BY <1>2, <2>4, <2>5 DEF SendAPDU
  <1> QED BY <1>1, <1>2

\* Sending the APDU spends a run; a request for the last answer spends none.
LEMMA SendCmdRuns ==
  ASSUME RunInv, NEW fate \in Fates, SendCmd(fate)
  PROVE  RunInv'
  <1> DEFINE kind == IF again THEN "again" ELSE script[1]
             cmd == [of |-> step, kind |-> kind, whole |-> fate = "whole"]
  <1>1. script # <<>> /\ script \in Seq(StepNames) /\ 1 \in 1 .. Len(script)
    <2>1. script # <<>> /\ script \in Seq(StepNames)
      BY DEF SendCmd, RunInv, RunTypes
    <2> QED BY <2>1, HeadAndTail
  <1>2. kind \in StepNames \cup {"again"}
    BY <1>1, HeadAndTail
  <1>3. inbox' = <<>> \/ inbox' = <<cmd>>
    BY DEF SendCmd, Posted
  <1>4. cmd \in Commands /\ cmd.kind = kind
    BY <1>2 DEF Commands, RunInv, RunTypes
  <1>5. kind = "apdu" => IsApdu /\ ~again
    BY <1>1 DEF RunInv, ApduAlone, SendCmd
  <1>6. /\ pc = "send" /\ pc' = "wait" /\ inbox = <<>>
        /\ UNCHANGED <<reader, script, sent, step, senderr, again, runs, ran>>
    BY DEF SendCmd
  <1> HIDE DEF cmd, kind
  <1>7. inbox' \in Seq(Commands) /\ Pending' \in 0 .. 1 /\ (Pending' = 1 => kind = "apdu")
        /\ \A i \in 2 .. Len(inbox') : inbox'[i].kind = "again"
    <2>1. CASE inbox' = <<>>
      BY <2>1 DEF Pending
    <2>2. CASE inbox' = <<cmd>>
      <3>1. inbox' \in Seq(Commands) /\ Head(inbox') = cmd /\ Len(inbox') = 1
        BY <1>4, <2>2
      <3>2. \A i \in 2 .. Len(inbox') : FALSE
        BY <3>1
      <3> QED BY <1>4, <3>1, <3>2 DEF Pending
    <2> QED BY <1>3, <2>1, <2>2
  <1>8. RunTypes' /\ ApduAlone'
    BY <1>5, <1>6, <1>7 DEF RunInv, RunTypes, ApduAlone, IsApdu
  <1>9. Counted'
    <2>1. Limit' = Limit /\ Limit \in {1, 2} /\ Pending = 0 /\ runs \in Nat
      BY <1>6, PendingFacts DEF Limit, RunInv, RunTypes
    <2>2. ASSUME Pending' = 1 PROVE runs + Pending' <= Limit
      <3>1. ~again
        BY <1>5, <1>7, <2>2
      <3>2. runs + 0 <= Limit - 1
        BY <1>6, <2>1, <3>1 DEF RunInv, Counted
      <3>3. runs + 1 <= Limit
        BY <2>1, <3>2
      <3> QED BY <2>2, <3>3
    <2>3. ASSUME Pending' = 0 PROVE runs + Pending' <= Limit
      <3>1. runs + 0 <= Limit \/ runs + 0 <= Limit - 1
        BY <2>1 DEF RunInv, Counted
      <3> QED BY <2>1, <2>3, <3>1
    <2>4. runs + Pending' <= Limit
      BY <1>7, <2>2, <2>3
    <2> QED BY <1>6, <2>1, <2>4 DEF Counted
  <1>10. HandedOver' /\ RanAsFramed'
    BY <1>6 DEF RunInv, HandedOver, RanAsFramed, IsApdu
  <1> QED BY <1>8, <1>9, <1>10 DEF RunInv

\* The reader takes a command: what was spent is run, or complained about.
LEMMA BoxRuns ==
  ASSUME RunInv, NEW form, BoxTakes(form)
  PROVE  RunInv'
  <1> DEFINE f == Head(inbox)
  <1>1. /\ inbox # <<>> /\ inbox' = Tail(inbox)
        /\ UNCHANGED <<reader, pc, script, sent, step, senderr, again>>
        /\ IF f.whole /\ f.kind = "apdu"
             THEN runs' = runs + 1 /\ ran' = Frame(reader, sent)
             ELSE UNCHANGED <<runs, ran>>
    BY DEF BoxTakes, host
  <1>2. /\ inbox' \in Seq(Commands)
        /\ \A i \in 1 .. Len(inbox') : i + 1 \in 1 .. Len(inbox) /\ inbox'[i] = inbox[i + 1]
        /\ Len(inbox) \in Nat
    BY <1>1, HeadAndTail DEF RunInv, RunTypes
  <1>3. \A i \in 1 .. Len(inbox') : inbox'[i].kind = "again"
    <2> TAKE i \in 1 .. Len(inbox')
    <2>1. i + 1 \in 2 .. Len(inbox) /\ inbox'[i] = inbox[i + 1]
      BY <1>2
    <2> QED BY <2>1 DEF RunInv, ApduAlone
  <1>4. Pending' = 0
    <2>1. CASE inbox' = <<>>
      BY <2>1 DEF Pending
    <2>2. CASE inbox' # <<>>
      <3>1. Head(inbox') = inbox'[1] /\ 1 \in 1 .. Len(inbox')
        BY <1>2, <2>2, HeadAndTail
      <3> QED BY <1>3, <3>1 DEF Pending
    <2> QED BY <2>1, <2>2
  <1>5. Pending = IF f.kind = "apdu" THEN 1 ELSE 0
    BY <1>1 DEF Pending
  <1>6. runs \in Nat /\ runs' \in Nat /\ runs' <= runs + Pending /\ Limit' = Limit /\ Limit \in {1, 2}
    BY <1>1, <1>5, PendingFacts DEF RunInv, RunTypes, Limit
  <1> HIDE DEF f
  <1>7. RunTypes'
    BY <1>1, <1>2, <1>6 DEF RunInv, RunTypes
  <1>8. ApduAlone'
    <2>1. ~IsApdu => runs' = 0
      BY <1>1, <1>6, PendingFacts DEF RunInv, ApduAlone
    <2>2. \A i \in 2 .. Len(inbox') : i \in 1 .. Len(inbox')
      BY <1>2
    <2> QED BY <1>1, <1>3, <1>4, <2>1, <2>2 DEF RunInv, ApduAlone, IsApdu
  <1>9. Counted'
    <2>1. pc' = pc /\ again' = again
      BY <1>1
    <2>2. Pending \in Nat
      BY PendingFacts
    <2>3. \A x, y, p, l \in Nat : y <= x + p /\ x + p <= l => y + 0 <= l
      OBVIOUS
    <2>4. CASE pc = "send" /\ ~again
      <3>1. runs + Pending <= Limit - 1 /\ Limit - 1 \in Nat
        BY <1>6, <2>4 DEF RunInv, Counted
      <3>2. runs' + 0 <= Limit - 1
        BY <1>6, <2>2, <2>3, <3>1
      <3> QED BY <1>4, <1>6, <2>1, <2>4, <3>2 DEF Counted
    <2>5. CASE ~(pc = "send" /\ ~again)
      <3>1. runs + Pending <= Limit /\ Limit \in Nat
        BY <1>6, <2>5 DEF RunInv, Counted
      <3>2. runs' + 0 <= Limit
        BY <1>6, <2>2, <2>3, <3>1
      <3> QED BY <1>4, <1>6, <2>1, <2>5, <3>2 DEF Counted
    <2> QED BY <2>4, <2>5
  <1>10. HandedOver' /\ RanAsFramed'
    BY <1>1 DEF RunInv, HandedOver, RanAsFramed, IsApdu
  <1> QED BY <1>7, <1>8, <1>9, <1>10 DEF RunInv

\* A step of the driver that leaves the line to the reader and the card alone.
LEMMA DriverRuns ==
  ASSUME RunInv, UNCHANGED <<reader, sent, inbox, runs, ran>>, step' \in Nat,
         senderr' \in BOOLEAN, again' \in BOOLEAN, pc' \in {"idle", "send", "wait"},
         pc' = "idle" \/ (script' = script /\ pc # "idle")
           \/ (~IsApdu /\ script' = Tail(script) /\ script' # <<>> /\ pc # "idle"),
         script' \in Seq(StepNames),
         Counted'
  PROVE  RunInv'
  <1>1. Pending' = Pending /\ IsApdu' = IsApdu
    BY DEF Pending, IsApdu
  <1>2. RunTypes'
    BY DEF RunInv, RunTypes
  <1>3. ApduAlone'
    <2>1. pc' # "idle" /\ ~IsApdu => \A i \in 1 .. Len(script') : script'[i] # "apdu"
      <3> SUFFICES ASSUME pc' # "idle", ~IsApdu, NEW i \in 1 .. Len(script')
                   PROVE  script'[i] # "apdu"
        OBVIOUS
      <3>1. script # <<>> /\ script \in Seq(StepNames)
            /\ \A j \in 1 .. Len(script) : script[j] # "apdu"
        BY DEF RunInv, RunTypes, ApduAlone
      <3>2. CASE script' = script
        BY <3>1, <3>2
      <3>3. CASE script' = Tail(script)
        BY <3>1, <3>3, HeadAndTail
      <3> QED BY <3>2, <3>3
    <2> QED BY <1>1, <2>1 DEF RunInv, ApduAlone
  <1>4. HandedOver' /\ RanAsFramed'
    BY <1>1 DEF RunInv, HandedOver, RanAsFramed
  <1> QED BY <1>2, <1>3, <1>4 DEF RunInv

\* The driver's choices about an answer.  Only Resend allows one more run.
LEMMA AnswerRuns ==
  ASSUME RunInv, NoConnect \/ Accept \/ Reports \/ Resend \/ RepeatLast \/ Fail
  PROVE  RunInv'
  <1>1. /\ UNCHANGED <<reader, sent, inbox, runs, ran>> /\ Pending' = Pending
        /\ runs \in Nat /\ step \in Nat /\ senderr \in BOOLEAN /\ again \in BOOLEAN
        /\ Pending \in 0 .. 1 /\ Limit \in {1, 2}
        /\ script \in Seq(StepNames) /\ pc \in {"wait", "send"} /\ script # <<>>
    BY PendingFacts DEF NoConnect, Accept, Reports, Resend, RepeatLast, Fail, Receive, Patient, Pending,
           RunInv, RunTypes
  <1>2. runs + Pending <= Limit
    BY <1>1 DEF RunInv, Counted
  <1>3. ASSUME pc' = "idle", UNCHANGED <<step, senderr, again>>, script' = <<>>
        PROVE  RunInv'
    <2>1. Counted'
      BY <1>1, <1>2, <1>3 DEF Counted, Limit
    <2>2. script' \in Seq(StepNames)
      BY <1>3
    <2> QED BY <1>1, <1>3, <2>1, <2>2, DriverRuns
  <1>4. CASE NoConnect
    BY <1>3, <1>4 DEF NoConnect
  <1>5. CASE Reports \/ Fail
    BY <1>3, <1>5 DEF Reports, Fail, GiveUp
  <1>6. CASE Resend
    <2>1. pc = "wait" /\ pc' = "send" /\ senderr' = TRUE /\ again' = FALSE /\ ~senderr
          /\ UNCHANGED <<script, step>>
      BY <1>6 DEF Resend, Receive, Repeats
    <2>2. Counted'
      BY <1>1, <1>2, <2>1 DEF Counted, Limit
    <2> QED BY <1>1, <2>1, <2>2, DriverRuns
  <1>7. CASE RepeatLast
    <2>1. pc' = "send" /\ again' = TRUE /\ UNCHANGED <<script, step, senderr>>
      BY <1>7 DEF RepeatLast
    <2>2. Counted'
      BY <1>1, <1>2, <2>1 DEF Counted, Limit
    <2> QED BY <1>1, <2>1, <2>2, DriverRuns
  <1>8. CASE Accept
    <2>1. CASE Len(script) = 1
      BY <1>3, <1>8, <2>1 DEF Accept, StepDone
    <2>2. CASE Len(script) # 1
      <3>1. /\ pc' = "send" /\ script' = Tail(script) /\ step' = step + 1
            /\ senderr' = FALSE /\ again' = FALSE
        BY <1>8, <2>2 DEF Accept, StepDone
      <3>2. ~IsApdu
        <4>1. Len(<<"apdu">>) = 1
          OBVIOUS
        <4> QED BY <1>1, <2>2, <4>1 DEF RunInv, ApduAlone
      <3>3. runs = 0 /\ Pending = 0
        BY <3>2 DEF RunInv, ApduAlone
      <3>4. Counted'
        BY <1>1, <3>1, <3>3 DEF Counted, Limit
      <3>5. Tail(script) \in Seq(StepNames) /\ Len(Tail(script)) = Len(script) - 1
            /\ Len(script) \in Nat /\ Len(script) # 0
        BY <1>1
      <3>6. Tail(script) # <<>>
        <4>1. Len(Tail(script)) # 0
          BY <2>2, <3>5
        <4>2. Len(<<>>) = 0
          OBVIOUS
        <4> QED BY <4>1, <4>2, Zenon
      <3>7. step' \in Nat
        BY <1>1, <3>1
      <3> HIDE DEF RunInv
      <3> QED BY <1>1, <3>1, <3>2, <3>4, <3>5, <3>6, <3>7, DriverRuns
    <2> QED BY <2>1, <2>2
  <1> QED BY <1>4, <1>5, <1>6, <1>7, <1>8

\* The NAK of the ACR20 joins the line behind whatever is on it.
LEMMA NakRuns ==
  ASSUME RunInv, NEW fate, Nak(fate)
  PROVE  RunInv'
  <1> DEFINE cmd == [of |-> step, kind |-> "again", whole |-> fate = "whole"]
  <1>1. /\ pc = "wait" /\ pc' = "wait" /\ again' = TRUE
        /\ inbox' = inbox \/ inbox' = Append(inbox, cmd)
        /\ UNCHANGED <<reader, script, sent, step, senderr, runs, ran>>
    BY DEF Nak, Receive
  <1>2. cmd \in Commands /\ cmd.kind = "again"
    BY DEF Commands, RunInv, RunTypes
  <1> HIDE DEF cmd
  <1>3. inbox \in Seq(Commands) /\ Len(inbox) \in Nat
    BY DEF RunInv, RunTypes
  <1>4. /\ inbox' \in Seq(Commands)
        /\ \A i \in 1 .. Len(inbox') :
             inbox'[i] = cmd \/ (i \in 1 .. Len(inbox) /\ inbox'[i] = inbox[i])
    BY <1>1, <1>2, <1>3
  <1>5. Pending' = Pending
    <2>1. CASE inbox' = inbox
      BY <2>1 DEF Pending
    <2>2. CASE inbox' = Append(inbox, cmd)
      <3>1. inbox' # <<>> /\ Head(inbox') = IF inbox = <<>> THEN cmd ELSE Head(inbox)
        BY <1>2, <1>3, <2>2
      <3> QED BY <1>2, <3>1 DEF Pending
    <2> QED BY <1>1, <2>1, <2>2
  <1>6. \A i \in 2 .. Len(inbox') : inbox'[i].kind = "again"
    <2> TAKE i \in 2 .. Len(inbox')
    <2>1. i \in 1 .. Len(inbox') /\ (i \in 1 .. Len(inbox) => i \in 2 .. Len(inbox))
      BY <1>3, <1>4
    <2> QED BY <1>2, <1>4, <2>1 DEF RunInv, ApduAlone
  <1>7. RunTypes' /\ ApduAlone'
    BY <1>1, <1>4, <1>5, <1>6 DEF RunInv, RunTypes, ApduAlone, IsApdu
  <1>8. Counted'
    BY <1>1, <1>5 DEF RunInv, Counted, Limit
  <1> QED BY <1>1, <1>7, <1>8 DEF RunInv, HandedOver, RanAsFramed, IsApdu

\* RunInv is inductive.
LEMMA RunNext ==
  ASSUME RunInv, [Next]_vars
  PROVE  RunInv'
  <1>1. CASE UNCHANGED vars
    BY <1>1 DEF vars, RunInv, RunTypes, ApduAlone, Counted, HandedOver, RanAsFramed, IsApdu,
                Pending, Limit
  <1> QED BY <1>1, CallRuns, SendCmdRuns, BoxRuns, AnswerRuns, NakRuns DEF Next

\* What the reader is told of an APDU, but by the two drivers.
LEMMA FrameFacts ==
  ASSUME NEW s \in Shapes, NEW t0 \in BOOLEAN, NEW data \in LastBytes,
         NEW c, c = Handed(s, t0, data), NEW r, r # "bluedot",
         NEW f, f = Frame(r, c), f.told # LongForm
  PROVE  /\ f.told = f.given /\ f.given >= c.cmdlen
         /\ f.lc = (IF c.cse \in {3, 4} THEN c.p3 ELSE 0)
         /\ c.cse = 2 => f.le \in {c.p3, Max0(c.p3)}
         /\ c.cse = 4 /\ c.le >= 0 => f.le \in {c.le, Max0(c.le)}
  <1>1. /\ s.cse \in 1 .. 4 /\ s.lc \in 0 .. 255 /\ s.le \in -1 .. 255
        /\ c.cse = s.cse /\ c.t0 = t0
        /\ c.p3 = (IF s.cse \in {3, 4} THEN s.lc ELSE IF s.cse = 2 THEN s.le ELSE 0)
        /\ c.le = (IF s.cse = 4 /\ t0 THEN -1 ELSE s.le)
    BY ReaderAssumption DEF Handed, P3
  <1>2. /\ s.cse = 1 => c.cmdlen = 4
        /\ s.cse = 2 => c.cmdlen = 5
        /\ s.cse = 3 => c.cmdlen = 5 + s.lc
        /\ s.cse = 4 => c.cmdlen = IF t0 THEN 5 + s.lc ELSE 6 + s.lc
    BY DEF Handed
  <1>3. CASE r = "acr20"
    <2>1. /\ f.given = AcrLength(c) /\ f.le = AcrLe(c)
          /\ f.lc = IF c.cse \in {1, 2} THEN 0 ELSE c.p3
          /\ f.told = f.given
      BY <1>3 DEF Frame, AcrFrame, Framed
    <2>2. AcrLength(c) >= c.cmdlen
      BY <1>1, <1>2 DEF AcrLength
    <2>3. c.cse = 2 => AcrLe(c) \in {c.p3, Max0(c.p3)}
      BY <1>1 DEF AcrLe
    <2>4. c.cse = 4 /\ c.le >= 0 => AcrLe(c) \in {c.le, Max0(c.le)}
      <3> SUFFICES ASSUME c.cse = 4, c.le >= 0
                   PROVE  AcrLe(c) \in {c.le, Max0(c.le)}
        OBVIOUS
      <3>1. ~t0 /\ c.cmdlen = 6 + c.p3
        BY <1>1, <1>2
      <3>2. ~Bare(c)
        BY <1>1, <3>1 DEF Bare
      <3> QED BY <3>2 DEF AcrLe
    <2> QED BY <1>1, <2>1, <2>2, <2>3, <2>4
  <1>4. CASE r # "acr20"
    <2>1. f = PlainFrame(r, c)
      BY <1>4 DEF Frame
    <2> DEFINE n == IF c.cmdlen = 4 /\ r # "reflex60" /\ c.t0 THEN 5 ELSE c.cmdlen
    <2>2. n >= c.cmdlen
      BY <1>1, <1>2
    <2>3. f.told = n /\ f.given = n /\ f.lc = (IF c.cse \in {3, 4} THEN c.p3 ELSE 0)
          /\ f.le = IF c.cse = 2 THEN c.p3 ELSE c.le
      BY <2>1 DEF PlainFrame, Framed
    <2> HIDE DEF n
    <2> QED BY <2>2, <2>3
  <1> QED BY <1>3, <1>4

(***************************************************************************)
(* A card runs an APDU once, and twice only through the one repetition of  *)
(* scAcr20SendCmd after an answer that lost all but two bytes; and it runs *)
(* what the program sent, with the Lc and the Le it asked for, through the *)
(* recoding of scAcr20T0, scAcr20SendAPDU and the T0 functions of the      *)
(* others.  No command need reach a reader for that.                       *)
(***************************************************************************)
THEOREM ApduRunsOnce == Spec => []RunsApduOnce
  <1>1. Init => RunInv
    <2> SUFFICES ASSUME Init PROVE RunInv
      OBVIOUS
    <2>1. RunTypes
      <3>1. inbox \in Seq(Commands) /\ script \in Seq(StepNames) /\ step \in Nat /\ runs \in Nat
        BY DEF Init
      <3> QED BY <3>1 DEF Init, RunTypes
    <2> QED BY <2>1 DEF Init, RunInv, ApduAlone, Counted, HandedOver, RanAsFramed, IsApdu,
                        Pending, Limit
  <1>2. RunInv /\ [Next]_vars => RunInv'
    BY RunNext
  <1>3. RunInv => RunsApduOnce
    <2> SUFFICES ASSUME RunInv PROVE RunsApduOnce
      OBVIOUS
    <2>1. runs <= IF senderr THEN 2 ELSE 1
      BY PendingFacts DEF RunInv, RunTypes, Counted, Limit
    <2>2. ASSUME runs > 0, ~Misframed
          PROVE  /\ ran.told = ran.given /\ ran.given >= sent.cmdlen
                 /\ ran.lc = (IF sent.cse \in {3, 4} THEN sent.p3 ELSE 0)
                 /\ sent.cse = 2 => ran.le \in {sent.p3, Max0(sent.p3)}
                 /\ sent.cse = 4 /\ sent.le >= 0 => ran.le \in {sent.le, Max0(sent.le)}
      <3>1. IsApdu /\ ran = Frame(reader, sent)
        BY <2>2 DEF RunInv, RunTypes, ApduAlone, RanAsFramed
      <3>2. PICK s \in Shapes, t0 \in BOOLEAN, data \in LastBytes : sent = Handed(s, t0, data)
        BY <3>1 DEF RunInv, HandedOver
      <3> QED BY <2>2, <3>1, <3>2, FrameFacts DEF Misframed
    <2> QED BY <2>1, <2>2 DEF RunsApduOnce
  <1> QED BY <1>1, <1>2, <1>3, PTL DEF Spec
=============================================================================
