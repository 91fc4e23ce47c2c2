--------------------------- MODULE CommandReaders ---------------------------
(***************************************************************************)
(* The readers that have a processor of their own and are given whole      *)
(* commands: ACR20, GCR400, Intertex, Reflex 60, GPR400 and Bluedot of     *)
(* scez/readers.  The first four sit behind a serial line, and each driver *)
(* has a SendCmd that frames a command, waits for the answer and decides   *)
(* what to do about a bad one; the last two are a call into a driver of    *)
(* the operating system or a library.                                      *)
(*                                                                         *)
(* A call of the program (a reset, a status, an APDU) is a sequence of     *)
(* steps, one SendCmd each.  The line can spoil, lose and delay commands   *)
(* and answers, MaxFaults times in all.  Contents are left out: a command  *)
(* is its number, an answer says which command it answers and whether it   *)
(* arrived whole, and an APDU is its case and its lengths.                 *)
(***************************************************************************)
EXTENDS Integers, Sequences, Apdu

CONSTANTS
  Readers,    \* the readers of the instance
  Shapes,     \* the APDUs the program sends: [cse, cla, lc, le], le = -1 for none
  MaxC, MaxR, \* ri->maxc and ri->maxr, which the ACR20 reports
  MaxCalls,   \* bound on the calls of the program
  MaxFaults   \* bound on what the line does wrong

Serial == {"acr20", "gcr400", "intertex", "reflex60"}

ASSUME ReaderAssumption ==
  /\ Readers \subseteq Serial \cup {"gpr400", "bluedot"}
  /\ MaxC \in 1 .. 255 /\ MaxR \in 1 .. 255
  /\ MaxCalls \in Nat /\ MaxFaults \in Nat
  /\ Shapes \subseteq [cse : 1 .. 4, cla : 0 .. 255, lc : 0 .. 255, le : -1 .. 255]

VARIABLES
  reader,   \* which driver
  pc,       \* "idle", "send" a command, "wait" for its answer
  script,   \* the steps the call still has to do, the current one first
  sent,     \* the APDU of the call as it is handed to the driver
  step,     \* the number of the current step
  senderr,  \* a two byte answer has been taken for a NAK (senderr, ACR20)
  again,    \* the answer waited for is one asked for again (ACR20, Intertex)
  heard,    \* the step an answer was accepted for, and the step it answers
  ret,      \* what the last call returned
  inbox,    \* commands on the line to the reader
  wire,     \* answers on the line to the host
  last,     \* the last answer the reader gave, which it can repeat
  runs,     \* how often the card ran the APDU of the call
  ran,      \* the APDU the card ran last, as it was framed: told, given, lc, le
  calls, faults

host == <<pc, script, sent, step, senderr, again, heard, ret>>
box  == <<inbox, wire, last, runs, ran>>
vars == <<reader, pc, script, sent, step, senderr, again, heard, ret,
          inbox, wire, last, runs, ran, calls, faults>>

-----------------------------------------------------------------------------
(***************************************************************************)
(* The command the driver is handed, with the last byte of its data.  With *)
(* T=0 scT0SendAPDU leaves out the Le of a case 4 command.                 *)
(***************************************************************************)
LastBytes == {0, 255}
P3(s) == IF s.cse \in {3, 4} THEN s.lc ELSE IF s.cse = 2 THEN s.le ELSE 0
Handed(s, t0, data) ==
  [cse |-> s.cse, cla |-> s.cla, p3 |-> P3(s), t0 |-> t0,
   end |-> IF s.cse # 4 THEN 0 ELSE IF t0 THEN data ELSE s.le,
   le |-> IF s.cse = 4 /\ t0 THEN -1 ELSE s.le,
   cmdlen |-> CASE s.cse = 1 -> 4
                [] s.cse = 2 -> 5
                [] s.cse = 3 -> 5 + s.lc
                [] s.cse = 4 -> IF t0 THEN 5 + s.lc ELSE 6 + s.lc]

\* Readers that send whole APDUs to T=1 cards too; the others leave T=1 to
\* scT1SendCmd, which sends blocks.
Protocols(r) == IF r \in {"acr20", "gcr400", "bluedot"} THEN BOOLEAN ELSE {TRUE}

\* The Le of a case 4 command that has none, and of one that has
Lent(c) == IF c.t0 THEN 0 ELSE MaxR
Max0(le) == IF le = 0 THEN MaxR ELSE le

Bare(c) == c.cse = 4 /\ c.cmdlen = 5 + c.p3

\* The ACR20 takes the last byte of a case 4 command for its Le (569), which
\* with T=0 is a byte of the data.
Refused(r, c) ==
  CASE r = "acr20" ->
         \/ c.cmdlen \notin Lengths(c.cse, c.p3, TRUE)
         \/ ~c.t0 /\ c.cmdlen \notin Lengths(c.cse, c.p3, FALSE)
         \/ c.cmdlen > 5 /\ c.p3 > MaxC + 5
         \/ c.cse = 2 /\ c.p3 > MaxR
         \/ c.cse = 4 /\ c.end > MaxR
    [] r = "gcr400" ->
         \/ c.cmdlen > (IF c.t0 THEN 253 ELSE 248)
         \/ c.cse = 2 /\ c.p3 > 252
         \/ c.cse = 4 /\ ~c.t0 /\ c.le > 252
    [] r = "gpr400"   -> c.cmdlen > 255 \/ (c.cse = 2 /\ c.p3 > 253)
    [] r = "intertex" -> c.cmdlen > 266 - 2
    [] r = "reflex60" -> \/ c.cmdlen \notin Lengths(c.cse, c.p3, TRUE)
                         \/ c.cmdlen + 3 \notin 7 .. 264
    [] r = "bluedot"  -> c.cmdlen < 4

(***************************************************************************)
(* What the reader is told of the command: the bytes that belong to it     *)
(* (told) against the bytes sent (given), and the Lc and Le it will use,   *)
(* -1 for none.                                                            *)
(*                                                                         *)
(* scAcr20T0 adds the Lc and the Le that are missing.  A command of 254    *)
(* bytes that gets one grows to 255, the length byte FF marks the long     *)
(* format (lines 618, 634 test for 00), and the bytes after it, which are  *)
(* the class and the instruction, are taken for the length.                *)
(***************************************************************************)
Framed(told, given, lc, le) == [told |-> told, given |-> given, lc |-> lc, le |-> le]
LongForm == -1   \* a length read from where the command begins

AcrLength(c) == CASE c.cse \in {1, 2} -> 6
                  [] c.cse = 3 -> IF c.cmdlen > 254 THEN c.cmdlen ELSE c.cmdlen + 1
                  [] c.cse = 4 -> IF Bare(c) THEN c.cmdlen + 1 ELSE c.cmdlen
AcrLe(c) == CASE c.cse = 1 -> 0
              [] c.cse = 2 -> IF c.t0 THEN c.p3 ELSE Max0(c.p3)
              [] c.cse = 3 -> IF c.cmdlen > 254 THEN -1 ELSE 0
              [] c.cse = 4 -> IF Bare(c) THEN Lent(c)
                              ELSE IF c.cmdlen > 254 THEN c.le ELSE Max0(c.le)
AcrFrame(c) ==
  LET n == AcrLength(c)
  IN  Framed(IF c.cmdlen <= 254 /\ n = 255 THEN LongForm ELSE n, n,
             IF c.cse \in {1, 2} THEN 0 ELSE c.p3, AcrLe(c))

\* The others send the command as it is, a missing fifth byte added as 00.
PlainFrame(r, c) ==
  LET n == IF c.cmdlen = 4 /\ r # "reflex60" /\ c.t0 THEN 5 ELSE c.cmdlen
  IN  Framed(n, n, IF c.cse \in {3, 4} THEN c.p3 ELSE 0,
             IF c.cse = 2 THEN c.p3 ELSE c.le)

\* scBluedotSendAPDU takes the first byte of the command for its Lc (276).
BluedotFrame(c) ==
  LET lc == IF c.cmdlen > 4 THEN c.cla ELSE 0
  IN  Framed(lc, IF c.cmdlen > 5 THEN c.cmdlen - 5 ELSE 0, lc,
             IF c.cse \in {2, 4} THEN (IF c.cse = 2 THEN c.p3 ELSE c.le) ELSE -1)

Frame(r, c) == CASE r = "acr20"   -> AcrFrame(c)
                 [] r = "bluedot" -> BluedotFrame(c)
                 [] OTHER         -> PlainFrame(r, c)

\* scAcr20SendCmd refuses a long frame whose length is 0200 or more.
FrameRefused(r, c) == r = "acr20" /\ Frame(r, c).told = LongForm /\ c.cla > 1

-----------------------------------------------------------------------------
(***************************************************************************)
(* The steps of each call.  scAcr20ResetCard sets the card type only when  *)
(* the reader has named T=0 or T=1; scIntertexActivate asks a second time  *)
(* when the reader says that the card is one for T=1.                      *)
(***************************************************************************)
Scripts(r) ==
  CASE r = "acr20"    -> {<<"reset">>, <<"reset", "settype">>, <<"status">>, <<"off">>}
    [] r = "gcr400"   -> {<<"reset">>, <<"status">>, <<"off">>}
    [] r = "intertex" -> {<<"off", "on", "atr", "peek">>,
                          <<"off", "on", "on", "atr", "peek">>,
                          <<"status">>, <<"on">>, <<"off">>}
    [] r = "reflex60" -> {<<"reset", "mode">>, <<"status">>, <<"on">>, <<"off">>}
    [] OTHER          -> {}

NoApdu == [cse |-> 0]
Idle == [of |-> 0, form |-> "whole"]   \* the answer to what Init sent
NoRun == [told |-> 0, given |-> 0, lc |-> 0, le |-> 0]

Init ==
  /\ reader \in Readers
  /\ pc = "idle" /\ script = <<>> /\ sent = NoApdu /\ step = 0
  /\ senderr = FALSE /\ again = FALSE
  /\ heard = [step |-> 0, of |-> 0] /\ ret = "OK"
  /\ inbox = <<>> /\ wire = <<>> /\ last = Idle
  /\ runs = 0 /\ ran = NoRun
  /\ calls = 0 /\ faults = 0

Fault(k) == faults + k <= MaxFaults /\ faults' = faults + k

(***************************************************************************)
(* What the line does with a command: "whole", "spoilt", so that the       *)
(* reader complains, or "lost".                                            *)
(***************************************************************************)
Fates == {"whole", "spoilt", "lost"}
Cost(fate) == IF fate = "whole" THEN 0 ELSE 1

(***************************************************************************)
(* The program calls once the reader has dealt with what it was sent: its  *)
(* answers are lost, or on the line and thrown away at the next command.   *)
(* An assumption on the reader, here as in SendCmd: the frames carry no    *)
(* number, and an answer that comes only after the line was emptied, be it *)
(* to a call that has failed or the second one after a NAK, would be taken *)
(* for the answer to the next command by every one of these drivers.       *)
(***************************************************************************)
Called ==
  /\ pc = "idle" /\ calls < MaxCalls /\ inbox = <<>>
  /\ calls' = calls + 1
  /\ UNCHANGED <<reader, inbox, wire, last, faults>>

Begin(steps, c) ==
  /\ pc' = "send" /\ script' = steps /\ sent' = c /\ step' = step + 1
  /\ senderr' = FALSE /\ again' = FALSE
  /\ runs' = 0 /\ ran' = NoRun
  /\ UNCHANGED <<heard, ret>>

Refuse(c) ==
  /\ ret' = "REFUSED" /\ sent' = c
  /\ runs' = 0 /\ ran' = NoRun
  /\ UNCHANGED <<pc, script, step, senderr, again, heard>>

\* A call that needs no APDU: reset, activate, deactivate, card status
Command(steps) == Called /\ steps \in Scripts(reader) /\ Begin(steps, NoApdu)

SendAPDU(c) ==
  /\ Called
  /\ IF Refused(reader, c) \/ FrameRefused(reader, c)
       THEN Refuse(c)
       ELSE reader \in Serial /\ Begin(<<"apdu">>, c)

\* GPR400 and Bluedot: a call into the system that has an answer or fails.
Direct(c, answered) ==
  /\ reader \notin Serial /\ Called
  /\ ~Refused(reader, c)
  /\ sent' = c /\ step' = step + 1
  /\ runs' = 1 /\ ran' = Frame(reader, c)
  /\ IF answered
       THEN ret' = "OK" /\ heard' = [step |-> step', of |-> step']
       ELSE ret' \in {"IO_ERROR", "PROTOCOL_ERROR", "NO_CARD"} /\ UNCHANGED heard
  /\ UNCHANGED <<pc, script, senderr, again>>

-----------------------------------------------------------------------------
Posted(kind, fate) ==
  /\ inbox' = IF fate = "lost" THEN inbox
              ELSE Append(inbox, [of |-> step, kind |-> kind, whole |-> fate = "whole"])
  /\ Fault(Cost(fate))

(***************************************************************************)
(* The first half of a SendCmd: what is still on the line is read and      *)
(* thrown away, and the command is sent.  As for a call, the reader has    *)
(* dealt with what was sent before.                                        *)
(***************************************************************************)
\* Mutant: the line is not emptied before a command.
FlushedNot == wire
Flushed == <<>>
SendCmd(fate) ==
  /\ pc = "send" /\ pc' = "wait"
  /\ inbox = <<>>
  /\ wire' = Flushed
  /\ Posted(IF again THEN "again" ELSE script[1], fate)
  /\ UNCHANGED <<reader, script, sent, step, senderr, again, heard, ret,
                 last, runs, ran, calls>>

\* scIntertexSendCmd has to get the modem's attention first.
NoConnect ==
  /\ pc = "send" /\ reader = "intertex"
  /\ pc' = "idle" /\ script' = <<>> /\ ret' \in {"IO_ERROR", "PROTOCOL_ERROR"}
  /\ wire' = Flushed /\ Fault(1)
  /\ UNCHANGED <<reader, sent, step, senderr, again, heard, inbox, last,
                 runs, ran, calls>>

(***************************************************************************)
(* The reader takes a command and answers.  A spoilt one is complained     *)
(* about ("nak"); one asked for again is the last answer once more, be it  *)
(* a complaint.  The answer may come with a wrong end ("cut"), with a      *)
(* wrong checksum ("sum"), for the ACR20 cut to two bytes ("two"), or not  *)
(* at all.  The Reflex 60 has no checksum.                                 *)
(***************************************************************************)
Spoilt == {"lost", "cut"} \cup (IF reader = "reflex60" THEN {} ELSE {"sum"})
                          \cup (IF reader = "acr20" THEN {"two"} ELSE {})
Reply(f) == IF f.whole /\ f.kind = "again" THEN last
            ELSE [of |-> f.of, form |-> IF f.whole THEN "whole" ELSE "nak"]
BoxTakes(form) ==
  /\ inbox # <<>> /\ inbox' = Tail(inbox)
  /\ LET f == Head(inbox)
         a == Reply(f)
     IN  /\ last' = a
         /\ IF f.whole /\ f.kind = "apdu"
              THEN runs' = runs + 1 /\ ran' = Frame(reader, sent)
              ELSE UNCHANGED <<runs, ran>>
         /\ \/ form = "whole" /\ wire' = Append(wire, a) /\ Fault(0)
            \/ form \in Spoilt /\ Fault(1)
               /\ wire' = IF form = "lost" THEN wire
                          ELSE Append(wire, [a EXCEPT !.form = form])
  /\ UNCHANGED <<host, reader, calls>>

-----------------------------------------------------------------------------
(***************************************************************************)
(* The second half of a SendCmd: the answer.  ACR20 and GCR400 take all    *)
(* that is on the line for one answer, Intertex and Reflex 60 the first.   *)
(* A line with nothing on it times out; if the reader is only slow, that   *)
(* counts as a fault.                                                      *)
(***************************************************************************)
Joined == CASE reader = "acr20"  -> [of |-> 0, form |-> "sum"]
            [] reader = "gcr400" -> [of |-> 0, form |-> "cut"]
            [] OTHER             -> Head(wire)
Received == CASE wire = <<>>    -> [of |-> 0, form |-> "none"]
              [] Len(wire) = 1  -> Head(wire)
              [] OTHER          -> Joined
Receive ==
  /\ pc = "wait"
  /\ wire' = IF wire # <<>> /\ reader \in {"intertex", "reflex60"} THEN Tail(wire) ELSE <<>>
  /\ UNCHANGED <<reader, sent, last, runs, ran, calls>>

Slow == IF wire = <<>> /\ inbox # <<>> THEN 1 ELSE 0
Patient == Fault(Slow) /\ UNCHANGED inbox

\* The step is done, and with the last one the call.
StepDone ==
  /\ heard' = [step |-> step, of |-> Received.of]
  /\ IF Len(script) = 1
       THEN pc' = "idle" /\ script' = <<>> /\ ret' = "OK"
            /\ UNCHANGED <<step, senderr, again>>
       ELSE pc' = "send" /\ script' = Tail(script) /\ step' = step + 1
            /\ senderr' = FALSE /\ again' = FALSE /\ UNCHANGED ret

\* scIntertexResetCard ends with a look at the status and ignores what comes
\* of it; scAcr20Deactivate reports every failure as UNKNOWN_ERROR.
GiveUp(errors) ==
  /\ pc' = "idle" /\ script' = <<>>
  /\ ret' \in CASE script[1] = "peek" -> {"OK"}
                [] reader = "acr20" /\ script[1] = "off" -> {"UNKNOWN_ERROR"}
                [] OTHER -> errors
  /\ UNCHANGED <<step, senderr, again, heard>>

Accept == Receive /\ Patient /\ Received.form = "whole" /\ StepDone

\* The reader did as it was told, and reports that it did not work.
Reports == Receive /\ Patient /\ Received.form = "whole"
           /\ GiveUp({"NO_CARD", "UNKNOWN_ERROR", "BAD_ATR"})

Failures ==
  LET form == Received.form
  IN  CASE form = "nak" /\ reader = "intertex" -> {"UNKNOWN_ERROR"}
        [] form = "two" -> {"IO_ERROR"}
        [] form = "nak" /\ reader \in {"acr20", "gcr400"} -> {"IO_ERROR"}
        [] form = "sum" -> {"BAD_CHECKSUM"}
        [] form = "none" /\ reader \in {"acr20", "gcr400"} -> {"IO_ERROR"}
        [] form = "none" /\ reader = "reflex60" -> {"IO_ERROR", "TIMEOUT"}
        [] OTHER -> {"PROTOCOL_ERROR", "IO_ERROR"}

(***************************************************************************)
(* scAcr20SendCmd.  A two byte answer other than the reader's NAK sends    *)
(* the command once more, and a second one ends the call.  Any other bad   *)
(* answer, the NAK among them, is asked for again, once.  When nothing has *)
(* arrived SIO_ReadBuffer says so, and the call ends there.                *)
(***************************************************************************)
\* Mutant: every bad answer sends the command again.
RepeatsEver == reader = "acr20" /\ Received.form \in {"two", "sum"} /\ ~again
Repeats == reader = "acr20" /\ Received.form = "two" /\ ~senderr
AsksAgain ==
  \/ reader = "acr20" /\ ~again /\ Received.form \in {"nak", "sum", "cut"}
  \/ reader = "intertex" /\ Received.form = "sum"

Resend ==
  /\ Receive /\ Patient /\ Repeats
  /\ pc' = "send" /\ senderr' = TRUE /\ again' = FALSE
  /\ UNCHANGED <<script, step, heard, ret>>

\* The ACR20 is sent a NAK, without emptying the line first.
Nak(fate) ==
  /\ reader = "acr20" /\ Receive /\ AsksAgain
  /\ inbox' = IF fate = "lost" THEN inbox
              ELSE Append(inbox, [of |-> step, kind |-> "again", whole |-> fate = "whole"])
  /\ Fault(Cost(fate))
  /\ again' = TRUE
  /\ UNCHANGED <<pc, script, step, senderr, heard, ret>>

\* scIntertexSendCmd calls itself with the command REPEAT_LAST.
RepeatLast ==
  /\ reader = "intertex" /\ Receive /\ Patient /\ AsksAgain
  /\ pc' = "send" /\ again' = TRUE
  /\ UNCHANGED <<script, step, senderr, heard, ret>>

Fail ==
  /\ Receive /\ Patient
  /\ Received.form # "whole" /\ ~Repeats /\ ~AsksAgain
  /\ GiveUp(Failures)

Next ==
  \/ \E steps \in Scripts(reader) : Command(steps)
  \/ \E s \in Shapes, t0 \in Protocols(reader), data \in LastBytes :
       \/ SendAPDU(Handed(s, t0, data))
       \/ \E answered \in BOOLEAN : Direct(Handed(s, t0, data), answered)
  \/ \E fate \in Fates : SendCmd(fate)
  \/ NoConnect
  \/ \E form \in {"whole"} \cup Spoilt : BoxTakes(form)
  \/ Accept \/ Reports \/ Resend \/ RepeatLast \/ Fail
  \/ \E fate \in Fates : Nak(fate)

Spec == Init /\ [][Next]_vars

-----------------------------------------------------------------------------
IsApdu == sent # NoApdu

(***************************************************************************)
(* An accepted answer is the reader's answer to the command of this very   *)
(* step, never one that was late, kept by the reader or asked for again    *)
(* from an earlier command; and an APDU that is reported as done has been  *)
(* run by the card.                                                        *)
(***************************************************************************)
OkIsOwnAnswer ==
  /\ heard.of = heard.step
  /\ pc = "idle" /\ ret = "OK" /\ IsApdu => heard.step = step /\ runs > 0

(***************************************************************************)
(* Two drivers do not tell the reader what the program said:               *)
(* scBluedotSendAPDU gives the class for Lc, and scAcr20T0 sends commands  *)
(* of 254 bytes whose Lc or Le it adds with a length read from the class   *)
(* and the instruction.                                                    *)
(***************************************************************************)
Misframed == reader = "bluedot" \/ ran.told = LongForm

(***************************************************************************)
(* Repetitions and late answers never make the card run a command twice,   *)
(* except for the one repetition of scAcr20SendCmd after an answer that    *)
(* lost all but two bytes; and what the card runs is the APDU of the       *)
(* program: no byte of it missing, its Lc, and the Le it asked for, or     *)
(* what stands for the most there is.                                      *)
(***************************************************************************)
RunsApduOnce ==
  /\ runs <= IF senderr THEN 2 ELSE 1
  /\ runs > 0 /\ ~Misframed =>
       /\ ran.told = ran.given /\ ran.given >= sent.cmdlen
       /\ ran.lc = (IF sent.cse \in {3, 4} THEN sent.p3 ELSE 0)
       /\ sent.cse = 2 => ran.le \in {sent.p3, Max0(sent.p3)}
       /\ sent.cse = 4 /\ sent.le >= 0 => ran.le \in {sent.le, Max0(sent.le)}
=============================================================================
