-------------------------- MODULE BasiccardSession --------------------------
(***************************************************************************)
(* A session with a BasicCard: StartEncr agrees on a cipher, EndEncr ends  *)
(* it, and every command between them is enciphered and its answer         *)
(* deciphered with a state, ci->crypt.iv, that moves on with each message. *)
(* Host and card each keep that state, and a message that only one of them *)
(* has handled parts them.                                                 *)
(*                                                                         *)
(* The state is a number.  A stream cipher (LFSR) moves on by one with     *)
(* each message it handles; a chained one (DES) takes the last message,    *)
(* by its number in the session, as its state.                             *)
(***************************************************************************)
EXTENDS Basiccard

CONSTANTS T0Choices,    \* whether the card speaks T=0: subset of BOOLEAN
          KeyIds,       \* session keys a caller may use
          MaxMsgs       \* bound: messages handled in a session, by either side

ASSUME T0Assumption  == T0Choices \subseteq BOOLEAN /\ T0Choices # {}
ASSUME MsgAssumption == MaxMsgs \in Nat
ASSUME LenAssumption == Lens \subseteq Int /\ Lens # {}

VARIABLES t0,      \* whether the card speaks T=0
          host,    \* ci->crypt: session (encrypt), algo, key, iv
          card,    \* the card's own session, algo, key, iv
          msgs,    \* messages enciphered since StartEncr
          call     \* the last call, what came of it and what the card ran
vars == <<t0, host, card, msgs, call>>

Closed == [session |-> FALSE, algo |-> "none", key |-> "none", iv |-> 0]
Opened(algo, key) == [session |-> TRUE, algo |-> algo, key |-> key, iv |-> 0]
Idle   == [ret |-> "NONE"]

Init ==
  /\ t0 \in T0Choices
  /\ host = Closed /\ card = Closed
  /\ msgs = 0
  /\ call = Idle

Ended(c, ret, sw, ran, answer) ==
  [cmd |-> c, ret |-> ret, sw |-> sw, ran |-> ran, answer |-> answer, algo |-> host.algo]

\* The state of a side that has handled message number id
Moved(side, id) == [side EXCEPT !.iv = IF side.algo \in Stream THEN @ + 1 ELSE id]

\* What goes out, and the host after it has been enciphered
Sent(c)      == IF host.session THEN Enciphered(host.algo, c, FALSE) ELSE c
Coded(c)     == host.session /\ Enciphers(host.algo, c)
AfterEncr(c) == IF Coded(c) THEN Moved(host, msgs + 1) ELSE host
MsgsAfter(c) == IF Coded(c) THEN msgs + 1 ELSE msgs

TooLong(c) == host.session /\ c.cmdlen > Limit(host.algo)
Sendable(c) == c.guard /\ ~TooLong(c) /\ Accepted(Sent(c), t0)

\* The card finds the command the caller gave.
Understands(c) ==
  IF Coded(c) THEN card = host ELSE ~card.session \/ ~Enciphers(card.algo, c)

\* The card after the command, and whether it runs it, something else or none:
\* a cipher without a check makes other data of what it does not understand.
CardAfter(c) ==
  IF card.session /\ Enciphers(card.algo, c) THEN Moved(card, MsgsAfter(c)) ELSE card
Runs(c) ==
  CASE Understands(c) -> {"this", "nothing"}
    [] ~Understands(c) /\ card.algo \in Checked -> {"nothing"}
    [] OTHER -> {"other"}

\* Mutant: the length is looked at after the command has been enciphered.
RefuseLate(c) ==
  /\ ~c.guard \/ TooLong(c)
  /\ host' = AfterEncr(c)
  /\ msgs' = MsgsAfter(c)
  /\ call' = Ended(c, "BAD_PARAM", "none", "nothing", "none")
  /\ UNCHANGED <<t0, card>>

\* The call is refused: by the function itself, or by EncrCAPDU.
Refuse(c) ==
  /\ ~c.guard \/ TooLong(c)
  /\ call' = Ended(c, "BAD_PARAM", "none", "nothing", "none")
  /\ UNCHANGED <<t0, host, card, msgs>>

\* The reader driver refuses it: after it has been enciphered.  LFSR CRC makes a
\* command of 259 or 260 bytes longer than the 262 of ba and of the caller's cmd
\* (scbasiccard.c:147, 218-252); what the code writes there is not modelled,
\* only that such a command, were it handed on, is refused for its lengths.
Reject(c) ==
  /\ c.guard /\ ~TooLong(c) /\ ~Accepted(Sent(c), t0)
  /\ host' = AfterEncr(c)
  /\ msgs' = MsgsAfter(c)
  /\ call' = Ended(c, "CMD_LENGTH", "none", "nothing", "none")
  /\ UNCHANGED <<t0, card>>

\* The command is lost before the card gets it, or the answer after it.
LoseCommand(c) ==
  /\ Sendable(c)
  /\ host' = AfterEncr(c)
  /\ msgs' = MsgsAfter(c)
  /\ call' = Ended(c, "IO_ERROR", "none", "nothing", "none")
  /\ UNCHANGED <<t0, card>>

\* id: the number of the answer, when it is enciphered
AnswerLost(c) ==
  /\ Sendable(c)
  /\ host' = AfterEncr(c)
  /\ \E ran \in Runs(c), coded \in BOOLEAN :
       /\ coded => card.session /\ ran # "nothing"
       /\ msgs' = MsgsAfter(c) + (IF coded THEN 1 ELSE 0)
       /\ card' = IF coded THEN Moved(CardAfter(c), msgs') ELSE CardAfter(c)
       /\ call' = Ended(c, "IO_ERROR", "none", ran, "none")
  /\ UNCHANGED t0

\* A status word alone.  DecrRAPDU lets it pass as it is, in every mode.
StatusOnly(c) ==
  /\ Sendable(c)
  /\ host' = AfterEncr(c)
  /\ card' = CardAfter(c)
  /\ msgs' = MsgsAfter(c)
  /\ \E ran \in Runs(c) :
       /\ card.session /\ card.algo \in Checked => ran = "nothing"
       /\ call' = Ended(c, "OK", IF ran = "nothing" THEN "error" ELSE "ok", ran, "none")
  /\ UNCHANGED t0

\* The card's session enciphers the answer; DecrRAPDU deciphers what is longer
\* than a status word and finds out, in the modes that check.
Answered(c) ==
  /\ Sendable(c)
  /\ \E ran \in Runs(c) \ {"nothing"} :
       LET after == CardAfter(c)
           good  == host.session /\ card.session /\ AfterEncr(c) = after
           plain == ~host.session /\ ~card.session
           id    == MsgsAfter(c) + (IF card.session THEN 1 ELSE 0)
       IN  /\ msgs' = id
           /\ card' = IF card.session THEN Moved(after, id) ELSE card
           /\ host' = IF host.session THEN Moved(AfterEncr(c), id) ELSE host
           /\ call' = Ended(c, IF host.algo \in Checked /\ ~good THEN "BAD_CHECKSUM" ELSE "OK",
                            "ok", ran, IF good \/ plain THEN "own" ELSE "other")
  /\ UNCHANGED t0

\* Mutant: the old session ends only when the new one begins.
StartEncrLate(algo, key, cardkey) ==
  /\ call' \in {Ended(StartEncr, "OK", "ok", "this", "none"),
                Ended(StartEncr, "OK", "error", "nothing", "none"),
                Ended(StartEncr, "IO_ERROR", "none", "this", "none"),
                Ended(StartEncr, "IO_ERROR", "none", "nothing", "none")}
  /\ host' = IF call'.sw = "ok" THEN Opened(algo, key) ELSE host
  /\ card' = IF call'.ran = "this" THEN Opened(algo, cardkey) ELSE card
  /\ msgs' = 0
  /\ UNCHANGED t0

(***************************************************************************)
(* StartEncr: the host's session ends before the command goes out, which   *)
(* is not enciphered; six bytes of answer begin the new one, whatever the  *)
(* status word.                                                            *)
(***************************************************************************)
StartEncr_(algo, key, cardkey) ==
  /\ call' \in {Ended(StartEncr, "OK", "ok", "this", "none"),
                Ended(StartEncr, "OK", "error", "nothing", "none"),
                Ended(StartEncr, "IO_ERROR", "none", "this", "none"),
                Ended(StartEncr, "IO_ERROR", "none", "nothing", "none")}
  /\ host' = IF call'.sw = "ok" THEN Opened(algo, key) ELSE Closed
  /\ card' = IF call'.ran = "this" THEN Opened(algo, cardkey) ELSE card
  /\ msgs' = 0
  /\ UNCHANGED t0

\* EndEncr: enciphered, and the host's session ended before it goes out.
EndSent == IF host.session THEN Enciphered(host.algo, EndEncr, TRUE) ELSE EndEncr
EndEncr_ ==
  /\ Accepted(EndSent, t0)
  /\ call' \in {Ended(EndEncr, "OK", "ok", "this", "none"),
                Ended(EndEncr, "OK", "error", "nothing", "none"),
                Ended(EndEncr, "IO_ERROR", "none", "this", "none"),
                Ended(EndEncr, "IO_ERROR", "none", "nothing", "none")}
  /\ call'.ran = "this" => Understands(EndEncr)
  /\ host' = Closed
  /\ card' = IF call'.ran = "this" THEN Closed ELSE card
  /\ msgs' = MsgsAfter(EndEncr)
  /\ UNCHANGED t0

\* scReaderResetCard: the host's keys are cleaned before the card is reset.
ResetCard ==
  /\ host' = Closed
  /\ card' \in {card, Closed}
  /\ UNCHANGED <<t0, msgs, call>>

Return == call' = Idle /\ UNCHANGED <<t0, host, card, msgs>>

Next ==
  \/ /\ call = Idle /\ msgs + 2 <= MaxMsgs /\ card.iv + 2 <= MaxMsgs
     /\ \E c \in Commands : \/ Refuse(c) \/ Reject(c) \/ LoseCommand(c) \/ AnswerLost(c)
                            \/ StatusOnly(c) \/ Answered(c)
  \/ /\ call = Idle
     /\ \/ \E algo \in Algos, key, cardkey \in KeyIds : StartEncr_(algo, key, cardkey)
        \/ EndEncr_ \/ ResetCard
  \/ call # Idle /\ Return

Spec == Init /\ [][Next]_vars

-----------------------------------------------------------------------------
\* Cases 1 and 3 go out as case 4 without an Le, which only T=0 allows; and
\* EncrCAPDU lets the length of the data run over a byte.
Unsendable(algo, c) ==
  /\ algo \in Checked
  /\ \/ ~t0 /\ c.cse \in {1, 3}
     \/ algo = "LFSR CRC" /\ c.cse \in {3, 4} /\ c.p3 \in 252..255

\* A call that returns SC_EXIT_OK with a good status word in a session whose
\* mode checks: the card ran this very command, and the answer is its own.
OkIsRun ==
  call.ret = "OK" /\ call.sw = "ok" /\ call.algo \in Checked =>
    call.ran = "this" /\ call.answer # "other"

\* The host enciphers only for a card that does the same.
SessionsAgree ==
  host.session => card.session /\ card.algo = host.algo

\* Host and card stay in step unless a message is lost, or a command is one
\* that no reader driver takes.
StaysInStep ==
  [][ host.session /\ host'.session /\ host.iv = card.iv /\ host.key = card.key
        /\ host'.iv # card'.iv =>
        \/ call'.ret = "IO_ERROR"
        \/ call'.ret = "CMD_LENGTH" /\ Unsendable(host.algo, call'.cmd) ]_vars
=============================================================================
