---------------------------- MODULE CardSession -----------------------------
(***************************************************************************)
(* A program uses one card driver of scez/cards over a reader: it calls    *)
(* any function with any legal arguments, in any order, and resets the     *)
(* card when it likes.  The library is single threaded, so a call is one   *)
(* step; the reader and the card decide what becomes of the command.       *)
(*                                                                         *)
(* ci carries state from call to call: the status word of the last answer, *)
(* from which GET RESPONSE takes its length, and with the GPK cards the    *)
(* session key.  The card has a state of its own, and a lost command or a  *)
(* lost answer moves one and not the other.                                *)
(***************************************************************************)
EXTENDS Apdu

CONSTANTS Lens,      \* lengths a caller may give
          Sw2s,      \* values of SW2
          Keys       \* session keys

ASSUME LensAssumption == Lens \subseteq -1..256 /\ Lens # {}
ASSUME Sw2Assumption  == Sw2s \subseteq 0..255 /\ 0 \in Sw2s
ASSUME KeyAssumption  == \A a, b \in Keys : Keys \ {a, b} # {}

CryptoflexCard   == INSTANCE Cryptoflex
MultiflexCard    == INSTANCE Multiflex
CyberflexCard    == INSTANCE Cyberflex
GpkCard          == INSTANCE Gpk
GsmCard          == INSTANCE Gsm
MfcCard          == INSTANCE Mfc
TcosCard         == INSTANCE Tcos
PayflexCard      == INSTANCE Payflex
SmartcafeCard    == INSTANCE Smartcafe
OpenplatformCard == INSTANCE Openplatform
OtherCard        == INSTANCE SmallCards

VARIABLES driver,   \* the driver's name, and whether the card speaks T=0
          ci,       \* sw2: ci->sw[1]; encrypt and key: ci->crypt
          card,     \* sw2 it answered last, NoSw after a reset; its session key
          call      \* the last call: command, outcome and what the card did
vars == <<driver, ci, card, call>>

NoSw   == -1
NoKey  == "no key"

CommandsOf ==
  [cryptoflex |-> CryptoflexCard!Commands, multiflex |-> MultiflexCard!Commands,
   cyberflex |-> CyberflexCard!Commands, gpk |-> GpkCard!Commands, gsm |-> GsmCard!Commands,
   mfc |-> MfcCard!Commands, tcos |-> TcosCard!Commands, payflex |-> PayflexCard!Commands,
   smartcafe |-> SmartcafeCard!Commands, openplatform |-> OpenplatformCard!Commands,
   geldkarte |-> OtherCard!GeldkarteCommands, others |-> OtherCard!Commands]

\* GetCardData of the drivers: the others take the protocol from the ATR.
T0Only == {"cryptoflex", "multiflex", "cyberflex"}
T1Only == {"tcos", "geldkarte"}
Protocols(name) ==
  CASE name \in T0Only -> {TRUE} [] name \in T1Only -> {FALSE} [] OTHER -> BOOLEAN

Idle == [ret |-> "NONE", reached |-> FALSE, n |-> 0]

Init ==
  /\ driver \in {[name |-> d, t0 |-> b] : d \in DOMAIN CommandsOf, b \in BOOLEAN}
  /\ driver.t0 \in Protocols(driver.name)
  /\ ci = [sw2 |-> 0, encrypt |-> FALSE, key |-> NoKey]
  /\ card = [sw2 |-> NoSw, key |-> NoKey]
  /\ call = Idle

\* Mutant: ci->sw is cleared only by the functions that read it.
BegunKeeps(c) == IF c.follow THEN [ci EXCEPT !.sw2 = 0] ELSE ci

\* ci when the command is sent, or the call refused
Begun(c) == IF c.clears THEN [ci EXCEPT !.sw2 = 0] ELSE ci

Refused(c) == ~c.guard \/ (c.secured /\ ~ci.encrypt)

\* RsaKeyGen goes on with GET RESPONSE; else a program can give any command,
\* and GET RESPONSE has the length from ci.
Fetching == call.ret = "FETCH"
Offered ==
  IF Fetching THEN {Fixed(2, ci.sw2, 5, Data)}
              ELSE {c \in CommandsOf[driver.name] : c.follow => c.p3 = ci.sw2}

Ended(c, ret, reached, n) == [cmd |-> c, ret |-> ret, reached |-> reached, n |-> n]

\* ci after a function that goes on to fetch: the length to fetch is in ci->sw.
ThenFetch(c, now) == IF c.answer.kind = "fetch" THEN [now EXCEPT !.sw2 = c.answer.bytes] ELSE now

\* SC_EXIT_BAD_PARAM or SC_EXIT_NOT_SUPPORTED before anything is sent
Refuse(c) ==
  /\ Refused(c)
  /\ ci' = Begun(c)
  /\ call' = Ended(c, "BAD_PARAM", FALSE, 0)
  /\ UNCHANGED <<driver, card>>

\* SC_EXIT_CMD_TOO_SHORT or SC_EXIT_CMD_TOO_LONG of the reader driver
Reject(c) ==
  /\ ~Refused(c) /\ ~Accepted(c, driver.t0)
  /\ ci' = Begun(c)
  /\ call' = Ended(c, "CMD_LENGTH", FALSE, 0)
  /\ UNCHANGED <<driver, card>>

\* The exchange fails, before or after the card has run the command.
Lose(c) ==
  /\ ~Refused(c) /\ Accepted(c, driver.t0)
  /\ ci' = ThenFetch(c, Begun(c))
  /\ \/ UNCHANGED card
     \/ \E s \in Sw2s, k \in Keys \ {ci.key, card.key} :
          card' = [sw2 |-> s, key |-> IF c.answer.kind = "key" THEN k ELSE card.key]
  /\ call' = Ended(c, IF c.answer.kind = "fetch" THEN "FETCH" ELSE "IO_ERROR", card' # card, 0)
  /\ UNCHANGED driver

\* Numbers of bytes an answer can have that its function tells apart
Sizes(c) == {n \in {-1, 0, 1, c.answer.bytes - 1, c.answer.bytes, c.answer.bytes + 1} : n <= 256}

\* The card's checksum covers the whole command; the driver's, what Summed says.
CardAgrees(c) == ci.key = card.key /\ GpkCard!Summed(c.sum) = c.sum

SetCi(c, n, s) == IF SetsSw(c.answer, n) THEN [Begun(c) EXCEPT !.sw2 = s] ELSE Begun(c)

\* The card runs the command and answers n bytes and a status word with SW2 s.
Answered(c) ==
  /\ ~Refused(c) /\ Accepted(c, driver.t0)
  /\ c.answer.kind # "key"
  /\ \E n \in Sizes(c), s \in Sw2s, right \in BOOLEAN :
       /\ right => (c.secured => CardAgrees(c))
       /\ ci' = ThenFetch(c, SetCi(c, n, s))
       /\ card' = [card EXCEPT !.sw2 = s]
       /\ call' = Ended(c, Result(c.answer, n, right), TRUE, n)
  /\ UNCHANGED driver

\* SelFk and SelPk: the card makes a new key, and the host its own from the
\* answer if there is one of the right length; whatever it says ends the old key.
NewKey(c) ==
  /\ ~Refused(c) /\ Accepted(c, driver.t0)
  /\ c.answer.kind = "key"
  /\ \E n \in Sizes(c), s \in Sw2s, right \in BOOLEAN, k \in Keys \ {ci.key, card.key} :
       /\ n = c.answer.bytes \/ ~right
       /\ ci' = IF n < 0 THEN Begun(c)
                ELSE [sw2 |-> s, encrypt |-> n = c.answer.bytes /\ right,
                      key |-> CASE n # c.answer.bytes -> ci.key [] right -> k [] OTHER -> NoKey]
       /\ card' = [sw2 |-> s, key |-> IF n = c.answer.bytes THEN k ELSE card.key]
       /\ call' = Ended(c, Result(c.answer, n, right), TRUE, n)
  /\ UNCHANGED driver

\* Mutant: the reset forgets the key on the card only.
ResetCardAlone ==
  /\ call = Idle
  /\ card' \in {card, [sw2 |-> NoSw, key |-> NoKey]}
  /\ UNCHANGED <<driver, ci, call>>

\* scReaderResetCard: the keys are forgotten first, and then the reader's own
\* ResetCard may fail before or after the card has been reset.  ci->sw stays.
ResetCard ==
  /\ call = Idle
  /\ ci' = [ci EXCEPT !.encrypt = FALSE, !.key = NoKey]
  /\ card' \in {card, [sw2 |-> NoSw, key |-> NoKey]}
  /\ UNCHANGED <<driver, call>>

\* The program has looked at the result and goes on.
Return ==
  /\ call # Idle /\ ~Fetching
  /\ call' = Idle
  /\ UNCHANGED <<driver, ci, card>>

Next ==
  \/ /\ call = Idle \/ Fetching
     /\ \E c \in Offered : Refuse(c) \/ Reject(c) \/ Lose(c) \/ Answered(c) \/ NewKey(c)
  \/ ResetCard
  \/ Return

Spec == Init /\ [][Next]_vars

\* Lengths that fit a BYTE
Bytes == Lens \cap 0..255

(***************************************************************************)
(* The calls known to build a command no reader driver takes.              *)
(***************************************************************************)
Misbuilt ==
  CASE driver.name = "gsm" ->
         {GsmCard!Seek(n) : n \in Bytes} \cup {GsmCard!Envelope(n) : n \in Bytes}
           \cup (IF driver.t0 THEN {}
                 ELSE {GsmCard!Select, GsmCard!Increase, GsmCard!RunGsmAlgo})
    [] driver.name = "mfc" ->
         {MfcCard!CreateFile(b, n) : b \in BOOLEAN, n \in Bytes} \cup {MfcCard!ExtAuth(TRUE)}
           \cup {MfcCard!Select("parent", TRUE, n) : n \in Bytes}
    [] driver.name = "tcos" ->
         {c \in {TcosCard!ChangePassword(31, m, n) : m \in Bytes, n \in Bytes} : c.cmdlen > 260}
    [] driver.name = "smartcafe" ->
         {c \in {SmartcafeCard!Install(k, m, n) : k \in {"install", "heap"}, m \in Bytes, n \in Bytes} :
            c.cmdlen > 260}
    [] driver.name = "gpk" ->
         {GpkCard!UpdRecCrycks(n) : n \in Bytes \cap 253..255}
           \cup (IF driver.t0 THEN {} ELSE {GpkCard!SelFil(3, TRUE, b, 0) : b \in BOOLEAN})
    [] driver.name = "geldkarte" -> {OtherCard!GeldkarteVerifyPIN(0, 256)}
    [] OTHER -> {}

(***************************************************************************)
(* The calls known to build a command longer than its buffer.              *)
(***************************************************************************)
Overlong ==
  CASE driver.name = "tcos" ->
         {TcosCard!ChangePassword(31, m, n) : m \in Bytes, n \in Bytes}
           \cup {TcosCard!VerifyPassword(31, n) : n \in Bytes \cap 17..255}
    [] driver.name = "smartcafe" ->
         {SmartcafeCard!Install(k, m, n) : k \in {"install", "heap"}, m \in Bytes, n \in Bytes}
    [] driver.name = "gpk" -> {GpkCard!UpdRecCrycks(n) : n \in Bytes \cap 62..255}
    [] OTHER -> {}

\* The three numbers of every command agree: whatever the driver function and
\* its arguments, a command that is sent is one a reader driver takes.
CommandsAccepted == call.ret = "CMD_LENGTH" => call.cmd \in Misbuilt

\* No command is longer than the local buffer it is built in.
BuiltInBuffer ==
  call.ret \notin {"NONE", "BAD_PARAM"} => call.cmd.cmdlen <= call.cmd.room \/ call.cmd \in Overlong

\* A caller is told the number of bytes it was given, and given no more than
\* the card answered.
ToldIsGiven ==
  call.ret = "OK" /\ call.cmd \notin {GpkCard!Sign} \cup {GpkCard!CompDesKey(n) : n \in Lens} =>
    Told(call.cmd.answer, call.n) = Given(call.cmd.answer, call.n)
      /\ Given(call.cmd.answer, call.n) \in 0..call.n

\* A protected command that returns SC_EXIT_OK was run by a card that has the
\* host's key, and the checksum covered all of it.
ProtectedIsChecked ==
  call.ret = "OK" /\ call.cmd.answer.kind \in {"crycks", "sealed"} =>
    call.reached /\ ci.encrypt /\ ci.key = card.key
      /\ GpkCard!Summed(call.cmd.sum) = call.cmd.sum

\* GET RESPONSE asks for what the card's last answer announced, or for 256
\* bytes; it never asks for what an earlier answer announced.  (Two functions
\* of the Smart Cafe driver do not clear ci->sw, and after them it does.)
FollowIsFresh ==
  [][ call'.ret \notin {"NONE", "BAD_PARAM"} /\ call'.cmd.follow /\ card.sw2 # NoSw
          /\ driver.name # "smartcafe" =>
        call'.cmd.p3 \in {0, card.sw2} ]_vars

\* While commands are protected, host and card have the same key; only the
\* lost answer to the command that makes a key can part them.
HostKeyIsCards ==
  [][ ci'.encrypt /\ ci'.key # card'.key =>
        \/ ci.encrypt /\ ci.key # card.key
        \/ call'.ret = "IO_ERROR" /\ call'.cmd.answer.kind = "key"
        \/ call'.ret = "BAD_SW" /\ call'.cmd.answer.kind = "key" ]_vars

=============================================================================
