# A TLA+ development for scez-ng

scez-ng is a C library for smart cards and smart card readers.  It is linked
into programs (`src/apps`, `src/test`), has no threads, and talks over serial
lines and terminal libraries to devices that answer late, wrongly or not at all.
Its own logic is protocol logic: T=0 and T=1, the reset and the change of the
transmission rate, the framing of each reader, one terminal library that several
readers share, and for each kind of card a driver that builds its commands and
keeps its session key.  This directory models that logic, checks it with TLC on small instances,
and proves some of it with TLAPS for all instances.

Line numbers refer to `src/scez/` if no other directory is named.

Contents: 1 the system, 2 the modules, 3 the correspondence of model and code,
4 the runs, 5 disagreements found, 6 the proofs, 7 what is left out, 8 the plan.

## 1. The system

### 1.1 Layers and interactions

    application              src/apps, src/test
      | scSmartcard*, scReader*, functions of the card drivers
    scsmartcard.c            ATR, card type, change of speed
      | function pointers of SC_CARD_INFO      -> cards/*.c  (build APDUs)
    screader.c               dispatch to the reader driver
      | function pointers of SC_READER_INFO    -> readers/*.c, scctapi.c
    sct0.c sct1.c scpts.c    used by readers that leave the protocol to the host
      | scReaderWriteBuffer, scReaderReadBuffer, scReaderReadChar
    sio/*.c                  the serial line

All calls are synchronous and go down; the only callback is `scWaitReq` of the
reader driver, asked when a card wants more time.  State is shared through
`SC_CARD_INFO` (protocol, `t0`, `t1`, status word), `SC_READER_INFO` (status,
`etu`), the caller's `SC_APDU`, which the protocol layers change while they
work, and the globals of `scctapi.c`.  What runs concurrently with the library
is the card, the line and the user who removes cards.

### 1.2 Components

| Component | State | Operations | Hard behaviour | What makes it correct | Modelled |
|---|---|---|---|---|---|
| T=1, `sct1.c` | N(S), N(R), IFSC, IFSD sent, five counters, window into the command, response buffer | `scT1SendCmd`, `scT1ChangeIFSD`, block builders | lost, garbled and late blocks, repetition, chaining both ways, S-requests in between | a command is executed once and whole, its answer is its own, both ends stay in step, every call ends, no buffer is passed | fully |
| T=0, `sct0.c` | bytes sent and collected, NULL counter, the APDU with its Le stripped, stage of the exchange | `scT0SendCmd`, `scT0SendAPDU` | the card drives; 6C and 61 make several TPDUs of one APDU; a short read looks like a complete one | command bytes arrive once and in order, the answer is complete and no longer than wanted, the APDU is given back | fully |
| PTS, `scpts.c` | none | `scPtsDoPTS` | answer lost, garbled or refused | see the next row | fully |
| Speed, `scsmartcard.c` 645-740 | rate of card and line, `etu`, D, WI, WWT | `scSmartcardSetSpeed`, `scReaderSetSpeed`, reset | card and line are switched one after the other | equal rates after every success, waiting time long enough | PTS cards |
| ATR, `scsmartcard.c` 330-560, `*GetATR` of the readers | `ci->atr`, `direct`, protocol parameters | `scSmartcardGetCardType`, `scSmartcardProcessATR` | bytes of a card steer two walks over a buffer; parameters are replaced one by one | the parameters are those of this card and of ISO 7816-3, no read behind the end | fully |
| Character readers: Dumb Mouse, Easycheck, Towitoko | parity and bit order of the port, parity of the reader, attempts | reset, `SetParity`, `GetATR` | the convention is found by trial; several places have to know it | all places agree with the card when a reset succeeds | reset, ATR |
| Command readers: ACR20, GCR400, Intertex, Reflex 60, GPR400, Bluedot | frame, retry flags | reset, activate, deactivate, status, `SendAPDU` | lost, cut, spoilt and late answers; each driver repeats in its own way | an answer belongs to its command, the card runs an APDU once and as given | exchanges |
| CT-API reader, `scctapi.c` | handle, three function pointers, use counter, last terminal number; all process-wide | `Init`, `Shutdown`, `Detect`, `SendAPDU`, Bcs commands | several readers over one library, failures half way | an open reader always has its library; the library leaves with the last | all but `SendAPDU`, Bcs |
| Card drivers, `cards/*.c` | `ci->sw`, session key (`ci->crypt`) | some 300 functions that build an APDU and send it | three lengths set by hand, fixed buffers, GET RESPONSE lengths left from before, keys that part when an answer is lost | a command that is sent is one a reader takes, in its buffer; what is reported as checked was checked | every function that sends a command |
| BasicCard driver | session, algorithm, key and state of the cipher | the same, `StartEncr`, `EndEncr` | the cipher moves on before it is known that the command goes out | host and card part only when something is lost; a checked session reports only what was done | fully but the ciphers |
| Dispatch, `screader.c` | - | one function per driver function | reset cleans the card info before the driver is asked | - | reset |
| Shared structures, `scgeneral.c` | - | allocation, `scGeneralCleanCI` | what a reset does not clean | - | `CleanCI` |
| `sio`, `slog`, applications, tests, ports, misc | - | I/O, logging, use of the library | - | - | as environment |

`PROJECT.json` lists every component with its files and the reason where it is
not modelled, and 40 hazards at their lines with the properties that cover them.

## 2. The modules

| Module | Models | Extends |
|---|---|---|
| `T1Blocks` | blocks of T=1, the line | - |
| `T1` | `scT1SendCmd`, `scT1ChangeIFSD`, cleaning and ATR of a reset | `T1Blocks` |
| `T1Card` | external: a conforming T=1 card, line faults | `T1Blocks` |
| `T1Link` | a session: application, `T1`, `T1Card` | `T1`, `T1Card`, instance of `CommandChannel` |
| `T0` | `scT0SendCmd`, `scT0SendAPDU` | - |
| `T0Link` | a session: application, `T0` and an external T=0 card | `T0`, instance of `CommandChannel` |
| `CommandChannel` | abstract: what a caller of either protocol may rely on | - |
| `Speed` | change of rate: `scsmartcard.c`, `scpts.c`, Dumb Mouse, Multiflex | - |
| `Ctapi` | library sharing in `scctapi.c`, with an external dynamic linker | - |
| `Apdu` | what a driver function hands to the reader and does with the answer | - |
| `Cryptoflex`, `Multiflex`, `Cyberflex`, `Gpk`, `Gsm`, `Mfc`, `Tcos`, `Payflex`, `Smartcafe`, `Openplatform`, `SmallCards` | the commands of one driver each; the last those of Geldkarte, Proton, Quick, Easycheck and Carte Bancaire | `Apdu` |
| `CardSession` | a program, one of these drivers and its card | `Apdu`, instances of the drivers |
| `Basiccard`, `BasiccardSession` | `scbasiccard.c`: commands and enciphering; a session with such a card | `Apdu`; `Basiccard` |
| `CommandReaders` | the six readers that take whole commands, with line and reader as external parts | `Apdu` |
| `Atr` | an ATR, `*GetATR`, `scSmartcardProcessATR`, and what the ATR means | - |
| `CharReaders` | resets of the three readers that pass characters, and `scSmartcardGetCardType` | `Atr` |
| `MC_*` | values of constants, one per checked module | the module |
| `T1_proofs`, `T0_proofs`, `Ctapi_proofs`, `Speed_proofs`, `CardSession_proofs`, `BasiccardSession_proofs`, `CommandReaders_proofs`, `CharReaders_proofs` | theorems | the module, `TLAPS` |

`CommandChannel` is the specification that both `T1Link` and `T0Link` implement:
commands are numbered; a command is performed at most once; a call that
succeeds was performed and returns that command's answer; a call that fails
leaves the channel broken until the next reset; a call returns.

Definitions marked "Slip" or "Mutant" are deliberate faults: plausible mistakes in the code
above them.  No specification uses them.  Each property is tried against one, as
`mutants` in `PROJECT.json` lists, and TLC finds it violated: so each property
depends on what the code does.

## 3. Model and code

### 3.1 T=1

One step of `T1` is one pass of the loop of `scT1SendCmd` (460-723): it starts
when `scT1SendRecvBlock` has returned and ends when the next block is written.
`pc` names the call that is open: `"ifsd"` in `scT1ChangeIFSD` (345), `"xfer"`
in the loop (466), `"abort"` after an S(ABORT response) (686).

| Code | Action |
|---|---|
| 386-458 entry, first block | `SendCmd`, `RefuseCmd` |
| 335-375 IFSD exchange | `IfsdDone`, `IfsdAgain`, `IfsdIoError` |
| 466-481 nothing read | `IoError` |
| 482-505 bad LRC or length | `RcError` |
| 507-558 R-block | `RBlockTooMany`, `RBlockWhileReceiving`, `RBlockResend`, `RBlockNext`, `RBlockUnexpected` |
| 561-645 I-block | `IBlockWrongNumber`, `IBlockTooLong`, `IBlockMore`, `IBlockLast` |
| 647-721 S-blocks | `SIfs`, `SAbort`, `AbortDone`, `AbortIoError`, `SWtx`, `SOther` |
| `scgeneral.c` 303-311, `screader.c` 574-582 | `ResetCard`, `ResetFails` |
| `scsmartcard.c` 409-470 (IFSC of the ATR) | `ProcessATR` |

A variable has the name of the code's variable (`sendptr`, `sendlen`, `more`,
`lastiicc`, `timeouts`, `errcntr`, `rerrcntr`, `wtxcntr`, `errors`, `rsp`).  A
byte is a pair of the command's number and its position, so that a byte of the
wrong command or in the wrong place is seen.  Reading everything that is unread
before writing (291-292) discards any beginning of what is under way: the rest
arrives later.

The card of `T1Card` conforms to ISO 7816-3: it chains, repeats on request, asks
for time, for another IFSC and for an abort.  `LineFault` garbles or loses the
next block in either direction.  A late answer is a `HostTimeout` while a block
is under way.

### 3.2 T=0

One step of `T0` is what the program does between two reads.  `pc` is the read:
of a procedure byte (75), of the second status byte (199), of one byte behind
~ACK (149), of a block behind ACK (97).  `stage` is the TPDU of `scT0SendAPDU`:
the command, the command again with the length of 6C, GET RESPONSE.  A byte has
its look (`ack`, `nack`, `null`, `sw`, `other`), which is all the loop tests,
and its true value, which only the properties see; so data that look like a
status word are among the inputs.

| Code | Action |
|---|---|
| `scT0SendAPDU` 238-252, header 49-70 | `SendAPDU`, `Header`, `RefuseAPDU` |
| 78-98 ACK | `AckToCard`, `AckFromCard`, then `ReadBlock`, `ReadBlockShort` |
| 129-161 ~ACK | `NackToCard`, `NackFromCard`, then `ReadByte` |
| 121-168 anything else | `SkipByte` |
| 170-188 NULL | `Null` |
| 190-223 status word | `Sw1`, `Sw2` |
| 252-373 after a TPDU | `TpduDone`: `CommandDone`, `Reissue`, `CheckResponse`, `Fetched`; `TpduFails` |
| nothing read | `NothingRead` |

`spointer` counts the bytes sent in either way; `striped` (so spelled) says that
the Le of a case 4 command was taken off.

### 3.3 Speed

`pc` divides `scSmartcardSetSpeed` where it waits for the card (`"pts"`) and
before the line is switched (`"reader"`).  `SetSpeed` chooses an entry of the
common table as the `switch` at 683 does (`BestFD`), and the card driver sends a
PTS request unless the entry is 372/1.  `PtsGood`, `PtsBad` are `scPtsDoPTS`
after the answer, `ReaderSetSpeed` is `scDumbmouseSetSpeed` with the new
waiting time, `ResetCard` is `scDumbmouseResetCard`.

Discipline of the caller: `SetSpeed` and `GetCardType` come directly after a
successful reset.  The code asks for the first ("can only be called directly
aftern a reset", `scsmartcard.c:638`), the programs do the second.

### 3.4 CT-API

`handle`, `pCT`, `ICounter`, `lastCtn` are the globals at 36-82, `libHandle` the
static handle of `scCtapiDetect`, `di` its loop variable.  A step is a whole
`Init` or `Shutdown`, or one turn of the loop of `Detect`.  The dynamic linker
(`loaded`) counts references and gives one library one handle.  A library that
is unloaded loses its open terminals (`Connected`).  `exports` says which of the
three functions each library has; `Resolved` is what the three `dlsym` make of
the pointers, and `InitPartial` an Init that ends at one of them (107-112) with
the handle set.  `Calls` is a call through a pointer: into a library that is not
loaded it ends the process, so that no step follows.

Discipline of the caller: every `Init` gets a fresh `SC_READER_INFO`, and
`Shutdown` is called for readers whose `Init` succeeded, as all programs do.
`Detect` may be called at any time, also beside open readers and after an Init
that failed.  `detected` is a history variable: a detection has begun while the
driver held the library that it still holds.

### 3.5 Card drivers

A driver function is one definition of its driver's module: the guard under
which it sends anything, the case, P3 and length it writes into the `SC_APDU`,
the buffer it builds the command in, and what it does with the answer.  The
last is one of the kinds of `Apdu.Answer`; there are fifteen, for some 300
functions.  A function that sends one of several shapes has parameters for what
chooses among them.  Class, instruction, parameters and data are left out,
cryptography too: a checksum is right or it is not, and what it covers (`sum`)
is a number of bytes.

A step of `CardSession` is a whole call.  `Refuse` is a parameter error before
anything is sent, `Reject` is `scReaderCheckAPDU` of the reader, `Lose` an
exchange that fails with the command or the answer lost, `Answered` any other
call, `NewKey` one that makes a session key (`SelFk`, `SelPk` of the GPK).
`scReaderResetCard` forgets the host's key and may then fail before or after the
card has been reset.  `Offered` lets `GET RESPONSE` have the length from
`ci->sw`, and any other function any arguments.

### 3.6 BasicCard

`Enciphered` is what `scBasiccardEncrCAPDU` makes of the three lengths, in each
of the four modes.  A side of a session is `[session, algo, key, iv]`.  `iv`
counts the messages handled for the stream ciphers and is the number of the last
message for the chained ones, so two sides have the same `iv` exactly if their
ciphers are at the same place.  `StartEncr_` closes the host's session before the
command goes out, as line 878 does, and opens one on any answer of six bytes;
`EndEncr_` closes it before.  `Reject` is a command refused by the reader driver
after it was enciphered.

### 3.7 Command readers

A call is a script of steps, each one `SendCmd` of the driver: `SendCmd` empties
the line and sends, `BoxTakes` is the reader, `Accept`, `Reports`, `Resend`,
`Nak`, `RepeatLast` and `Fail` are what the driver does with what it has read.
`Frame` is the recoding of an APDU (`scAcr20T0`, `scAcr20SendAPDU`, and so on):
the length the reader is told against the bytes sent, the Lc and the Le it will
use.  `Direct` is the GPR400 and the Bluedot, which are a call into the system.
A spoilt command makes the reader complain; an answer may be lost, cut, have a
wrong checksum, or come after the driver has stopped waiting (`Slow`); a command
or a NAK may be lost as well.  One thing the line may not do: bring an answer
after the driver has emptied it for the next command.  Such an answer, to a call
that has failed or the second one after a NAK, would be taken for that of the
next command by every one of the drivers, since the frames carry no number.  So
the reader is assumed to have dealt with what it was sent when a call begins and
when a command is sent (`inbox = <<>>` in `Called` and in `SendCmd`).

### 3.8 ATR and resets

A byte of an ATR is its name (`<<"A", 3>>` is TA3), what it announces, and its
low half.  `GetATR` and `ProcessATR` walk over such bytes by index as the code
does; `Meaning` is ISO 7816-3.  So a parameter taken from a wrong place is one
with another name.  `CharReaders` has the trials for the convention: six for
Dumb Mouse and Easycheck, which turn the port over after each (`NoTS`), twelve
for Towitoko, six with each parity.  A byte sent with the other parity may be
lost or come through, because `sio.c:1000` sets `INPCK` in the wrong word; a byte
that comes through spoilt is not modelled.  A Towitoko that does not answer
`SetParity` may have obeyed or not (`"mute"`, `"deaf"`).

## 4. The runs

Deadlock is checked except where noted.  Sizes are distinct states.

| Run | States | Question |
|---|---|---|
| `t1_line` | 186,028 | T=1 over a bad line: whole commands, own answers, numbers in step, blocks fit the card, response fits the buffer |
| `t1_late` | 168,536 | late answers: once only, every call ends, one fault is made good, `CommandChannel` is implemented |
| `t1_ifs` | violation | `more` and `sendptr` agree |
| `t0_write` | 171,528 | all four cases with 6C, 61, ACK, ~ACK, NULL: answer, Le, APDU, `CommandChannel` |
| `t0_rough` | 64,497 | silent cards, endless NULLs, 61 to case 2, repetition: command bytes arrive once, calls end |
| `ctapi_share` | 215,430 | three readers, one library that may lack functions, failures, detection at any time |
| `ctapi_detect` | violation | a detection unloads the library while the counter is not 0 |
| `speed_switch` | 1,406 | every option, every answer to PTS, T=0 and T=1 |
| `cards_session` | 163,419 | every function of every driver with every length at a limit: the lengths agree, buffers hold, answers are given as told, protected commands are checked, keys agree |
| `basiccard_session` | 71,996 | enciphered sessions in four modes over T=0 and T=1, with losses: nothing is reported as done that was not, host and card stay in step |
| `readers_exchange` | 158,878 | resets, status and APDUs through six readers with lost, cut, spoilt and late answers, spoilt and lost commands: own answer, one run |
| `readers_reset` | 518,162 | two resets, of any two cards, through three readers: the convention is right everywhere, the ATR is understood |

### 4.1 Bounds

| Bound | Value | Code | Why it is enough |
|---|---|---|---|
| `CmdLens`, `DefaultIfsc`, `AtrIfsc` | 3 and 2 bytes, 2 | up to 261, 32 | one command chained, one not; a block full and one not |
| `CardBlock`, `RspLens` | 2; 1, 2, 4, 7 | up to 254, 258 | too short, one block, chained, too long |
| `MaxRsp` | 4 | 258 | a chain of the card reaches the bound and passes it |
| `Retries`, `IfsdErrors` | 3, 2 | the same | the code's values |
| `MaxFaults` | 4 in `t1_line`, 2 in `t1_late`, 1 in `t1_ifs` | none | one more than `Retries` exhausts a counter; two allow repetition of a repetition with late answers |
| `MaxLate` | 1 | none | one answer behind is the case the numbers have to sort out |
| `MaxRequests` | 1 per reset | none | an S-request in every place of the exchange; `CountWtx = FALSE` leaves the WTX requests of `t1_late` unbounded |
| `MaxWtx` | 1 (200 in `t1_ifs`) | 200 | exceeded by the second request |
| `MaxLe` | 4 | 256 | Le below, at and above what the card has |
| `MaxNulls`, `MaxCardNulls` | 2, 3 | 50, none | one more than allowed; `MaxCardNulls` only with `scWaitReq` |
| `CtnMod`, `MaxInits` | 8; 6 and 4 | 2^16, none | no terminal number is given twice, see 7 |
| `Lens` of the drivers | -1, 0, and the values next to every limit of a function and to 256 | any `int` | the lengths are piecewise linear in the argument and wrap at 256; each piece has its ends |
| `Sw2s`, `Keys` | {0, 16}, 3 | 0..255, any | nothing and something announced; a key neither side has, beside two that differ |
| `Lens`, `KeyIds`, `MaxMsgs` of the BasicCard | {0, 1, 247, 252, 255, 256}, 2, 6 | any | a command that just fits after enciphering and one that does not, for either overhead; three exchanges after the first loss |
| `Shapes` | lengths 0, 1, 248, 249, 252, 253, 255; classes 00, A0 | 0..255 | below and above the short form of the ACR20 and the buffers of GCR400 and GPR400 |
| `MaxC`, `MaxR` | 248 | reported by the ACR20 | the reader's value |
| `MaxCalls`, `MaxFaults` | 2, 3 | none | the answer of one call in the other; three faults exhaust every repetition that has a limit |
| `Cards`, `MaxAtr`, `MaxResets` | ATRs of one to four groups, 2 to 33 bytes; 32; 2 | the code's 32 | a card after another one, which left its parameters; an ATR one byte too long |
| `MaxFailures` | 2 (0 in `ctapi_detect`) | none | a failure in one reader and in the next |
| `Exports` | two libraries with any number of functions up to the first that is missing, the third with all; one library absent | any | what comes after the first missing function is not looked at; `SC_CTAPI_LIB` is one of the two |

`Readers` of the CT-API runs is a symmetry set: no action and no property tells
readers apart.  Four runs have `CHECK_DEADLOCK FALSE`, because the model has
nothing left to do: the two CT-API runs after `MaxInits` calls of Init with all
readers shut down, or where every call would end the process, `readers_exchange`
after `MaxCalls` calls, and `readers_reset` after `MaxResets` resets.

### 4.2 Discipline and history variables

`clean` is true while no call has failed since the reset.  The properties of the
sessions are about clean sessions because the code does not resynchronise: a
failed `scT1SendCmd` leaves N(S) and N(R) as they are, and the programs reset
the card.  `serial`, `executed`, `gave`, `wantLe`, `inits`, `failures`,
`detected` are history: no action of the code's modules depends on the value of
the last five but for a bound.  `ResetsAfterError` and `Identifies` choose the
application that resets and has the ATR evaluated; all runs set both.  `AppReset`
is allowed at any time between two commands.

### 4.3 Fairness

`FairSpec` of both sessions has weak fairness of `HostReceives`, `HostTimeout`
and `CardMoves`.  The host's program is a loop that runs when bytes are there;
its reads end after the waiting time; a card that has a command goes on.  Nothing
is assumed of the application (it may stop) nor of line faults (they need not
happen).  The card is not assumed to come to an end: in `t1_late` it may ask for
more time for ever, in `t0_rough` it may send NULL for ever.  `CommandEnds` and
`CallEnds` therefore rest on the limits of the code.  With an `scWaitReq`
that always agrees there is no such limit, and none is claimed.

### 4.4 What the less obvious properties say

* `ExecutesWholeCommands`, `ExecutesOnce`: no beginning, end or splice of
  commands is executed, and no command twice, however blocks are repeated.
* `InStepWhenIdle`: between commands N(S) of the host is what the card expects
  and the other way round; a card whose last block awaits its acknowledgement
  counts as one ahead.
* `BlockIsWindow`: the block the host waits for an answer to is the stretch of
  the command from `sendptr - sendlen` to `sendptr`; that makes repetition right
  although `sendptr` goes forward before it is known that the block arrived.
* `AdvancesOnlyWhenTaken`: N(S) turns only when the card has the block.
* `OneFaultMadeGood`: the four counters do not end a command for one fault.
  A card that asks for more time than it is given is excepted.
* `OkIsOwnAnswer` (T=0): success returns what the card gave for this command,
  cut to Le, with the status word the card sent last, in whatever portions.
* `OpenReadersServed`: pointers, handle and terminal of an open reader stay
  valid whatever the other readers do and however their calls fail, until a
  detection begins while the driver holds the library.
* `OnlyDetectUnloadsCounted`: Inits, Shutdowns and failures in any order never
  unload the library before the counter is back at 0; a detection alone does.
* `NeverHalfWay`: no card is switched to a rate that the reader then refuses.

* `CommandsAccepted`: no driver function sends a command whose case, P3 and
  length contradict each other, but for those `Misbuilt` lists.
* `FollowIsFresh`: GET RESPONSE never asks for what an earlier answer announced.
* `HostKeyIsCards`, `StaysInStep`: what a lost message may do to a session, and
  that nothing else does it.
* `ProtectedIsChecked`, `OkIsRun`: a command whose answer was verified was run
  by a card with the host's key, and the checksum covered all of it.
* `OkIsOwnAnswer` (readers): no answer is accepted that was late, repeated by
  the reader or asked for again from an earlier command.
* `RunsApduOnce`: repetition does not run an APDU twice, but for the one
  repetition of the ACR20 after a two byte answer; and no recoding changes Lc,
  Le or length.
* `ConventionAgrees`: port, reader and `ci->direct` have the convention of the
  card after every reset that succeeded, whatever was lost on the way.
* `AtrUnderstood`: the parameters are those of this card, none is left from the
  card before, and a good ATR is refused in the listed cases only.

## 5. Disagreements found

Two runs end with a counterexample: a comment says one thing, the code does
another.  `findings` quotes both.

1. `t1_ifs` (`sct1.c:549`): a card that lowers its IFSC and then asks for the
   last I-block again gets a shorter block without the M-bit, since `more` is
   never set back to TRUE.  The command is cut short.
2. `ctapi_detect` (`scctapi.c:304`): failing turns of the detection close a
   library and keep its handle, which the next turn closes again; when a reader
   is open it loses its library while the counter is not 0.  No reader need be
   open: an Init that fails at 143 or 151 leaves the handle set and the counter
   at 1.  A detection then overwrites the pointers (287-291) and closes the
   library twice, and the next Init skips the loading (103) and works with what
   was left.

The passing runs of T=1 leave the first out by `IfsAnyTime`.  `ctapi_share` has
detections at any time; two of its properties say what holds until one begins
while the library is held (`detected`), the other two hold throughout.  Other
weak places were met while modelling.  They contradict nothing the repository
says of itself, or are named as exceptions in the properties:

* T=0, behind ACK (`sct0.c:97`): data and status word are read in one block.  A
  NULL between them is taken for SW1 (`NullBeforeStatus`), and a block that stops
  short is passed on with SC_EXIT_OK (`Stalls`).
* T=0 (`sct0.c:252`): a case 4 APDU whose exchange fails keeps its Le stripped;
  sent again it gets more than asked for (`Again`).  61 00 fetches nothing
  (327), a case 2 answer fetched after 61 is not cut to Le (316), `ci->sw` stays
  at 61xx after GET RESPONSE (322).
* `readers/scdumbmouse.c:570`: a reset brings the line to 9600 and leaves `etu`
  at that of the higher speed, so waiting times are too short until the next
  change (`EtuOfLine` of `Speed`).
* ATR (`AtrUnderstood`): an ATR without historical bytes and TCK is refused, for
  it seems to end too early (`EndsEarly`, `scsmartcard.c:438`); the sum of a T=1
  card with a TD3 is taken over one byte too few (`ThirdTD`); the third group is
  taken for one about T=1 whatever TD2 says (`OtherGroup`).  Each is needed.
* CT-API (`scctapi.c:107`): a library without one of the functions leaves the
  handle set after the failure, and the next Init calls through the pointers it
  has, a NULL one among them (`InitPartial`; `OpenReadersServed` excepts it).
* Card drivers (`Misbuilt`): commands with lengths no reader takes, among them
  Seek and Envelope of the GSM driver, CreateFile and ExtAuth of the MFC, Install
  of the Smart Cafe, UpdRecCrycks of the GPK from 253 bytes on.  `Overlong`:
  commands longer than their buffer (TCOS, Smart Cafe, GPK).  Two GPK functions
  tell another length than they give (`scgpk4000.c:2417`, 2469).  Two Smart Cafe
  functions do not clear `ci->sw`.
* BasicCard (`Unsendable`): in the modes that check, commands without Le go out
  as case 4 without Le, which T=1 does not allow, and with `LFSR CRC` 252 to 255
  bytes of data wrap Lc.  The cipher has then moved on, and the session is lost.
  A command of 259 or 260 bytes (254 or 255 of data) moreover grows in that mode
  beyond `ba[262]` of `scBasiccardEncrCAPDU` (`scbasiccard.c:147`, 218-252) and
  the caller's `cmd[262]`; the model (`Reject`) has it refused for its lengths and
  says nothing of what was written there, on which no property depends.
* ACR20: Commands of 254 bytes that get an Lc
  or Le have the length byte FF, the mark of the long form (618, 634).  Case 3
  commands of more than 254 bytes get no Le, although a comment (541) wants both.
  The last data byte of a T=0 case 4 command is taken for its Le (569).
* Intertex: the test for BAD_FORMAT and LRC_ERROR looks at a byte that is always
  STX, so only the reader's checksum failure is asked for again, by a recursion
  without limit (`scintertex.c:539`); `scIntertexT0` leaves `cmdlen` of a case 1
  APDU at 5.
* Bluedot: the class byte is taken for Lc (`scbluedot.c:276`).  GPR400: T=1 calls
  the T=1 protocol over a reader without `scWriteBuffer`.

The states behind the first three can be seen by setting the constants named to
TRUE in a configuration, or by naming `EtuOfLine` as an invariant of `Speed`.

## 6. The proofs

All eight proof modules follow one line: an inductive invariant, a lemma that
`Init` implies it, one lemma per action or family of actions that the step keeps
it, a lemma that joins them over `[Next]_vars`, and temporal reasoning at the end,
one theorem per property.

**T1_proofs.**  All the invariants of `T1Link`, its action properties and the
safety part of `ImplementsChannel`, for any number and length of commands, block
sizes, faults, late answers and S-requests, any `Retries`, `MaxRsp >= 2` and
`MaxWtx`; what more a theorem assumes is among its hypotheses.

*The reader alone.*  `TypesHold`, `BufferHolds` and `WindowHolds` give `TypeOK`,
`ResponseFitsBuffer` and `BlockIsWindow`.  `TypeOK` alone is not inductive:
that `sendptr - sendlen` stays a natural number needs `BlockIsWindow`, and this
needs `Fresh`, which says that before the loop the locals are as declared; the
M-bit and the window of the first block follow from it.  The buffer bound uses
only the comparison at line 589.  The reader's lemmas assume nothing of the card
but that blocks are blocks, so they hold whatever the card sends.

*Both ends.*  `Synced` is what holds until a command fails (`clean`).  As in the
alternating-bit protocol it says which blocks may be on each line and in which
order, by `Avoids(q, A)`, no block of A is in q, and `Precede(q, A, B)`, in q
none of A comes behind one of B; both survive loss, and a repetition or a late
answer only adds what the line may have anyway.  In each direction one block may
be pending: the reader's while the card's number is still the one it carries,
the card's while `cns = nr`.  To this come what a repetition of the card would
repeat, also while it holds its answer behind an S-request; how much of the
command the card has (`Sending`); how much of the response the reader has
(`Responding`); and of which commands the executed ones and the answer are
(`History`).  `WholeCommandsRun`, `CommandsRunOnce`, `OkHasOwnAnswer` and
`IdleInStep` follow.  The hypothesis is `~IfsAnyTime`: the card asks for another
IFSC only when it has the whole command.  Without it they are false (`t1_ifs`).

`MoreSaysUnsent` and `KeepsChannel` also hold where a command has failed, if the
application then resets the card (`ResetsAfterError`).  For the second, `Leftover` says
that what is on the way after a failure can complete the failed command and no
other.  `KeepsChannel` is the safety part of `ImplementsChannel`: initial states
map to initial states, steps to steps or stutters.

*One block on the way.*  As long as no answer was late there is at most one block
on both lines together (`Alone`), and this gives three properties that late
answers break.  `BlocksFit`: the lengths of reader and card agree, but for the
time an S(IFS request) or its answer is on the way (`Fits`); with `Identifies`,
since without the ATR the card's IFSC may be less than 32.  `AdvancesWhenTaken`:
the card never asks again for the block it has taken, nor sends an I-block the
reader has read (`TakesNew`).  `SingleFaultMadeGood`: `MadeGood` follows the one
fault.  It is on the line (`Spoiled`), then the reader has asked for the block
(`Asked`), then the card has asked at most once itself, maybe held back by a WTX
request; no counter of errors is above the number of faults.  `Retries >= 2` is
used, because the R-block that ends the repair is counted like those that ask.
`Bearable` are the other hypotheses: a card that does not abort, answers of 2 to
`MaxRsp` bytes.  TLC checked each of these invariants before its proof.

**Ctapi_proofs.**  `ReadersServed`, `CounterCovers`, `LoadedWhileCounted` and
`NothingLeftLoaded`, under `NumbersLast`: fewer Inits than terminal numbers
(2^16).  Detections come at any time; where one can do harm the property itself
says so (`detected`).  The invariant adds that the counter is 0 without a library
and exact until a call fails (`Counted`); that the library of the handle is
loaded, and all three pointers are of it if it exports the functions, until a
detection begins, and that a detection closes at least as often as it opens, so
what is loaded is loaded by Init (`InUse`); and that the numbers of open readers
are distinct and below the next to be given (`Numbered`).  Any number of readers,
libraries and failures, and any functions missing in any of the libraries.

**Speed_proofs.**  `RatesAgree`, `WaitCovers` and `NotHalfWay`, for all tables
with 372/1 at 9600 first and all values of WI, provided the reader driver's
`scSetSpeed` accepts every rate of its own table (`ReaderTakesItsTable`, as the
tables of `scdumbmouse.c` do).  The invariant `CardFollows` carries the
agreement through the two half steps: while the PTS answer is awaited the card
is at the old rate, the new one or without power, and with the right answer on
the line it is not at the old one.  `Waiting` ties `wwt` to D and WI.

**T0_proofs.**  `ApduAlwaysGivenBack`, for any commands and any card, with
`Again` FALSE.  Nothing is used of the card or the line: `LeAccounted` says that
while the command itself is exchanged the Le byte is in the APDU or noted in
`striped`, and in the APDU from then on, through 6C and GET RESPONSE.  The lemmas
follow the nesting of the code: how a TPDU ends, what follows each of the three
stages, and the reads, which leave the APDU alone.

Everything else relates the two ends and rests on `LinkInv`.  T=0 has no frames:
what a byte means depends on what was read before it, so the invariant says at
each read of `scT0SendCmd` what is on the line or still to come from the card.
It has three forms.  `Waiting`: the host awaits a procedure byte, and the line
begins with what the card says next or is empty with the card about to say it.
`Taking`: the host has seen ACK and reads as many bytes as the card has put
there, all in one, one byte, or all with the status word.  `Telling`: the host
has sent data and the card has stored exactly what `spointer` says.  To these
come the stage of the APDU (the command, its reissue after 6C, GET RESPONSE),
with what each knows of the answer: what the card has kept back, what was
fetched, and that the lengths add up.  TLC checked the invariant on instances of
up to 598000 states before it was proved.

The hypothesis is `Orderly`: the commands are APDUs of the four cases, and the card
does two things `scT0SendCmd` cannot do without, no NULL between the data it has
announced and the status word (they are one read, line 97) and no silence there.
`CommandReachesCard`, `TypesStay` and `KeepsChannel` need no more; the last is
the safety part of `ImplementsChannel`, initial states to initial states and
steps to steps or stutters.  `AnswerIsFetched` also needs `MaxLe \notin RspLens`,
because 61 00 announces 256 bytes and the code fetches none.
`OkCarriesOwnAnswer` and `AnswerFitsLe` need `~Case2Fetch`, the finding on line
316, and `~Again`, because a failed call may have lost the Le byte of the APDU
that is sent again.  Commands, lengths, portions, the number of NULLs and what the
data look like are any.

**CardSession_proofs.**  `HostKeyFollowsCards`, for any lengths, keys and
commands: it uses nothing of the commands, so it holds of those added later.  The
lemmas show that every way `ci` is changed leaves the key alone (`SameKey`), but
for `NewKey` and the reset.

`CommandsAlwaysAccepted`, `AlwaysBuiltInBuffer`, `ToldIsAlwaysGiven`,
`ProtectedIsAlwaysChecked` and `FollowIsAlwaysFresh` do use the commands, all
some 300 of them.  `Sound` says what the session needs of one command that is
sent: its three numbers agree unless it is in `Misbuilt`, it fits the buffer it
is built in unless it is in `Overlong`, the answers that are cut or checked are
treated as they must be.  One lemma a driver shows it for every length a caller
may give, by unfolding the command; the arithmetic is Lc and `cmdlen` against
the case and the room of the buffer.  With it `SessionInv` is inductive, because a call
replaces all that was known of the one before; only `FollowIsFresh` looks
further back.  For this `Fresh` says that `ci->sw` holds what the card announced
last or nothing, but while a function fetches by itself and in the drivers whose
functions do not clear it.  Assumed is only that lengths are in -1..256 and
status bytes in 0..255.

**BasiccardSession_proofs.**  `OkIsAlwaysRun`, `SessionsAlwaysAgree`,
`AlwaysStaysInStep`, for any lengths and keys and sessions without a bound on
messages.  The first two rest on `SessionsAgree`.  The third needs two facts
more: in step, both sides are equal and a message moves them equally
(`BothHandle`); and `scBasiccardEncrCAPDU` turns every command of the driver that
passes its check of the length into one that the readers accept, but for
`Unsendable` (`EncipheredAccepted`), which is arithmetic of Lc modulo 256 against
the limit of each mode.

**CommandReaders_proofs.**  `OkIsAlwaysOwnAnswer`, for any APDUs, calls and
faults, without a hypothesis: commands, NAKs and answers may all be lost.  The
invariant: while an answer is awaited everything on the line in either direction
is of this step, and so is what the reader would repeat if it were asked
(`LastInStep`): the drivers ask only after something has arrived, and that was
the answer to this step.  `ApduRun` adds that a whole answer to an APDU means that the
card ran it.

`ApduRunsOnce` has no hypothesis, so commands may be lost.  Counting alone is not
inductive: what counts is that a run is spent when the command is put on the
line, that the commands there that the card would run, the run to come and those
it has run are together one, and that a repetition is never of the APDU but of
the answer (`ApduAlone`, `Counted`).  `HandedOver` and `RanAsFramed` say that the
frame on the line, and what the card has run, are the APDU of the program with
its Lc and Le.

**CharReaders_proofs.**  `ConventionAlwaysAgrees`, for any cards and resets.  The
invariant says at each stage of a reset which of the places that know the
convention are already right.

`AtrAlwaysUnderstood`, for any `WellFormed` ATR: any number of groups, of which all
but the last have a TDi, and protocols in ascending order, as ISO 7816-3 has it.
(`GetATR` needs the order: it expects TCK if the *last* protocol named is not
T=0, the card sends it if any is.)  The invariant of the reset is small
(`AtrInv`); the work is in what the functions return.  `UpTo` and `GroupsFrom`
are recursive, and the library's theorems about such functions take an operator,
which no prover here can instantiate.  That every non-empty set of naturals has a
least element takes none (`LeastOf`, `AllNumbers`), and with it both functions
are shown to exist and to be what their definitions say (`UpToSteps`,
`GroupsFromSteps`), and the place of every byte that announces a group is found
(`Places`, `Announcing`).  `GetATRRight` then goes from group to group: what it
returns is the whole ATR, or an error, and "too long" only if the ATR is.
`ProcessRight` does the same for the first three groups, with the exceptions of
section 5.

**Only model-checked.**  `CommandEnds` and `CallEnds` are liveness, which is
outside the provers' reach, as is ENABLED and with it the fairness in
`CommandChannel`.  Every invariant and every action property that a run checks is
stated by a theorem; those the code violates (section 5), under the hypothesis
that leaves the case out.  No module has a RECURSIVE operator.

## 7. What is left out, and what follows

* Redundancy codes and the length byte of T=1 are one flag (`Garbled`): an error
  the LRC does not see is not modelled.  The parity of T=0 is not either.
* The time of day: a read ends or it does not.  The waiting times themselves
  appear in `Speed` only.
* Extended APDUs, which both protocols refuse.
* `malloc` failures in the protocols: they return before anything has changed.
* After a failed command nothing is promised until the reset, see 4.2.
* The wrap of the CT-API terminal number after 2^16 Inits: after it a number may
  belong to an open reader.
* In `Speed`, GPK cards, which are switched by a command, and GSM cards, which
  skip the PTS when the ATR names the rate.
* The CT-API `SendAPDU` and Bcs commands: they pass data to the library.
* Card drivers: the contents of commands and answers, cryptography, and functions
  that compute without sending (`PackStr`, `GenDivKey`, ...).  A driver's `Init`,
  `GetCap`, `GetCardData` and `SetFD` are in `Speed` and `CharReaders` where they
  matter, as what they set.
* Readers: `Init` and `Shutdown`, which open and close a port, options and LEDs.
  Towitoko's `SetBaud`.  A reader with T=1 left to the host has the T=1 of
  `T1Link`.
* Starcos is a stub without a command.
* Applications, `sio`, `slog`, ports, tests: see `components` for the reason of
  each.

## 8. State of the plan

Done, in this order: T=1 with its card and session; `CommandChannel`; T=0; the
CT-API library; the change of speed; their first proofs; the card drivers and
`CardSession`; BasicCard; the command readers; ATR and the resets of the
character readers; a proof module for each.

Left, to model:

1. `Ctapi` with `SendAPDU` and the Bcs commands: APDU given back, `cse` of a
   case 4 command (`scctapi.c:1011`), buffers returned.
2. `Speed` for GPK and GSM cards.
3. `Session`: reset, ATR, speed and protocol together, with the parameters that
   one hands to the other.

Left, to prove: a measure that the steps of a command lower, which is what of
`CommandEnds` and `CallEnds` the provers can reach; then the theorems for what of
the list above gets modelled.
