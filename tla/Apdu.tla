-------------------------------- MODULE Apdu --------------------------------
(***************************************************************************)
(* What a card driver of scez/cards hands to scReaderSendAPDU, and what it *)
(* does with the answer.  A driver function fills in one SC_APDU: its case *)
(* (cse), the fifth byte of the command (p3, cmd[4]: Lc or Le) and the     *)
(* number of bytes of the command (cmdlen), each set by a statement of its *)
(* own.  room is the size of the local buffer the command is built in.     *)
(* Class, instruction, parameters and data are left out.                   *)
(***************************************************************************)
EXTENDS Integers

(***************************************************************************)
(* What a function does with the answer, rsplen bytes that end with SW1    *)
(* SW2.  "status": anything but two bytes is BAD_SW; with the other kinds  *)
(* fewer than two are, and the bytes before the status word are            *)
(*   none    dropped,                                                      *)
(*   data    given to the caller with their number, if at most n,          *)
(*   exact   given to the caller if they are n, else an error,             *)
(*   proof   compared with what the driver computes, if at least n,        *)
(*   crycks  compared with the checksum the driver expects, if exactly n,  *)
(*   sealed  data and a checksum of n bytes over it, given if it fits,     *)
(*   key     used to derive the session key and check it, if exactly n,    *)
(*   either  given to the caller if none or n, else an error,              *)
(*   cut     given to the caller, at most n of them,                       *)
(*   lone    given to the caller if there is just one, else dropped,       *)
(*   half    two of them given as four, if they are four,                  *)
(*   short   all but two of them given, and their number as it was,        *)
(*   state   given to the caller if they are 1 or n, else an error,        *)
(*   fetch   dropped, as is every failure to get them: n bytes are fetched *)
(*           with GET RESPONSE in any case.                                *)
(***************************************************************************)
Answer(kind, n) == [kind |-> kind, bytes |-> n]
Status      == Answer("status", 0)
NoData      == Answer("none", 0)
Data        == Answer("data", 256)
DataUpTo(n) == Answer("data", n)
Exactly(n)  == Answer("exact", n)
Proof(n)    == Answer("proof", n)
Crycks(n)   == Answer("crycks", n)
Sealed(n)   == Answer("sealed", n)
Key(n)      == Answer("key", n)
Either(n)   == Answer("either", n)
Cut(n)      == Answer("cut", n)

Byte(n) == n % 256   \* & 0xFF, or stored in a BYTE

\* A command, sent only if guard holds; else the function refuses the call.
Cmd(guard, cse, p3, cmdlen, room, answer) ==
  [guard |-> guard, cse |-> cse, p3 |-> p3, cmdlen |-> cmdlen, room |-> room,
   answer |-> answer, secured |-> FALSE, clears |-> TRUE, follow |-> FALSE,
   sum |-> 0]

\* The same, refused too when no session key is set (ci->crypt.encrypt)
Secured(c) == [c EXCEPT !.secured = TRUE]

\* The same, by a function that does not begin with clearing ci->sw
KeepsSw(c) == [c EXCEPT !.clears = FALSE]

\* The same, with the length the last status word announced: ci->sw[1]
Follow(c) == [c EXCEPT !.follow = TRUE]

\* The same, with n bytes to be covered by the driver's checksum
Summing(c, n) == [c EXCEPT !.sum = n]

\* A command of constant shape, built in a buffer of its own length
Fixed(cse, p3, cmdlen, answer) == Cmd(TRUE, cse, p3, cmdlen, cmdlen, answer)

\* n bytes asked for, at most 256, and n bytes sent in a buffer for 256
Read(n)          == Cmd(n <= 256, 2, Byte(n), 5, 5, Data)
Write(n, answer) == Cmd(TRUE, 3, n, 5 + n, 261, answer)

(***************************************************************************)
(* scReaderCheckAPDU: t0 is whether the command goes out with T=0, where   *)
(* P3 is always there and Le of a case 4 command may be left out.          *)
(***************************************************************************)
Lengths(cse, p3, t0) ==
  CASE cse = 1 -> 4 .. (IF t0 THEN 5 ELSE 4)
    [] cse = 2 -> {5}
    [] cse = 3 -> {5 + p3}
    [] cse = 4 -> (IF t0 THEN 5 + p3 ELSE 6 + p3) .. 6 + p3
    [] OTHER   -> {}

(***************************************************************************)
(* What the function returns for n bytes before the status word, right     *)
(* when they are the proof, checksum or key the driver expects.  n = -1    *)
(* stands for an answer without a whole status word.                       *)
(***************************************************************************)
\* Mutant: an answer without a checksum passes for a good one.
WantsLess(a, n, right) == IF a.kind \in {"status", "crycks"} THEN n = 0 ELSE TRUE
Wants(a, n, right) ==
  CASE a.kind = "status"            -> n = 0
    [] a.kind = "data"              -> n <= a.bytes
    [] a.kind = "exact"             -> n = a.bytes
    [] a.kind = "state"             -> n \in {1, a.bytes}
    [] a.kind = "either"            -> n \in {0, a.bytes}
    [] a.kind \in {"proof", "sealed"} -> n >= a.bytes /\ right
    [] a.kind \in {"crycks", "key"} -> n = a.bytes /\ right
    [] OTHER                        -> TRUE

Complaint(a) ==
  CASE a.kind = "status" -> "BAD_SW"
    [] a.kind = "data"   -> "RSP_TOO_LONG"
    [] a.kind \in {"exact", "either", "state"} -> "UNKNOWN_ERROR"
    [] OTHER             -> "BAD_CHECKSUM"

Result(a, n, right) ==
  IF a.kind = "fetch" THEN "FETCH"     \* not the end of the function
  ELSE IF n < 0 THEN "BAD_SW"
  ELSE IF Wants(a, n, right) THEN "OK"
  ELSE Complaint(a)

\* ci->sw is set from the answer, except by the functions that want no data
\* and got some.
SetsSw(a, n) == n = 0 \/ (n > 0 /\ a.kind # "status")

\* Bytes given to the caller of a call that returned OK, and their number as
\* the caller is told it.
Given(a, n) ==
  CASE a.kind \in {"data", "exact", "either", "state"} -> n
    [] a.kind = "cut"    -> (IF n > a.bytes THEN a.bytes ELSE n)
    [] a.kind = "sealed" -> n - a.bytes
    [] a.kind = "lone"   -> (IF n = 1 THEN 1 ELSE 0)
    [] a.kind = "half"   -> (IF n = 4 THEN 2 ELSE 0)
    [] a.kind = "short"  -> n - 2
    [] OTHER             -> 0
\* Mutant: the number told is taken before the checksum is taken off.
ToldEarly(a, n) == IF a.kind = "lone" THEN 1 ELSE n
Told(a, n) ==
  CASE a.kind = "half"  -> (IF n = 4 THEN 4 ELSE 0)
    [] a.kind = "short" -> n
    [] OTHER            -> Given(a, n)

Accepted(c, t0) == c.cmdlen \in Lengths(c.cse, c.p3, t0)
=============================================================================
