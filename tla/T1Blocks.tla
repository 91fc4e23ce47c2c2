------------------------------- MODULE T1Blocks -------------------------------
(***************************************************************************)
(* The blocks of the T=1 protocol, as scez/sct1.c builds and inspects      *)
(* them: scT1IBlock, scT1RBlock, scT1SBlock, scT1GetN, scT1CheckRc.        *)
(*                                                                         *)
(* A block is a record.  Its prologue and information field are kept as    *)
(* far as sct1.c looks at them; a block whose length or redundancy code    *)
(* does not check is the single value Garbled, because after scT1CheckRc   *)
(* has failed nothing else in it is read.  The error code of an R-block    *)
(* (R_OK, R_EDC_ERROR, R_OTHER_ERROR) is left out: the answer to an        *)
(* R-block depends on N(R) alone, on both sides.                           *)
(***************************************************************************)
EXTENDS Integers, Sequences

CONSTANT Byte        \* the bytes of commands and of responses

(* The serial line: the blocks written in either direction and not yet     *)
(* read at the other end.                                                  *)
VARIABLES toCard, toHost

lineVars == <<toCard, toHost>>

RequestTypes  == {"IFSreq", "ABORTreq", "WTXreq"}
ResponseTypes == {"IFSrsp", "ABORTrsp", "WTXrsp"}
STypes == RequestTypes \cup ResponseTypes

(* n is N(S) of an I-block, N(R) of an R-block, the parameter byte of an   *)
(* S-block; "more" is the M-bit.                                           *)
Block == [type : {"I", "R", "bad"} \cup STypes, n : Nat, more : BOOLEAN,
          data : Seq(Byte)]

IBlock(n, more, data) == [type |-> "I", n |-> n, more |-> more, data |-> data]
RBlock(n) == [type |-> "R", n |-> n, more |-> FALSE, data |-> << >>]
SBlock(type, param) ==
    [type |-> type, n |-> param, more |-> FALSE, data |-> << >>]
Garbled == [type |-> "bad", n |-> 0, more |-> FALSE, data |-> << >>]

(* The redundancy code and the length byte agree with what was read.       *)
CheckRc(b) == b.type # "bad"

(* N(R) or N(S); 0 for an S-block, as in the code.                         *)
GetN(b) == IF b.type \in {"I", "R"} THEN b.n ELSE 0

GetParam(b) == b.n                            \* rblock[3] of an S-block

FlipNoWrap(bit) == bit + 1                    \* slip: a counter, not a bit
Flip(bit) == 1 - bit                          \* t1->ns^=1, t1->nr^=1
===============================================================================
