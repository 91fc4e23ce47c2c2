---------------------------- MODULE CommandChannel ----------------------------
(***************************************************************************)
(* What a caller of scReaderT1 may rely on.  Commands are numbered in the  *)
(* order in which they are sent.  A command is performed by the card at    *)
(* most once; if the call ends well, the command has been performed and    *)
(* the answer is the answer to it.  If the call ends badly the command may *)
(* or may not have been performed, it may even be performed later, and the *)
(* channel is of no use until the card is reset.                           *)
(***************************************************************************)
EXTENDS Naturals

VARIABLES
    state,        \* "ready", "busy" or "broken"
    sent,         \* number of the last command sent
    performed,    \* the commands the card has performed since the reset
    answer        \* number of the command the last call has answered, or 0

chanVars == <<state, sent, performed, answer>>

Init ==
    /\ state = "ready" /\ sent = 0 /\ performed = {} /\ answer = 0

Send ==
    /\ state = "ready"
    /\ state' = "busy"
    /\ sent' = sent + 1
    /\ answer' = 0
    /\ UNCHANGED performed

Perform ==
    /\ state \in {"busy", "broken"}
    /\ sent \notin performed
    /\ performed' = performed \cup {sent}
    /\ UNCHANGED <<state, sent, answer>>

Succeed ==
    /\ state = "busy"
    /\ sent \in performed
    /\ state' = "ready"
    /\ answer' = sent
    /\ UNCHANGED <<sent, performed>>

Fail ==
    /\ state = "busy"
    /\ state' = "broken"
    /\ UNCHANGED <<sent, performed, answer>>

(* A call that is turned down before anything is sent.                     *)
Refuse ==
    /\ state # "busy"
    /\ answer' = 0
    /\ UNCHANGED <<state, sent, performed>>

Reset ==
    /\ state # "busy"
    /\ state' = "ready"
    /\ performed' = {}
    /\ answer' = 0
    /\ UNCHANGED sent

ResetFails ==
    /\ state # "busy"
    /\ state' = "broken"
    /\ answer' = 0
    /\ UNCHANGED <<sent, performed>>

Next == Send \/ Perform \/ Succeed \/ Fail \/ Refuse \/ Reset \/ ResetFails

(* A call returns.                                                         *)
Spec == Init /\ [][Next]_chanVars /\ WF_chanVars(Succeed \/ Fail)
===============================================================================
