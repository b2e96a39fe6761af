------------------------------ MODULE Delivery ------------------------------
(***************************************************************************)
(* What the message composer promises, with the connection, the queues and *)
(* the views hidden: only what was composed is stored and, because a retry *)
(* does not know what became of the first try, at most as often as it may  *)
(* be tried.                                                               *)
(***************************************************************************)
EXTENDS Naturals

CONSTANTS
    Msgs,
    Tries     \* how often each message may be tried

VARIABLES
    composed,   \* the messages the user has sent off
    copies      \* how many rows each has in the message table

vars == <<composed, copies>>

Init ==
    /\ composed = {}
    /\ copies = [m \in Msgs |-> 0]

Compose(m) ==
    /\ m \notin composed
    /\ composed' = composed \cup {m}
    /\ UNCHANGED copies

Store(m) ==
    /\ m \in composed
    /\ copies[m] < Tries[m]
    /\ copies' = [copies EXCEPT ![m] = @ + 1]
    /\ UNCHANGED composed

Next == \E m \in Msgs : Compose(m) \/ Store(m)

Spec == Init /\ [][Next]_vars
============================================================================
