------------------------ MODULE MCDirectConversation ------------------------
(***************************************************************************)
(* People with a browser are interchangeable, and so are those without.    *)
(* The bounds: answers and packets that overtake one another, with and     *)
(* without a fault; two messages; longer walks, one packet at a time; and *)
(* two faults on the way of one message.                                   *)
(***************************************************************************)
EXTENDS DirectConversation, TLC

Limit(selects, sends, faults, together) ==
    [selects |-> selects, sends |-> sends, faults |-> faults, packets |-> together, fetches |-> together]

Scenarios ==
    {Limit(2, 1, 0, 2), Limit(1, 1, 1, 2), Limit(1, 2, 0, 2),
     Limit(2, 2, 0, 1), Limit(0, 2, 1, 1), Limit(0, 1, 2, 1)}

Symmetric == Permutations(Active) \cup Permutations(Users \ Active)
=============================================================================
