----------------------------- MODULE Ownership -----------------------------
(***************************************************************************)
(* What the governance routes promise about the ownership of a workspace,  *)
(* with the database, the requests and the channels hidden: an owner is    *)
(* made with the workspace, hands the workspace over, and may be lost; a   *)
(* workspace that has lost its owner never gets one again.                 *)
(***************************************************************************)
CONSTANT Users

VARIABLES
    phase,   \* "absent", "live" or "deleted"
    owners   \* the users whose membership row says OWNER

vars == <<phase, owners>>

TypeOK ==
    /\ phase \in {"absent", "live", "deleted"}
    /\ owners \in SUBSET Users

Init ==
    /\ phase = "absent"
    /\ owners = {}

Found(u) ==
    /\ phase = "absent"
    /\ phase' = "live"
    /\ owners' = {u}

Handover(u, v) ==
    /\ phase = "live"
    /\ owners = {u}
    /\ owners' = {v}
    /\ UNCHANGED phase

\* The code can lose the owner: see the run owner_locked.
Lose(u) ==
    /\ phase = "live"
    /\ owners = {u}
    /\ owners' = {}
    /\ UNCHANGED phase

Close ==
    /\ phase = "live"
    /\ phase' = "deleted"
    /\ owners' = {}

Next ==
    \/ \E u \in Users : Found(u) \/ Lose(u)
    \/ \E u, v \in Users : Handover(u, v)
    \/ Close

Spec == Init /\ [][Next]_vars
============================================================================
