--------------------------- MODULE MCWorkspaceView ---------------------------
(***************************************************************************)
(* The user, an owner and a third; a workspace with a public and a private *)
(* channel, and another with a private one.                                *)
(***************************************************************************)
EXTENDS WorkspaceView, TLC

CONSTANTS owner, other, w1, w2, p1, s1, s2

Offices == p1 :> w1 @@ s1 :> w1 @@ s2 :> w2

Staffed(mine, others) ==
    owner :> (IF mine = "OWNER" THEN "ADMIN" ELSE "OWNER") @@ Me :> mine @@ other :> others

Start(mine, others, also, channels, visible) ==
    [role |-> (w1 :> Staffed(mine, others) @@ w2 :> Staffed(also, "none")), channel |-> channels, visible |-> visible]

Starts ==
    {Start("GUEST", "none", "none", {p1, s1}, {s1}), Start("MEMBER", "MEMBER", "MEMBER", {p1, s1}, {s1}),
     Start("OWNER", "none", "MEMBER", {p1, s2}, {s2})}

Limit(changes, acts, faults, renewals, together) ==
    [changes |-> changes, acts |-> acts, faults |-> faults, renewals |-> renewals, fetches |-> together]

Scenarios ==
    {Limit(2, 0, 0, 0, 3), Limit(1, 1, 0, 0, 3), Limit(1, 0, 1, 0, 3), Limit(1, 0, 0, 1, 3), Limit(0, 1, 1, 1, 3)}
=============================================================================
