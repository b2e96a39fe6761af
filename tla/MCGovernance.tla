---------------------------- MODULE MCGovernance ----------------------------
(***************************************************************************)
(* An instance of Governance for the model checker, of which a behaviour   *)
(* keeps to a part: requests one at a time, among three users and a        *)
(* channel or two users and two channels, or two requests together among   *)
(* two users and a channel.                                                *)
(***************************************************************************)
EXTENDS Governance, Integers, FiniteSetsExt, TLC

VARIABLE part

Part(users, channels, requests) ==
    {[users |-> U, channels |-> C, requests |-> R] :
       U \in kSubset(users, Users), C \in kSubset(channels, Channels), R \in kSubset(requests, Requests)}

One == Part(3, 1, 1) \cup Part(2, 2, 1)
Two == Part(2, 1, 2)

Within(p) ==
    /\ \A u \in Users \ p.users : role[u] = "none"
    /\ \A c \in Channels \ p.channels : type[c] = "absent"
    /\ \A r \in Requests :
         req[r] # Idle =>
           /\ r \in p.requests
           /\ req[r].actor \in p.users
           /\ req[r].target \in p.users \cup {None}
           /\ req[r].channel \in p.channels \cup {None}

MCInit == Init /\ part \in One \cup Two

MCNext == Next /\ UNCHANGED part /\ Within(part)'

MCSpec == MCInit /\ [][MCNext]_<<vars, part>>

Alone == part \in One

\* Served one after the other, failures included, the operations never leave
\* a live workspace without its owner or a channel membership with a user who
\* is not a member of the workspace, and a demotion that is announced is
\* complete (transferWorkspaceOwnership 438-456, removeWorkspaceMember 506-515,
\* updateWorkspaceMemberRole 346-393).
AloneIsSound ==
    Alone => /\ LiveWorkspaceIsOwned
             /\ RowsBelongToMembers
             /\ AnnouncedDemotionIsComplete

\* Users, channel ids and request slots are interchangeable.
Symmetric ==
    Permutations(Users) \cup Permutations(Channels) \cup Permutations(Requests)

\* Enough to lose the owner.
RoleOps ==
    { "joinWorkspace", "updateWorkspaceMemberRole", "transferWorkspaceOwnership",
      "removeWorkspaceMember" }
============================================================================
