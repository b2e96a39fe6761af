----------------------------- MODULE Governance -----------------------------
(***************************************************************************)
(* One workspace of the backend: its membership and channel tables, and    *)
(* the HTTP handlers and socket listeners that change them.                *)
(*                                                                         *)
(* The server is a single Node process, but every database call of a       *)
(* handler is an await: another request may run there.  A request is       *)
(* therefore a record that remembers where its handler stands, what it was *)
(* asked and what it has read, and each action is what a handler does      *)
(* between two awaits.  A lookup of an immutable fact (that a channel was  *)
(* created, its type) is merged with the read that follows it; a prisma    *)
(* $transaction is one step at its commit wherever its row locks make it   *)
(* so, and two where they do not (createChannel).  What slips between the  *)
(* two deletions of removeWorkspaceMember, or between the two lookups of a *)
(* transfer, could as well come after them, and is covered there.          *)
(*                                                                         *)
(* Requests end early in many ways (a 4xx answer, a unique or foreign key  *)
(* constraint, a lost database): all of them leave the tables as they are  *)
(* and are the one action Abort, always possible.                          *)
(***************************************************************************)
EXTENDS FiniteSets

CONSTANTS
    Users,
    Channels,    \* the ids channels may get, never reused
    Requests,    \* bound: how many requests are in flight together
    Operations,  \* the operations this instance serves
    None         \* "no user", "no channel"

AllOperations ==
    { "joinWorkspace", "deleteWorkspace", "updateWorkspaceMemberRole",
      "transferWorkspaceOwnership", "removeWorkspaceMember", "createChannel",
      "markChannelAsRead", "socketMarkChannelAsRead", "inviteToChannel",
      "leaveChannel", "deleteChannel", "setChannelMemberVisibility" }

ASSUME OperationsAssumption == Operations \subseteq AllOperations
ASSUME NoneAssumption == None \notin Users /\ None \notin Channels

VARIABLES
    workspace,  \* the Workspace row: "absent", "live", "deleted"
    role,       \* WorkspaceMember.role, "none" where there is no row
    type,       \* Channel.type, "absent" or "deleted" where there is no row
    access,     \* ChannelMember: "none" (no row), "visible", "hidden" (isHidden)
    req         \* the requests in flight

tables == <<workspace, role, type, access>>
vars == <<workspace, role, type, access, req>>

MemberRole == {"OWNER", "ADMIN", "MEMBER", "GUEST"}
ChannelType == {"PUBLIC", "PRIVATE"}
Visibility == {"visible", "hidden"}
Step == {"start", "check", "filter", "dedupe", "write", "list", "strip", "notify"}

Argument == MemberRole \cup ChannelType \cup Visibility \cup {"none"}

\* The payloads the handlers let through.
Fits(q) ==
    /\ q.op = "updateWorkspaceMemberRole" => q.arg \in {"ADMIN", "MEMBER", "GUEST"}
    /\ q.op = "transferWorkspaceOwnership" => q.target \in Users \ {q.actor}
    /\ q.op = "createChannel" => q.arg \in ChannelType
    /\ q.op = "setChannelMemberVisibility" => q.arg \in Visibility

\* What a request asked (op, actor, target, channel, arg), where it stands
\* (pc: the next thing its handler does) and the ids it has read (seen).
Request ==
    { q \in [ op : AllOperations, pc : Step, actor : Users,
              target : Users \cup {None}, channel : Channels \cup {None},
              arg : Argument, seen : (SUBSET Users) \cup (SUBSET Channels) ] : Fits(q) }

Idle == [op |-> "idle"]

TypeOK ==
    /\ workspace \in {"absent", "live", "deleted"}
    /\ role \in [Users -> MemberRole \cup {"none"}]
    /\ type \in [Channels -> ChannelType \cup {"absent", "deleted"}]
    /\ access \in [Channels -> [Users -> Visibility \cup {"none"}]]
    /\ req \in [Requests -> Request \cup {Idle}]

Init ==
    /\ workspace = "absent"
    /\ role = [u \in Users |-> "none"]
    /\ type = [c \in Channels |-> "absent"]
    /\ access = [c \in Channels |-> [u \in Users |-> "none"]]
    /\ req = [r \in Requests |-> Idle]

----------------------------------------------------------------------------
(* The permission matrix and the queries                                   *)

ROLE_PERMISSIONS ==
    [ OWNER  |-> { "VIEW_WORKSPACE", "CREATE_CHANNEL", "DELETE_CHANNEL", "INVITE_USERS",
                   "DELETE_WORKSPACE", "MANAGE_WORKSPACE", "MANAGE_MESSAGES", "CREATE_MESSAGE" },
      ADMIN  |-> { "VIEW_WORKSPACE", "CREATE_CHANNEL", "INVITE_USERS", "MANAGE_MESSAGES",
                   "CREATE_MESSAGE" },
      MEMBER |-> { "VIEW_WORKSPACE", "CREATE_CHANNEL", "CREATE_MESSAGE" },
      GUEST  |-> { "VIEW_WORKSPACE" } ]

authorizeRBAC(u, permission) ==
    /\ role[u] # "none"
    /\ permission \in ROLE_PERMISSIONS[role[u]]

Owners == {u \in Users : role[u] = "OWNER"}
IsMember(u) == role[u] # "none"
HasRow(c, u) == access[c][u] # "none"
Exists(c) == type[c] \in ChannelType

\* What getWorkspaceChannels answers to u.
getWorkspaceChannels(u) ==
    { c \in Channels :
        /\ Exists(c) /\ IsMember(u)
        /\ IF role[u] = "GUEST" \/ type[c] = "PRIVATE"
             THEN access[c][u] = "visible"
             ELSE access[c][u] # "hidden" }

----------------------------------------------------------------------------
(* The life of a request                                                   *)

\* Slot r takes up a request whose first checks have passed; next is pc.
BeginSeeing(r, op, pc, u, v, c, a, ids) ==
    /\ op \in Operations
    /\ req[r] = Idle
    /\ req' = [req EXCEPT ![r] =
                 [ op |-> op, pc |-> pc, actor |-> u, target |-> v,
                   channel |-> c, arg |-> a, seen |-> ids ]]

Begin(r, op, pc, u, v, c, a) == BeginSeeing(r, op, pc, u, v, c, a, {})

At(r, op, pc) ==
    /\ req[r] # Idle
    /\ req[r].op = op
    /\ req[r].pc = pc

Goto(r, pc) == req' = [req EXCEPT ![r].pc = pc]

See(r, pc, ids) == req' = [req EXCEPT ![r].pc = pc, ![r].seen = ids]

Done(r) == req' = [req EXCEPT ![r] = Idle]

\* An early return or the catch block.
Abort(r) ==
    /\ req[r] # Idle
    /\ Done(r)
    /\ UNCHANGED tables

\* The emits and the answer after a success.
Notify(r) ==
    /\ req[r] # Idle
    /\ req[r].pc = "notify"
    /\ Done(r)
    /\ UNCHANGED tables

----------------------------------------------------------------------------
(* Workspaces                                                              *)

createWorkspace(u) ==
    /\ workspace = "absent"
    /\ workspace' = "live"
    /\ role' = [role EXCEPT ![u] = "OWNER"]
    /\ UNCHANGED <<type, access, req>>

JoinLookup(r, u) ==
    /\ workspace = "live"
    /\ ~ IsMember(u)
    /\ Begin(r, "joinWorkspace", "write", u, None, None, "none")
    /\ UNCHANGED tables

\* Mutant: whoever joins a workspace without an owner becomes its owner.
JoinInsertAdopting(r) ==
    /\ At(r, "joinWorkspace", "write")
    /\ workspace = "live"
    /\ ~ IsMember(req[r].actor)
    /\ role' = [role EXCEPT ![req[r].actor] = IF Owners = {} THEN "OWNER" ELSE "MEMBER"]
    /\ Goto(r, "notify")
    /\ UNCHANGED <<workspace, type, access>>

\* The unique key on (userId, workspaceId) rejects a second row.
JoinInsert(r) ==
    /\ At(r, "joinWorkspace", "write")
    /\ workspace = "live"
    /\ ~ IsMember(req[r].actor)
    /\ role' = [role EXCEPT ![req[r].actor] = "MEMBER"]
    /\ Goto(r, "notify")
    /\ UNCHANGED <<workspace, type, access>>

joinWorkspace(r) == (\E u \in Users : JoinLookup(r, u)) \/ JoinInsert(r)

DeleteWorkspaceAuthorise(r, u) ==
    /\ authorizeRBAC(u, "DELETE_WORKSPACE")
    /\ Begin(r, "deleteWorkspace", "write", u, None, None, "none")
    /\ UNCHANGED tables

\* A channel being inserted holds a key lock on the workspace row: the
\* deletion waits for that transaction.
DeleteWorkspaceCommit(r) ==
    /\ At(r, "deleteWorkspace", "write")
    /\ workspace = "live"
    /\ \A q \in Requests : ~ At(q, "createChannel", "write")
    /\ workspace' = "deleted"
    /\ role' = [u \in Users |-> "none"]
    /\ type' = [c \in Channels |-> IF Exists(c) THEN "deleted" ELSE type[c]]
    /\ access' = [c \in Channels |-> [u \in Users |-> "none"]]
    /\ Goto(r, "notify")

deleteWorkspace(r) ==
    (\E u \in Users : DeleteWorkspaceAuthorise(r, u)) \/ DeleteWorkspaceCommit(r)

----------------------------------------------------------------------------
(* Roles                                                                   *)

UpdateRoleAuthorise(r, u, v, newRole) ==
    /\ authorizeRBAC(u, "MANAGE_WORKSPACE")
    /\ u # v
    /\ Begin(r, "updateWorkspaceMemberRole", "check", u, v, None, newRole)
    /\ UNCHANGED tables

UpdateRoleCheck(r) ==
    /\ At(r, "updateWorkspaceMemberRole", "check")
    /\ IsMember(req[r].target)
    /\ role[req[r].target] # "OWNER"
    /\ Goto(r, "write")
    /\ UNCHANGED tables

\* The update names the row by its key only: whatever role it holds by now.
UpdateRoleWrite(r) ==
    /\ At(r, "updateWorkspaceMemberRole", "write")
    /\ IsMember(req[r].target)
    /\ role' = [role EXCEPT ![req[r].target] = req[r].arg]
    /\ Goto(r, IF req[r].arg = "ADMIN" THEN "notify" ELSE "list")
    /\ UNCHANGED <<workspace, type, access>>

\* Mutant: a new GUEST keeps the public channels.
UpdateRoleListPrivate(r) ==
    LET revoked == {c \in Channels : Exists(c) /\ type[c] = "PRIVATE"}
    IN  /\ At(r, "updateWorkspaceMemberRole", "list")
        /\ See(r, IF revoked = {} THEN "notify" ELSE "strip", revoked)
        /\ UNCHANGED tables

\* A new GUEST loses every channel, a new MEMBER the private ones.
UpdateRoleList(r) ==
    LET revoked == { c \in Channels : /\ Exists(c)
                                      /\ req[r].arg = "MEMBER" => type[c] = "PRIVATE" }
    IN  /\ At(r, "updateWorkspaceMemberRole", "list")
        /\ See(r, IF revoked = {} THEN "notify" ELSE "strip", revoked)
        /\ UNCHANGED tables

UpdateRoleStrip(r) ==
    /\ At(r, "updateWorkspaceMemberRole", "strip")
    /\ access' = [c \in Channels |->
                    IF c \in req[r].seen
                      THEN [access[c] EXCEPT ![req[r].target] = "none"]
                      ELSE access[c]]
    /\ Goto(r, "notify")
    /\ UNCHANGED <<workspace, role, type>>

\* Mutant: the schema lets OWNER through.
updateWorkspaceMemberRoleAny(r) ==
    \/ \E u, v \in Users, newRole \in MemberRole : UpdateRoleAuthorise(r, u, v, newRole)
    \/ UpdateRoleCheck(r)
    \/ UpdateRoleWrite(r)
    \/ UpdateRoleList(r)
    \/ UpdateRoleStrip(r)

updateWorkspaceMemberRole(r) ==
    \/ \E u, v \in Users, newRole \in {"ADMIN", "MEMBER", "GUEST"} :
          UpdateRoleAuthorise(r, u, v, newRole)
    \/ UpdateRoleCheck(r)
    \/ UpdateRoleWrite(r)
    \/ UpdateRoleList(r)
    \/ UpdateRoleStrip(r)

TransferAuthorise(r, u, v) ==
    /\ authorizeRBAC(u, "MANAGE_WORKSPACE")
    /\ u # v
    /\ Begin(r, "transferWorkspaceOwnership", "check", u, v, None, "none")
    /\ UNCHANGED tables

TransferCheck(r) ==
    /\ At(r, "transferWorkspaceOwnership", "check")
    /\ role[req[r].actor] = "OWNER"
    /\ IsMember(req[r].target)
    /\ Goto(r, "write")
    /\ UNCHANGED tables

\* Mutant: the demotion is forgotten.
TransferCommitPromoting(r) ==
    /\ At(r, "transferWorkspaceOwnership", "write")
    /\ role[req[r].actor] = "OWNER"
    /\ IsMember(req[r].target)
    /\ role' = [role EXCEPT ![req[r].target] = "OWNER"]
    /\ Goto(r, "notify")
    /\ UNCHANGED <<workspace, type, access>>

\* Mutant: the promotion is an upsert.
TransferCommitUpserting(r) ==
    /\ At(r, "transferWorkspaceOwnership", "write")
    /\ role[req[r].actor] = "OWNER"
    /\ role' = [role EXCEPT ![req[r].actor] = "ADMIN", ![req[r].target] = "OWNER"]
    /\ Goto(r, "notify")
    /\ UNCHANGED <<workspace, type, access>>

\* Mutant: two updates outside a transaction, the second of which may fail.
TransferCommitTorn(r) ==
    /\ At(r, "transferWorkspaceOwnership", "write")
    /\ role[req[r].actor] = "OWNER"
    /\ \/ role' = [role EXCEPT ![req[r].actor] = "ADMIN"]
       \/ /\ IsMember(req[r].target)
          /\ role' = [role EXCEPT ![req[r].actor] = "ADMIN", ![req[r].target] = "OWNER"]
    /\ Goto(r, "notify")
    /\ UNCHANGED <<workspace, type, access>>

\* The demotion matches only a row that still says OWNER and holds it until
\* the commit; no match, or no row left to promote, rolls both back.
TransferCommit(r) ==
    /\ At(r, "transferWorkspaceOwnership", "write")
    /\ role[req[r].actor] = "OWNER"
    /\ IsMember(req[r].target)
    /\ role' = [role EXCEPT ![req[r].actor] = "ADMIN", ![req[r].target] = "OWNER"]
    /\ Goto(r, "notify")
    /\ UNCHANGED <<workspace, type, access>>

transferWorkspaceOwnership(r) ==
    \/ \E u, v \in Users : TransferAuthorise(r, u, v)
    \/ TransferCheck(r)
    \/ TransferCommit(r)

RemoveAuthorise(r, u, v) ==
    /\ authorizeRBAC(u, "MANAGE_WORKSPACE")
    /\ u # v
    /\ Begin(r, "removeWorkspaceMember", "check", u, v, None, "none")
    /\ UNCHANGED tables

RemoveCheck(r) ==
    /\ At(r, "removeWorkspaceMember", "check")
    /\ IsMember(req[r].target)
    /\ role[req[r].target] # "OWNER"
    /\ Goto(r, "write")
    /\ UNCHANGED tables

\* Mutant: the channel memberships are left behind.
RemoveCommitKeeping(r) ==
    /\ At(r, "removeWorkspaceMember", "write")
    /\ IsMember(req[r].target)
    /\ role' = [role EXCEPT ![req[r].target] = "none"]
    /\ Goto(r, "notify")
    /\ UNCHANGED <<workspace, type, access>>

RemoveCommit(r) ==
    /\ At(r, "removeWorkspaceMember", "write")
    /\ IsMember(req[r].target)
    /\ role' = [role EXCEPT ![req[r].target] = "none"]
    /\ access' = [c \in Channels |-> [access[c] EXCEPT ![req[r].target] = "none"]]
    /\ Goto(r, "notify")
    /\ UNCHANGED <<workspace, type>>

removeWorkspaceMember(r) ==
    \/ \E u, v \in Users : RemoveAuthorise(r, u, v)
    \/ RemoveCheck(r)
    \/ RemoveCommit(r)

----------------------------------------------------------------------------
(* Channels                                                                *)

\* A fresh id: no channel has it and no request is about to create it.
CreateChannelAuthorise(r, u, c, t) ==
    /\ authorizeRBAC(u, "CREATE_CHANNEL")
    /\ type[c] = "absent"
    /\ \A q \in Requests : req[q] # Idle => req[q].channel # c
    /\ Begin(r, "createChannel", "start", u, None, c, t)
    /\ UNCHANGED tables

\* The transaction inserts, and reads the owner of a private channel's
\* workspace; nothing keeps that owner in place until the commit.
CreateChannelInsert(r) ==
    /\ At(r, "createChannel", "start")
    /\ workspace = "live"
    /\ See(r, "write", IF req[r].arg = "PRIVATE" THEN Owners ELSE {})
    /\ UNCHANGED tables

CreateChannelCommit(r) ==
    LET c == req[r].channel
    IN  /\ At(r, "createChannel", "write")
        /\ type' = [type EXCEPT ![c] = req[r].arg]
        /\ access' = [access EXCEPT ![c] =
                        [u \in Users |-> IF u = req[r].actor \/ u \in req[r].seen
                                           THEN "visible" ELSE "none"]]
        /\ Goto(r, "notify")
        /\ UNCHANGED <<workspace, role>>

createChannel(r) ==
    \/ \E u \in Users, c \in Channels, t \in ChannelType : CreateChannelAuthorise(r, u, c, t)
    \/ CreateChannelInsert(r)
    \/ CreateChannelCommit(r)

\* The upserts set isHidden or only lastReadAt; a missing row is created
\* unhidden by the latter.  The foreign key demands the channel.
PutAccess(r, value) ==
    LET c == req[r].channel
        u == IF req[r].target = None THEN req[r].actor ELSE req[r].target
    IN  /\ Exists(c)
        /\ access' = [access EXCEPT ![c][u] = IF value = "keep"
                                                THEN IF @ = "none" THEN "visible" ELSE @
                                                ELSE value]
        /\ UNCHANGED <<workspace, role, type>>

\* The REST route reads the caller's role, then the explicit membership.
MarkReadLookup(r, u, c) ==
    /\ Exists(c)
    /\ IsMember(u)
    /\ Begin(r, "markChannelAsRead", "check", u, None, c, role[u])
    /\ UNCHANGED tables

MarkReadCheck(r) ==
    /\ At(r, "markChannelAsRead", "check")
    /\ \/ HasRow(req[r].channel, req[r].actor)
       \/ type[req[r].channel] # "PRIVATE" /\ req[r].arg # "GUEST"
    /\ Goto(r, "write")
    /\ UNCHANGED tables

\* Mutant: reading a channel brings it back.
MarkReadUpsertShowing(r) ==
    /\ At(r, "markChannelAsRead", "write")
    /\ PutAccess(r, "visible")
    /\ Done(r)

MarkReadUpsert(r) ==
    /\ At(r, "markChannelAsRead", "write")
    /\ PutAccess(r, "keep")
    /\ Done(r)

markChannelAsRead(r) ==
    \/ \E u \in Users, c \in Channels : MarkReadLookup(r, u, c)
    \/ MarkReadCheck(r)
    \/ MarkReadUpsert(r)

\* The socket listener asks canAccessChannel, which lets every member of the
\* workspace, a GUEST too, through to a public channel.
SocketMarkReadLookup(r, u, c) ==
    /\ Exists(c)
    /\ IsMember(u)
    /\ Begin(r, "socketMarkChannelAsRead",
             IF type[c] = "PRIVATE" THEN "check" ELSE "write", u, None, c, "none")
    /\ UNCHANGED tables

SocketMarkReadCheck(r) ==
    /\ At(r, "socketMarkChannelAsRead", "check")
    /\ HasRow(req[r].channel, req[r].actor)
    /\ Goto(r, "write")
    /\ UNCHANGED tables

SocketMarkReadUpsert(r) ==
    /\ At(r, "socketMarkChannelAsRead", "write")
    /\ PutAccess(r, "keep")
    /\ Done(r)

socketMarkChannelAsRead(r) ==
    \/ \E u \in Users, c \in Channels : SocketMarkReadLookup(r, u, c)
    \/ SocketMarkReadCheck(r)
    \/ SocketMarkReadUpsert(r)

\* One invited user stands for the list: the rows are independent.
InviteAuthorise(r, u, v, c) ==
    /\ Exists(c)
    /\ authorizeRBAC(u, "INVITE_USERS")
    /\ Begin(r, "inviteToChannel", "check", u, v, c, "none")
    /\ UNCHANGED tables

InviteCheck(r) ==
    /\ At(r, "inviteToChannel", "check")
    /\ HasRow(req[r].channel, req[r].actor)
    /\ Goto(r, "filter")
    /\ UNCHANGED tables

InviteFilter(r) ==
    /\ At(r, "inviteToChannel", "filter")
    /\ IsMember(req[r].target)
    /\ Goto(r, "dedupe")
    /\ UNCHANGED tables

InviteDedupe(r) ==
    /\ At(r, "inviteToChannel", "dedupe")
    /\ ~ HasRow(req[r].channel, req[r].target)
    /\ Goto(r, "write")
    /\ UNCHANGED tables

\* createMany with skipDuplicates leaves a row that appeared meanwhile alone.
InviteInsert(r) ==
    /\ At(r, "inviteToChannel", "write")
    /\ PutAccess(r, "keep")
    /\ Goto(r, "notify")

inviteToChannel(r) ==
    \/ \E u, v \in Users, c \in Channels : InviteAuthorise(r, u, v, c)
    \/ InviteCheck(r)
    \/ InviteFilter(r)
    \/ InviteDedupe(r)
    \/ InviteInsert(r)

LeaveLookup(r, u, c) ==
    /\ Exists(c)
    /\ IsMember(u)
    /\ Begin(r, "leaveChannel", "write", u, None, c, "none")
    /\ UNCHANGED tables

LeaveUpsert(r) ==
    /\ At(r, "leaveChannel", "write")
    /\ PutAccess(r, "hidden")
    /\ Goto(r, "notify")

leaveChannel(r) ==
    (\E u \in Users, c \in Channels : LeaveLookup(r, u, c)) \/ LeaveUpsert(r)

\* The members are read with the channel: the deletion is announced to them.
DeleteChannelLookup(r, u, c) ==
    /\ Exists(c)
    /\ BeginSeeing(r, "deleteChannel", "check", u, None, c, type[c],
                   {v \in Users : HasRow(c, v)})
    /\ UNCHANGED tables

DeleteChannelCheck(r) ==
    /\ At(r, "deleteChannel", "check")
    /\ role[req[r].actor] = "OWNER"
    /\ Goto(r, "write")
    /\ UNCHANGED tables

\* Mutant: the memberships do not go with the channel.
DeleteChannelCommitAlone(r) ==
    /\ At(r, "deleteChannel", "write")
    /\ Exists(req[r].channel)
    /\ type' = [type EXCEPT ![req[r].channel] = "deleted"]
    /\ Goto(r, "notify")
    /\ UNCHANGED <<workspace, role, access>>

DeleteChannelCommit(r) ==
    LET c == req[r].channel
    IN  /\ At(r, "deleteChannel", "write")
        /\ Exists(c)
        /\ type' = [type EXCEPT ![c] = "deleted"]
        /\ access' = [access EXCEPT ![c] = [u \in Users |-> "none"]]
        /\ Goto(r, "notify")
        /\ UNCHANGED <<workspace, role>>

deleteChannel(r) ==
    \/ \E u \in Users, c \in Channels : DeleteChannelLookup(r, u, c)
    \/ DeleteChannelCheck(r)
    \/ DeleteChannelCommit(r)

VisibilityLookup(r, u, v, c, value) ==
    /\ Exists(c)
    /\ role[u] = "OWNER"
    /\ u # v
    /\ Begin(r, "setChannelMemberVisibility", "check", u, v, c, value)
    /\ UNCHANGED tables

VisibilityCheck(r) ==
    /\ At(r, "setChannelMemberVisibility", "check")
    /\ IsMember(req[r].target)
    /\ Goto(r, "write")
    /\ UNCHANGED tables

VisibilityUpsert(r) ==
    /\ At(r, "setChannelMemberVisibility", "write")
    /\ PutAccess(r, req[r].arg)
    /\ Goto(r, "notify")

setChannelMemberVisibility(r) ==
    \/ \E u, v \in Users, c \in Channels, value \in Visibility :
          VisibilityLookup(r, u, v, c, value)
    \/ VisibilityCheck(r)
    \/ VisibilityUpsert(r)

----------------------------------------------------------------------------
Serve(r) ==
    \/ joinWorkspace(r) \/ deleteWorkspace(r) \/ updateWorkspaceMemberRole(r)
    \/ transferWorkspaceOwnership(r) \/ removeWorkspaceMember(r) \/ createChannel(r)
    \/ markChannelAsRead(r) \/ socketMarkChannelAsRead(r) \/ inviteToChannel(r)
    \/ leaveChannel(r) \/ deleteChannel(r) \/ setChannelMemberVisibility(r)

Next ==
    \/ \E u \in Users : createWorkspace(u)
    \/ \E r \in Requests : Serve(r) \/ Notify(r) \/ Abort(r)

Spec == Init /\ [][Next]_vars

----------------------------------------------------------------------------
(* Properties under any interleaving                                       *)

\* No interleaving of joins, role changes, removals and transfers leaves two
\* membership rows that say OWNER: a grant is always paired, in one
\* transaction, with a demotion that matched (workspaceController 439-456).
AtMostOneOwner == \A u, v \in Owners : u = v

\* Ownership follows the abstract specification: founded once, handed over
\* from the owner to one other member, possibly lost, and never found again.
O == INSTANCE Ownership WITH phase <- workspace, owners <- Owners
OwnershipSpec == O!Spec

\* The new owner is put in place by a request of the old one, who keeps a
\* membership as ADMIN; the new one was a member.
HandoverIsDeliberate ==
    [][ \A u, v \in Users :
          role[v] # "OWNER" /\ role'[v] = "OWNER" /\ role[u] = "OWNER" =>
            /\ role'[u] = "ADMIN"
            /\ role[v] # "none"
            /\ \E r \in Requests :
                 /\ At(r, "transferWorkspaceOwnership", "write")
                 /\ req[r].actor = u /\ req[r].target = v ]_vars

\* An upsert that was authorised before a channel was deleted leaves no
\* membership row of a channel that is gone (schema: ChannelMember.channel).
NoRowOutlivesItsChannel ==
    \A c \in Channels, u \in Users : HasRow(c, u) => Exists(c)

\* A channel somebody left or was hidden from comes back for them only when
\* the workspace's owner makes it visible, be it public or private: reading it
\* or being invited again does not (leaveChannel, markChannelAsRead,
\* createMany skipDuplicates).  The comment at channelController 319-320 has it
\* otherwise for public channels, and speaks of the channel's owner; the run
\* `rejoin` is about that.
OnlyTheOwnerUnhides ==
    [][ \A c \in Channels, u \in Users :
          access[c][u] = "hidden" /\ access'[c][u] = "visible" =>
            \E r \in Requests :
              At(r, "setChannelMemberVisibility", "write") /\ req[r].target = u ]_vars

----------------------------------------------------------------------------
(* Properties of one request at a time                                     *)

\* Served one after the other, failures included, the operations never leave
\* a live workspace without its owner.
LiveWorkspaceIsOwned == workspace = "live" => Owners # {}

\* Served one after the other, no operation leaves a channel membership with
\* a user who is not a member of the workspace.
RowsBelongToMembers ==
    \A c \in Channels, u \in Users : HasRow(c, u) => IsMember(u)

\* When a demotion is announced, the rows it reports revoked are gone, and a
\* new GUEST sees no channel at all.
AnnouncedDemotionIsComplete ==
    \A r \in Requests :
      At(r, "updateWorkspaceMemberRole", "notify") =>
        /\ \A c \in req[r].seen : ~ HasRow(c, req[r].target)
        /\ req[r].arg = "GUEST" => getWorkspaceChannels(req[r].target) = {}

----------------------------------------------------------------------------
(* What comments of the code say and interleavings refute                  *)

\* "System Lock: Workspace Owner's role cannot be modified", "System Lock: You
\* cannot kick the Workspace Owner": the row of the owner changes only with the
\* owner's own transfer, or goes with the workspace.
OwnerIsLocked ==
    [][ \A u \in Users :
          role[u] = "OWNER" /\ role'[u] # "OWNER" =>
            \/ workspace' = "deleted"
            \/ \E v \in Users : role[v] # "OWNER" /\ role'[v] = "OWNER" ]_vars
============================================================================
