-------------------------- MODULE GovernanceProofs --------------------------
(***************************************************************************)
(* What holds of Governance for any users, channels, requests in flight    *)
(* and operations served.                                                  *)
(***************************************************************************)
EXTENDS MCGovernance, FiniteSetTheorems, TLAPS

Ids == (SUBSET Users) \cup (SUBSET Channels)
ReqOK == req \in [Requests -> Request \cup {Idle}]
TablesOK ==
    /\ workspace \in {"absent", "live", "deleted"}
    /\ role \in [Users -> MemberRole \cup {"none"}]
    /\ type \in [Channels -> ChannelType \cup {"absent", "deleted"}]
    /\ access \in [Channels -> [Users -> Visibility \cup {"none"}]]

\* A slot that takes up a well-formed request stays well formed.
LEMMA BeginKeepsReq ==
    ASSUME ReqOK, NEW r \in Requests, NEW op, NEW pc \in Step, NEW u \in Users,
           NEW v \in Users \cup {None}, NEW c \in Channels \cup {None}, NEW a \in Argument,
           NEW ids \in Ids, BeginSeeing(r, op, pc, u, v, c, a, ids),
           Fits([op |-> op, arg |-> a, actor |-> u, target |-> v])
    PROVE  ReqOK'
<1>1. op \in AllOperations
    BY OperationsAssumption DEF BeginSeeing
<1> DEFINE new == [ op |-> op, pc |-> pc, actor |-> u, target |-> v,
                    channel |-> c, arg |-> a, seen |-> ids ]
<1>2. new \in Request
    BY <1>1 DEF Request, Fits, Ids
<1>3. QED
    BY <1>2 DEF ReqOK, BeginSeeing

\* So does one that begins having read nothing.
LEMMA BeginKeepsReqToo ==
    ASSUME ReqOK, NEW r \in Requests, NEW op, NEW pc \in Step, NEW u \in Users,
           NEW v \in Users \cup {None}, NEW c \in Channels \cup {None}, NEW a \in Argument,
           Begin(r, op, pc, u, v, c, a),
           Fits([op |-> op, arg |-> a, actor |-> u, target |-> v])
    PROVE  ReqOK'
<1>1. {} \in Ids
    BY DEF Ids
<1>2. QED
    BY <1>1, BeginKeepsReq DEF Begin

\* A handler that moves on, reads ids or answers keeps its slot well formed.
LEMMA MovesKeepReq ==
    ASSUME ReqOK, NEW r \in Requests
    PROVE  /\ \A pc \in Step : req[r] # Idle /\ Goto(r, pc) => ReqOK'
           /\ \A pc \in Step, ids \in Ids : req[r] # Idle /\ See(r, pc, ids) => ReqOK'
           /\ Done(r) => ReqOK'
<1>1. ASSUME NEW pc \in Step, req[r] # Idle, Goto(r, pc)
      PROVE  ReqOK'
    <2>1. req[r] \in Request
        BY <1>1 DEF ReqOK
    <2>2. [req[r] EXCEPT !.pc = pc] \in Request
        BY <2>1 DEF Request, Fits
    <2>3. QED
        BY <1>1, <2>2 DEF ReqOK, Goto
<1>2. ASSUME NEW pc \in Step, NEW ids \in Ids, req[r] # Idle, See(r, pc, ids)
      PROVE  ReqOK'
    <2>1. req[r] \in Request
        BY <1>2 DEF ReqOK
    <2>2. [req[r] EXCEPT !.pc = pc, !.seen = ids] \in Request
        BY <2>1 DEF Request, Fits, Ids
    <2>3. QED
        BY <1>2, <2>2 DEF ReqOK, See
<1>3. ASSUME Done(r) PROVE ReqOK'
    BY <1>3 DEF ReqOK, Done
<1>4. QED
    BY <1>1, <1>2, <1>3

\* What a request that stands at a step of its handler is made of.
LEMMA RequestFields ==
    ASSUME ReqOK, NEW r \in Requests, NEW op, NEW pc, At(r, op, pc)
    PROVE  /\ req[r] \in Request
           /\ req[r] # Idle
           /\ req[r].actor \in Users
           /\ req[r].target \in Users \cup {None}
           /\ req[r].channel \in Channels \cup {None}
           /\ req[r].arg \in Argument
           /\ req[r].op = op
           /\ Fits(req[r])
<1>1. req[r] \in Request /\ req[r] # Idle
    BY DEF ReqOK, At
<1>2. QED
    BY <1>1 DEF Request, At

\* Updating a function outside its domain changes nothing.
LEMMA ExceptType ==
    ASSUME NEW S, NEW T, NEW f \in [S -> T], NEW x, NEW y, x \in S => y \in T
    PROVE  [f EXCEPT ![x] = y] \in [S -> T]
    OBVIOUS

\* An upsert of a channel membership keeps the tables well typed.
LEMMA PutAccessKeepsTables ==
    ASSUME TablesOK, NEW r \in Requests, NEW value \in Visibility \cup {"keep"},
           PutAccess(r, value)
    PROVE  TablesOK'
<1> DEFINE c == req[r].channel
           u == IF req[r].target = None THEN req[r].actor ELSE req[r].target
           new == IF value = "keep"
                    THEN IF access[c][u] = "none" THEN "visible" ELSE access[c][u]
                    ELSE value
           Row == [Users -> Visibility \cup {"none"}]
<1>1. access' = [access EXCEPT ![c] = [access[c] EXCEPT ![u] = new]]
    BY DEF PutAccess
<1> HIDE DEF c, u
<1>2. ASSUME c \in Channels PROVE [access[c] EXCEPT ![u] = new] \in Row
    <2>1. access[c] \in Row
        BY <1>2 DEF TablesOK
    <2>2. u \in Users => new \in Visibility \cup {"none"}
        BY <2>1 DEF Visibility
    <2> HIDE DEF new
    <2>3. QED
        BY <2>1, <2>2, ExceptType
<1>3. access \in [Channels -> Row]
    BY DEF TablesOK
<1> HIDE DEF new, Row
<1>4. access' \in [Channels -> Row]
    BY <1>1, <1>2, <1>3, ExceptType
<1>5. QED
    BY <1>4 DEF TablesOK, PutAccess, Row

\* joinWorkspace keeps the types.
LEMMA JoinType ==
    ASSUME TypeOK, NEW r \in Requests, joinWorkspace(r)
    PROVE  TypeOK'
<1> USE DEF Step, Argument, MemberRole, ChannelType, Visibility
<1>0. TablesOK /\ ReqOK
    BY DEF TypeOK, TablesOK, ReqOK
<1>1. ASSUME NEW u \in Users, JoinLookup(r, u)
      PROVE  TypeOK'
    <2>1. ReqOK'
        BY <1>0, <1>1, BeginKeepsReqToo DEF Fits, JoinLookup
    <2>2. QED
        BY <1>0, <1>1, <2>1 DEF JoinLookup, TypeOK, TablesOK, ReqOK, tables
<1>2. ASSUME JoinInsert(r)
      PROVE  TypeOK'
    <2>1. ReqOK'
        BY <1>0, <1>2, MovesKeepReq DEF JoinInsert, At
    <2>2. TablesOK'
        BY <1>0, <1>2, RequestFields DEF JoinInsert, TablesOK
    <2>3. QED
        BY <2>1, <2>2 DEF TypeOK, TablesOK, ReqOK
<1>3. QED
    BY <1>1, <1>2 DEF joinWorkspace

\* deleteWorkspace keeps the types.
LEMMA DeleteWorkspaceType ==
    ASSUME TypeOK, NEW r \in Requests, deleteWorkspace(r)
    PROVE  TypeOK'
<1> USE DEF Step, Argument, MemberRole, ChannelType, Visibility
<1>0. TablesOK /\ ReqOK
    BY DEF TypeOK, TablesOK, ReqOK
<1>1. ASSUME NEW u \in Users, DeleteWorkspaceAuthorise(r, u)
      PROVE  TypeOK'
    <2>1. ReqOK'
        BY <1>0, <1>1, BeginKeepsReqToo DEF Fits, DeleteWorkspaceAuthorise
    <2>2. QED
        BY <1>0, <1>1, <2>1 DEF DeleteWorkspaceAuthorise, TypeOK, TablesOK, ReqOK, tables
<1>2. ASSUME DeleteWorkspaceCommit(r)
      PROVE  TypeOK'
    <2>1. ReqOK'
        BY <1>0, <1>2, MovesKeepReq DEF DeleteWorkspaceCommit, At
    <2>2. TablesOK'
        BY <1>0, <1>2, RequestFields DEF DeleteWorkspaceCommit, TablesOK, Exists
    <2>3. QED
        BY <2>1, <2>2 DEF TypeOK, TablesOK, ReqOK
<1>3. QED
    BY <1>1, <1>2 DEF deleteWorkspace

\* updateWorkspaceMemberRole keeps the types.
LEMMA UpdateRoleType ==
    ASSUME TypeOK, NEW r \in Requests, updateWorkspaceMemberRole(r)
    PROVE  TypeOK'
<1> USE DEF Step, Argument, MemberRole, ChannelType, Visibility
<1>0. TablesOK /\ ReqOK
    BY DEF TypeOK, TablesOK, ReqOK
<1>1. ASSUME NEW u \in Users, NEW v \in Users, NEW newRole \in {"ADMIN", "MEMBER", "GUEST"}, UpdateRoleAuthorise(r, u, v, newRole)
      PROVE  TypeOK'
    <2>1. ReqOK'
        BY <1>0, <1>1, BeginKeepsReqToo DEF Fits, UpdateRoleAuthorise
    <2>2. QED
        BY <1>0, <1>1, <2>1 DEF UpdateRoleAuthorise, TypeOK, TablesOK, ReqOK, tables
<1>2. ASSUME UpdateRoleCheck(r)
      PROVE  TypeOK'
    <2>1. ReqOK'
        BY <1>0, <1>2, MovesKeepReq DEF UpdateRoleCheck, At
    <2>2. TablesOK'
        BY <1>0, <1>2 DEF UpdateRoleCheck, TablesOK, tables
    <2>3. QED
        BY <2>1, <2>2 DEF TypeOK, TablesOK, ReqOK
<1>3. ASSUME UpdateRoleWrite(r)
      PROVE  TypeOK'
    <2>1. ReqOK'
        BY <1>0, <1>3, MovesKeepReq DEF UpdateRoleWrite, At
    <2>2. TablesOK'
        BY <1>0, <1>3, RequestFields DEF Fits, UpdateRoleWrite, TablesOK
    <2>3. QED
        BY <2>1, <2>2 DEF TypeOK, TablesOK, ReqOK
<1>4. ASSUME UpdateRoleList(r)
      PROVE  TypeOK'
    <2>1. ReqOK'
        <3> DEFINE revoked == { c \in Channels : /\ Exists(c)
                                                 /\ req[r].arg = "MEMBER" => type[c] = "PRIVATE" }
                   pc == IF revoked = {} THEN "notify" ELSE "strip"
        <3>1. req[r] # Idle /\ See(r, pc, revoked)
            BY <1>4 DEF UpdateRoleList, At
        <3>2. revoked \in Ids
            BY DEF Ids
        <3>3. pc \in Step
            <4> HIDE DEF revoked
            <4>1. QED
                OBVIOUS
        <3> HIDE DEF revoked, pc
        <3>4. QED
            BY <1>0, <3>1, <3>2, <3>3, MovesKeepReq
    <2>2. TablesOK'
        BY <1>0, <1>4 DEF UpdateRoleList, TablesOK, tables
    <2>3. QED
        BY <2>1, <2>2 DEF TypeOK, TablesOK, ReqOK
<1>5. ASSUME UpdateRoleStrip(r)
      PROVE  TypeOK'
    <2>1. ReqOK'
        BY <1>0, <1>5, MovesKeepReq DEF UpdateRoleStrip, At
    <2>2. TablesOK'
        BY <1>0, <1>5, RequestFields DEF UpdateRoleStrip, TablesOK
    <2>3. QED
        BY <2>1, <2>2 DEF TypeOK, TablesOK, ReqOK
<1>6. QED
    BY <1>1, <1>2, <1>3, <1>4, <1>5 DEF updateWorkspaceMemberRole

\* transferWorkspaceOwnership keeps the types.
LEMMA TransferType ==
    ASSUME TypeOK, NEW r \in Requests, transferWorkspaceOwnership(r)
    PROVE  TypeOK'
<1> USE DEF Step, Argument, MemberRole, ChannelType, Visibility
<1>0. TablesOK /\ ReqOK
    BY DEF TypeOK, TablesOK, ReqOK
<1>1. ASSUME NEW u \in Users, NEW v \in Users, TransferAuthorise(r, u, v)
      PROVE  TypeOK'
    <2>1. ReqOK'
        BY <1>0, <1>1, BeginKeepsReqToo DEF Fits, TransferAuthorise
    <2>2. QED
        BY <1>0, <1>1, <2>1 DEF TransferAuthorise, TypeOK, TablesOK, ReqOK, tables
<1>2. ASSUME TransferCheck(r)
      PROVE  TypeOK'
    <2>1. ReqOK'
        BY <1>0, <1>2, MovesKeepReq DEF TransferCheck, At
    <2>2. TablesOK'
        BY <1>0, <1>2 DEF TransferCheck, TablesOK, tables
    <2>3. QED
        BY <2>1, <2>2 DEF TypeOK, TablesOK, ReqOK
<1>3. ASSUME TransferCommit(r)
      PROVE  TypeOK'
    <2>1. ReqOK'
        BY <1>0, <1>3, MovesKeepReq DEF TransferCommit, At
    <2>2. TablesOK'
        BY <1>0, <1>3, RequestFields DEF TransferCommit, TablesOK
    <2>3. QED
        BY <2>1, <2>2 DEF TypeOK, TablesOK, ReqOK
<1>4. QED
    BY <1>1, <1>2, <1>3 DEF transferWorkspaceOwnership

\* removeWorkspaceMember keeps the types.
LEMMA RemoveType ==
    ASSUME TypeOK, NEW r \in Requests, removeWorkspaceMember(r)
    PROVE  TypeOK'
<1> USE DEF Step, Argument, MemberRole, ChannelType, Visibility
<1>0. TablesOK /\ ReqOK
    BY DEF TypeOK, TablesOK, ReqOK
<1>1. ASSUME NEW u \in Users, NEW v \in Users, RemoveAuthorise(r, u, v)
      PROVE  TypeOK'
    <2>1. ReqOK'
        BY <1>0, <1>1, BeginKeepsReqToo DEF Fits, RemoveAuthorise
    <2>2. QED
        BY <1>0, <1>1, <2>1 DEF RemoveAuthorise, TypeOK, TablesOK, ReqOK, tables
<1>2. ASSUME RemoveCheck(r)
      PROVE  TypeOK'
    <2>1. ReqOK'
        BY <1>0, <1>2, MovesKeepReq DEF RemoveCheck, At
    <2>2. TablesOK'
        BY <1>0, <1>2 DEF RemoveCheck, TablesOK, tables
    <2>3. QED
        BY <2>1, <2>2 DEF TypeOK, TablesOK, ReqOK
<1>3. ASSUME RemoveCommit(r)
      PROVE  TypeOK'
    <2>1. ReqOK'
        BY <1>0, <1>3, MovesKeepReq DEF RemoveCommit, At
    <2>2. TablesOK'
        BY <1>0, <1>3, RequestFields DEF RemoveCommit, TablesOK
    <2>3. QED
        BY <2>1, <2>2 DEF TypeOK, TablesOK, ReqOK
<1>4. QED
    BY <1>1, <1>2, <1>3 DEF removeWorkspaceMember

\* createChannel keeps the types.
LEMMA CreateChannelType ==
    ASSUME TypeOK, NEW r \in Requests, createChannel(r)
    PROVE  TypeOK'
<1> USE DEF Step, Argument, MemberRole, ChannelType, Visibility
<1>0. TablesOK /\ ReqOK
    BY DEF TypeOK, TablesOK, ReqOK
<1>1. ASSUME NEW u \in Users, NEW c \in Channels, NEW t \in ChannelType, CreateChannelAuthorise(r, u, c, t)
      PROVE  TypeOK'
    <2>1. ReqOK'
        BY <1>0, <1>1, BeginKeepsReqToo DEF Fits, CreateChannelAuthorise
    <2>2. QED
        BY <1>0, <1>1, <2>1 DEF CreateChannelAuthorise, TypeOK, TablesOK, ReqOK, tables
<1>2. ASSUME CreateChannelInsert(r)
      PROVE  TypeOK'
    <2>1. ReqOK'
        BY <1>0, <1>2, MovesKeepReq DEF Ids, Owners, CreateChannelInsert, At
    <2>2. TablesOK'
        BY <1>0, <1>2 DEF CreateChannelInsert, TablesOK, tables
    <2>3. QED
        BY <2>1, <2>2 DEF TypeOK, TablesOK, ReqOK
<1>3. ASSUME CreateChannelCommit(r)
      PROVE  TypeOK'
    <2>1. ReqOK'
        BY <1>0, <1>3, MovesKeepReq DEF CreateChannelCommit, At
    <2>2. TablesOK'
        BY <1>0, <1>3, RequestFields DEF Fits, CreateChannelCommit, TablesOK
    <2>3. QED
        BY <2>1, <2>2 DEF TypeOK, TablesOK, ReqOK
<1>4. QED
    BY <1>1, <1>2, <1>3 DEF createChannel

\* markChannelAsRead keeps the types.
LEMMA MarkReadType ==
    ASSUME TypeOK, NEW r \in Requests, markChannelAsRead(r)
    PROVE  TypeOK'
<1> USE DEF Step, Argument, MemberRole, ChannelType, Visibility
<1>0. TablesOK /\ ReqOK
    BY DEF TypeOK, TablesOK, ReqOK
<1>1. ASSUME NEW u \in Users, NEW c \in Channels, MarkReadLookup(r, u, c)
      PROVE  TypeOK'
    <2>1. ReqOK'
        BY <1>0, <1>1, BeginKeepsReqToo DEF Fits, MarkReadLookup, TypeOK, IsMember
    <2>2. QED
        BY <1>0, <1>1, <2>1 DEF MarkReadLookup, TypeOK, TablesOK, ReqOK, tables
<1>2. ASSUME MarkReadCheck(r)
      PROVE  TypeOK'
    <2>1. ReqOK'
        BY <1>0, <1>2, MovesKeepReq DEF MarkReadCheck, At
    <2>2. TablesOK'
        BY <1>0, <1>2 DEF MarkReadCheck, TablesOK, tables
    <2>3. QED
        BY <2>1, <2>2 DEF TypeOK, TablesOK, ReqOK
<1>3. ASSUME MarkReadUpsert(r)
      PROVE  TypeOK'
    <2>1. ReqOK'
        BY <1>0, <1>3, MovesKeepReq DEF MarkReadUpsert, At
    <2>2. TablesOK'
        BY <1>0, <1>3, RequestFields, PutAccessKeepsTables DEF MarkReadUpsert
    <2>3. QED
        BY <2>1, <2>2 DEF TypeOK, TablesOK, ReqOK
<1>4. QED
    BY <1>1, <1>2, <1>3 DEF markChannelAsRead

\* The socket's markChannelAsRead keeps the types.
LEMMA SocketMarkReadType ==
    ASSUME TypeOK, NEW r \in Requests, socketMarkChannelAsRead(r)
    PROVE  TypeOK'
<1> USE DEF Step, Argument, MemberRole, ChannelType, Visibility
<1>0. TablesOK /\ ReqOK
    BY DEF TypeOK, TablesOK, ReqOK
<1>1. ASSUME NEW u \in Users, NEW c \in Channels, SocketMarkReadLookup(r, u, c)
      PROVE  TypeOK'
    <2>1. ReqOK'
        BY <1>0, <1>1, BeginKeepsReqToo DEF Fits, SocketMarkReadLookup
    <2>2. QED
        BY <1>0, <1>1, <2>1 DEF SocketMarkReadLookup, TypeOK, TablesOK, ReqOK, tables
<1>2. ASSUME SocketMarkReadCheck(r)
      PROVE  TypeOK'
    <2>1. ReqOK'
        BY <1>0, <1>2, MovesKeepReq DEF SocketMarkReadCheck, At
    <2>2. TablesOK'
        BY <1>0, <1>2 DEF SocketMarkReadCheck, TablesOK, tables
    <2>3. QED
        BY <2>1, <2>2 DEF TypeOK, TablesOK, ReqOK
<1>3. ASSUME SocketMarkReadUpsert(r)
      PROVE  TypeOK'
    <2>1. ReqOK'
        BY <1>0, <1>3, MovesKeepReq DEF SocketMarkReadUpsert, At
    <2>2. TablesOK'
        BY <1>0, <1>3, RequestFields, PutAccessKeepsTables DEF SocketMarkReadUpsert
    <2>3. QED
        BY <2>1, <2>2 DEF TypeOK, TablesOK, ReqOK
<1>4. QED
    BY <1>1, <1>2, <1>3 DEF socketMarkChannelAsRead

\* inviteToChannel keeps the types.
LEMMA InviteType ==
    ASSUME TypeOK, NEW r \in Requests, inviteToChannel(r)
    PROVE  TypeOK'
<1> USE DEF Step, Argument, MemberRole, ChannelType, Visibility
<1>0. TablesOK /\ ReqOK
    BY DEF TypeOK, TablesOK, ReqOK
<1>1. ASSUME NEW u \in Users, NEW v \in Users, NEW c \in Channels, InviteAuthorise(r, u, v, c)
      PROVE  TypeOK'
    <2>1. ReqOK'
        BY <1>0, <1>1, BeginKeepsReqToo DEF Fits, InviteAuthorise
    <2>2. QED
        BY <1>0, <1>1, <2>1 DEF InviteAuthorise, TypeOK, TablesOK, ReqOK, tables
<1>2. ASSUME InviteCheck(r)
      PROVE  TypeOK'
    <2>1. ReqOK'
        BY <1>0, <1>2, MovesKeepReq DEF InviteCheck, At
    <2>2. TablesOK'
        BY <1>0, <1>2 DEF InviteCheck, TablesOK, tables
    <2>3. QED
        BY <2>1, <2>2 DEF TypeOK, TablesOK, ReqOK
<1>3. ASSUME InviteFilter(r)
      PROVE  TypeOK'
    <2>1. ReqOK'
        BY <1>0, <1>3, MovesKeepReq DEF InviteFilter, At
    <2>2. TablesOK'
        BY <1>0, <1>3 DEF InviteFilter, TablesOK, tables
    <2>3. QED
        BY <2>1, <2>2 DEF TypeOK, TablesOK, ReqOK
<1>4. ASSUME InviteDedupe(r)
      PROVE  TypeOK'
    <2>1. ReqOK'
        BY <1>0, <1>4, MovesKeepReq DEF InviteDedupe, At
    <2>2. TablesOK'
        BY <1>0, <1>4 DEF InviteDedupe, TablesOK, tables
    <2>3. QED
        BY <2>1, <2>2 DEF TypeOK, TablesOK, ReqOK
<1>5. ASSUME InviteInsert(r)
      PROVE  TypeOK'
    <2>1. ReqOK'
        BY <1>0, <1>5, MovesKeepReq DEF InviteInsert, At
    <2>2. TablesOK'
        BY <1>0, <1>5, RequestFields, PutAccessKeepsTables DEF InviteInsert
    <2>3. QED
        BY <2>1, <2>2 DEF TypeOK, TablesOK, ReqOK
<1>6. QED
    BY <1>1, <1>2, <1>3, <1>4, <1>5 DEF inviteToChannel

\* leaveChannel keeps the types.
LEMMA LeaveType ==
    ASSUME TypeOK, NEW r \in Requests, leaveChannel(r)
    PROVE  TypeOK'
<1> USE DEF Step, Argument, MemberRole, ChannelType, Visibility
<1>0. TablesOK /\ ReqOK
    BY DEF TypeOK, TablesOK, ReqOK
<1>1. ASSUME NEW u \in Users, NEW c \in Channels, LeaveLookup(r, u, c)
      PROVE  TypeOK'
    <2>1. ReqOK'
        BY <1>0, <1>1, BeginKeepsReqToo DEF Fits, LeaveLookup
    <2>2. QED
        BY <1>0, <1>1, <2>1 DEF LeaveLookup, TypeOK, TablesOK, ReqOK, tables
<1>2. ASSUME LeaveUpsert(r)
      PROVE  TypeOK'
    <2>1. ReqOK'
        BY <1>0, <1>2, MovesKeepReq DEF LeaveUpsert, At
    <2>2. TablesOK'
        BY <1>0, <1>2, RequestFields, PutAccessKeepsTables DEF LeaveUpsert
    <2>3. QED
        BY <2>1, <2>2 DEF TypeOK, TablesOK, ReqOK
<1>3. QED
    BY <1>1, <1>2 DEF leaveChannel

\* deleteChannel keeps the types.
LEMMA DeleteChannelType ==
    ASSUME TypeOK, NEW r \in Requests, deleteChannel(r)
    PROVE  TypeOK'
<1> USE DEF Step, Argument, MemberRole, ChannelType, Visibility
<1>0. TablesOK /\ ReqOK
    BY DEF TypeOK, TablesOK, ReqOK
<1>1. ASSUME NEW u \in Users, NEW c \in Channels, DeleteChannelLookup(r, u, c)
      PROVE  TypeOK'
    <2>1. ReqOK'
        <3> DEFINE members == {v \in Users : HasRow(c, v)}
        <3>1. BeginSeeing(r, "deleteChannel", "check", u, None, c, type[c], members)
            BY <1>1 DEF DeleteChannelLookup
        <3>2. type[c] \in Argument /\ members \in Ids
            BY <1>1 DEF DeleteChannelLookup, Exists, Ids
        <3> HIDE DEF members
        <3>3. QED
            BY <1>0, <3>1, <3>2, BeginKeepsReq DEF Fits
    <2>2. QED
        BY <1>0, <1>1, <2>1 DEF DeleteChannelLookup, TypeOK, TablesOK, ReqOK, tables
<1>2. ASSUME DeleteChannelCheck(r)
      PROVE  TypeOK'
    <2>1. ReqOK'
        BY <1>0, <1>2, MovesKeepReq DEF DeleteChannelCheck, At
    <2>2. TablesOK'
        BY <1>0, <1>2 DEF DeleteChannelCheck, TablesOK, tables
    <2>3. QED
        BY <2>1, <2>2 DEF TypeOK, TablesOK, ReqOK
<1>3. ASSUME DeleteChannelCommit(r)
      PROVE  TypeOK'
    <2>1. ReqOK'
        BY <1>0, <1>3, MovesKeepReq DEF DeleteChannelCommit, At
    <2>2. TablesOK'
        BY <1>0, <1>3, RequestFields DEF DeleteChannelCommit, TablesOK
    <2>3. QED
        BY <2>1, <2>2 DEF TypeOK, TablesOK, ReqOK
<1>4. QED
    BY <1>1, <1>2, <1>3 DEF deleteChannel

\* setChannelMemberVisibility keeps the types.
LEMMA VisibilityType ==
    ASSUME TypeOK, NEW r \in Requests, setChannelMemberVisibility(r)
    PROVE  TypeOK'
<1> USE DEF Step, Argument, MemberRole, ChannelType, Visibility
<1>0. TablesOK /\ ReqOK
    BY DEF TypeOK, TablesOK, ReqOK
<1>1. ASSUME NEW u \in Users, NEW v \in Users, NEW c \in Channels, NEW value \in Visibility, VisibilityLookup(r, u, v, c, value)
      PROVE  TypeOK'
    <2>1. ReqOK'
        BY <1>0, <1>1, BeginKeepsReqToo DEF Fits, VisibilityLookup
    <2>2. QED
        BY <1>0, <1>1, <2>1 DEF VisibilityLookup, TypeOK, TablesOK, ReqOK, tables
<1>2. ASSUME VisibilityCheck(r)
      PROVE  TypeOK'
    <2>1. ReqOK'
        BY <1>0, <1>2, MovesKeepReq DEF VisibilityCheck, At
    <2>2. TablesOK'
        BY <1>0, <1>2 DEF VisibilityCheck, TablesOK, tables
    <2>3. QED
        BY <2>1, <2>2 DEF TypeOK, TablesOK, ReqOK
<1>3. ASSUME VisibilityUpsert(r)
      PROVE  TypeOK'
    <2>1. ReqOK'
        BY <1>0, <1>3, MovesKeepReq DEF VisibilityUpsert, At
    <2>2. TablesOK'
        BY <1>0, <1>3, RequestFields, PutAccessKeepsTables DEF Fits, VisibilityUpsert
    <2>3. QED
        BY <2>1, <2>2 DEF TypeOK, TablesOK, ReqOK
<1>4. QED
    BY <1>1, <1>2, <1>3 DEF setChannelMemberVisibility

----------------------------------------------------------------------------
\* Every table and every request in flight keeps its type, whatever the
\* handlers interleave (schema.prisma and the payload checks of the handlers).
THEOREM TypeCorrect == Spec => []TypeOK
<1>1. Init => TypeOK
    BY DEF Init, TypeOK
<1>2. TypeOK /\ [Next]_vars => TypeOK'
    <2> SUFFICES ASSUME TypeOK, [Next]_vars
                 PROVE  TypeOK'
        OBVIOUS
    <2>1. ASSUME NEW u \in Users, createWorkspace(u)
          PROVE  TypeOK'
        BY <2>1 DEF createWorkspace, TypeOK, MemberRole
    <2>2. ASSUME NEW r \in Requests, Serve(r)
          PROVE  TypeOK'
        BY <2>2, JoinType, DeleteWorkspaceType, UpdateRoleType, TransferType, RemoveType,
           CreateChannelType, MarkReadType, SocketMarkReadType, InviteType, LeaveType,
           DeleteChannelType, VisibilityType DEF Serve
    <2>3. ASSUME NEW r \in Requests, Notify(r) \/ Abort(r)
          PROVE  TypeOK'
        BY <2>3, MovesKeepReq DEF Notify, Abort, tables, TypeOK, ReqOK
    <2>4. CASE UNCHANGED vars
        BY <2>4 DEF vars, TypeOK
    <2>5. QED
        BY <2>1, <2>2, <2>3, <2>4 DEF Next
<1>3. QED
    BY <1>1, <1>2, PTL DEF Spec

\* Only five steps of the handlers write a role or the workspace row.
LEMMA RoleWriters ==
    ASSUME NEW r \in Requests, Serve(r) \/ Notify(r) \/ Abort(r)
    PROVE  \/ JoinInsert(r) \/ DeleteWorkspaceCommit(r) \/ UpdateRoleWrite(r)
           \/ TransferCommit(r) \/ RemoveCommit(r)
           \/ UNCHANGED <<workspace, role>>
<1>1. CASE Notify(r) \/ Abort(r)
    BY <1>1 DEF Notify, Abort, tables
<1>2. CASE joinWorkspace(r) \/ deleteWorkspace(r)
    BY <1>2 DEF joinWorkspace, JoinLookup, deleteWorkspace, DeleteWorkspaceAuthorise, tables
<1>3. CASE updateWorkspaceMemberRole(r)
    BY <1>3 DEF updateWorkspaceMemberRole, UpdateRoleAuthorise, UpdateRoleCheck,
                UpdateRoleList, UpdateRoleStrip, tables
<1>4. CASE transferWorkspaceOwnership(r) \/ removeWorkspaceMember(r)
    BY <1>4 DEF transferWorkspaceOwnership, TransferAuthorise, TransferCheck,
                removeWorkspaceMember, RemoveAuthorise, RemoveCheck, tables
<1>5. CASE createChannel(r) \/ markChannelAsRead(r) \/ socketMarkChannelAsRead(r)
    BY <1>5 DEF createChannel, CreateChannelAuthorise, CreateChannelInsert,
                CreateChannelCommit, markChannelAsRead, MarkReadLookup, MarkReadCheck,
                MarkReadUpsert, socketMarkChannelAsRead, SocketMarkReadLookup,
                SocketMarkReadCheck, SocketMarkReadUpsert, PutAccess, tables
<1>6. CASE inviteToChannel(r) \/ leaveChannel(r)
    BY <1>6 DEF inviteToChannel, InviteAuthorise, InviteCheck, InviteFilter, InviteDedupe,
                InviteInsert, leaveChannel, LeaveLookup, LeaveUpsert, PutAccess, tables
<1>7. CASE deleteChannel(r) \/ setChannelMemberVisibility(r)
    BY <1>7 DEF deleteChannel, DeleteChannelLookup, DeleteChannelCheck,
                DeleteChannelCommit, setChannelMemberVisibility, VisibilityLookup,
                VisibilityCheck, VisibilityUpsert, PutAccess, tables
<1>8. QED
    BY <1>1, <1>2, <1>3, <1>4, <1>5, <1>6, <1>7 DEF Serve

\* How a step can change the owners: it founds the workspace, hands it over,
\* loses the owner, closes the workspace, or leaves the owners alone.  Only
\* TransferCommit grants ownership, and it takes it from the actor.
LEMMA OwnershipStep ==
    ASSUME TypeOK, AtMostOneOwner, workspace # "live" => Owners = {}, [Next]_vars
    PROVE  O!Next \/ UNCHANGED <<workspace, Owners>>
<1> USE DEF Owners
<1>1. ASSUME NEW u \in Users, createWorkspace(u)
      PROVE  O!Found(u)
    BY <1>1 DEF createWorkspace, O!Found, TypeOK
<1>2. ASSUME NEW r \in Requests, JoinInsert(r)
      PROVE  UNCHANGED <<workspace, Owners>>
    BY <1>2 DEF JoinInsert, IsMember, TypeOK
<1>3. ASSUME NEW r \in Requests, DeleteWorkspaceCommit(r)
      PROVE  O!Close
    BY <1>3 DEF DeleteWorkspaceCommit, O!Close
<1>4. ASSUME NEW r \in Requests, UpdateRoleWrite(r)
      PROVE  (\E u \in Users : O!Lose(u)) \/ UNCHANGED <<workspace, Owners>>
    <2> DEFINE v == req[r].target
    <2>1. req[r].arg # "OWNER" /\ UNCHANGED workspace
        BY <1>4 DEF UpdateRoleWrite, At, TypeOK, Request, Fits
    <2>2. role' = [role EXCEPT ![v] = req[r].arg] /\ role \in [Users -> MemberRole \cup {"none"}]
        BY <1>4 DEF UpdateRoleWrite, TypeOK
    <2> HIDE DEF v
    <2>3. Owners' = Owners \ {v}
        BY <2>1, <2>2
    <2>4. CASE v \in Owners
        BY <2>1, <2>3, <2>4 DEF O!Lose, AtMostOneOwner
    <2>5. CASE v \notin Owners
        BY <2>1, <2>3, <2>5
    <2>6. QED
        BY <2>4, <2>5
<1>5. ASSUME NEW r \in Requests, TransferCommit(r)
      PROVE  \E u, v \in Users : O!Handover(u, v)
    <2> DEFINE u == req[r].actor
               v == req[r].target
    <2>1. u \in Users /\ v \in Users /\ u # v
        BY <1>5 DEF TransferCommit, At, TypeOK, Request, Fits
    <2>2. /\ role' = [role EXCEPT ![u] = "ADMIN", ![v] = "OWNER"]
          /\ role \in [Users -> MemberRole \cup {"none"}]
          /\ role[u] = "OWNER"
          /\ UNCHANGED workspace
        BY <1>5 DEF TransferCommit, TypeOK
    <2> HIDE DEF u, v
    <2>3. Owners = {u} /\ Owners' = {v}
        BY <2>1, <2>2 DEF AtMostOneOwner
    <2>4. QED
        BY <2>1, <2>2, <2>3 DEF O!Handover
<1>6. ASSUME NEW r \in Requests, RemoveCommit(r)
      PROVE  (\E u \in Users : O!Lose(u)) \/ UNCHANGED <<workspace, Owners>>
    <2> DEFINE v == req[r].target
    <2>1. /\ role' = [role EXCEPT ![v] = "none"]
          /\ role \in [Users -> MemberRole \cup {"none"}]
          /\ UNCHANGED workspace
        BY <1>6 DEF RemoveCommit, TypeOK
    <2> HIDE DEF v
    <2>2. Owners' = Owners \ {v}
        BY <2>1
    <2>3. CASE v \in Owners
        BY <2>1, <2>2, <2>3 DEF O!Lose, AtMostOneOwner
    <2>4. CASE v \notin Owners
        BY <2>1, <2>2, <2>4
    <2>5. QED
        BY <2>3, <2>4
<1>7. ASSUME UNCHANGED <<workspace, role>>
      PROVE  UNCHANGED <<workspace, Owners>>
    BY <1>7
<1>8. QED
    BY <1>1, <1>2, <1>3, <1>4, <1>5, <1>6, <1>7, RoleWriters DEF Next, vars, O!Next

\* The inductive invariant: besides the types and the single owner, that only
\* a live workspace has one, so that founding it cannot add a second.
IInv ==
    /\ TypeOK
    /\ AtMostOneOwner
    /\ workspace # "live" => Owners = {}

LEMMA InductiveInvariant == Spec => []IInv
<1>1. Init => IInv
    BY DEF Init, IInv, TypeOK, AtMostOneOwner, Owners
<1>2. IInv /\ TypeOK' /\ [Next]_vars => IInv'
    <2> SUFFICES ASSUME IInv, TypeOK', [Next]_vars
                 PROVE  IInv'
        OBVIOUS
    <2>1. O!Next \/ UNCHANGED <<workspace, Owners>>
        BY OwnershipStep DEF IInv
    <2>2. AtMostOneOwner' /\ (workspace # "live" => Owners = {})'
        <3>1. CASE UNCHANGED <<workspace, Owners>>
            BY <3>1 DEF IInv, AtMostOneOwner
        <3>2. CASE O!Next
            BY <3>2 DEF IInv, AtMostOneOwner, O!Next, O!Found, O!Handover, O!Lose, O!Close
        <3>3. QED
            BY <2>1, <3>1, <3>2
    <2>3. QED
        BY <2>2 DEF IInv
<1>3. QED
    BY <1>1, <1>2, TypeCorrect, PTL DEF Spec

\* No interleaving of the handlers gives a workspace two owners, however many
\* users and requests there are.
THEOREM SingleOwner == Spec => []AtMostOneOwner
<1>1. IInv => AtMostOneOwner
    BY DEF IInv
<1>2. QED
    BY <1>1, InductiveInvariant, PTL

\* Ownership is founded once, handed over, possibly lost, never found again:
\* every step of the handlers is a step of Ownership or leaves it alone.
THEOREM ImplementsOwnership == Spec => OwnershipSpec
<1>1. Init => O!Init
    BY DEF Init, O!Init, Owners
<1>2. IInv /\ [Next]_vars => [O!Next]_<<workspace, Owners>>
    BY OwnershipStep DEF IInv
<1>3. QED
    BY <1>1, <1>2, InductiveInvariant, PTL DEF Spec, OwnershipSpec, O!Spec, O!vars

\* Whoever becomes the owner while there is one was a member, was named by
\* the owner's own transfer, and leaves the former owner an ADMIN.
THEOREM DeliberateHandover == Spec => HandoverIsDeliberate
<1> DEFINE Deliberate ==
        \A u, v \in Users :
          role[v] # "OWNER" /\ role'[v] = "OWNER" /\ role[u] = "OWNER" =>
            /\ role'[u] = "ADMIN"
            /\ role[v] # "none"
            /\ \E r \in Requests :
                 /\ At(r, "transferWorkspaceOwnership", "write")
                 /\ req[r].actor = u /\ req[r].target = v
<1>1. IInv /\ [Next]_vars => [Deliberate]_vars
    <2> SUFFICES ASSUME IInv, Next, NEW u \in Users, NEW v \in Users,
                        role[v] # "OWNER", role'[v] = "OWNER", role[u] = "OWNER"
                 PROVE  /\ role'[u] = "ADMIN"
                        /\ role[v] # "none"
                        /\ \E r \in Requests :
                             /\ At(r, "transferWorkspaceOwnership", "write")
                             /\ req[r].actor = u /\ req[r].target = v
        BY Zenon
    <2> USE DEF IInv, TypeOK
    <2>1. ASSUME NEW w \in Users, createWorkspace(w) PROVE FALSE
        BY <2>1 DEF createWorkspace, Owners
    <2>2. ASSUME NEW r \in Requests,
                 JoinInsert(r) \/ DeleteWorkspaceCommit(r) \/ RemoveCommit(r)
          PROVE  FALSE
        BY <2>2 DEF JoinInsert, DeleteWorkspaceCommit, RemoveCommit
    <2>3. ASSUME NEW r \in Requests, UpdateRoleWrite(r) PROVE FALSE
        BY <2>3 DEF UpdateRoleWrite, At, Request, Fits
    <2>4. ASSUME NEW r \in Requests, TransferCommit(r)
          PROVE  /\ role'[u] = "ADMIN"
                 /\ role[v] # "none"
                 /\ At(r, "transferWorkspaceOwnership", "write")
                 /\ req[r].actor = u /\ req[r].target = v
        <3>1. req[r].actor \in Users /\ req[r].target \in Users /\ req[r].actor # req[r].target
            BY <2>4 DEF TransferCommit, At, Request, Fits
        <3>2. req[r].actor = u
            BY <2>4, <3>1 DEF TransferCommit, AtMostOneOwner, Owners
        <3>3. QED
            BY <2>4, <3>1, <3>2 DEF TransferCommit, IsMember
    <2>5. QED
        BY <2>1, <2>2, <2>3, <2>4, RoleWriters DEF Next
<1>2. QED
    BY <1>1, InductiveInvariant, PTL DEF Spec, HandoverIsDeliberate

----------------------------------------------------------------------------
(* The rows of channels: none outlives its channel, and a hidden one is    *)
(* shown again by the owner only.  Both rest on the ids of channels being  *)
(* fresh as long as the request that creates one is under way.             *)

\* The request in slot r is going to create a channel.
Creating(r) ==
    req[r] # Idle /\ req[r].op = "createChannel" /\ req[r].pc \in {"start", "write"}

FreshIds ==
    \A r \in Requests : Creating(r) =>
      /\ req[r].channel \in Channels
      /\ type[req[r].channel] = "absent"
      /\ \A q \in Requests : Creating(q) /\ req[q].channel = req[r].channel => q = r

\* Whoever is shown or hidden a channel has been named.
Named ==
    \A r \in Requests :
      req[r] # Idle /\ req[r].op = "setChannelMemberVisibility" => req[r].target # None

\* A request goes on as what it was asked.
Continues(r) ==
    /\ req[r] # Idle
    /\ req'[r].op = req[r].op
    /\ req'[r].channel = req[r].channel
    /\ req'[r].target = req[r].target
    /\ Creating(r)' => Creating(r)

\* A slot takes up a request of one of these operations.
TakesUp(r, ops) == req'[r] # Idle /\ req'[r].op \in ops

Others(r) == \A q \in Requests \ {r} : req'[q] = req[q]

LEMMA SlotBegins ==
    ASSUME ReqOK, NEW r \in Requests, NEW op, NEW pc, NEW u, NEW v, NEW c, NEW a, NEW ids,
           BeginSeeing(r, op, pc, u, v, c, a, ids)
    PROVE  /\ Others(r)
           /\ req'[r].op = op /\ req'[r].channel = c /\ req'[r].target = v
           /\ op \in Operations
<1>1. req' = [req EXCEPT ![r] = [ op |-> op, pc |-> pc, actor |-> u, target |-> v,
                                  channel |-> c, arg |-> a, seen |-> ids ]]
    BY DEF BeginSeeing
<1>2. QED
    BY <1>1 DEF ReqOK, Others, BeginSeeing

LEMMA SlotMoves ==
    ASSUME ReqOK, NEW r \in Requests, req[r] # Idle,
           NEW pc, pc \in {"start", "write"} => Creating(r) \/ req[r].op # "createChannel"
    PROVE  /\ Goto(r, pc) => Others(r) /\ Continues(r)
           /\ \A ids : See(r, pc, ids) => Others(r) /\ Continues(r)
           /\ Done(r) => Others(r) /\ req'[r] = Idle
<1>1. req[r] \in Request
    BY DEF ReqOK
<1>2. ASSUME Goto(r, pc) PROVE Others(r) /\ Continues(r)
    <2>1. Others(r) /\ req'[r] = [req[r] EXCEPT !.pc = pc]
        BY <1>2 DEF Goto, ReqOK, Others
    <2>2. QED
        BY <1>1, <2>1 DEF Continues, Creating, Request
<1>3. ASSUME NEW ids, See(r, pc, ids) PROVE Others(r) /\ Continues(r)
    <2>1. Others(r) /\ req'[r] = [req[r] EXCEPT !.pc = pc, !.seen = ids]
        BY <1>3 DEF See, ReqOK, Others
    <2>2. QED
        BY <1>1, <2>1 DEF Continues, Creating, Request
<1>4. ASSUME Done(r) PROVE Others(r) /\ req'[r] = Idle
    BY <1>4 DEF Done, ReqOK, Others
<1>5. QED
    BY <1>2, <1>3, <1>4

\* What a step of a handler does to the slots.
LEMMA SlotSteps ==
    ASSUME ReqOK, NEW r \in Requests, Serve(r) \/ Notify(r) \/ Abort(r)
    PROVE  /\ Others(r)
           /\ \/ req'[r] = Idle
              \/ Continues(r)
              \/ req'[r].op \notin {"createChannel", "setChannelMemberVisibility"}
              \/ \E u \in Users, c \in Channels, t \in ChannelType : CreateChannelAuthorise(r, u, c, t)
              \/ \E u, v \in Users, c \in Channels, value \in Visibility : VisibilityLookup(r, u, v, c, value)
<1> USE DEF At
<1>1. CASE Notify(r) \/ Abort(r)
    BY <1>1, SlotMoves DEF Notify, Abort
<1>2. CASE joinWorkspace(r)
    BY <1>2, SlotBegins, SlotMoves DEF joinWorkspace, JoinLookup, JoinInsert, Begin
<1>3. CASE deleteWorkspace(r)
    BY <1>3, SlotBegins, SlotMoves DEF deleteWorkspace, DeleteWorkspaceAuthorise, DeleteWorkspaceCommit, Begin
<1>4. CASE updateWorkspaceMemberRole(r)
    BY <1>4, SlotBegins, SlotMoves DEF updateWorkspaceMemberRole, UpdateRoleAuthorise, UpdateRoleCheck, UpdateRoleWrite, UpdateRoleList, UpdateRoleStrip, Begin
<1>5. CASE transferWorkspaceOwnership(r)
    BY <1>5, SlotBegins, SlotMoves DEF transferWorkspaceOwnership, TransferAuthorise, TransferCheck, TransferCommit, Begin
<1>6. CASE removeWorkspaceMember(r)
    BY <1>6, SlotBegins, SlotMoves DEF removeWorkspaceMember, RemoveAuthorise, RemoveCheck, RemoveCommit, Begin
<1>7. CASE createChannel(r)
    BY <1>7, SlotBegins, SlotMoves DEF createChannel, CreateChannelInsert, CreateChannelCommit, Creating, CreateChannelAuthorise, Begin
<1>8. CASE markChannelAsRead(r)
    BY <1>8, SlotBegins, SlotMoves DEF markChannelAsRead, MarkReadLookup, MarkReadCheck, MarkReadUpsert, Begin
<1>9. CASE socketMarkChannelAsRead(r)
    BY <1>9, SlotBegins, SlotMoves DEF socketMarkChannelAsRead, SocketMarkReadLookup, SocketMarkReadCheck, SocketMarkReadUpsert, Begin
<1>10. CASE inviteToChannel(r)
    BY <1>10, SlotBegins, SlotMoves DEF inviteToChannel, InviteAuthorise, InviteCheck, InviteFilter, InviteDedupe, InviteInsert, Begin
<1>11. CASE leaveChannel(r)
    BY <1>11, SlotBegins, SlotMoves DEF leaveChannel, LeaveLookup, LeaveUpsert, Begin
<1>12. CASE deleteChannel(r)
    BY <1>12, SlotBegins, SlotMoves DEF deleteChannel, DeleteChannelLookup, DeleteChannelCheck, DeleteChannelCommit, Begin
<1>13. CASE setChannelMemberVisibility(r)
    BY <1>13, SlotBegins, SlotMoves DEF setChannelMemberVisibility, VisibilityCheck, VisibilityUpsert, VisibilityLookup, Begin
<1>14. QED
    BY <1>1, <1>2, <1>3, <1>4, <1>5, <1>6, <1>7, <1>8, <1>9, <1>10, <1>11, <1>12, <1>13 DEF Serve

\* Ids stay fresh and subjects named, whatever else the handlers do.
LEMMA SlotsKept ==
    ASSUME TypeOK, FreshIds, Named, [Next]_vars,
           \A c \in Channels :
             type[c] = "absent" /\ type'[c] # "absent" =>
               \E r \in Requests : Creating(r) /\ ~ Creating(r)' /\ req[r].channel = c
    PROVE  FreshIds' /\ Named'
<1>1. ASSUME NEW r \in Requests, Serve(r) \/ Notify(r) \/ Abort(r)
      PROVE  FreshIds' /\ Named'
    <2>1. ReqOK
        BY DEF TypeOK, ReqOK
    <2>2. Others(r)
        BY <1>1, <2>1, SlotSteps
    <2>3. ASSUME NEW q \in Requests, q # r
          PROVE  req'[q] = req[q] /\ (Creating(q)' <=> Creating(q))
        BY <2>2, <2>3 DEF Others, Creating
    <2>4. ASSUME NEW c \in Channels, type[c] = "absent", NEW q \in Requests,
                 Creating(q), Creating(q)', req[q].channel = c
          PROVE  type'[c] = "absent"
        BY <2>4 DEF FreshIds
    <2>5. CASE req'[r] = Idle
        BY <2>3, <2>4, <2>5 DEF FreshIds, Named, Creating
    <2>6. CASE Continues(r)
        BY <2>3, <2>4, <2>6 DEF FreshIds, Named, Creating, Continues
    <2>7. CASE req'[r].op \notin {"createChannel", "setChannelMemberVisibility"}
        BY <2>3, <2>4, <2>7 DEF FreshIds, Named, Creating
    <2>8. ASSUME NEW u \in Users, NEW c \in Channels, NEW t \in ChannelType,
                 CreateChannelAuthorise(r, u, c, t)
          PROVE  FreshIds' /\ Named'
        <3>1. req'[r].op = "createChannel" /\ req'[r].channel = c
            BY <2>1, <2>8, SlotBegins DEF CreateChannelAuthorise, Begin
        <3>2. /\ type[c] = "absent" /\ UNCHANGED type
              /\ \A q \in Requests : req[q] # Idle => req[q].channel # c
            BY <2>8 DEF CreateChannelAuthorise, tables
        <3>3. QED
            BY <2>3, <3>1, <3>2 DEF FreshIds, Named, Creating
    <2>9. ASSUME NEW u \in Users, NEW v \in Users, NEW c \in Channels, NEW value \in Visibility,
                 VisibilityLookup(r, u, v, c, value)
          PROVE  FreshIds' /\ Named'
        <3>1. req'[r].op = "setChannelMemberVisibility" /\ req'[r].target # None
            BY <2>1, <2>9, SlotBegins, NoneAssumption DEF VisibilityLookup, Begin
        <3>2. QED
            BY <2>3, <2>4, <3>1 DEF FreshIds, Named, Creating
    <2>10. QED
        BY <1>1, <2>1, <2>5, <2>6, <2>7, <2>8, <2>9, SlotSteps
<1>2. CASE \/ \E u \in Users : createWorkspace(u)
           \/ UNCHANGED vars
    BY <1>2 DEF createWorkspace, vars, FreshIds, Named, Creating
<1>3. QED
    BY <1>1, <1>2 DEF Next

\* Reading, being invited, leaving, and the owner's switch.
Upsert(r) ==
    \/ MarkReadUpsert(r) \/ SocketMarkReadUpsert(r) \/ InviteInsert(r)
    \/ LeaveUpsert(r) \/ VisibilityUpsert(r)

\* Only these steps write a channel or a row of one.
LEMMA RowWriters ==
    ASSUME NEW r \in Requests, Serve(r) \/ Notify(r) \/ Abort(r)
    PROVE  \/ CreateChannelCommit(r) \/ DeleteChannelCommit(r) \/ DeleteWorkspaceCommit(r)
           \/ UpdateRoleStrip(r) \/ RemoveCommit(r) \/ Upsert(r)
           \/ UNCHANGED <<type, access>>
<1>1. CASE Notify(r) \/ Abort(r)
    BY <1>1 DEF Notify, Abort, tables
<1>2. CASE joinWorkspace(r) \/ deleteWorkspace(r)
    BY <1>2 DEF joinWorkspace, JoinLookup, JoinInsert, deleteWorkspace,
                DeleteWorkspaceAuthorise, tables
<1>3. CASE updateWorkspaceMemberRole(r)
    BY <1>3 DEF updateWorkspaceMemberRole, UpdateRoleAuthorise, UpdateRoleCheck,
                UpdateRoleWrite, UpdateRoleList, tables
<1>4. CASE transferWorkspaceOwnership(r) \/ removeWorkspaceMember(r)
    BY <1>4 DEF transferWorkspaceOwnership, TransferAuthorise, TransferCheck, TransferCommit,
                removeWorkspaceMember, RemoveAuthorise, RemoveCheck, tables
<1>5. CASE createChannel(r) \/ deleteChannel(r)
    BY <1>5 DEF createChannel, CreateChannelAuthorise, CreateChannelInsert,
                deleteChannel, DeleteChannelLookup, DeleteChannelCheck, tables
<1>6. CASE markChannelAsRead(r) \/ socketMarkChannelAsRead(r)
    BY <1>6 DEF markChannelAsRead, MarkReadLookup, MarkReadCheck, socketMarkChannelAsRead,
                SocketMarkReadLookup, SocketMarkReadCheck, Upsert, tables
<1>7. CASE inviteToChannel(r) \/ leaveChannel(r) \/ setChannelMemberVisibility(r)
    BY <1>7 DEF inviteToChannel, InviteAuthorise, InviteCheck, InviteFilter, InviteDedupe,
                leaveChannel, LeaveLookup, setChannelMemberVisibility, VisibilityLookup,
                VisibilityCheck, Upsert, tables
<1>8. QED
    BY <1>1, <1>2, <1>3, <1>4, <1>5, <1>6, <1>7 DEF Serve

\* An upsert touches one row, of a channel there is, and shows it to whoever
\* it was hidden from only at the owner's request.
LEMMA UpsertStep ==
    ASSUME TypeOK, Named, NEW r \in Requests, Upsert(r),
           NEW c \in Channels, NEW u \in Users
    PROVE  /\ UNCHANGED type
           /\ access'[c][u] # access[c][u] => Exists(c)
           /\ access[c][u] = "hidden" /\ access'[c][u] = "visible" =>
                At(r, "setChannelMemberVisibility", "write") /\ req[r].target = u
<1>1. /\ access \in [Channels -> [Users -> Visibility \cup {"none"}]]
      /\ ReqOK
    BY DEF TypeOK, ReqOK
<1> DEFINE subject == IF req[r].target = None THEN req[r].actor ELSE req[r].target
<1>2. ASSUME NEW value, PutAccess(r, value)
      PROVE  /\ UNCHANGED type
             /\ access'[c][u] # access[c][u] => Exists(c)
             /\ access[c][u] = "hidden" /\ access'[c][u] = "visible" =>
                  value # "keep" /\ value = "visible" /\ subject = u
    <2> DEFINE ch == req[r].channel
               new == IF value = "keep"
                        THEN IF access[ch][subject] = "none" THEN "visible" ELSE access[ch][subject]
                        ELSE value
    <2>1. /\ Exists(ch) /\ UNCHANGED type
          /\ access' = [access EXCEPT ![ch] = [access[ch] EXCEPT ![subject] = new]]
        BY <1>2 DEF PutAccess
    <2> HIDE DEF ch, subject
    <2>2. /\ access'[c][u] # access[c][u] => c = ch /\ u = subject
          /\ c = ch /\ u = subject => access'[c][u] = new
        <3> HIDE DEF new
        <3>1. QED
            BY <1>1, <2>1
    <2>3. QED
        BY <2>1, <2>2
<1>3. CASE MarkReadUpsert(r) \/ SocketMarkReadUpsert(r) \/ InviteInsert(r)
    BY <1>2, <1>3 DEF MarkReadUpsert, SocketMarkReadUpsert, InviteInsert
<1>4. CASE LeaveUpsert(r)
    BY <1>2, <1>4 DEF LeaveUpsert
<1>5. CASE VisibilityUpsert(r)
    <2>1. req[r].target # None
        BY <1>5 DEF VisibilityUpsert, At, Named
    <2>2. QED
        BY <1>2, <1>5, <2>1 DEF VisibilityUpsert
<1>6. QED
    BY <1>3, <1>4, <1>5 DEF Upsert

\* What a step does to one row: created unhidden with its channel, upserted,
\* taken away, or left alone.
LEMMA RowStep ==
    ASSUME TypeOK, Named, FreshIds, [Next]_vars, NEW c \in Channels, NEW u \in Users
    PROVE  \/ type[c] = "absent" /\ Exists(c)'
           \/ /\ Exists(c) /\ UNCHANGED type
              /\ access[c][u] = "hidden" /\ access'[c][u] = "visible" =>
                   \E r \in Requests : At(r, "setChannelMemberVisibility", "write") /\ req[r].target = u
           \/ access'[c][u] = "none"
           \/ access'[c][u] = access[c][u] /\ (Exists(c) => Exists(c)')
<1> DEFINE Row ==
           \/ type[c] = "absent" /\ Exists(c)'
           \/ /\ Exists(c) /\ UNCHANGED type
              /\ access[c][u] = "hidden" /\ access'[c][u] = "visible" =>
                   \E r \in Requests : At(r, "setChannelMemberVisibility", "write") /\ req[r].target = u
           \/ access'[c][u] = "none"
           \/ access'[c][u] = access[c][u] /\ (Exists(c) => Exists(c)')
<1>1. /\ access \in [Channels -> [Users -> Visibility \cup {"none"}]]
      /\ type \in [Channels -> ChannelType \cup {"absent", "deleted"}]
      /\ ReqOK
    BY DEF TypeOK, ReqOK
<1>2. ASSUME NEW r \in Requests, CreateChannelCommit(r) PROVE Row
    <2>1. /\ Creating(r) /\ req[r].arg \in ChannelType
          /\ type' = [type EXCEPT ![req[r].channel] = req[r].arg]
        BY <1>1, <1>2, RequestFields DEF CreateChannelCommit, At, Creating, Fits
    <2>2. CASE c = req[r].channel
        BY <1>1, <2>1, <2>2 DEF FreshIds, Exists
    <2>3. CASE c # req[r].channel
        <3>1. access'[c] = access[c] /\ type'[c] = type[c]
            BY <1>1, <1>2, <2>1, <2>3 DEF CreateChannelCommit
        <3>2. QED
            BY <3>1 DEF Exists
    <2>4. QED
        BY <2>2, <2>3
<1>3. ASSUME NEW r \in Requests, DeleteChannelCommit(r) PROVE Row
    <2>1. CASE c = req[r].channel
        BY <1>1, <1>3, <2>1 DEF DeleteChannelCommit
    <2>2. CASE c # req[r].channel
        <3>1. access'[c] = access[c] /\ type'[c] = type[c]
            BY <1>1, <1>3, <2>2 DEF DeleteChannelCommit
        <3>2. QED
            BY <3>1 DEF Exists
    <2>3. QED
        BY <2>1, <2>2
<1>4. ASSUME NEW r \in Requests, DeleteWorkspaceCommit(r) PROVE Row
    BY <1>4 DEF DeleteWorkspaceCommit
<1>5. ASSUME NEW r \in Requests, UpdateRoleStrip(r) \/ RemoveCommit(r) PROVE Row
    BY <1>1, <1>5 DEF UpdateRoleStrip, RemoveCommit, Exists
<1>6. ASSUME NEW r \in Requests, Upsert(r) PROVE Row
    BY <1>6, UpsertStep DEF Exists
<1>7. ASSUME UNCHANGED <<type, access>> PROVE Row
    BY <1>7 DEF Exists
<1>8. QED
    BY <1>2, <1>3, <1>4, <1>5, <1>6, <1>7, RowWriters DEF Next, createWorkspace, vars

----------------------------------------------------------------------------
\* The inductive invariant: without the fresh ids a channel could be created
\* over rows that are hidden; without the rows being those of channels, there
\* could be such rows before it is created.
RowInv ==
    /\ FreshIds
    /\ Named
    /\ NoRowOutlivesItsChannel

LEMMA RowInvariant == Spec => [](TypeOK /\ RowInv)
<1>1. Init => RowInv
    BY DEF Init, RowInv, FreshIds, Named, Creating, NoRowOutlivesItsChannel, HasRow
<1>2. TypeOK /\ TypeOK' /\ RowInv /\ [Next]_vars => RowInv'
    <2> SUFFICES ASSUME TypeOK, TypeOK', FreshIds, Named, NoRowOutlivesItsChannel, [Next]_vars
                 PROVE  RowInv'
        BY DEF RowInv
    <2>1. ASSUME NEW c \in Channels, type[c] = "absent", type'[c] # "absent"
          PROVE  \E r \in Requests : Creating(r) /\ ~ Creating(r)' /\ req[r].channel = c
        <3>1. PICK r \in Requests : \/ CreateChannelCommit(r) \/ DeleteChannelCommit(r)
                                    \/ DeleteWorkspaceCommit(r)
            <4>1. ~ UNCHANGED type
                BY <2>1
            <4>2. ASSUME NEW r \in Requests,
                         UpdateRoleStrip(r) \/ RemoveCommit(r) \/ Upsert(r)
                  PROVE  UNCHANGED type
                BY <4>2 DEF UpdateRoleStrip, RemoveCommit, Upsert, MarkReadUpsert,
                   SocketMarkReadUpsert, InviteInsert, LeaveUpsert, VisibilityUpsert, PutAccess
            <4>3. QED
                BY <4>1, <4>2, RowWriters DEF Next, createWorkspace, vars
        <3>2. type \in [Channels -> ChannelType \cup {"absent", "deleted"}] /\ ReqOK
            BY DEF TypeOK, ReqOK
        <3>3. ~ DeleteWorkspaceCommit(r)
            BY <2>1, <3>2 DEF DeleteWorkspaceCommit, Exists, ChannelType
        <3>4. ~ DeleteChannelCommit(r)
            BY <2>1, <3>2 DEF DeleteChannelCommit, Exists, ChannelType
        <3>5. Creating(r) /\ req[r].channel = c
            BY <2>1, <3>1, <3>2, <3>3, <3>4 DEF CreateChannelCommit, Creating, At
        <3>6. ~ Creating(r)'
            <4>1. req[r] \in Request /\ Goto(r, "notify")
                BY <3>1, <3>2, <3>3, <3>4, <3>5 DEF CreateChannelCommit, Creating, ReqOK
            <4>2. req'[r].pc = "notify"
                BY <4>1, <3>2 DEF Goto, ReqOK, Request
            <4>3. QED
                BY <4>2 DEF Creating
        <3>7. QED
            BY <3>5, <3>6
    <2>2. FreshIds' /\ Named'
        BY <2>1, SlotsKept
    <2>3. ASSUME NEW c \in Channels, NEW u \in Users, HasRow(c, u)'
          PROVE  Exists(c)'
        BY <2>3, RowStep DEF NoRowOutlivesItsChannel, HasRow, Exists
    <2>4. QED
        BY <2>2, <2>3 DEF RowInv, NoRowOutlivesItsChannel
<1>3. QED
    BY <1>1, <1>2, TypeCorrect, PTL DEF Spec

\* No request, however late, leaves a membership row of a channel that is
\* gone: whoever upserts one needs the channel's row, whoever deletes the
\* channel takes the rows along (channelController 401, schema.prisma 141).
THEOREM RowsHaveChannels == Spec => []NoRowOutlivesItsChannel
<1>1. RowInv => NoRowOutlivesItsChannel
    BY DEF RowInv
<1>2. QED
    BY <1>1, RowInvariant, PTL

\* A channel that was left or taken from somebody's view comes back for them
\* by a switch of the owner's that names them, and by nothing else, whatever
\* reads and invitations were checked before (channelController 200, 283, 344).
THEOREM HiddenStaysHidden == Spec => OnlyTheOwnerUnhides
<1> DEFINE Unhides ==
        \A c \in Channels, u \in Users :
          access[c][u] = "hidden" /\ access'[c][u] = "visible" =>
            \E r \in Requests :
              At(r, "setChannelMemberVisibility", "write") /\ req[r].target = u
<1>1. TypeOK /\ RowInv /\ [Next]_vars => [Unhides]_vars
    <2> SUFFICES ASSUME TypeOK, RowInv, Next, NEW c \in Channels, NEW u \in Users,
                        access[c][u] = "hidden", access'[c][u] = "visible"
                 PROVE  \E r \in Requests :
                          At(r, "setChannelMemberVisibility", "write") /\ req[r].target = u
        BY Zenon
    <2>1. type[c] # "absent"
        BY DEF RowInv, NoRowOutlivesItsChannel, HasRow, Exists, ChannelType
    <2>2. QED
        BY <2>1, RowStep DEF RowInv
<1>2. QED
    BY <1>1, RowInvariant, PTL DEF Spec, OnlyTheOwnerUnhides
----------------------------------------------------------------------------
(* Requests served one at a time.  What a handler has checked then still   *)
(* holds when it writes, as nobody else writes in between.                 *)

OneAtATime == \A r, q \in Requests : req[r] # Idle /\ req[q] # Idle => r = q

\* The user whose row an upsert writes.
Grantee(q) == IF q.target = None THEN q.actor ELSE q.target

\* Whoever is to get a row is a member; whoever is to be demoted or removed is
\* not the owner; the channels a demotion takes away are those there are.
StillHolds(r) ==
    LET q == req[r]
    IN  q # Idle =>
          /\ q.op \in {"inviteToChannel", "setChannelMemberVisibility"} => q.target # None
          /\ \/ q.op \in {"markChannelAsRead", "socketMarkChannelAsRead", "leaveChannel"}
             \/ q.op = "inviteToChannel" /\ q.pc \in {"dedupe", "write"}
             \/ q.op = "setChannelMemberVisibility" /\ q.pc = "write"
             => IsMember(Grantee(q))
          /\ q.op = "createChannel" =>
               \A u \in Users : u = q.actor \/ u \in q.seen => IsMember(u)
          /\ q.op \in {"updateWorkspaceMemberRole", "removeWorkspaceMember"} /\ q.pc = "write" =>
               role[q.target] # "OWNER"
          /\ q.op = "updateWorkspaceMemberRole" =>
               /\ q.target \in Users /\ q.seen \subseteq Channels
               /\ q.pc \in {"check", "write", "list"} => q.seen = {}
               /\ q.arg = "GUEST" /\ q.pc \in {"list", "strip", "notify"} =>
                    role[q.target] = "GUEST"
               /\ q.arg = "GUEST" /\ q.pc = "strip" =>
                    \A c \in Channels : Exists(c) => c \in q.seen
               /\ q.pc = "notify" =>
                    /\ \A c \in q.seen : ~ HasRow(c, q.target)
                    /\ q.arg = "GUEST" =>
                         \A c \in Channels : Exists(c) => ~ HasRow(c, q.target)

AbsentIsEmpty ==
    workspace = "absent" =>
      /\ \A u \in Users : ~ IsMember(u)
      /\ \A c \in Channels : ~ Exists(c)
      /\ \A r \in Requests : req[r] = Idle

AloneInv ==
    /\ LiveWorkspaceIsOwned
    /\ RowsBelongToMembers
    /\ AbsentIsEmpty
    /\ \A r \in Requests : StillHolds(r)

Sound == LiveWorkspaceIsOwned /\ RowsBelongToMembers /\ AnnouncedDemotionIsComplete

\* A step of slot r is one of a request under way, or begins one.
LEMMA SlotIsBusy ==
    ASSUME ReqOK, NEW r \in Requests, Serve(r) \/ Notify(r) \/ Abort(r)
    PROVE  req[r] # Idle \/ req'[r] # Idle
<1> SUFFICES ASSUME req[r] = Idle PROVE req'[r] # Idle
    OBVIOUS
<1>1. ASSUME NEW op, NEW pc, NEW u, NEW v, NEW c, NEW a, NEW ids,
             BeginSeeing(r, op, pc, u, v, c, a, ids)
      PROVE  req'[r] # Idle
    <2>1. req'[r].op = op /\ op \in Operations
        BY <1>1, SlotBegins
    <2>2. QED
        BY <2>1, OperationsAssumption DEF Idle, AllOperations
<1>2. CASE joinWorkspace(r) \/ deleteWorkspace(r)
    BY <1>1, <1>2 DEF joinWorkspace, JoinLookup, JoinInsert, deleteWorkspace, DeleteWorkspaceAuthorise,
                DeleteWorkspaceCommit, Begin, At
<1>3. CASE updateWorkspaceMemberRole(r)
    BY <1>1, <1>3 DEF updateWorkspaceMemberRole, UpdateRoleAuthorise, UpdateRoleCheck, UpdateRoleWrite,
                UpdateRoleList, UpdateRoleStrip, Begin, At
<1>4. CASE transferWorkspaceOwnership(r) \/ removeWorkspaceMember(r)
    BY <1>1, <1>4 DEF transferWorkspaceOwnership, TransferAuthorise, TransferCheck, TransferCommit,
                removeWorkspaceMember, RemoveAuthorise, RemoveCheck, RemoveCommit, Begin, At
<1>5. CASE createChannel(r) \/ deleteChannel(r)
    BY <1>1, <1>5 DEF createChannel, CreateChannelAuthorise, CreateChannelInsert, CreateChannelCommit,
                deleteChannel, DeleteChannelLookup, DeleteChannelCheck, DeleteChannelCommit,
                Begin, At
<1>6. CASE markChannelAsRead(r) \/ socketMarkChannelAsRead(r) \/ leaveChannel(r)
    BY <1>1, <1>6 DEF markChannelAsRead, MarkReadLookup, MarkReadCheck, MarkReadUpsert,
                socketMarkChannelAsRead, SocketMarkReadLookup, SocketMarkReadCheck,
                SocketMarkReadUpsert, leaveChannel, LeaveLookup, LeaveUpsert, Begin, At
<1>7. CASE inviteToChannel(r) \/ setChannelMemberVisibility(r)
    BY <1>1, <1>7 DEF inviteToChannel, InviteAuthorise, InviteCheck, InviteFilter, InviteDedupe,
                InviteInsert, setChannelMemberVisibility, VisibilityLookup, VisibilityCheck,
                VisibilityUpsert, Begin, At
<1>8. QED
    BY <1>2, <1>3, <1>4, <1>5, <1>6, <1>7 DEF Serve, Notify, Abort

\* Nothing is asked of a workspace that was not created.
LEMMA NothingServed ==
    ASSUME AbsentIsEmpty, workspace = "absent", NEW r \in Requests
    PROVE  ~ (Serve(r) \/ Notify(r) \/ Abort(r))
<1>1. /\ req[r] = Idle
      /\ \A u \in Users : ~ IsMember(u) /\ role[u] # "OWNER"
      /\ \A c \in Channels : ~ Exists(c)
    BY DEF AbsentIsEmpty, IsMember
<1>2. \A u \in Users : \A p : ~ authorizeRBAC(u, p)
    BY <1>1 DEF authorizeRBAC, IsMember
<1>3. \A op, pc : ~ At(r, op, pc)
    BY <1>1 DEF At
<1>4. ~ (joinWorkspace(r) \/ deleteWorkspace(r) \/ updateWorkspaceMemberRole(r))
    BY <1>2, <1>3 DEF joinWorkspace, JoinLookup, JoinInsert, deleteWorkspace,
       DeleteWorkspaceAuthorise, DeleteWorkspaceCommit, updateWorkspaceMemberRole,
       UpdateRoleAuthorise, UpdateRoleCheck, UpdateRoleWrite, UpdateRoleList, UpdateRoleStrip
<1>5. ~ (transferWorkspaceOwnership(r) \/ removeWorkspaceMember(r) \/ createChannel(r))
    BY <1>2, <1>3 DEF transferWorkspaceOwnership, TransferAuthorise, TransferCheck, TransferCommit,
       removeWorkspaceMember, RemoveAuthorise, RemoveCheck, RemoveCommit, createChannel,
       CreateChannelAuthorise, CreateChannelInsert, CreateChannelCommit
<1>6. ~ (markChannelAsRead(r) \/ socketMarkChannelAsRead(r) \/ leaveChannel(r))
    BY <1>1, <1>3 DEF markChannelAsRead, MarkReadLookup, MarkReadCheck, MarkReadUpsert,
       socketMarkChannelAsRead, SocketMarkReadLookup, SocketMarkReadCheck, SocketMarkReadUpsert,
       leaveChannel, LeaveLookup, LeaveUpsert
<1>7. ~ (inviteToChannel(r) \/ deleteChannel(r) \/ setChannelMemberVisibility(r))
    BY <1>1, <1>3 DEF inviteToChannel, InviteAuthorise, InviteCheck, InviteFilter, InviteDedupe,
       InviteInsert, deleteChannel, DeleteChannelLookup, DeleteChannelCheck, DeleteChannelCommit,
       setChannelMemberVisibility, VisibilityLookup, VisibilityCheck, VisibilityUpsert
<1>8. QED
    BY <1>1, <1>4, <1>5, <1>6, <1>7 DEF Serve, Notify, Abort

\* What a slot holds when its request has begun.
LEMMA SlotBeginsWith ==
    ASSUME ReqOK, NEW r \in Requests, NEW op, NEW pc, NEW u, NEW v, NEW c, NEW a, NEW ids,
           BeginSeeing(r, op, pc, u, v, c, a, ids)
    PROVE  /\ req'[r].op = op /\ req'[r].pc = pc /\ req'[r].actor = u /\ req'[r].target = v
           /\ req'[r].channel = c /\ req'[r].arg = a /\ req'[r].seen = ids
<1>1. req'[r] = [ op |-> op, pc |-> pc, actor |-> u, target |-> v,
                  channel |-> c, arg |-> a, seen |-> ids ]
    BY DEF ReqOK, BeginSeeing
<1>2. QED
    BY <1>1

\* What it holds when its handler goes on.
SameRequest(r) ==
    /\ req'[r].op = req[r].op /\ req'[r].actor = req[r].actor
    /\ req'[r].target = req[r].target /\ req'[r].channel = req[r].channel
    /\ req'[r].arg = req[r].arg

LEMMA SlotGoesOn ==
    ASSUME ReqOK, NEW r \in Requests, req[r] # Idle, NEW pc
    PROVE  /\ Goto(r, pc) => /\ SameRequest(r) /\ req'[r].pc = pc
                             /\ req'[r].seen = req[r].seen
           /\ \A ids : See(r, pc, ids) => SameRequest(r) /\ req'[r].pc = pc /\ req'[r].seen = ids
<1>1. req[r] \in Request
    BY DEF ReqOK
<1>2. ASSUME Goto(r, pc)
      PROVE  SameRequest(r) /\ req'[r].pc = pc /\ req'[r].seen = req[r].seen
    <2>1. req'[r] = [req[r] EXCEPT !.pc = pc]
        BY <1>2 DEF ReqOK, Goto
    <2>2. QED
        BY <1>1, <2>1 DEF SameRequest, Request
<1>3. ASSUME NEW ids, See(r, pc, ids)
      PROVE  SameRequest(r) /\ req'[r].pc = pc /\ req'[r].seen = ids
    <2>1. req'[r] = [req[r] EXCEPT !.pc = pc, !.seen = ids]
        BY <1>1, <1>3 DEF ReqOK, See, Request
    <2>2. QED
        BY <1>1, <2>1 DEF SameRequest, Request
<1>4. QED
    BY <1>2, <1>3

\* What it holds when its request is over.
LEMMA SlotEnds == ASSUME ReqOK, NEW r \in Requests, Done(r) PROVE req'[r] = Idle
    BY DEF ReqOK, Done

\* Requests about which nothing is claimed, and those that are over.
LEMMA NoClaim ==
    ASSUME NEW r \in Requests,
           \/ req'[r] = Idle
           \/ req'[r].op \in {"joinWorkspace", "deleteWorkspace", "transferWorkspaceOwnership",
                              "deleteChannel"}
           \/ req'[r].op = "removeWorkspaceMember" /\ req'[r].pc # "write"
    PROVE  StillHolds(r)'
    BY DEF StillHolds

LEMMA RoleChangeHolds ==
    ASSUME TypeOK, NEW r \in Requests, StillHolds(r), updateWorkspaceMemberRole(r)
    PROVE  StillHolds(r)'
<1>1. ReqOK
    BY DEF TypeOK, ReqOK
<1>2. ASSUME NEW u \in Users, NEW v \in Users, NEW a \in {"ADMIN", "MEMBER", "GUEST"},
             UpdateRoleAuthorise(r, u, v, a)
      PROVE  StillHolds(r)'
    <2>1. /\ req'[r].op = "updateWorkspaceMemberRole" /\ req'[r].pc = "check"
          /\ req'[r].target = v /\ req'[r].seen = {}
        BY <1>1, <1>2, SlotBeginsWith DEF UpdateRoleAuthorise, Begin
    <2>2. QED
        BY <2>1 DEF StillHolds
<1>3. CASE UpdateRoleCheck(r)
    <2>1. /\ req[r] # Idle /\ req[r].op = "updateWorkspaceMemberRole" /\ req[r].pc = "check"
          /\ role[req[r].target] # "OWNER" /\ Goto(r, "write") /\ UNCHANGED tables
        BY <1>3 DEF UpdateRoleCheck, At
    <2>2. SameRequest(r) /\ req'[r].pc = "write" /\ req'[r].seen = req[r].seen
        BY <1>1, <2>1, SlotGoesOn
    <2>3. QED
        BY <2>1, <2>2 DEF StillHolds, SameRequest, tables
<1>4. CASE UpdateRoleWrite(r)
    <2> DEFINE next == IF req[r].arg = "ADMIN" THEN "notify" ELSE "list"
    <2>1. /\ req[r] # Idle /\ req[r].op = "updateWorkspaceMemberRole" /\ req[r].pc = "write"
          /\ role' = [role EXCEPT ![req[r].target] = req[r].arg] /\ Goto(r, next)
        BY <1>4 DEF UpdateRoleWrite, At
    <2>2. SameRequest(r) /\ req'[r].pc = next /\ req'[r].seen = req[r].seen
        BY <1>1, <2>1, SlotGoesOn
    <2>3. req[r].target \in Users /\ req[r].seen = {}
        BY <2>1 DEF StillHolds
    <2>4. role'[req[r].target] = req[r].arg
        BY <2>1, <2>3 DEF TypeOK
    <2>5. QED
        BY <2>1, <2>2, <2>3, <2>4 DEF StillHolds, SameRequest
<1>5. CASE UpdateRoleList(r)
    <2> DEFINE revoked == {c \in Channels : Exists(c) /\ (req[r].arg = "MEMBER" => type[c] = "PRIVATE")}
               next == IF revoked = {} THEN "notify" ELSE "strip"
    <2>1. /\ req[r] # Idle /\ req[r].op = "updateWorkspaceMemberRole" /\ req[r].pc = "list"
          /\ See(r, next, revoked) /\ UNCHANGED tables
        BY <1>5 DEF UpdateRoleList, At
    <2>2. SameRequest(r) /\ req'[r].pc = next /\ req'[r].seen = revoked
        <3>1. PICK ids, pc : ids = revoked /\ pc = next
            OBVIOUS
        <3>2. See(r, pc, ids)
            BY <2>1, <3>1
        <3>3. QED
            BY <1>1, <2>1, <3>1, <3>2, SlotGoesOn
    <2>3. /\ req[r].target \in Users
          /\ req[r].arg = "GUEST" => role[req[r].target] = "GUEST"
        BY <2>1 DEF StillHolds
    <2>4. /\ revoked \subseteq Channels
          /\ req[r].arg = "GUEST" => \A c \in Channels : Exists(c) => c \in revoked
        OBVIOUS
    <2>5. next \in {"notify", "strip"} /\ (next = "notify" => revoked = {})
        OBVIOUS
    <2> HIDE DEF revoked, next
    <2>6. UNCHANGED <<role, type, access>>
        BY <2>1 DEF tables
    <2>7. QED
        BY <2>1, <2>2, <2>3, <2>4, <2>5, <2>6 DEF StillHolds, SameRequest, Exists, HasRow
<1>6. CASE UpdateRoleStrip(r)
    <2>1. /\ req[r] # Idle /\ req[r].op = "updateWorkspaceMemberRole" /\ req[r].pc = "strip"
          /\ access' = [c \in Channels |->
                          IF c \in req[r].seen
                            THEN [access[c] EXCEPT ![req[r].target] = "none"]
                            ELSE access[c]]
          /\ Goto(r, "notify") /\ UNCHANGED <<role, type>>
        BY <1>6 DEF UpdateRoleStrip, At
    <2>2. SameRequest(r) /\ req'[r].pc = "notify" /\ req'[r].seen = req[r].seen
        BY <1>1, <2>1, SlotGoesOn
    <2>3. /\ req[r].target \in Users /\ req[r].seen \subseteq Channels
          /\ req[r].arg = "GUEST" => /\ role[req[r].target] = "GUEST"
                                     /\ \A c \in Channels : Exists(c) => c \in req[r].seen
        BY <2>1 DEF StillHolds
    <2>4. \A c \in req[r].seen : access'[c][req[r].target] = "none"
        BY <2>1, <2>3 DEF TypeOK
    <2>5. QED
        BY <2>1, <2>2, <2>3, <2>4 DEF StillHolds, SameRequest, HasRow, Exists
<1>7. QED
    BY <1>2, <1>3, <1>4, <1>5, <1>6 DEF updateWorkspaceMemberRole

LEMMA RemovalHolds ==
    ASSUME TypeOK, NEW r \in Requests, removeWorkspaceMember(r)
    PROVE  StillHolds(r)'
<1>1. ReqOK
    BY DEF TypeOK, ReqOK
<1>2. ASSUME NEW u \in Users, NEW v \in Users, RemoveAuthorise(r, u, v)
      PROVE  StillHolds(r)'
    <2>1. req'[r].op = "removeWorkspaceMember" /\ req'[r].pc = "check"
        BY <1>1, <1>2, SlotBeginsWith DEF RemoveAuthorise, Begin
    <2>2. QED
        BY <2>1, NoClaim
<1>3. CASE RemoveCheck(r)
    <2>1. /\ req[r] # Idle /\ req[r].op = "removeWorkspaceMember"
          /\ role[req[r].target] # "OWNER" /\ Goto(r, "write") /\ UNCHANGED tables
        BY <1>3 DEF RemoveCheck, At
    <2>2. SameRequest(r) /\ req'[r].pc = "write"
        BY <1>1, <2>1, SlotGoesOn
    <2>3. QED
        BY <2>1, <2>2 DEF StillHolds, SameRequest, tables
<1>4. CASE RemoveCommit(r)
    <2>1. req[r] # Idle /\ req[r].op = "removeWorkspaceMember" /\ Goto(r, "notify")
        BY <1>4 DEF RemoveCommit, At
    <2>2. SameRequest(r) /\ req'[r].pc = "notify"
        BY <1>1, <2>1, SlotGoesOn
    <2>3. QED
        BY <2>1, <2>2, NoClaim DEF SameRequest
<1>5. QED
    BY <1>2, <1>3, <1>4 DEF removeWorkspaceMember

LEMMA CreationHolds ==
    ASSUME TypeOK, NEW r \in Requests, StillHolds(r), createChannel(r)
    PROVE  StillHolds(r)'
<1>1. ReqOK
    BY DEF TypeOK, ReqOK
<1>2. ASSUME NEW u \in Users, NEW c \in Channels, NEW t \in ChannelType,
             CreateChannelAuthorise(r, u, c, t)
      PROVE  StillHolds(r)'
    <2>1. /\ req'[r].op = "createChannel" /\ req'[r].actor = u /\ req'[r].seen = {}
          /\ IsMember(u) /\ UNCHANGED role
        BY <1>1, <1>2, SlotBeginsWith
           DEF CreateChannelAuthorise, Begin, authorizeRBAC, IsMember, tables
    <2>2. QED
        BY <2>1 DEF StillHolds, IsMember
<1>3. CASE CreateChannelInsert(r)
    <2> DEFINE ids == IF req[r].arg = "PRIVATE" THEN Owners ELSE {}
    <2>1. /\ req[r] # Idle /\ req[r].op = "createChannel"
          /\ See(r, "write", ids) /\ UNCHANGED role
        BY <1>3 DEF CreateChannelInsert, At, tables
    <2>2. SameRequest(r) /\ req'[r].seen = ids
        BY <1>1, <2>1, SlotGoesOn
    <2>3. \A u \in ids : IsMember(u)
        BY DEF Owners, IsMember
    <2> HIDE DEF ids
    <2>4. QED
        BY <2>1, <2>2, <2>3 DEF StillHolds, SameRequest, IsMember
<1>4. CASE CreateChannelCommit(r)
    <2>1. /\ req[r] # Idle /\ req[r].op = "createChannel"
          /\ Goto(r, "notify") /\ UNCHANGED role
        BY <1>4 DEF CreateChannelCommit, At
    <2>2. SameRequest(r) /\ req'[r].seen = req[r].seen
        BY <1>1, <2>1, SlotGoesOn
    <2>3. QED
        BY <2>1, <2>2 DEF StillHolds, SameRequest, IsMember
<1>5. QED
    BY <1>2, <1>3, <1>4 DEF createChannel

LEMMA ReadingHolds ==
    ASSUME TypeOK, NEW r \in Requests, StillHolds(r),
           markChannelAsRead(r) \/ socketMarkChannelAsRead(r) \/ leaveChannel(r)
    PROVE  StillHolds(r)'
<1>1. ReqOK
    BY DEF TypeOK, ReqOK
<1> DEFINE Ops == {"markChannelAsRead", "socketMarkChannelAsRead", "leaveChannel"}
<1>2. ASSUME NEW u \in Users, NEW c \in Channels,
             MarkReadLookup(r, u, c) \/ SocketMarkReadLookup(r, u, c) \/ LeaveLookup(r, u, c)
      PROVE  StillHolds(r)'
    <2>1. /\ req'[r].op \in Ops /\ req'[r].actor = u /\ req'[r].target = None
          /\ IsMember(u) /\ UNCHANGED role
        BY <1>1, <1>2, SlotBeginsWith
           DEF MarkReadLookup, SocketMarkReadLookup, LeaveLookup, Begin, tables
    <2>2. QED
        BY <2>1 DEF StillHolds, IsMember, Grantee
<1>3. CASE MarkReadCheck(r) \/ SocketMarkReadCheck(r) \/ LeaveUpsert(r)
    <2>1. PICK pc \in {"write", "notify"} :
            req[r] # Idle /\ req[r].op \in Ops /\ Goto(r, pc) /\ UNCHANGED role
        BY <1>3 DEF MarkReadCheck, SocketMarkReadCheck, LeaveUpsert, At, tables, PutAccess
    <2>2. SameRequest(r)
        BY <1>1, <2>1, SlotGoesOn
    <2>3. QED
        BY <2>1, <2>2 DEF StillHolds, SameRequest, IsMember, Grantee
<1>4. CASE MarkReadUpsert(r) \/ SocketMarkReadUpsert(r)
    BY <1>1, <1>4, SlotEnds, NoClaim DEF MarkReadUpsert, SocketMarkReadUpsert
<1>5. QED
    BY <1>2, <1>3, <1>4 DEF markChannelAsRead, socketMarkChannelAsRead, leaveChannel

LEMMA GrantHolds ==
    ASSUME TypeOK, NEW r \in Requests, StillHolds(r),
           inviteToChannel(r) \/ setChannelMemberVisibility(r)
    PROVE  StillHolds(r)'
<1>1. ReqOK
    BY DEF TypeOK, ReqOK
<1> DEFINE Ops == {"inviteToChannel", "setChannelMemberVisibility"}
<1>2. ASSUME NEW u \in Users, NEW v \in Users, NEW c \in Channels,
             \/ InviteAuthorise(r, u, v, c)
             \/ \E value \in Visibility : VisibilityLookup(r, u, v, c, value)
      PROVE  StillHolds(r)'
    <2>1. req'[r].op \in Ops /\ req'[r].target = v /\ req'[r].pc = "check"
        BY <1>1, <1>2, SlotBeginsWith DEF InviteAuthorise, VisibilityLookup, Begin
    <2>2. QED
        BY <2>1, NoneAssumption DEF StillHolds
<1>3. CASE InviteCheck(r)
    <2>1. req[r] # Idle /\ req[r].op = "inviteToChannel" /\ Goto(r, "filter")
        BY <1>3 DEF InviteCheck, At
    <2>2. SameRequest(r) /\ req'[r].pc = "filter"
        BY <1>1, <2>1, SlotGoesOn
    <2>3. QED
        BY <2>1, <2>2 DEF StillHolds, SameRequest
<1>4. CASE InviteFilter(r) \/ VisibilityCheck(r)
    <2>1. PICK pc \in {"dedupe", "write"} :
            /\ req[r] # Idle /\ req[r].op \in Ops /\ Goto(r, pc)
            /\ IsMember(req[r].target) /\ UNCHANGED role
        BY <1>4 DEF InviteFilter, VisibilityCheck, At, tables
    <2>2. SameRequest(r)
        BY <1>1, <2>1, SlotGoesOn
    <2>3. QED
        BY <2>1, <2>2 DEF StillHolds, SameRequest, IsMember, Grantee
<1>5. CASE InviteDedupe(r)
    <2>1. /\ req[r] # Idle /\ req[r].op = "inviteToChannel" /\ req[r].pc = "dedupe"
          /\ Goto(r, "write") /\ UNCHANGED role
        BY <1>5 DEF InviteDedupe, At, tables
    <2>2. SameRequest(r)
        BY <1>1, <2>1, SlotGoesOn
    <2>3. QED
        BY <2>1, <2>2 DEF StillHolds, SameRequest, IsMember, Grantee
<1>6. CASE InviteInsert(r) \/ VisibilityUpsert(r)
    <2>1. req[r] # Idle /\ req[r].op \in Ops /\ Goto(r, "notify")
        BY <1>6 DEF InviteInsert, VisibilityUpsert, At
    <2>2. SameRequest(r) /\ req'[r].pc = "notify"
        BY <1>1, <2>1, SlotGoesOn
    <2>3. QED
        BY <2>1, <2>2 DEF StillHolds, SameRequest
<1>7. QED
    BY <1>2, <1>3, <1>4, <1>5, <1>6 DEF inviteToChannel, setChannelMemberVisibility

\* The request of a step goes on with what it has checked.
LEMMA RequestHolds ==
    ASSUME TypeOK, NEW r \in Requests, StillHolds(r), Serve(r) \/ Notify(r) \/ Abort(r)
    PROVE  StillHolds(r)'
<1>1. ReqOK
    BY DEF TypeOK, ReqOK
<1>2. CASE Notify(r) \/ Abort(r)
    BY <1>1, <1>2, SlotEnds, NoClaim DEF Notify, Abort
<1>3. CASE joinWorkspace(r)
    <2>1. req'[r].op = "joinWorkspace"
        BY <1>1, <1>3, SlotBeginsWith, SlotGoesOn
           DEF joinWorkspace, JoinLookup, JoinInsert, Begin, At, SameRequest
    <2>2. QED
        BY <2>1, NoClaim
<1>4. CASE deleteWorkspace(r)
    <2>1. req'[r].op = "deleteWorkspace"
        BY <1>1, <1>4, SlotBeginsWith, SlotGoesOn
           DEF deleteWorkspace, DeleteWorkspaceAuthorise, DeleteWorkspaceCommit, Begin, At, SameRequest
    <2>2. QED
        BY <2>1, NoClaim
<1>5. CASE transferWorkspaceOwnership(r)
    <2>1. req'[r].op = "transferWorkspaceOwnership"
        BY <1>1, <1>5, SlotBeginsWith, SlotGoesOn
           DEF transferWorkspaceOwnership, TransferAuthorise, TransferCheck, TransferCommit,
               Begin, At, SameRequest
    <2>2. QED
        BY <2>1, NoClaim
<1>6. CASE deleteChannel(r)
    <2>1. req'[r].op = "deleteChannel"
        <3>1. CASE \E u \in Users, c \in Channels : DeleteChannelLookup(r, u, c)
            BY <1>1, <3>1, SlotBeginsWith DEF DeleteChannelLookup
        <3>2. CASE DeleteChannelCheck(r)
            BY <1>1, <3>2, SlotGoesOn DEF DeleteChannelCheck, At, SameRequest
        <3>3. CASE DeleteChannelCommit(r)
            BY <1>1, <3>3, SlotGoesOn DEF DeleteChannelCommit, At, SameRequest
        <3>4. QED
            BY <1>6, <3>1, <3>2, <3>3 DEF deleteChannel
    <2>2. QED
        BY <2>1, NoClaim
<1>7. QED
    BY <1>2, <1>3, <1>4, <1>5, <1>6, RoleChangeHolds, RemovalHolds, CreationHolds, ReadingHolds,
       GrantHolds DEF Serve

----------------------------------------------------------------------------
\* The owner of a live workspace is not demoted or removed, and hands it over.
LEMMA OwnerStays ==
    ASSUME TypeOK, LiveWorkspaceIsOwned, NEW r \in Requests, StillHolds(r),
           Serve(r) \/ Notify(r) \/ Abort(r)
    PROVE  LiveWorkspaceIsOwned'
<1> SUFFICES ASSUME workspace' = "live" PROVE Owners' # {}
    BY DEF LiveWorkspaceIsOwned
<1>1. role \in [Users -> MemberRole \cup {"none"}] /\ ReqOK
    BY DEF TypeOK, ReqOK
<1>2. ~ DeleteWorkspaceCommit(r)
    BY DEF DeleteWorkspaceCommit
<1>3. workspace = "live"
    BY <1>2, RoleWriters DEF JoinInsert, UpdateRoleWrite, TransferCommit, RemoveCommit
<1>4. PICK o \in Users : role[o] = "OWNER"
    BY <1>3 DEF LiveWorkspaceIsOwned, Owners
<1>5. CASE JoinInsert(r)
    <2>1. role'[o] = "OWNER"
        BY <1>1, <1>4, <1>5 DEF JoinInsert, IsMember
    <2>2. QED
        BY <2>1 DEF Owners
<1>6. CASE UpdateRoleWrite(r) \/ RemoveCommit(r)
    <2>1. role[req[r].target] # "OWNER"
        BY <1>6 DEF UpdateRoleWrite, RemoveCommit, At, StillHolds
    <2>2. role'[o] = "OWNER"
        BY <1>1, <1>4, <1>6, <2>1 DEF UpdateRoleWrite, RemoveCommit
    <2>3. QED
        BY <2>2 DEF Owners
<1>7. CASE TransferCommit(r)
    <2>1. req[r].target \in Users
        BY <1>1, <1>7, RequestFields DEF TransferCommit, Fits
    <2>2. role'[req[r].target] = "OWNER"
        BY <1>1, <1>7, <2>1 DEF TransferCommit
    <2>3. QED
        BY <2>1, <2>2 DEF Owners
<1>8. CASE UNCHANGED <<workspace, role>>
    BY <1>4, <1>8 DEF Owners
<1>9. QED
    BY <1>2, <1>5, <1>6, <1>7, <1>8, RoleWriters

\* Whoever gets a row is a member, whoever ceases to be one loses the rows.
LEMMA RowsStayWithMembers ==
    ASSUME TypeOK, RowsBelongToMembers, NEW r \in Requests, StillHolds(r),
           Serve(r) \/ Notify(r) \/ Abort(r)
    PROVE  RowsBelongToMembers'
<1> SUFFICES ASSUME NEW c \in Channels, NEW u \in Users, access'[c][u] # "none"
             PROVE  role'[u] # "none"
    BY DEF RowsBelongToMembers, HasRow, IsMember
<1>1. /\ role \in [Users -> MemberRole \cup {"none"}]
      /\ access \in [Channels -> [Users -> Visibility \cup {"none"}]] /\ ReqOK
    BY DEF TypeOK, ReqOK
<1>2. access[c][u] # "none" => role[u] # "none"
    BY DEF RowsBelongToMembers, HasRow, IsMember
<1>3. CASE JoinInsert(r)
    BY <1>1, <1>2, <1>3 DEF JoinInsert
<1>4. CASE DeleteWorkspaceCommit(r)
    BY <1>4 DEF DeleteWorkspaceCommit
<1>5. CASE UpdateRoleWrite(r)
    <2>1. req[r].arg # "none"
        BY <1>1, <1>5, RequestFields DEF UpdateRoleWrite, Fits
    <2>2. QED
        BY <1>1, <1>2, <1>5, <2>1 DEF UpdateRoleWrite
<1>6. CASE TransferCommit(r)
    BY <1>1, <1>2, <1>6 DEF TransferCommit
<1>7. CASE RemoveCommit(r)
    BY <1>1, <1>2, <1>7 DEF RemoveCommit
<1>8. CASE UNCHANGED <<workspace, role>>
    <2>1. SUFFICES role[u] # "none"
        BY <1>8
    <2>2. CASE CreateChannelCommit(r)
        <3> DEFINE ch == req[r].channel
        <3>1. /\ req[r] # Idle /\ req[r].op = "createChannel"
              /\ access' = [access EXCEPT ![ch] =
                              [w \in Users |-> IF w = req[r].actor \/ w \in req[r].seen
                                                 THEN "visible" ELSE "none"]]
            BY <2>2 DEF CreateChannelCommit, At
        <3>2. u = req[r].actor \/ u \in req[r].seen => role[u] # "none"
            BY <3>1 DEF StillHolds, IsMember
        <3> HIDE DEF ch
        <3>3. CASE c = ch
            BY <1>1, <3>1, <3>2, <3>3
        <3>4. CASE c # ch
            BY <1>1, <1>2, <3>1, <3>4
        <3>5. QED
            BY <3>3, <3>4
    <2>3. CASE DeleteChannelCommit(r)
        BY <1>1, <1>2, <2>3 DEF DeleteChannelCommit
    <2>4. CASE DeleteWorkspaceCommit(r)
        BY <1>4, <1>8, <2>4
    <2>5. CASE UpdateRoleStrip(r) \/ RemoveCommit(r)
        BY <1>1, <1>2, <2>5 DEF UpdateRoleStrip, RemoveCommit
    <2>6. CASE Upsert(r)
        <3> DEFINE ch == req[r].channel
                   who == Grantee(req[r])
        <3>1. PICK value : PutAccess(r, value)
            BY <2>6 DEF Upsert, MarkReadUpsert, SocketMarkReadUpsert, InviteInsert, LeaveUpsert,
                        VisibilityUpsert
        <3>2. IsMember(who)
            BY <2>6 DEF Upsert, MarkReadUpsert, SocketMarkReadUpsert, InviteInsert, LeaveUpsert,
                        VisibilityUpsert, At, StillHolds
        <3>3. PICK new : access' = [access EXCEPT ![ch] = [access[ch] EXCEPT ![who] = new]]
            BY <3>1 DEF PutAccess, Grantee
        <3> HIDE DEF ch, who
        <3>4. CASE u = who
            BY <3>2, <3>4 DEF IsMember
        <3>5. CASE u # who
            BY <1>1, <1>2, <3>3, <3>5
        <3>6. QED
            BY <3>4, <3>5
    <2>7. CASE UNCHANGED <<type, access>>
        BY <1>2, <2>7
    <2>8. QED
        BY <2>2, <2>3, <2>4, <2>5, <2>6, <2>7, RowWriters
<1>9. QED
    BY <1>3, <1>4, <1>5, <1>6, <1>7, <1>8, RoleWriters

LEMMA AloneStep ==
    ASSUME TypeOK, AloneInv, OneAtATime, OneAtATime', [Next]_vars
    PROVE  AloneInv'
<1>0. ReqOK
    BY DEF TypeOK, ReqOK
<1>1. ASSUME NEW u \in Users, createWorkspace(u) PROVE AloneInv'
    <2>1. /\ workspace = "absent" /\ workspace' = "live"
          /\ role' = [role EXCEPT ![u] = "OWNER"] /\ UNCHANGED <<type, access, req>>
        BY <1>1 DEF createWorkspace
    <2>2. role'[u] = "OWNER" /\ \A v \in Users : role[v] # "none" => role'[v] # "none"
        BY <2>1 DEF TypeOK
    <2>3. LiveWorkspaceIsOwned'
        BY <2>2 DEF LiveWorkspaceIsOwned, Owners
    <2>4. RowsBelongToMembers'
        BY <2>1, <2>2 DEF AloneInv, RowsBelongToMembers, HasRow, IsMember
    <2>5. \A r \in Requests : req'[r] = Idle
        BY <2>1 DEF AloneInv, AbsentIsEmpty
    <2>6. QED
        BY <2>1, <2>3, <2>4, <2>5, NoClaim DEF AloneInv, AbsentIsEmpty
<1>2. ASSUME NEW r \in Requests, Serve(r) \/ Notify(r) \/ Abort(r) PROVE AloneInv'
    <2>1. StillHolds(r)
        BY DEF AloneInv
    <2>2. LiveWorkspaceIsOwned' /\ RowsBelongToMembers' /\ StillHolds(r)'
        BY <1>2, <2>1, OwnerStays, RowsStayWithMembers, RequestHolds DEF AloneInv
    <2>3. workspace # "absent"
        BY <1>2, NothingServed DEF AloneInv
    <2>4. workspace' # "absent"
        BY <1>2, <2>3, RoleWriters
           DEF JoinInsert, DeleteWorkspaceCommit, UpdateRoleWrite, TransferCommit, RemoveCommit
    <2>5. ASSUME NEW q \in Requests, q # r PROVE StillHolds(q)'
        <3>1. req'[q] = req[q]
            BY <1>0, <1>2, <2>5, SlotSteps DEF Others
        <3>2. req'[q] = Idle
            BY <1>0, <1>2, <2>5, <3>1, SlotIsBusy DEF OneAtATime
        <3>3. QED
            BY <3>2, NoClaim
    <2>6. QED
        BY <2>2, <2>4, <2>5 DEF AloneInv, AbsentIsEmpty
<1>3. CASE UNCHANGED vars
    BY <1>3 DEF vars, AloneInv, LiveWorkspaceIsOwned, Owners, RowsBelongToMembers, HasRow,
                IsMember, AbsentIsEmpty, Exists, StillHolds, Grantee
<1>4. QED
    BY <1>1, <1>2, <1>3 DEF Next

\* A demotion that is announced has taken away what it says.
LEMMA DemotionIsComplete == AloneInv => AnnouncedDemotionIsComplete
<1> SUFFICES ASSUME AloneInv, NEW r \in Requests, At(r, "updateWorkspaceMemberRole", "notify")
             PROVE  /\ \A c \in req[r].seen : ~ HasRow(c, req[r].target)
                    /\ req[r].arg = "GUEST" => getWorkspaceChannels(req[r].target) = {}
    BY DEF AnnouncedDemotionIsComplete
<1>1. /\ \A c \in req[r].seen : ~ HasRow(c, req[r].target)
      /\ req[r].arg = "GUEST" => /\ role[req[r].target] = "GUEST"
                                 /\ \A c \in Channels : Exists(c) => ~ HasRow(c, req[r].target)
    BY DEF AloneInv, StillHolds, At
<1>2. QED
    BY <1>1 DEF getWorkspaceChannels, HasRow

LEMMA AloneAtFirst == Init => AloneInv
    BY DEF Init, AloneInv, LiveWorkspaceIsOwned, RowsBelongToMembers, HasRow, AbsentIsEmpty,
           IsMember, Exists, ChannelType, StillHolds

\* As long as requests are served one after the other, whatever fails and
\* however many users and channels there are, a live workspace has its owner,
\* channel rows are members', and an announced demotion is complete
\* (transferWorkspaceOwnership 438-456, removeWorkspaceMember 506-515,
\* updateWorkspaceMemberRole 346-393).
THEOREM SoundAlone == Spec /\ []OneAtATime => []Sound
<1>1. Init => AloneInv
    BY AloneAtFirst
<1>2. TypeOK /\ AloneInv /\ OneAtATime /\ OneAtATime' /\ [Next]_vars => AloneInv'
    BY AloneStep
<1>3. AloneInv => Sound
    BY DemotionIsComplete DEF AloneInv, Sound
<1>4. QED
    BY <1>1, <1>2, <1>3, TypeCorrect, PTL DEF Spec
\* A part of the checked instance that serves a request at a time.
LEMMA OneAtATimeWithin ==
    ASSUME IsFiniteSet(Requests), Alone, Within(part) PROVE OneAtATime
<1>1. part.requests \in kSubset(1, Requests)
    BY DEF Alone, One, Part
<1>2. IsFiniteSet(part.requests) /\ Cardinality(part.requests) = 1
    BY <1>1, FS_Subset DEF kSubset
<1>3. PICK x : part.requests = {x}
    BY <1>2, FS_Singleton
<1>4. QED
    BY <1>3 DEF Within, OneAtATime

\* The instance that is checked, of which this speaks where the part that was
\* chosen serves one request at a time: there AloneIsSound, and so what its
\* three parts say of the operations, holds for any number of users, channels
\* and slots.
THEOREM AloneSound == ASSUME IsFiniteSet(Requests) PROVE MCSpec => []AloneIsSound
<1>1. MCInit => Init /\ Within(part)
    BY DEF MCInit, Init, Within
<1>2. [MCNext]_<<vars, part>> => [Next]_vars
    BY DEF MCNext
<1>3. Within(part) /\ [MCNext]_<<vars, part>> => Within(part)'
    BY DEF MCNext, Within, vars
<1>4. [MCNext]_<<vars, part>> => (Alone' <=> Alone)
    BY DEF MCNext, Alone, One, Part, vars
<1>5. IsFiniteSet(Requests)
    OBVIOUS
<1>6. Alone /\ Within(part) => OneAtATime
    BY <1>5, OneAtATimeWithin
<1>7. Init => AloneInv
    BY AloneAtFirst
<1>8. TypeOK /\ AloneInv /\ OneAtATime /\ OneAtATime' /\ [Next]_vars => AloneInv'
    BY AloneStep
<1>9. AloneInv => Sound
    BY DemotionIsComplete DEF AloneInv, Sound
<1>10. (Alone => Sound) => AloneIsSound
    BY DEF Sound, AloneIsSound
<1>11. MCSpec => Spec
    BY <1>1, <1>2, PTL DEF MCSpec, Spec
<1>12. QED
    BY <1>1, <1>2, <1>3, <1>4, <1>6, <1>7, <1>8, <1>9, <1>10, <1>11, TypeCorrect, PTL DEF MCSpec
=============================================================================
