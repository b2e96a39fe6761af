--------------------------- MODULE WorkspaceProofs ---------------------------
(***************************************************************************)
(* For any users, workspaces and channels, and any order of announcements  *)
(* and answers: nobody is moved to another workspace unasked, everything   *)
(* is of its type, and a page at rest shows the roles and the channels     *)
(* there are.                                                              *)
(*                                                                         *)
(* Three things move a user: a choice, an eviction, and a list of          *)
(* workspaces without the one shown.  A user who is out of a workspace     *)
(* stays out (only others are seen to join), so it is enough that whatever *)
(* is under way and evicts, or lists, was true when it was written: the    *)
(* invariant IInv says so of each announcement, event and answer.          *)
(*                                                                         *)
(* That the page ends up right takes more: of all that is under way about  *)
(* somebody the last says what the tables say (InOrder); what is shown of  *)
(* them is so, or more is coming, or is being asked for (ViewRight); and   *)
(* an answer that nothing has overtaken is so, or more is coming           *)
(* (AnswersRight).  A circumstance that breaks one of the three is one the *)
(* property excepts.                                                       *)
(*                                                                         *)
(* The sidebar is the same argument with channels for users: of all that   *)
(* is under way about a channel the last settles it as the tables have it  *)
(* (ChannelsInOrder), what is shown of the workspace is so of every        *)
(* channel that nothing is coming about, or is being asked for             *)
(* (SidebarRight), and so is an answer that nothing has overtaken          *)
(* (AnswersListRight).                                                     *)
(***************************************************************************)
EXTENDS WorkspaceView, FiniteSetTheorems, SequenceTheorems, TLAPS

Role == [Workspaces -> [Users -> MemberRole \cup {"none"}]]

Out(r, w) == r[w][Me] = "none"

Item ==
    [event : {"workspace_member_joined", "member_role_updated", "workspace_ownership_transferred",
              "member_kicked", "workspace_deleted", "workspace_revoked", "private_channels_revoked",
              "added_to_channel", "channel_created", "channel_access_updated", "channel_deleted"},
     ws : Workspaces, user : Users \cup {None},
     arg : Users \cup {None} \cup MemberRole \cup {"visible", "hidden"},
     channels : SUBSET Channels, was : MemberRole \cup {"none"}]

\* Whom an announcement is about, where that matters, and of which channels.
Addressed(n) ==
    /\ n.event = "workspace_member_joined" => n.user \in Users \ {Me}
    /\ n.event = "member_role_updated" => n.user \in Users /\ n.arg \in MemberRole
    /\ n.event = "workspace_ownership_transferred" => n.user \in Users /\ n.arg \in Users \ {n.user}
    /\ n.event = "member_kicked" => n.user \in Users
    /\ \A c \in n.channels : Of[c] = n.ws

\* What may be told by the roles r: an eviction is of somebody who is out.
Told(r) == {n \in Item : Addressed(n) /\ (Evicts(n) => Out(r, n.ws))}

\* The requests that are answered with something to show, and the other.
Kinds == {"workspaces", "members", "channels", "access", "promotion", "create"}

\* What may be under way by them: a list leaves out only what the user is out of.
Asked(f, r) ==
    /\ {"kind", "ws", "status", "answer", "late", "kept", "channel", "visible"} \subseteq DOMAIN f
    /\ f.kind = "workspaces" /\ f.status = "given" =>
         /\ f.answer.ids \subseteq Workspaces
         /\ \A w \in Workspaces \ f.answer.ids : Out(r, w)
    /\ f.kind = "create" => f.channel \in Channels
    /\ f.kind \in Kinds \/ (f.kind = "read" /\ f.status # "given")

AllAsked(requests, r) == \A f \in requests : Asked(f, r)

Good(v) ==
    /\ {"ws", "saved", "list", "role", "users", "channels", "open"} \subseteq DOMAIN v
    /\ v.ws \in Workspaces \cup {None}
    /\ v.ws # None => v.saved = v.ws
    /\ v.list \subseteq Workspaces

Budget == [{"changes", "acts", "faults", "renewals", "fetches"} -> Nat]

IInv ==
    /\ role \in Role
    /\ Good(view)
    /\ news \in Seq(Told(role)) /\ down \in Seq(Told(role))
    /\ AllAsked(fetches, role)
    /\ budget \in Budget

----------------------------------------------------------------------------
(* Sequences                                                               *)

LEMMA RemoveAtType ==
    ASSUME NEW S, NEW s \in Seq(S), NEW i \in DOMAIN s
    PROVE  RemoveAt(s, i) \in Seq(S)
<1>1. Len(s) \in Nat /\ DOMAIN s = 1 .. Len(s) /\ i \in Int
  BY LenProperties
<1>2. \A j \in 1 .. Len(s) : s[j] \in S
  BY ElementOfSeq
<1>3. SubSeq(s, 1, i - 1) \in Seq(S) /\ SubSeq(s, i + 1, Len(s)) \in Seq(S)
  BY <1>1, <1>2, SubSeqProperties
<1> QED
  BY <1>3, ConcatProperties DEF RemoveAt

LEMMA AppendType ==
    ASSUME NEW S, NEW s \in Seq(S), NEW e \in S
    PROVE  Append(s, e) \in Seq(S)
OBVIOUS

LEMMA WiderType ==
    ASSUME NEW S, NEW T, S \subseteq T, NEW s \in Seq(S)
    PROVE  s \in Seq(T)
OBVIOUS

\* At most one event is told besides.
LEMMA SetToSeqType ==
    ASSUME NEW S, NEW e, S = {} \/ S = {e}
    PROVE  SetToSeq(S) \in Seq(S)
<1>1. IsFiniteSet(S)
  BY FS_EmptySet, FS_Singleton
<1>2. Cardinality(S) \in Nat
  BY <1>1, FS_CardinalityType
<1>3. \E f \in [1 .. Cardinality(S) -> S] : IsInjective(f)
  <2>1. CASE S = {}
    <3>1. 1 .. Cardinality(S) = {}
      BY <2>1, FS_EmptySet
    <3>2. << >> \in [1 .. Cardinality(S) -> S] /\ IsInjective(<< >>)
      BY <3>1 DEF IsInjective
    <3> QED
      BY <3>2
  <2>2. CASE S = {e}
    <3>1. Cardinality(S) = 1
      BY <2>2, FS_Singleton
    <3>2. [i \in 1 .. 1 |-> e] \in [1 .. Cardinality(S) -> S]
      BY <2>2, <3>1
    <3>3. IsInjective([i \in 1 .. 1 |-> e])
      BY DEF IsInjective
    <3> QED
      BY <3>2, <3>3
  <2> QED
    BY <2>1, <2>2
<1>4. SetToSeq(S) \in [1 .. Cardinality(S) -> S]
  BY <1>3 DEF SetToSeq
<1> QED
  BY <1>2, <1>4
----------------------------------------------------------------------------
(* What others do                                                          *)

Stays == \A w \in Workspaces : Out(role, w) => Out(role', w)

LEMMA TellsOne ==
    ASSUME news \in Seq(Told(role')), NEW n \in Told(role'), Tell(n)
    PROVE  news' \in Seq(Told(role'))
  BY AppendType DEF Tell

LEMMA WiderTold ==
    ASSUME Stays
    PROVE  Told(role) \subseteq Told(role')
  BY DEF Stays, Told, Item

\* A handler that writes roles and tells of it, or neither.
LEMMA GovernStep ==
    ASSUME IInv, Govern
    PROVE  /\ role' \in Role /\ Stays
           /\ news' \in Seq(Told(role'))
           /\ UNCHANGED <<view, fetches, down>>
           /\ budget' \in Budget
<1> USE UsersAssumption, ChannelsAssumption DEF IInv
<1> DEFINE Written == role' \in Role /\ Stays
           News1 == UNCHANGED news \/ \E n \in Told(role') : Tell(n)
<1>1. ASSUME NEW w \in Workspaces, NEW u \in Users, joinWorkspace(w, u)
      PROVE  Written /\ News1 /\ Change
  <2>1. role' = [role EXCEPT ![w][u] = "MEMBER"] /\ u # Me
    BY <1>1 DEF joinWorkspace, SetRole
  <2>2. Written
    BY <2>1 DEF Role, Stays, Out, MemberRole
  <2>3. News("workspace_member_joined", w, u, None, {}) \in Told(role')
    BY <2>1 DEF News, Told, Item, Addressed, Evicts, Role
  <2> QED
    BY <1>1, <2>2, <2>3 DEF joinWorkspace
<1>2. ASSUME NEW w \in Workspaces, NEW u \in Users, NEW r \in MemberRole,
             updateWorkspaceMemberRole(w, u, r)
      PROVE  Written /\ News1 /\ Change
  <2>1. role' = [role EXCEPT ![w][u] = r] /\ role[w][u] # "none"
    BY <1>2 DEF updateWorkspaceMemberRole, SetRole
  <2>2. Written
    BY <2>1 DEF Role, Stays, Out, MemberRole
  <2>3. News("member_role_updated", w, u, r, Revoked(w, r)) \in Told(role')
    BY DEF News, Told, Item, Addressed, Evicts, Role, Revoked, ChannelsOf
  <2> QED
    BY <1>2, <2>2, <2>3 DEF updateWorkspaceMemberRole
<1>3. ASSUME NEW w \in Workspaces, NEW u \in Users, NEW v \in Users,
             transferWorkspaceOwnership(w, u, v)
      PROVE  Written /\ News1 /\ Change
  <2>1. /\ role' = [role EXCEPT ![w][u] = "ADMIN", ![w][v] = "OWNER"]
        /\ role[w][u] # "none" /\ role[w][v] # "none" /\ u # v
    BY <1>3 DEF transferWorkspaceOwnership
  <2>2. Written
    BY <2>1 DEF Role, Stays, Out, MemberRole
  <2>3. News("workspace_ownership_transferred", w, v, u, {}) \in Told(role')
    BY <2>1 DEF News, Told, Item, Addressed, Evicts, Role
  <2> QED
    BY <1>3, <2>2, <2>3 DEF transferWorkspaceOwnership
<1>4. ASSUME NEW w \in Workspaces, NEW u \in Users, removeWorkspaceMember(w, u)
      PROVE  Written /\ News1 /\ Change
  <2>1. role' = [role EXCEPT ![w][u] = "none"]
    BY <1>4 DEF removeWorkspaceMember, SetRole
  <2>2. Written
    BY <2>1 DEF Role, Stays, Out, MemberRole
  <2>3. News("member_kicked", w, u, None, {}) \in Told(role')
    BY <2>1 DEF News, Told, Item, Addressed, Evicts, Role, Out
  <2> QED
    BY <1>4, <2>2, <2>3 DEF removeWorkspaceMember
<1>5. ASSUME NEW w \in Workspaces, deleteWorkspace(w)
      PROVE  Written /\ News1 /\ Change
  <2>1. role' = [role EXCEPT ![w] = [u \in Users |-> "none"]]
    BY <1>5 DEF deleteWorkspace
  <2>2. Written
    BY <2>1 DEF Role, Stays, Out, MemberRole
  <2>3. News("workspace_deleted", w, None, None, {}) \in Told(role')
    BY <2>1 DEF News, Told, Item, Addressed, Evicts, Role, Out
  <2> QED
    BY <1>5, <2>2, <2>3 DEF deleteWorkspace
<1>6. ASSUME NEW c \in Channels,
             \/ createChannel(c) \/ inviteToChannel(c) \/ notify_channel_invites(c) \/ deleteChannel(c)
             \/ \E value \in {"visible", "hidden"} : SetAccess(c, value)
      PROVE  Written /\ News1 /\ Change
  <2>1. UNCHANGED role
    BY <1>6 DEF createChannel, Insert, inviteToChannel, notify_channel_invites, tables, deleteChannel, SetAccess
  <2>2. Of[c] \in Workspaces
    OBVIOUS
  <2>3. ASSUME NEW event \in {"added_to_channel", "channel_created", "channel_access_updated", "channel_deleted"},
               NEW arg \in {None, "visible", "hidden"}
        PROVE  News(event, Of[c], None, arg, {c}) \in Told(role')
    BY <2>2 DEF News, Told, Item, Addressed, Evicts, Role
  <2>4. News1
    <3>1. CASE createChannel(c)
      BY <2>3, <3>1 DEF createChannel, Insert
    <3>2. CASE inviteToChannel(c)
      BY <2>3, <3>2 DEF inviteToChannel
    <3>3. CASE deleteChannel(c)
      BY <2>3, <3>3 DEF deleteChannel
    <3>4. CASE \E value \in {"visible", "hidden"} : SetAccess(c, value)
      BY <2>3, <3>4 DEF SetAccess
    <3>5. CASE notify_channel_invites(c)
      BY <2>3, <3>5 DEF notify_channel_invites
    <3> QED
      BY <1>6, <3>1, <3>2, <3>3, <3>4, <3>5
  <2> QED
    BY <1>6, <2>1, <2>4 DEF createChannel, inviteToChannel, notify_channel_invites, deleteChannel, SetAccess, Stays
<1>7. Written /\ News1 /\ Change
  BY <1>1, <1>2, <1>3, <1>4, <1>5, <1>6 DEF Govern
<1>8. news \in Seq(Told(role'))
  BY <1>7, WiderTold, WiderType
<1>9. news' \in Seq(Told(role'))
  BY <1>7, <1>8, TellsOne
<1>10. budget' \in Budget
  BY <1>7 DEF Change, Spend, Budget
<1> QED
  BY <1>7, <1>9, <1>10 DEF Change
----------------------------------------------------------------------------
(* Announcements and answers                                               *)

\* What comes of an announcement is as true as it was.
LEMMA HeardType ==
    ASSUME NEW n \in Told(role)
    PROVE  Heard(n) \in Seq(Told(role))
<1> DEFINE also == IF n.user # Me THEN {}
                   ELSE IF n.event = "member_kicked" THEN {"workspace_revoked"}
                   ELSE IF n.event = "member_role_updated" /\ n.channels # {} THEN {"private_channels_revoked"}
                   ELSE {}
           heard == IF Me \in rooms THEN also ELSE {}
           items == {[n EXCEPT !.event = e] : e \in heard}
<1>1. n \in Item
  BY DEF Told
<1>2. ASSUME NEW e \in also
      PROVE  [n EXCEPT !.event = e] \in Told(role)
  <2>1. [n EXCEPT !.event = e] \in Item
    BY <1>1 DEF Item
  <2>2. Evicts([n EXCEPT !.event = e]) => Evicts(n)
    BY <1>1 DEF Item, Evicts
  <2>3. [n EXCEPT !.event = e].ws = n.ws
    BY <1>1 DEF Item
  <2>4. Addressed([n EXCEPT !.event = e])
    <3> DEFINE x == [n EXCEPT !.event = e]
    <3>1. x.event \in {"workspace_revoked", "private_channels_revoked"} /\ x.ws = n.ws /\ x.channels = n.channels
      BY <1>1 DEF Item
    <3>2. \A c \in n.channels : Of[c] = n.ws
      BY DEF Told, Addressed
    <3> HIDE DEF x
    <3>3. Addressed(x)
      BY <3>1, <3>2 DEF Addressed
    <3> QED
      BY <3>3 DEF x
  <2> QED
    BY <2>1, <2>2, <2>3, <2>4 DEF Told
<1>3. \E e : items = {} \/ items = {e}
  <2>1. also = {} \/ \E x : also = {x}
    OBVIOUS
  <2>2. heard = {} \/ \E x : heard = {x}
    BY <2>1
  <2> QED
    BY <2>2
<1>4. items \subseteq Told(role)
  BY <1>2
<1> HIDE DEF items
<1>5. SetToSeq(items) \in Seq(items)
  BY <1>3, SetToSeqType
<1>6. SetToSeq(items) \in Seq(Told(role))
  BY <1>4, <1>5, WiderType
<1>7. (IF Target(n) \in rooms THEN <<n>> ELSE << >>) \in Seq(Told(role))
  OBVIOUS
<1>8. Heard(n) = (IF Target(n) \in rooms THEN <<n>> ELSE << >>) \o SetToSeq(items)
  BY DEF Heard, items
<1> QED
  BY <1>6, <1>7, <1>8, ConcatProperties

LEMMA OvertakenAsked ==
    ASSUME AllAsked(fetches, role)
    PROVE  AllAsked(Overtaken(fetches), role)
<1> SUFFICES ASSUME NEW f \in fetches
             PROVE  Asked([f EXCEPT !.late = f.status # "asked"], role)
  BY DEF AllAsked, Overtaken
<1>1. Asked(f, role)
  BY DEF AllAsked
<1> DEFINE g == [f EXCEPT !.late = f.status # "asked"]
<1>2. DOMAIN g = DOMAIN f
  OBVIOUS
<1>3. g.kind = f.kind /\ g.status = f.status /\ g.answer = f.answer /\ g.channel = f.channel
  BY <1>1 DEF Asked
<1> HIDE DEF g
<1>4. Asked(g, role)
  BY <1>1, <1>2, <1>3 DEF Asked
<1> QED
  BY <1>4 DEF g

LEMMA AnnounceStep ==
    ASSUME IInv, NEW i \in DOMAIN news, Announce(i)
    PROVE  IInv' /\ UNCHANGED view
<1>1. UNCHANGED <<role, view, budget>>
  BY DEF Announce, tables
<1>2. news' \in Seq(Told(role))
  BY RemoveAtType DEF Announce, IInv
<1>3. Heard(news[i]) \in Seq(Told(role))
  <2>1. news[i] \in Told(role)
    BY ElementOfSeq DEF IInv
  <2> QED
    BY <2>1, HeardType
<1>4. down' \in Seq(Told(role))
  BY <1>3, ConcatProperties DEF Announce, IInv
<1>5. AllAsked(fetches', role)
  BY OvertakenAsked DEF Announce, IInv
<1> QED
  BY <1>1, <1>2, <1>4, <1>5 DEF IInv

LEMMA RequestAsked ==
    ASSUME NEW kind \in Kinds \ {"create"}, NEW w, NEW r
    PROVE  Asked(Request(kind, w), r)
  BY DEF Kinds, Request, Asked

LEMMA HydrationAsked ==
    ASSUME NEW w, NEW r
    PROVE  AllAsked(Hydration(w), r)
  BY RequestAsked DEF Hydration, AllAsked, Kinds

LEMMA SendAsked ==
    ASSUME NEW pending, NEW requests, NEW r,
           AllAsked(pending, r), AllAsked(requests, r), Send(pending, requests)
    PROVE  AllAsked(fetches', r)
  BY DEF Send, AllAsked

LEMMA LearnAsked ==
    ASSUME AllAsked(fetches, role), NEW requests, AllAsked(requests, role), Learn(requests)
    PROVE  AllAsked(fetches', role)
  BY OvertakenAsked, SendAsked DEF Learn

LEMMA NothingAsked == AllAsked({}, role)
  BY DEF AllAsked

\* A request as it was made, with one field or another filled in.
LEMMA FilledIn ==
    ASSUME NEW kind \in Kinds \cup {"read"}, NEW w, NEW c \in Channels, NEW k, NEW shows
    PROVE  /\ AllAsked({[Request(kind, w) EXCEPT !.channel = c]}, role)
           /\ kind # "create" => AllAsked({[Request(kind, w) EXCEPT !.kept = k]}, role)
           /\ AllAsked({[Request(kind, w) EXCEPT !.kept = k, !.channel = c]}, role)
           /\ AllAsked({[Request(kind, w) EXCEPT !.channel = c, !.visible = shows]}, role)
  BY DEF Request, AllAsked, Asked

\* A request that is answered, and not with a list of workspaces it should
\* not have been.
LEMMA BecomesAsked ==
    ASSUME AllAsked(fetches, role), NEW f \in fetches, NEW status, NEW answer,
           f.kind = "workspaces" /\ status = "given" =>
             answer.ids \subseteq Workspaces /\ \A w \in Workspaces \ answer.ids : Out(role, w),
           f.kind = "read" => status # "given",
           Becomes(f, status, answer)
    PROVE  AllAsked(fetches', role)
<1> DEFINE g == [f EXCEPT !.status = status, !.answer = answer]
<1>1. Asked(f, role)
  BY DEF AllAsked
<1>2. DOMAIN g = DOMAIN f
  OBVIOUS
<1>3. g.kind = f.kind /\ g.status = status /\ g.answer = answer /\ g.channel = f.channel
  BY <1>1 DEF Asked
<1> HIDE DEF g
<1>4. Asked(g, role)
  BY <1>1, <1>2, <1>3 DEF Asked
<1>5. fetches' = (fetches \ {f}) \cup {g}
  BY DEF Becomes, g
<1> QED
  BY <1>4, <1>5 DEF AllAsked
LEMMA AnswerStep ==
    ASSUME IInv, NEW f \in fetches,
           Answer(f) \/ AnswerCreate(f) \/ AnswerRead(f) \/ FetchFails(f)
    PROVE  IInv' /\ UNCHANGED view
<1>1. UNCHANGED <<role, view, down>>
  BY DEF Answer, AnswerCreate, Insert, AnswerRead, FetchFails, tables, socket
<1>2. Asked(f, role)
  BY DEF IInv, AllAsked
<1>3. AllAsked(fetches', role)
  <2>1. CASE Answer(f)
    <3>1. CASE Refused(f)
      BY <2>1, <3>1, BecomesAsked DEF Answer, IInv
    <3>2. CASE ~ Refused(f) /\ f.kind = "workspaces"
      <4>1. Becomes(f, "given", [Nothing EXCEPT !.ids = Mine])
        BY <2>1, <3>2 DEF Answer
      <4>2. [Nothing EXCEPT !.ids = Mine].ids = Mine
        BY DEF Nothing
      <4>3. Mine \subseteq Workspaces /\ \A w \in Workspaces \ Mine : Out(role, w)
        BY DEF Mine, IsMember, Out
      <4>4. PICK answer : Becomes(f, "given", answer) /\ answer.ids = Mine
        BY <4>1, <4>2
      <4> QED
        BY <3>2, <4>3, <4>4, BecomesAsked DEF IInv
    <3>3. CASE ~ Refused(f) /\ f.kind # "workspaces"
      <4>1. PICK answer : f.kind # "read" /\ Becomes(f, "given", answer)
        BY <2>1, <3>3 DEF Answer
      <4> QED
        BY <3>3, <4>1, BecomesAsked DEF IInv
    <3> QED
      BY <3>1, <3>2, <3>3
  <2>2. CASE AnswerCreate(f)
    <3>1. PICK answer : f.kind = "create" /\ Becomes(f, "given", answer)
      BY <2>2 DEF AnswerCreate
    <3> QED
      BY <3>1, BecomesAsked DEF IInv
  <2>3. CASE AnswerRead(f)
    BY <2>3 DEF AnswerRead, IInv, AllAsked
  <2>4. CASE FetchFails(f)
    BY <2>4, BecomesAsked DEF FetchFails, IInv
  <2> QED
    BY <2>1, <2>2, <2>3, <2>4
<1>4. news' \in Seq(Told(role))
  <2>1. CASE Answer(f) \/ AnswerRead(f) \/ FetchFails(f)
    BY <2>1 DEF Answer, AnswerRead, FetchFails, socket, IInv
  <2>2. CASE AnswerCreate(f)
    <3>1. Of[f.channel] \in Workspaces
      BY <1>2, <2>2, ChannelsAssumption DEF AnswerCreate, Asked
    <3>2. ASSUME NEW event \in {"added_to_channel", "channel_created"}
          PROVE  News(event, Of[f.channel], None, None, {f.channel}) \in Told(role)
      BY <1>2, <2>2, <3>1, UsersAssumption DEF AnswerCreate, Asked, News, Told, Item, Addressed, Evicts, Role, IInv
    <3>3. UNCHANGED news \/ \E n \in Told(role) : Tell(n)
      BY <2>2, <3>2 DEF AnswerCreate, Insert
    <3> QED
      BY <3>3, AppendType DEF Tell, IInv
  <2> QED
    BY <2>1, <2>2
<1>5. budget' \in Budget
  <2>1. budget' = budget \/ Spend("faults")
    BY DEF Answer, AnswerCreate, AnswerRead, FetchFails
  <2> QED
    BY <2>1 DEF Spend, Budget, IInv
<1> QED
  BY <1>1, <1>3, <1>4, <1>5 DEF IInv

----------------------------------------------------------------------------
(* The page                                                                *)

\* The page moves because the user does, or out of a workspace left.
Moves == view'.ws # view.ws => budget'.acts < budget.acts \/ Out(role, view.ws)

LEMMA ActivateGood ==
    ASSUME Good(view), NEW w \in Workspaces \cup {None}
    PROVE  /\ Good(Activate(view, w)) /\ Activate(view, w).ws = w
           /\ \A l : l \subseteq Workspaces => Good([Activate(view, w) EXCEPT !.list = l])
                                            /\ [Activate(view, w) EXCEPT !.list = l].ws = w
           /\ \A l, c : l \subseteq Workspaces =>
                          Good([Activate(view, w) EXCEPT !.list = l, !.channels = c])
  BY DEF Good, Activate

\* The user acts.
LEMMA ActStep ==
    ASSUME IInv, view.ws # None,
           \/ \E w \in Workspaces : switch(w)
           \/ \E c \in Channels : handleChannelSelect(c) \/ handleCreate(c)
    PROVE  IInv' /\ Moves
<1>1. UNCHANGED <<role, news, down>>
  BY DEF switch, handleChannelSelect, handleCreate, tables, socket
<1>2. budget' \in Budget /\ budget'.acts < budget.acts
  <2>1. Spend("acts")
    BY DEF switch, handleChannelSelect, handleCreate
  <2> QED
    BY <2>1 DEF Spend, Budget, IInv
<1>3. Good(view')
  <2>1. CASE \E w \in Workspaces : switch(w)
    BY <2>1, ActivateGood DEF switch, IInv
  <2>2. CASE \E c \in Channels : handleChannelSelect(c) \/ handleCreate(c)
    BY <2>2 DEF handleChannelSelect, handleCreate, Good, IInv
  <2> QED
    BY <2>1, <2>2
<1>4. AllAsked(fetches', role)
  <2>1. ASSUME NEW w \in Workspaces, switch(w)
        PROVE  AllAsked(fetches', role)
    BY <2>1, HydrationAsked, SendAsked DEF switch, Ask, IInv
  <2>2. ASSUME NEW c \in Channels, handleChannelSelect(c) \/ handleCreate(c)
        PROVE  AllAsked(fetches', role)
    <3>1. PICK kind \in Kinds \cup {"read"}, k \in {view.channels} :
             \/ Ask({[Request(kind, Of[c]) EXCEPT !.channel = c]})
             \/ Ask({[Request(kind, view.ws) EXCEPT !.kept = k, !.channel = c]})
      BY <2>2 DEF handleChannelSelect, handleCreate, Kinds
    <3> QED
      BY <3>1, FilledIn, SendAsked DEF Ask, IInv
  <2> QED
    BY <2>1, <2>2
<1> QED
  BY <1>1, <1>2, <1>3, <1>4 DEF IInv, Moves
\* An eviction moves the page out of the workspace it was evicted from.
LEMMA EvictStep ==
    ASSUME IInv, NEW w \in Workspaces, Out(role, w), Evict(w)
    PROVE  /\ Good(view') /\ Moves
           /\ AllAsked(fetches', role)
<1> DEFINE left == view.list \ {w}
<1>1. left \subseteq Workspaces
  BY DEF IInv, Good
<1>2. CASE view.ws # w
  <2>1. view' = [view EXCEPT !.list = left] /\ Learn({})
    BY <1>2 DEF Evict
  <2>2. Good(view') /\ view'.ws = view.ws
    BY <1>1, <2>1 DEF IInv, Good
  <2> QED
    BY <2>1, <2>2, LearnAsked, NothingAsked DEF IInv, Moves
<1>3. CASE view.ws = w
  <2>1. PICK next \in IF left = {} THEN {None} ELSE left :
          /\ view' = [Activate(view, next) EXCEPT !.list = left, !.channels = {}]
          /\ IF next = None THEN Learn({}) ELSE Learn(Hydration(next))
    BY <1>3 DEF Evict
  <2>2. next \in Workspaces \cup {None}
    BY <1>1
  <2>3. Good(view')
    BY <1>1, <2>1, <2>2, ActivateGood DEF IInv
  <2>4. AllAsked(fetches', role)
    BY <2>1, LearnAsked, NothingAsked, HydrationAsked DEF IInv
  <2> QED
    BY <1>3, <2>3, <2>4 DEF Moves
<1> QED
  BY <1>2, <1>3

\* What the page is told, in the workspace it shows.
Same == Good(view') /\ view'.ws = view.ws

LEMMA ListenStep ==
    ASSUME IInv, NEW n \in Told(role), Listen(n)
    PROVE  Good(view') /\ Moves /\ AllAsked(fetches', role)
<1> USE DEF IInv
<1>1. n \in Item
  BY DEF Told
<1>2. CASE n.event \in {"workspace_revoked", "workspace_deleted"}
  <2>1. Evict(n.ws)
    BY <1>2 DEF Listen
  <2>2. n.ws \in Workspaces /\ Out(role, n.ws)
    BY <1>1, <1>2 DEF Told, Item, Addressed, Evicts
  <2> QED
    BY <2>1, <2>2, EvictStep
<1>3. CASE n.event = "member_kicked" /\ n.user = Me
  <2>1. Evict(n.ws)
    BY <1>3 DEF Listen, handleMemberKicked
  <2>2. n.ws \in Workspaces /\ Out(role, n.ws)
    BY <1>1, <1>3 DEF Told, Item, Addressed, Evicts
  <2> QED
    BY <2>1, <2>2, EvictStep
<1>4. CASE n.event = "member_kicked" /\ n.user # Me
  <2>1. Same /\ Learn({})
    BY <1>4 DEF Listen, handleMemberKicked, Good, Same
  <2> QED
    BY <2>1, LearnAsked, NothingAsked DEF Same, Moves
<1>5. CASE n.event = "member_role_updated"
  <2>1. Same
    BY <1>5 DEF Listen, handleRoleUpdated, Good, Same
  <2>2. PICK k : Learn({}) \/ Learn({[Request("promotion", n.ws) EXCEPT !.kept = k]})
    BY <1>5 DEF Listen, handleRoleUpdated
  <2>3. AllAsked({[Request("promotion", n.ws) EXCEPT !.kept = k]}, role)
    BY DEF Request, AllAsked, Asked, Kinds
  <2> QED
    BY <2>1, <2>2, <2>3, LearnAsked, NothingAsked DEF Same, Moves
<1>6. CASE n.event = "channel_access_updated"
  <2>1. Same
    BY <1>6 DEF Listen, Same
  <2>2. \/ Learn({})
        \/ \E c \in Channels, shows \in BOOLEAN :
             Learn({[Request("access", n.ws) EXCEPT !.channel = c, !.visible = shows]})
    BY <1>1, <1>6 DEF Listen, handleChannelAccessUpdated, Item
  <2> QED
    BY <2>1, <2>2, FilledIn, LearnAsked, NothingAsked DEF Same, Moves, Kinds
<1>7. CASE n.event \in {"workspace_member_joined", "workspace_ownership_transferred", "channel_created",
                        "added_to_channel", "private_channels_revoked", "channel_deleted"}
  <2>1. Learn({})
    BY <1>7 DEF Listen, handleWorkspaceOwnershipTransferred, handleAddedToChannel, handleChannelCreated
  <2>2. Same
    <3>1. CASE n.event = "workspace_member_joined"
      BY <3>1 DEF Listen, Good, Same
    <3>2. CASE n.event = "workspace_ownership_transferred"
      BY <3>2 DEF Listen, handleWorkspaceOwnershipTransferred, Good, Same
    <3>3. CASE n.event = "channel_created"
      BY <3>3 DEF Listen, handleChannelCreated, Good, Same
    <3>4. CASE n.event = "added_to_channel"
      BY <3>4 DEF Listen, handleAddedToChannel, Good, Same
    <3>5. CASE n.event \in {"private_channels_revoked", "channel_deleted"}
      BY <3>5 DEF Listen, Close, Good, Same
    <3> QED
      BY <1>7, <3>1, <3>2, <3>3, <3>4, <3>5
  <2> QED
    BY <2>1, <2>2, LearnAsked, NothingAsked DEF Same, Moves
<1> QED
  BY <1>1, <1>2, <1>3, <1>4, <1>5, <1>6, <1>7 DEF Item

LEMMA HandleStep ==
    ASSUME IInv, Handle
    PROVE  IInv' /\ Moves
<1>1. Head(down) \in Told(role) /\ Tail(down) \in Seq(Told(role))
  BY DEF Handle, IInv
<1>2. Good(view') /\ Moves /\ AllAsked(fetches', role)
  BY <1>1, ListenStep DEF Handle
<1> QED
  BY <1>1, <1>2 DEF Handle, tables, IInv

\* A list of workspaces resumes the one shown, or leaves it as the user has.
LEMMA ApplyStep ==
    ASSUME IInv, view.ws # None, NEW f \in fetches, Apply(f)
    PROVE  IInv' /\ Moves
<1>1. UNCHANGED <<role, news, down, budget>>
  BY DEF Apply, tables, socket
<1>2. Asked(f, role)
  BY DEF IInv, AllAsked
<1>3. PICK v \in Shown(f) :
        /\ view' = v
        /\ Send(fetches \ {f}, IF v.ws \in {view.ws, None} THEN {} ELSE Hydration(v.ws))
  BY DEF Apply
<1>4. AllAsked(fetches', role)
  <2>1. AllAsked(fetches \ {f}, role)
    BY DEF IInv, AllAsked
  <2> QED
    BY <1>3, <2>1, SendAsked, HydrationAsked, NothingAsked
<1>5. Good(view') /\ Moves
  <2>1. CASE f.kind # "workspaces" \/ f.status # "given"
    <3>1. Good(v) /\ v.ws = view.ws
      <4>1. CASE f.kind = "promotion"
        BY <1>3, <4>1 DEF Shown, IInv, Good
      <4>2. CASE f.kind # "promotion" /\ f.status # "given"
        BY <1>3, <4>2 DEF Shown, IInv, Good
      <4>3. CASE f.kind # "promotion" /\ f.status = "given"
        \* Each kind replaces a part of what is shown, and no other is listed.
        BY <1>2, <1>3, <2>1, <4>3 DEF Shown, IInv, Good, Asked, Kinds
      <4> QED
        BY <4>1, <4>2, <4>3
    <3> QED
      BY <1>3, <3>1 DEF Moves
  <2>2. CASE f.kind = "workspaces" /\ f.status = "given"
    <3>1. f.answer.ids \subseteq Workspaces /\ \A w \in Workspaces \ f.answer.ids : Out(role, w)
      BY <1>2, <2>2 DEF Asked
    <3>2. CASE f.answer.ids = {}
      <4>1. v = [view EXCEPT !.ws = None]
        BY <1>3, <2>2, <3>2 DEF Shown
      <4> QED
        BY <1>3, <3>1, <3>2, <4>1 DEF IInv, Good, Moves
    <3>3. CASE f.answer.ids # {}
      <4>1. PICK w \in IF view.saved \in f.answer.ids THEN {view.saved} ELSE f.answer.ids :
              v = [(IF w = view.ws THEN view ELSE Activate(view, w)) EXCEPT !.list = f.answer.ids]
        BY <1>3, <2>2, <3>3 DEF Shown
      <4>2. w \in Workspaces /\ view.saved = view.ws /\ view.ws \in Workspaces
        BY <3>1, <4>1 DEF IInv, Good
      <4>3. CASE w = view.ws
        <5>1. v = [view EXCEPT !.list = f.answer.ids]
          BY <4>1, <4>3
        <5> QED
          BY <1>3, <3>1, <5>1 DEF IInv, Good, Moves
      <4>4. CASE w # view.ws
        <5>1. view.ws \notin f.answer.ids
          BY <4>1, <4>2, <4>4
        <5>2. v = [Activate(view, w) EXCEPT !.list = f.answer.ids]
          BY <4>1, <4>4
        <5> QED
          BY <1>3, <3>1, <4>2, <5>1, <5>2, ActivateGood DEF IInv, Moves
      <4> QED
        BY <4>3, <4>4
    <3> QED
      BY <3>2, <3>3
  <2> QED
    BY <2>1, <2>2
<1> QED
  BY <1>1, <1>4, <1>5 DEF IInv

\* The connection comes and goes.
LEMMA LinkStep ==
    ASSUME IInv, JoinRooms \/ Drop \/ Connect \/ Renew
    PROVE  IInv' /\ Moves
<1> USE DEF IInv
<1>1. UNCHANGED <<role, news>> /\ down' \in Seq(Told(role))
  <2>1. UNCHANGED <<role, news>> /\ (UNCHANGED down \/ down' = << >>)
    BY DEF JoinRooms, Drop, Connect, Renew, Cut, tables
  <2>2. << >> \in Seq(Told(role))
    OBVIOUS
  <2> QED
    BY <2>1, <2>2
<1>2. Good(view') /\ view'.ws = view.ws
  BY DEF JoinRooms, Drop, Connect, Renew, Good
<1>3. budget' \in Budget
  <2>1. budget' = budget \/ Spend("faults") \/ Spend("renewals")
    BY DEF JoinRooms, Drop, Connect, Renew
  <2> QED
    BY <2>1 DEF Spend, Budget
<1>4. AllAsked(fetches', role)
  <2>1. CASE JoinRooms
    BY <2>1 DEF JoinRooms
  <2>2. CASE Drop
    BY <2>2, LearnAsked, NothingAsked DEF Drop
  <2>3. CASE Connect
    BY <2>3, SendAsked, HydrationAsked DEF Connect, Ask
  <2>4. CASE Renew
    <3>1. AllAsked({Request("workspaces", None)} \cup Hydration(view.ws), role)
      BY RequestAsked, HydrationAsked DEF AllAsked, Kinds
    <3> QED
      BY <2>4, <3>1, LearnAsked DEF Renew
  <2> QED
    BY <2>1, <2>2, <2>3, <2>4
<1> QED
  BY <1>1, <1>2, <1>3, <1>4 DEF Moves

----------------------------------------------------------------------------
LEMMA InitHolds == Init => IInv
<1> SUFFICES ASSUME Init PROVE IInv
  OBVIOUS
<1>1. role \in Role
  BY TablesAssumption DEF Init, Role
<1>2. Good(view)
  BY DEF Init, Good, Mine
<1>3. news \in Seq(Told(role)) /\ down \in Seq(Told(role)) /\ AllAsked(fetches, role)
  BY NothingAsked DEF Init
<1>4. budget \in Budget
  BY BoundsAssumption DEF Init, Budget
<1> QED
  BY <1>1, <1>2, <1>3, <1>4 DEF IInv

LEMMA StepHolds ==
    ASSUME IInv, [Next]_vars
    PROVE  IInv' /\ Moves
<1>1. CASE Govern
  <2>1. /\ role' \in Role /\ Stays /\ news' \in Seq(Told(role'))
        /\ UNCHANGED <<view, fetches, down>> /\ budget' \in Budget
    BY <1>1, GovernStep
  <2>2. down' \in Seq(Told(role'))
    BY <2>1, WiderTold, WiderType DEF IInv
  <2>3. AllAsked(fetches', role')
    BY <2>1 DEF IInv, AllAsked, Asked, Stays
  <2> QED
    BY <2>1, <2>2, <2>3 DEF IInv, Moves
<1>2. CASE \E i \in DOMAIN news : Announce(i)
  BY <1>2, AnnounceStep DEF Moves
<1>3. CASE view.ws # None /\ Browse
  <2>1. CASE \/ \E w \in Workspaces : switch(w)
             \/ \E c \in Channels : handleChannelSelect(c) \/ handleCreate(c)
    BY <1>3, <2>1, ActStep
  <2>2. CASE Handle
    BY <2>2, HandleStep
  <2>3. ASSUME NEW f \in fetches,
               Answer(f) \/ AnswerCreate(f) \/ AnswerRead(f) \/ FetchFails(f) \/ Apply(f)
        PROVE  IInv' /\ Moves
    BY <1>3, <2>3, AnswerStep, ApplyStep DEF Moves
  <2>4. CASE JoinRooms \/ Drop \/ Connect \/ Renew
    BY <2>4, LinkStep
  <2> QED
    BY <1>3, <2>1, <2>2, <2>3, <2>4 DEF Browse
<1>4. CASE UNCHANGED vars
  BY <1>4 DEF vars, tables, socket, IInv, AllAsked, Asked, Moves
<1> QED
  BY <1>1, <1>2, <1>3, <1>4 DEF Next

(***************************************************************************)
(* The workspace shown changes by the user's choice or when the user is no *)
(* member of it, whatever is announced, answered, overtaken, lost or       *)
(* renewed (useWorkspaceInit, useWorkspaceEvents, workspaceSlice).         *)
(***************************************************************************)
THEOREM NobodyIsMoved == Spec => StaysWhereItIs
<1>1. Spec => []IInv
  BY InitHolds, StepHolds, PTL DEF Spec
<1>2. IInv /\ [Next]_vars =>
        [view'.ws # view.ws => budget'.acts < budget.acts \/ ~ IsMember(view.ws)]_vars
  BY StepHolds DEF Moves, Out, IsMember
<1> QED
  BY <1>1, <1>2, PTL DEF Spec, StaysWhereItIs----------------------------------------------------------------------------
(* Types                                                                   *)

TablesOK ==
    /\ role \in Role
    /\ channel \in [Channels -> {"unborn", "there", "gone"}]
    /\ access \in [Channels -> {"none", "visible", "hidden"}]
    /\ \A c \in Channels : Exists(c) \/ access[c] = "none"

View ==
    [ws : Workspaces \cup {None}, saved : Workspaces \cup {None}, list : SUBSET Workspaces,
     role : MemberRole \cup {None}, users : SUBSET (Users \ {Me}),
     channels : SUBSET Channels, open : Channels \cup {None}]

\* A request as the page made it, and what the server may have said.
Shaped(f) ==
    /\ f.status \in {"asked", "given", "refused", "failed"}
    /\ f.kind # "workspaces" => f.ws \in Workspaces
    /\ f.kind \in {"access", "create", "read"} => f.channel \in Channels
    /\ f.kind \in {"create", "read"} => f.ws = Of[f.channel]
    /\ f.kind = "create" => f.kept \subseteq Channels
    /\ f.kind = "create" /\ f.status = "given" => f.answer.ids = {f.channel}
    /\ f.kind = "promotion" => f.kept \subseteq Users \ {Me}
    /\ f.kind = "members" /\ f.status = "given" =>
         f.answer.role \in MemberRole /\ f.answer.users \subseteq Users \ {Me}
    /\ f.kind \notin {"workspaces", "members", "read"} /\ f.status = "given" => f.answer.ids \subseteq Channels

AllShaped(requests) == \A f \in requests : Shaped(f)

\* The socket is in the rooms of all the user's workspaces or in none.
RoomsOK ==
    /\ rooms \subseteq Workspaces \cup {Me}
    /\ ~ up => rooms = {}
    /\ rooms = {} => down = << >>
    /\ rooms # {} => Mine \cup {Me} \subseteq rooms

BudgetOK == \E most \in Bounds : \A what \in DOMAIN most : budget[what] <= most[what]

\* The workspace shown is one of those listed.
Within == view.ws # None => view.ws \in view.list

Typed ==
    /\ TablesOK
    /\ view \in View
    /\ Within
    /\ AllShaped(fetches)
    /\ RoomsOK
    /\ missed \subseteq Circumstance
    /\ BudgetOK

LEMMA InitTyped == Init => Typed
<1> SUFFICES ASSUME Init PROVE Typed
  OBVIOUS
<1> USE UsersAssumption, ChannelsAssumption
<1>1. TablesOK
  <2>1. PICK t \in Tables :
          /\ role = t.role
          /\ channel = [c \in Channels |-> IF c \in t.channel THEN "there" ELSE "unborn"]
          /\ access = [c \in Channels |-> IF c \in t.visible THEN "visible" ELSE "none"]
    BY DEF Init
  <2>2. t.role \in Role /\ t.visible \subseteq t.channel
    BY TablesAssumption DEF Role
  <2> QED
    BY <2>1, <2>2 DEF TablesOK, Exists
<1>2. view \in View
  <2>1. PICK w \in Mine : \E open \in getWorkspaceChannels(w) \cup {None} :
          view = [ws |-> w, saved |-> w, list |-> Mine, role |-> role[w][Me], users |-> Others(w),
                  channels |-> getWorkspaceChannels(w), open |-> open]
    BY DEF Init
  <2>2. w \in Workspaces /\ Mine \subseteq Workspaces /\ role[w][Me] \in MemberRole
    BY <1>1 DEF Mine, IsMember, TablesOK, Role
  <2>3. Others(w) \subseteq Users \ {Me} /\ getWorkspaceChannels(w) \subseteq Channels
    BY DEF Others, getWorkspaceChannels, ChannelsOf
  <2> QED
    BY <2>1, <2>2, <2>3 DEF View
<1>3. RoomsOK
  BY DEF Init, RoomsOK, Mine
<1>4. BudgetOK
  <2>1. budget \in Bounds /\ budget \in Budget
    BY BoundsAssumption DEF Init, Budget
  <2>2. \A what \in DOMAIN budget : budget[what] <= budget[what]
    BY <2>1 DEF Budget
  <2> QED
    BY <2>1, <2>2 DEF BudgetOK
<1>5. Within
  BY DEF Init, Within
<1> QED
  BY <1>1, <1>2, <1>3, <1>4, <1>5 DEF Init, Typed, AllShaped

\* The tables are written by others' handlers and by the answers to this user.
LEMMA TablesStep ==
    ASSUME IInv, IInv', Typed, [Next]_vars
    PROVE  TablesOK'
<1> USE DEF Typed, TablesOK
<1>1. role' \in Role
  BY DEF IInv
<1> DEFINE Rest == /\ channel' \in [Channels -> {"unborn", "there", "gone"}]
                   /\ access' \in [Channels -> {"none", "visible", "hidden"}]
                   /\ \A c \in Channels : Exists(c)' \/ access'[c] = "none"
<1> SUFFICES Rest
  BY <1>1
<1>2. ASSUME NEW channels, Strip(channels), UNCHANGED channel
      PROVE  Rest
  BY <1>2 DEF Strip, Exists
<1>3. ASSUME NEW c \in Channels, NEW mine \in BOOLEAN, Insert(c, mine)
      PROVE  Rest
  BY <1>3 DEF Insert, Exists
<1>4. ASSUME NEW w \in Workspaces, NEW u \in Users,
             \/ joinWorkspace(w, u)
             \/ \E r \in MemberRole : updateWorkspaceMemberRole(w, u, r)
             \/ \E v \in Users : transferWorkspaceOwnership(w, u, v)
             \/ removeWorkspaceMember(w, u)
      PROVE  Rest
  <2>1. UNCHANGED channel /\ (UNCHANGED access \/ \E channels : Strip(channels))
    BY <1>4 DEF joinWorkspace, updateWorkspaceMemberRole, transferWorkspaceOwnership, removeWorkspaceMember
  <2> QED
    BY <1>2, <2>1 DEF Exists
<1>5. ASSUME NEW w \in Workspaces, deleteWorkspace(w)
      PROVE  Rest
  BY <1>5 DEF deleteWorkspace, Strip, Exists
<1>6. ASSUME NEW c \in Channels,
             \/ createChannel(c) \/ inviteToChannel(c) \/ notify_channel_invites(c) \/ deleteChannel(c)
             \/ \E value \in {"visible", "hidden"} : SetAccess(c, value)
      PROVE  Rest
  <2>1. CASE createChannel(c)
    BY <1>3, <2>1 DEF createChannel
  <2>2. CASE inviteToChannel(c) \/ \E value \in {"visible", "hidden"} : SetAccess(c, value)
    BY <2>2 DEF inviteToChannel, SetAccess, Exists
  <2>3. CASE deleteChannel(c)
    BY <2>3 DEF deleteChannel, Strip, Exists
  <2>4. CASE notify_channel_invites(c)
    BY <2>4 DEF notify_channel_invites, tables, Exists
  <2> QED
    BY <1>6, <2>1, <2>2, <2>3, <2>4
<1>7. CASE Govern
  <2> HIDE DEF Rest
  <2>1. CASE \E w \in Workspaces, u \in Users :
               \/ joinWorkspace(w, u)
               \/ \E r \in MemberRole : updateWorkspaceMemberRole(w, u, r)
               \/ \E v \in Users : transferWorkspaceOwnership(w, u, v)
               \/ removeWorkspaceMember(w, u)
    BY <1>4, <2>1, Zenon
  <2>2. CASE \E w \in Workspaces : deleteWorkspace(w)
    BY <1>5, <2>2, Zenon
  <2>3. CASE \E c \in Channels :
               \/ createChannel(c) \/ inviteToChannel(c) \/ notify_channel_invites(c) \/ deleteChannel(c)
               \/ \E value \in {"visible", "hidden"} : SetAccess(c, value)
    BY <1>6, <2>3, Zenon
  <2> QED
    BY <1>7, <2>1, <2>2, <2>3, Zenon DEF Govern
<1>8. ASSUME NEW f \in fetches, AnswerCreate(f) \/ AnswerRead(f)
      PROVE  Rest
  <2>1. f.channel \in Channels
    BY <1>8 DEF AnswerCreate, AnswerRead, AllShaped, Shaped
  <2>2. CASE AnswerCreate(f)
    BY <1>3, <2>1, <2>2 DEF AnswerCreate
  <2>3. CASE AnswerRead(f)
    <3>1. Exists(f.channel)
      BY <2>3 DEF AnswerRead, Refused
    <3> QED
      BY <2>1, <2>3, <3>1 DEF AnswerRead, Exists
  <2> QED
    BY <1>8, <2>2, <2>3
<1>9. CASE UNCHANGED tables
  BY <1>9 DEF tables, Exists
<1> QED
  <2>1. CASE \E i \in DOMAIN news : Announce(i)
    BY <1>9, <2>1 DEF Announce
  <2>2. CASE Browse
    BY <1>8, <1>9, <2>2
       DEF Browse, switch, handleChannelSelect, handleCreate, Handle, Answer, FetchFails, Apply,
           JoinRooms, Drop, Connect, Renew, Cut
  <2> QED
    BY <1>7, <1>9, <2>1, <2>2 DEF Next, vars
LEMMA GovernChange ==
    ASSUME Govern
    PROVE  Change
  BY DEF Govern, joinWorkspace, updateWorkspaceMemberRole, transferWorkspaceOwnership, removeWorkspaceMember,
         deleteWorkspace, createChannel, inviteToChannel, notify_channel_invites, SetAccess, deleteChannel

LEMMA RoleStep ==
    ASSUME IInv, [Next]_vars
    PROVE  \/ UNCHANGED role
           \/ Govern /\ Stays
<1>1. CASE Govern
  BY <1>1, GovernStep
<1>2. CASE \E i \in DOMAIN news : Announce(i)
  BY <1>2 DEF Announce, tables
<1>3. CASE Browse
  BY <1>3 DEF Browse, switch, handleChannelSelect, handleCreate, Handle, Answer, AnswerCreate, Insert, AnswerRead,
              FetchFails, Apply, JoinRooms, Drop, Connect, Renew, Cut, tables
<1>4. CASE UNCHANGED vars
  BY <1>4 DEF vars, tables
<1> QED
  BY <1>1, <1>2, <1>3, <1>4 DEF Next

\* Nobody becomes a member of a workspace while the page is open.
LEMMA MineShrinks ==
    ASSUME IInv, [Next]_vars
    PROVE  Mine' \subseteq Mine
  BY RoleStep DEF Stays, Out, Mine, IsMember

\* To a socket in no room nothing is told.
LEMMA HeardNowhere ==
    ASSUME NEW n, rooms = {}
    PROVE  Heard(n) = << >>
<1> DEFINE also == IF n.user # Me THEN {}
                   ELSE IF n.event = "member_kicked" THEN {"workspace_revoked"}
                   ELSE IF n.event = "member_role_updated" /\ n.channels # {} THEN {"private_channels_revoked"}
                   ELSE {}
           items == {[n EXCEPT !.event = e] : e \in IF Me \in rooms THEN also ELSE {}}
<1>1. items = {}
  OBVIOUS
<1> HIDE DEF items
<1>2. SetToSeq(items) \in Seq(items)
  BY <1>1, SetToSeqType
<1>3. SetToSeq(items) = << >>
  BY <1>1, <1>2
<1>4. Heard(n) = (IF Target(n) \in rooms THEN <<n>> ELSE << >>) \o SetToSeq(items)
  BY DEF Heard, items
<1> QED
  BY <1>3, <1>4

LEMMA RoomsStep ==
    ASSUME IInv, IInv', Typed, [Next]_vars
    PROVE  RoomsOK'
<1> USE UsersAssumption DEF Typed, RoomsOK
<1>1. Mine' \subseteq Mine /\ Mine' \subseteq Workspaces
  BY MineShrinks DEF Mine
<1>2. CASE UNCHANGED <<up, rooms, down>>
  BY <1>1, <1>2
<1>3. ASSUME NEW i \in DOMAIN news, Announce(i)
      PROVE  RoomsOK'
  <2> DEFINE n == news[i]
  <2>1. n \in Told(role)
    BY ElementOfSeq DEF IInv
  <2>2. n.event = "member_kicked" /\ n.user = Me => n.ws \in Workspaces /\ n.ws \notin Mine
    BY <2>1 DEF Told, Item, Evicts, Out, Mine, IsMember
  <2>3. /\ UNCHANGED up
        /\ rooms' = IF n.event = "member_kicked" /\ n.user = Me THEN rooms \ {n.ws} ELSE rooms
        /\ down' = IF up THEN down \o Heard(n) ELSE down
    BY <1>3 DEF Announce
  <2> HIDE DEF n
  <2>4. CASE rooms # {}
    <3>1. Me \in rooms'
      BY <2>2, <2>3, <2>4
    <3>2. Mine' \subseteq rooms' /\ rooms' \subseteq Workspaces \cup {Me}
      BY <1>1, <2>2, <2>3, <2>4
    <3> QED
      BY <2>3, <2>4, <3>1, <3>2
  <2>5. CASE rooms = {}
    <3>1. Heard(n) = << >>
      BY <2>5, HeardNowhere
    <3> QED
      BY <2>3, <2>5, <3>1
  <2> QED
    BY <2>4, <2>5
<1>4. CASE Govern
  BY <1>2, <1>4, GovernChange DEF Change
<1>5. CASE \E i \in DOMAIN news : Announce(i)
  BY <1>3, <1>5
<1>6. CASE Handle
  <2>1. rooms # {} /\ UNCHANGED <<up, rooms>>
    BY <1>6 DEF Handle
  <2> QED
    BY <1>1, <2>1
<1>7. CASE JoinRooms
  BY <1>1, <1>7 DEF JoinRooms, Mine
<1>8. CASE Drop \/ Renew
  BY <1>8 DEF Drop, Renew, Cut
<1>9. CASE Connect
  BY <1>9 DEF Connect
<1>10. CASE /\ ~ (Handle \/ JoinRooms \/ Drop \/ Renew \/ Connect)
            /\ Browse \/ UNCHANGED vars
  BY <1>2, <1>10 DEF Browse, switch, handleChannelSelect, handleCreate, Answer, AnswerCreate, AnswerRead,
                     FetchFails, Apply, socket, vars
<1> QED
  BY <1>4, <1>5, <1>6, <1>7, <1>8, <1>9, <1>10 DEF Next, Browse

LEMMA SpendOK ==
    ASSUME IInv, BudgetOK, \/ UNCHANGED budget
                           \/ \E what \in {"changes", "acts", "faults", "renewals"} : Spend(what)
    PROVE  BudgetOK'
<1>1. PICK most \in Bounds : \A what \in DOMAIN most : budget[what] <= most[what]
  BY DEF BudgetOK
<1>2. most \in Budget /\ budget \in Budget
  BY BoundsAssumption DEF Budget, IInv
<1>3. \A what \in DOMAIN most : budget'[what] <= most[what]
  BY <1>1, <1>2 DEF Spend, Budget
<1> QED
  BY <1>3 DEF BudgetOK

LEMMA BudgetStep ==
    ASSUME IInv, Typed, [Next]_vars
    PROVE  BudgetOK'
<1>1. CASE Govern
  <2>1. Spend("changes")
    BY <1>1, GovernChange DEF Change
  <2> QED
    BY <2>1, SpendOK DEF Typed
<1>2. CASE Browse
  <2>1. UNCHANGED budget \/ Spend("acts") \/ Spend("faults") \/ Spend("renewals")
    BY <1>2 DEF Browse, switch, handleChannelSelect, handleCreate, Handle, Answer, AnswerCreate, AnswerRead,
                FetchFails, Apply, JoinRooms, Drop, Connect, Renew
  <2> QED
    BY <2>1, SpendOK DEF Typed
<1>3. CASE (\E i \in DOMAIN news : Announce(i)) \/ UNCHANGED vars
  BY <1>3, SpendOK DEF Announce, vars, Typed
<1> QED
  BY <1>1, <1>2, <1>3 DEF Next

LEMMA MissedStep ==
    ASSUME Typed, [Next]_vars
    PROVE  missed' \subseteq Circumstance
<1> USE DEF Typed
<1> SUFFICES ASSUME missed' # missed
             PROVE  \E c : c \subseteq Circumstance /\ Note(c)
  BY DEF Note
<1>1. ASSUME NEW i \in DOMAIN news, Announce(i)
      PROVE  \E c : c \subseteq Circumstance /\ Note(c)
  BY <1>1 DEF Announce, Circumstance
<1>2. ASSUME NEW n, Listen(n)
      PROVE  \E c : c \subseteq Circumstance /\ Note(c)
  BY <1>2 DEF Listen, handleRoleUpdated, handleWorkspaceOwnershipTransferred, handleAddedToChannel,
              handleChannelCreated, Circumstance
<1>3. ASSUME NEW f, AnswerRead(f) \/ FetchFails(f) \/ Apply(f)
      PROVE  \E c : c \subseteq Circumstance /\ Note(c)
  BY <1>3 DEF AnswerRead, FetchFails, Apply, Misled, Circumstance
<1>4. CASE Drop
  BY <1>4 DEF Drop, Circumstance
<1>5. CASE Govern
  BY <1>5, GovernChange DEF Change
<1>6. CASE Browse
  BY <1>2, <1>3, <1>4, <1>6
     DEF Browse, switch, handleChannelSelect, handleCreate, Handle, Answer, AnswerCreate, JoinRooms, Connect, Renew
<1> QED
  BY <1>1, <1>5, <1>6 DEF Next, vars
LEMMA ActivateView ==
    ASSUME view \in View, NEW w \in Workspaces \cup {None}
    PROVE  /\ Activate(view, w) \in View
           /\ Activate(view, w).list = view.list /\ Activate(view, w).channels = view.channels
  BY DEF Activate, View

LEMMA EvictView ==
    ASSUME view \in View, NEW w, Evict(w)
    PROVE  view' \in View
<1> DEFINE left == view.list \ {w}
<1>1. left \subseteq Workspaces
  BY DEF View
<1>2. CASE view.ws # w
  BY <1>1, <1>2 DEF Evict, View
<1>3. CASE view.ws = w
  <2>1. PICK next \in IF left = {} THEN {None} ELSE left :
          view' = [Activate(view, next) EXCEPT !.list = left, !.channels = {}]
    BY <1>3 DEF Evict
  <2>2. Activate(view, next) \in View
    BY <1>1, ActivateView
  <2> HIDE DEF left
  <2> QED
    BY <1>1, <2>1, <2>2 DEF View
<1> QED
  BY <1>2, <1>3

LEMMA ListenView ==
    ASSUME view \in View, NEW n \in Told(role), Listen(n)
    PROVE  view' \in View
<1>1. n \in Item /\ Addressed(n)
  BY DEF Told
<1>2. n.channels \subseteq Channels
  BY <1>1 DEF Item
<1>3. CASE Evict(n.ws)
  BY <1>3, EvictView
<1>4. CASE UNCHANGED view
  BY <1>4
<1>5. CASE n.event = "member_kicked" /\ n.user # Me
  BY <1>5 DEF Listen, handleMemberKicked, View
<1>6. CASE n.event = "workspace_member_joined" /\ n.ws = view.ws
  <2>1. view' = [view EXCEPT !.users = @ \cup {n.user}] /\ n.user \in Users \ {Me}
    BY <1>1, <1>6 DEF Listen, Addressed
  <2> QED
    BY <2>1 DEF View
<1>7. CASE n.event = "member_role_updated" /\ n.ws = view.ws
  <2>1. n.arg \in MemberRole /\ view' \in {view, [view EXCEPT !.role = n.arg]}
    BY <1>1, <1>7 DEF Listen, handleRoleUpdated, Addressed
  <2> QED
    BY <2>1 DEF View
<1>8. CASE n.event = "workspace_ownership_transferred" /\ n.ws = view.ws
  BY <1>8 DEF Listen, handleWorkspaceOwnershipTransferred, View, MemberRole
<1>9. CASE n.event \in {"channel_created", "added_to_channel"}
  <2>1. view' \in {view, [view EXCEPT !.channels = @ \cup n.channels]}
    BY <1>9 DEF Listen, handleChannelCreated, handleAddedToChannel
  <2> QED
    BY <1>2, <2>1 DEF View
<1>10. CASE n.event \in {"private_channels_revoked", "channel_deleted"}
  <2>1. view' \in {view, Close(view, n.channels)}
    BY <1>10 DEF Listen
  <2> QED
    BY <2>1 DEF View, Close
<1> QED
  <2>1. \/ Evict(n.ws) \/ UNCHANGED view
        \/ n.event \in {"channel_created", "added_to_channel", "private_channels_revoked", "channel_deleted"}
        \/ n.event = "member_kicked" /\ n.user # Me
        \/ n.ws = view.ws /\ n.event \in {"workspace_member_joined", "member_role_updated",
                                          "workspace_ownership_transferred"}
    BY DEF Listen, handleMemberKicked
  <2> QED
    BY <1>3, <1>4, <1>5, <1>6, <1>7, <1>8, <1>9, <1>10, <2>1

LEMMA ApplyView ==
    ASSUME IInv, Typed, NEW f \in fetches, Apply(f)
    PROVE  view' \in View
<1> USE DEF Typed
<1>1. Asked(f, role) /\ Shaped(f)
  BY DEF IInv, AllAsked, AllShaped
<1>2. f.status # "asked" /\ view' \in Shown(f)
  BY DEF Apply
<1>3. CASE f.kind = "promotion"
  <2>1. view' = [view EXCEPT !.channels = IF f.status = "given" THEN f.answer.ids ELSE @, !.users = f.kept]
    BY <1>2, <1>3 DEF Shown
  <2>2. f.kept \subseteq Users \ {Me} /\ (f.status = "given" => f.answer.ids \subseteq Channels)
    BY <1>1, <1>3 DEF Shaped
  <2> QED
    BY <2>1, <2>2 DEF View
<1>4. CASE f.kind # "promotion" /\ f.status # "given"
  BY <1>2, <1>4 DEF Shown
<1>5. CASE f.kind = "workspaces" /\ f.status = "given"
  <2>1. f.answer.ids \subseteq Workspaces
    BY <1>1, <1>5 DEF Asked
  <2>2. CASE f.answer.ids = {}
    <3>1. view' = [view EXCEPT !.ws = None]
      BY <1>2, <1>5, <2>2 DEF Shown
    <3> QED
      BY <3>1 DEF View
  <2>3. CASE f.answer.ids # {}
    <3>1. PICK w \in IF view.saved \in f.answer.ids THEN {view.saved} ELSE f.answer.ids :
            view' = [(IF w = view.ws THEN view ELSE Activate(view, w)) EXCEPT !.list = f.answer.ids]
      BY <1>2, <1>5, <2>3 DEF Shown
    <3>2. PICK v \in View : view' = [v EXCEPT !.list = f.answer.ids]
      BY <2>1, <3>1, ActivateView
    <3> QED
      BY <2>1, <3>2 DEF View
  <2> QED
    BY <2>2, <2>3
<1>6. CASE f.kind = "members" /\ f.status = "given"
  <2>1. view' = [view EXCEPT !.role = f.answer.role, !.users = f.answer.users]
    BY <1>2, <1>6 DEF Shown
  <2>2. f.answer.role \in MemberRole /\ f.answer.users \subseteq Users \ {Me}
    BY <1>1, <1>6 DEF Shaped
  <2> QED
    BY <2>1, <2>2 DEF View
<1>7. CASE f.kind \in {"channels", "access", "create"} /\ f.status = "given"
  <2>1. f.answer.ids \subseteq Channels /\ (f.kind = "create" => f.kept \subseteq Channels)
    BY <1>1, <1>7 DEF Shaped
  <2>2. CASE f.kind = "channels"
    <3>1. view' = [view EXCEPT !.channels = f.answer.ids]
      BY <1>2, <1>7, <2>2 DEF Shown
    <3> QED
      BY <2>1, <3>1 DEF View
  <2>3. CASE f.kind = "access"
    <3>1. view' = [view EXCEPT !.channels = f.answer.ids,
                               !.open = IF ~ f.visible /\ @ = f.channel THEN None ELSE @]
      BY <1>2, <1>7, <2>3 DEF Shown
    <3> QED
      BY <2>1, <3>1 DEF View
  <2>4. CASE f.kind = "create"
    <3>1. view' = [view EXCEPT !.channels = f.kept \cup f.answer.ids]
      BY <1>2, <1>7, <2>4 DEF Shown
    <3> QED
      BY <2>1, <2>4, <3>1 DEF View
  <2> QED
    BY <1>7, <2>2, <2>3, <2>4
<1> QED
  BY <1>1, <1>3, <1>4, <1>5, <1>6, <1>7 DEF Asked, Kinds

LEMMA ViewStep ==
    ASSUME IInv, Typed, [Next]_vars
    PROVE  view' \in View
<1> USE DEF Typed
<1>1. CASE Handle
  BY <1>1, ListenView DEF Handle, IInv
<1>2. ASSUME NEW f \in fetches, Apply(f)
      PROVE  view' \in View
  BY <1>2, ApplyView
<1>3. ASSUME NEW w \in Workspaces, switch(w)
      PROVE  view' \in View
  BY <1>3, ActivateView DEF switch
<1>4. ASSUME NEW c \in Channels, handleChannelSelect(c)
      PROVE  view' \in View
  BY <1>4 DEF handleChannelSelect, View
<1>5. CASE Renew
  BY <1>5 DEF Renew, View
<1>6. CASE UNCHANGED view
  BY <1>6
<1>7. CASE Browse
  <2>1. \/ Handle \/ Renew \/ UNCHANGED view
        \/ \E w \in Workspaces : switch(w)
        \/ \E c \in Channels : handleChannelSelect(c)
        \/ \E f \in fetches : Apply(f)
    BY <1>7 DEF Browse, handleCreate, Answer, AnswerCreate, AnswerRead, FetchFails, JoinRooms, Drop, Connect
  <2> QED
    BY <1>1, <1>2, <1>3, <1>4, <1>5, <1>6, <2>1
<1>8. CASE Govern
  BY <1>8, GovernChange DEF Change
<1> QED
  BY <1>7, <1>8 DEF Next, Announce, vars
LEMMA WithinStep ==
    ASSUME IInv, Typed, [Next]_vars
    PROVE  Within'
<1> USE DEF Typed, Within
<1>1. CASE view'.ws = view.ws /\ view'.list = view.list
  BY <1>1
<1>2. ASSUME NEW w, Evict(w)
      PROVE  Within'
  <2> DEFINE left == view.list \ {w}
  <2>1. left \subseteq Workspaces
    BY DEF View
  <2>2. CASE view.ws # w
    <3>1. view'.ws = view.ws /\ view'.list = left
      BY <1>2, <2>2 DEF Evict, View
    <3> QED
      BY <2>2, <3>1
  <2>3. CASE view.ws = w
    <3>1. PICK next \in IF left = {} THEN {None} ELSE left :
            view' = [Activate(view, next) EXCEPT !.list = left, !.channels = {}]
      BY <1>2, <2>3 DEF Evict
    <3>2. view'.ws = next /\ view'.list = left
      BY <3>1 DEF Activate, View
    <3> QED
      BY <3>1, <3>2
  <2> QED
    BY <2>2, <2>3
<1>3. ASSUME NEW n, Listen(n)
      PROVE  Within'
  <2>1. Evict(n.ws) \/ (view'.ws = view.ws /\ view'.list = view.list)
    BY <1>3 DEF Listen, handleMemberKicked, handleAddedToChannel, handleChannelCreated, handleRoleUpdated,
                handleWorkspaceOwnershipTransferred, Close, View
  <2> QED
    BY <1>1, <1>2, <2>1
<1>4. ASSUME NEW f \in fetches, Apply(f)
      PROVE  Within'
  <2>1. f.status # "asked" /\ view' \in Shown(f) /\ Asked(f, role)
    BY <1>4 DEF Apply, IInv, AllAsked
  <2>2. CASE ~ (f.kind = "workspaces" /\ f.status = "given")
    <3>1. view'.ws = view.ws /\ view'.list = view.list
      BY <2>1, <2>2 DEF Shown, Asked, Kinds, View
    <3> QED
      BY <1>1, <3>1
  <2>3. CASE f.kind = "workspaces" /\ f.status = "given" /\ f.answer.ids = {}
    BY <2>1, <2>3 DEF Shown, View
  <2>4. CASE f.kind = "workspaces" /\ f.status = "given" /\ f.answer.ids # {}
    <3>1. PICK w \in IF view.saved \in f.answer.ids THEN {view.saved} ELSE f.answer.ids :
            view' = [(IF w = view.ws THEN view ELSE Activate(view, w)) EXCEPT !.list = f.answer.ids]
      BY <2>1, <2>4 DEF Shown
    <3>2. view'.ws = w /\ view'.list = f.answer.ids
      BY <3>1 DEF Activate, View
    <3> QED
      BY <3>1, <3>2
  <2> QED
    BY <2>2, <2>3, <2>4
<1>5. ASSUME NEW w \in Workspaces, switch(w)
      PROVE  Within'
  BY <1>5 DEF switch, Activate, View
<1>6. ASSUME NEW c \in Channels, handleChannelSelect(c)
      PROVE  Within'
  BY <1>6 DEF handleChannelSelect, View
<1>7. CASE Renew
  BY <1>7 DEF Renew, View
<1>8. CASE Browse
  <2>1. \/ Handle \/ Renew \/ UNCHANGED view
        \/ \E w \in Workspaces : switch(w)
        \/ \E c \in Channels : handleChannelSelect(c)
        \/ \E f \in fetches : Apply(f)
    BY <1>8 DEF Browse, handleCreate, Answer, AnswerCreate, AnswerRead, FetchFails, JoinRooms, Drop, Connect
  <2> QED
    BY <1>1, <1>3, <1>4, <1>5, <1>6, <1>7, <2>1 DEF Handle
<1>9. CASE Govern
  BY <1>9, GovernChange DEF Change
<1> QED
  BY <1>8, <1>9 DEF Next, Announce, vars

LEMMA RequestShaped ==
    ASSUME NEW kind \in {"workspaces", "members", "channels"}, NEW w,
           kind # "workspaces" => w \in Workspaces
    PROVE  Shaped(Request(kind, w))
  BY DEF Request, Shaped

LEMMA HydrationShaped ==
    ASSUME NEW w \in Workspaces
    PROVE  AllShaped(Hydration(w))
  BY RequestShaped DEF Hydration, AllShaped

LEMMA SendShaped ==
    ASSUME NEW pending, NEW requests, AllShaped(pending), AllShaped(requests), Send(pending, requests)
    PROVE  AllShaped(fetches')
  BY DEF Send, AllShaped

LEMMA OvertakenShaped ==
    ASSUME AllShaped(fetches), AllAsked(fetches, role)
    PROVE  AllShaped(Overtaken(fetches))
<1> SUFFICES ASSUME NEW f \in fetches
             PROVE  Shaped([f EXCEPT !.late = f.status # "asked"])
  BY DEF AllShaped, Overtaken
<1> DEFINE g == [f EXCEPT !.late = f.status # "asked"]
<1>1. Shaped(f) /\ Asked(f, role)
  BY DEF AllShaped, AllAsked
<1>2. /\ g.kind = f.kind /\ g.ws = f.ws /\ g.status = f.status
      /\ g.answer = f.answer /\ g.kept = f.kept /\ g.channel = f.channel
  BY <1>1 DEF Asked
<1> HIDE DEF g
<1>3. Shaped(g)
  BY <1>1, <1>2 DEF Shaped
<1> QED
  BY <1>3 DEF g

LEMMA LearnShaped ==
    ASSUME AllShaped(fetches), AllAsked(fetches, role), NEW requests, AllShaped(requests), Learn(requests)
    PROVE  AllShaped(fetches')
  BY OvertakenShaped, SendShaped DEF Learn

\* A request that is answered with what fits it.
LEMMA BecomesShaped ==
    ASSUME AllShaped(fetches), AllAsked(fetches, role), NEW f \in fetches,
           NEW status \in {"given", "refused", "failed"}, NEW answer, Becomes(f, status, answer),
           f.kind = "members" /\ status = "given" =>
             answer.role \in MemberRole /\ answer.users \subseteq Users \ {Me},
           f.kind \notin {"workspaces", "members", "read"} /\ status = "given" => answer.ids \subseteq Channels,
           f.kind = "create" /\ status = "given" => answer.ids = {f.channel}
    PROVE  AllShaped(fetches')
<1> DEFINE g == [f EXCEPT !.status = status, !.answer = answer]
<1>1. Shaped(f) /\ Asked(f, role)
  BY DEF AllShaped, AllAsked
<1>2. /\ g.kind = f.kind /\ g.ws = f.ws /\ g.status = status
      /\ g.answer = answer /\ g.kept = f.kept /\ g.channel = f.channel
  BY <1>1 DEF Asked
<1>3. fetches' = (fetches \ {f}) \cup {g}
  BY DEF Becomes
<1> HIDE DEF g
<1>4. Shaped(g)
  BY <1>1, <1>2 DEF Shaped
<1> QED
  BY <1>3, <1>4 DEF AllShaped

LEMMA AnswerShaped ==
    ASSUME IInv, Typed, NEW f \in fetches,
           Answer(f) \/ AnswerCreate(f) \/ AnswerRead(f) \/ FetchFails(f)
    PROVE  AllShaped(fetches')
<1> USE DEF Typed, IInv
<1>1. Shaped(f)
  BY DEF AllShaped
<1>2. CASE Answer(f) /\ Refused(f)
  <2>1. Becomes(f, "refused", Nothing)
    BY <1>2 DEF Answer
  <2> QED
    BY <2>1, BecomesShaped
<1>3. CASE Answer(f) /\ ~ Refused(f) /\ f.kind = "workspaces"
  <2>1. PICK answer : Becomes(f, "given", answer)
    BY <1>3 DEF Answer
  <2> QED
    BY <1>3, <2>1, BecomesShaped
<1>4. CASE Answer(f) /\ ~ Refused(f) /\ f.kind = "members"
  <2>1. Becomes(f, "given", [Nothing EXCEPT !.role = role[f.ws][Me], !.users = Others(f.ws)])
    BY <1>4 DEF Answer
  <2>2. role[f.ws][Me] \in MemberRole
    BY <1>1, <1>4, UsersAssumption DEF Refused, IsMember, Shaped, TablesOK, Role
  <2>3. Others(f.ws) \subseteq Users \ {Me}
    BY DEF Others
  <2> DEFINE answer == [Nothing EXCEPT !.role = role[f.ws][Me], !.users = Others(f.ws)]
  <2>4. answer.role = role[f.ws][Me] /\ answer.users = Others(f.ws)
    BY DEF Nothing
  <2> HIDE DEF answer
  <2> QED
    BY <1>4, <2>1, <2>2, <2>3, <2>4, BecomesShaped DEF answer
<1>5. CASE Answer(f) /\ ~ Refused(f) /\ f.kind \notin {"workspaces", "members"}
  <2>1. Becomes(f, "given", [Nothing EXCEPT !.ids = getWorkspaceChannels(f.ws)]) /\ f.kind # "create"
    BY <1>5 DEF Answer
  <2>2. getWorkspaceChannels(f.ws) \subseteq Channels
    BY DEF getWorkspaceChannels, ChannelsOf
  <2>3. PICK answer : Becomes(f, "given", answer) /\ answer.ids \subseteq Channels
    BY <2>1, <2>2 DEF Nothing
  <2> QED
    BY <1>5, <2>1, <2>3, BecomesShaped
<1>6. CASE AnswerCreate(f)
  <2>1. Becomes(f, "given", [Nothing EXCEPT !.ids = {f.channel}]) /\ f.kind = "create"
    BY <1>6 DEF AnswerCreate
  <2>2. f.channel \in Channels
    BY <1>1, <2>1 DEF Shaped
  <2>3. PICK answer : Becomes(f, "given", answer) /\ answer.ids = {f.channel}
    BY <2>1 DEF Nothing
  <2> QED
    BY <2>1, <2>2, <2>3, BecomesShaped
<1>7. CASE AnswerRead(f)
  BY <1>7 DEF AnswerRead, AllShaped
<1>8. CASE FetchFails(f)
  <2>1. Becomes(f, "failed", Nothing)
    BY <1>8 DEF FetchFails
  <2> QED
    BY <2>1, BecomesShaped
<1> QED
  BY <1>2, <1>3, <1>4, <1>5, <1>6, <1>7, <1>8

\* What the page asks for when it is told of something.
LEMMA ListenShaped ==
    ASSUME IInv, Typed, view.ws # None, NEW n \in Told(role), Listen(n)
    PROVE  AllShaped(fetches')
<1> USE DEF Typed, IInv
<1>1. n.ws \in Workspaces /\ n.channels \subseteq Channels
  BY DEF Told, Item
<1>2. AllShaped({})
  BY DEF AllShaped
<1>3. CASE Learn({})
  BY <1>2, <1>3, LearnShaped
<1>4. CASE Evict(n.ws)
  <2>1. Learn({}) \/ \E next \in view.list : Learn(Hydration(next))
    BY <1>4 DEF Evict
  <2>2. view.list \subseteq Workspaces
    BY DEF View
  <2> QED
    BY <1>3, <2>1, <2>2, LearnShaped, HydrationShaped
<1>5. CASE n.event = "member_role_updated" /\ n.ws = view.ws
  <2>1. Learn({}) \/ Learn({[Request("promotion", n.ws) EXCEPT !.kept = view.users]})
    BY <1>5 DEF Listen, handleRoleUpdated
  <2>2. view.users \subseteq Users \ {Me}
    BY DEF View
  <2>3. AllShaped({[Request("promotion", n.ws) EXCEPT !.kept = view.users]})
    BY <1>1, <2>2 DEF AllShaped, Request, Shaped
  <2> QED
    BY <1>3, <2>1, <2>3, LearnShaped
<1>6. CASE n.event = "channel_access_updated" /\ n.ws = view.ws
  <2>1. PICK c \in n.channels :
          Learn({[Request("access", n.ws) EXCEPT !.channel = c, !.visible = n.arg = "visible"]})
    BY <1>6 DEF Listen, handleChannelAccessUpdated
  <2> DEFINE g == [Request("access", n.ws) EXCEPT !.channel = c, !.visible = n.arg = "visible"]
  <2>2. g.kind = "access" /\ g.ws = n.ws /\ g.channel = c /\ g.status = "asked"
    BY DEF Request
  <2> HIDE DEF g
  <2>3. AllShaped({g})
    BY <1>1, <2>2 DEF AllShaped, Shaped
  <2> QED
    BY <2>1, <2>3, LearnShaped DEF g
<1> QED
  <2>1. \/ Learn({}) \/ Evict(n.ws)
        \/ n.ws = view.ws /\ n.event \in {"member_role_updated", "channel_access_updated"}
    BY DEF Listen, handleMemberKicked, handleAddedToChannel, handleChannelCreated,
           handleWorkspaceOwnershipTransferred
  <2> QED
    BY <1>3, <1>4, <1>5, <1>6, <2>1

LEMMA ShapedStep ==
    ASSUME IInv, Typed, [Next]_vars
    PROVE  AllShaped(fetches')
<1> USE DEF Typed, IInv
<1>1. AllShaped({})
  BY DEF AllShaped
<1>2. ASSUME view.ws # None, Browse
      PROVE  AllShaped(fetches')
  <2>1. view.ws \in Workspaces
    BY <1>2 DEF View
  <2>2. ASSUME NEW w \in Workspaces, switch(w)
        PROVE  AllShaped(fetches')
    BY <2>2, HydrationShaped, SendShaped DEF switch, Ask
  <2>3. ASSUME NEW c \in Channels, handleChannelSelect(c)
        PROVE  AllShaped(fetches')
    <3>1. AllShaped({[Request("read", Of[c]) EXCEPT !.channel = c]})
      BY ChannelsAssumption DEF AllShaped, Request, Shaped
    <3> QED
      BY <2>3, <3>1, SendShaped DEF handleChannelSelect, Ask
  <2>4. ASSUME NEW c \in Channels, handleCreate(c)
        PROVE  AllShaped(fetches')
    <3>1. view.channels \subseteq Channels
      BY DEF View
    <3> DEFINE g == [Request("create", view.ws) EXCEPT !.kept = view.channels, !.channel = c]
    <3>2. /\ g.kind = "create" /\ g.ws = view.ws /\ g.channel = c /\ g.kept = view.channels
          /\ g.status = "asked"
      BY DEF Request
    <3> HIDE DEF g
    <3>3. AllShaped({g})
      BY <2>1, <2>4, <3>1, <3>2 DEF AllShaped, Shaped, handleCreate
    <3> QED
      BY <2>4, <3>3, SendShaped DEF handleCreate, Ask, g
  <2>5. CASE Handle
    BY <1>2, <2>5, ListenShaped DEF Handle
  <2>6. ASSUME NEW f \in fetches, Apply(f)
        PROVE  AllShaped(fetches')
    <3>1. AllShaped(fetches \ {f})
      BY DEF AllShaped
    <3>2. view' \in View
      BY <2>6, ApplyView
    <3>3. Send(fetches \ {f}, {}) \/ (view'.ws # None /\ Send(fetches \ {f}, Hydration(view'.ws)))
      BY <2>6 DEF Apply
    <3>4. view'.ws # None => view'.ws \in Workspaces
      BY <3>2 DEF View
    <3> QED
      BY <1>1, <3>1, <3>3, <3>4, HydrationShaped, SendShaped
  <2>7. CASE JoinRooms
    BY <2>7 DEF JoinRooms
  <2>8. CASE Drop
    BY <1>1, <2>8, LearnShaped DEF Drop
  <2>9. CASE Connect
    BY <2>1, <2>9, HydrationShaped, SendShaped DEF Connect, Ask
  <2>10. CASE Renew
    <3>1. AllShaped({Request("workspaces", None)} \cup Hydration(view.ws))
      BY <2>1, RequestShaped, HydrationShaped DEF AllShaped
    <3> QED
      BY <2>10, <3>1, LearnShaped DEF Renew
  <2> QED
    BY <1>2, <2>2, <2>3, <2>4, <2>5, <2>6, <2>7, <2>8, <2>9, <2>10, AnswerShaped DEF Browse
<1>3. CASE Govern
  BY <1>3, GovernChange DEF Change
<1>4. ASSUME NEW i \in DOMAIN news, Announce(i)
      PROVE  AllShaped(fetches')
  BY <1>4, OvertakenShaped DEF Announce
<1> QED
  BY <1>2, <1>3, <1>4 DEF Next, vars

LEMMA TypedStep ==
    ASSUME IInv, Typed, [Next]_vars
    PROVE  Typed'
<1>1. IInv'
  BY StepHolds
<1> QED
  BY <1>1, TablesStep, ViewStep, WithinStep, ShapedStep, RoomsStep, MissedStep, BudgetStep DEF Typed

LEMMA TypedHolds == Spec => [](IInv /\ Typed)
<1>1. Init => IInv /\ Typed
  BY InitHolds, InitTyped
<1>2. (IInv /\ Typed) /\ [Next]_vars => (IInv /\ Typed)'
  BY StepHolds, TypedStep
<1> QED
  BY <1>1, <1>2, PTL DEF Spec

(***************************************************************************)
(* The tables, the page, the requests, the rooms and the bounds are of     *)
(* their types, a channel that is gone has no members, and a socket that   *)
(* is down is in no room and has nothing to be told (schema.prisma,        *)
(* useWorkspaceInit, socketProvider).                                      *)
(***************************************************************************)
THEOREM TypeCorrect == Spec => []TypeOK
<1>1. IInv /\ Typed => TypeOK
  <2> SUFFICES ASSUME IInv, Typed PROVE TypeOK
    OBVIOUS
  <2>1. view.ws # None => view.saved = view.ws
    BY DEF IInv, Good
  <2>2. \A f \in fetches :
          f.kind \in {"workspaces", "members", "channels", "access", "promotion", "create", "read"}
    BY DEF IInv, AllAsked, Asked, Kinds
  <2>3. \E most \in Bounds : \A what \in DOMAIN most : budget[what] \in 0 .. most[what]
    <3>1. PICK most \in Bounds : \A what \in DOMAIN most : budget[what] <= most[what]
      BY DEF Typed, BudgetOK
    <3>2. most \in Budget /\ budget \in Budget
      BY BoundsAssumption DEF Budget, IInv
    <3>3. \A what \in DOMAIN most : budget[what] \in Nat /\ most[what] \in Nat
      BY <3>2 DEF Budget
    <3> QED
      BY <3>1, <3>3
  <2> QED
    BY <2>1, <2>2, <2>3 DEF Typed, TablesOK, Role, View, RoomsOK, TypeOK
<1> QED
  BY <1>1, TypedHolds, PTL
----------------------------------------------------------------------------
(* What is shown and what is on its way to it                              *)

\* What the tables say of somebody in a workspace: of the user the role, of
\* another whether they are a member.
Fact(w, u) == IF u = Me THEN role[w][Me] ELSE IF role[w][u] = "none" THEN "out" ELSE "in"

Shows(r, us, u) == IF u = Me THEN r ELSE IF u \in us THEN "in" ELSE "out"

\* The announcements that bear on it, and what they say.
About(w, u) ==
    {n \in Item :
       /\ n.ws = w
       /\ IF u = Me
            THEN \/ n.event = "member_role_updated" /\ n.user = Me
                 \/ n.event = "workspace_ownership_transferred" /\ Me \in {n.user, n.arg}
            ELSE n.event \in {"workspace_member_joined", "member_kicked"} /\ n.user = u}

Says(n, u) ==
    IF u # Me THEN IF n.event = "member_kicked" THEN "out" ELSE "in"
    ELSE IF n.event = "member_role_updated" THEN n.arg
    ELSE IF n.arg = Me THEN "ADMIN" ELSE "OWNER"

Saying(x, u) == {n \in Item : Says(n, u) = x}

Evicting(w) == {n \in Item : Evicts(n) /\ n.ws = w}

Has(s, A) == \E i \in DOMAIN s : s[i] \in A

\* The last entry of s that is in A is in B.
Ends(s, A, B) ==
    \A i \in DOMAIN s :
      s[i] \in A /\ (\A j \in DOMAIN s : j > i => s[j] \notin A) => s[i] \in B

\* Told to the browser, or still to be announced.
Coming(A) == Has(down, A) \/ Has(news, A)

\* The last that comes is what the tables say.
EndsTrue(w, u) ==
    /\ Ends(news, About(w, u), Saying(Fact(w, u), u))
    /\ ~ Has(news, About(w, u)) => Ends(down, About(w, u), Saying(Fact(w, u), u))

InOrder == \A w \in Mine, u \in Users : EndsTrue(w, u)

\* What is shown of somebody is so, or will be corrected, or does not matter.
Right(r, us, w, u) == ~ IsMember(w) \/ Coming(About(w, u)) \/ Shows(r, us, u) = Fact(w, u)

Listed(l) == \A w \in l : IsMember(w) \/ Coming(Evicting(w))

AnswerRight(f) ==
    /\ f.status # "failed"
    /\ f.kind = "workspaces" => f.status # "refused"
    /\ f.kind = "members" /\ f.status = "refused" => ~ IsMember(f.ws)
    /\ f.status = "given" /\ ~ f.late =>
         /\ f.kind = "workspaces" => Listed(f.answer.ids)
         /\ f.kind = "members" => \A u \in Users : Right(f.answer.role, f.answer.users, f.ws, u)

AnswersRight == \A f \in fetches : AnswerRight(f)

Seeks(f, kind, w) == f.kind = kind /\ f.ws = w /\ f.status \in {"asked", "given"}

Sought(requests, kind, w) == \E f \in requests : Seeks(f, kind, w)

\* Once a promotion has written back an earlier list, only the user's own
\* role is answered for.
Answerable == {u \in Users : u = Me \/ "captured" \notin missed}

RolesRight == \A u \in Answerable : Right(view.role, view.users, view.ws, u)

ViewRight ==
    view.ws # None =>
      /\ Mine \subseteq view.list
      /\ Sought(fetches, "workspaces", None) \/ Listed(view.list)
      /\ up => Sought(fetches, "members", view.ws) \/ RolesRight

Spared == missed \cap Anyhow = {}

Current == Spared => InOrder /\ AnswersRight /\ ViewRight

----------------------------------------------------------------------------
(* The last of some kind in a sequence                                     *)

LEMMA HasAppend ==
    ASSUME NEW S, NEW s \in Seq(S), NEW e \in S, NEW A
    PROVE  Has(Append(s, e), A) <=> Has(s, A) \/ e \in A
<1> DEFINE t == Append(s, e)
<1>1. /\ DOMAIN t = 1 .. Len(s) + 1 /\ DOMAIN s = 1 .. Len(s) /\ Len(s) \in Nat
      /\ t[Len(s) + 1] = e /\ \A i \in 1 .. Len(s) : t[i] = s[i]
  BY AppendProperties, LenProperties
<1> HIDE DEF t
<1> QED
  BY <1>1 DEF Has, t

LEMMA EndsAppend ==
    ASSUME NEW S, NEW s \in Seq(S), NEW e \in S, NEW A, NEW B,
           IF e \in A THEN e \in B ELSE Ends(s, A, B)
    PROVE  Ends(Append(s, e), A, B)
<1> DEFINE t == Append(s, e)
<1>1. /\ DOMAIN t = 1 .. Len(s) + 1 /\ DOMAIN s = 1 .. Len(s) /\ Len(s) \in Nat
      /\ t[Len(s) + 1] = e /\ \A i \in 1 .. Len(s) : t[i] = s[i]
  BY AppendProperties, LenProperties
<1> HIDE DEF t
<1> SUFFICES ASSUME NEW i \in DOMAIN t, t[i] \in A, \A j \in DOMAIN t : j > i => t[j] \notin A
             PROVE  t[i] \in B
  BY DEF Ends, t
<1>2. CASE e \in A
  BY <1>1, <1>2
<1>3. CASE e \notin A
  <2>1. i \in DOMAIN s /\ s[i] \in A
    BY <1>1, <1>3
  <2>2. \A j \in DOMAIN s : j > i => s[j] \notin A
    BY <1>1
  <2> QED
    BY <1>1, <1>3, <2>1, <2>2 DEF Ends
<1> QED
  BY <1>2, <1>3

LEMMA TailIs ==
    ASSUME NEW S, NEW s \in Seq(S), s # << >>
    PROVE  /\ Len(s) \in Nat /\ DOMAIN s = 1 .. Len(s) /\ 1 \in DOMAIN s
           /\ DOMAIN Tail(s) = 1 .. Len(s) - 1
           /\ \A i \in 1 .. Len(s) - 1 : Tail(s)[i] = s[i + 1]
           /\ Head(s) = s[1] /\ Tail(s) \in Seq(S) /\ Head(s) \in S
<1>1. Len(s) \in Nat /\ DOMAIN s = 1 .. Len(s) /\ Len(s) # 0
  BY LenProperties, EmptySeq
<1>2. Tail(s) \in Seq(S) /\ Len(Tail(s)) = Len(s) - 1 /\ \A i \in 1 .. Len(Tail(s)) : Tail(s)[i] = s[i + 1]
  BY HeadTailProperties
<1>3. DOMAIN Tail(s) = 1 .. Len(Tail(s))
  BY <1>2, LenProperties
<1> QED
  BY <1>1, <1>2, <1>3, HeadTailProperties

LEMMA HasTail ==
    ASSUME NEW S, NEW s \in Seq(S), s # << >>, NEW A
    PROVE  Has(s, A) <=> Head(s) \in A \/ Has(Tail(s), A)
<1>1. ASSUME NEW i \in DOMAIN s, s[i] \in A
      PROVE  Head(s) \in A \/ Has(Tail(s), A)
  <2>1. CASE i = 1
    BY <1>1, <2>1, TailIs
  <2>2. CASE i # 1
    <3>1. i - 1 \in DOMAIN Tail(s) /\ Tail(s)[i - 1] = s[i]
      BY <2>2, TailIs
    <3> QED
      BY <1>1, <3>1 DEF Has
  <2> QED
    BY <2>1, <2>2
<1>2. ASSUME NEW i \in DOMAIN Tail(s), Tail(s)[i] \in A
      PROVE  Has(s, A)
  <2>1. i + 1 \in DOMAIN s /\ s[i + 1] = Tail(s)[i]
    BY TailIs
  <2> QED
    BY <1>2, <2>1 DEF Has
<1>3. Head(s) \in A => Has(s, A)
  BY TailIs DEF Has
<1> QED
  BY <1>1, <1>2, <1>3 DEF Has

LEMMA EndsTail ==
    ASSUME NEW S, NEW s \in Seq(S), s # << >>, NEW A, NEW B, Ends(s, A, B)
    PROVE  /\ Ends(Tail(s), A, B)
           /\ ~ Has(Tail(s), A) /\ Head(s) \in A => Head(s) \in B
<1>1. ASSUME NEW i \in DOMAIN Tail(s), Tail(s)[i] \in A,
             \A j \in DOMAIN Tail(s) : j > i => Tail(s)[j] \notin A
      PROVE  Tail(s)[i] \in B
  <2>1. i \in Int /\ i >= 1 /\ i + 1 \in DOMAIN s /\ s[i + 1] = Tail(s)[i]
    BY TailIs
  <2>2. ASSUME NEW j \in DOMAIN s, j > i + 1
        PROVE  s[j] \notin A
    <3>1. j - 1 \in DOMAIN Tail(s) /\ Tail(s)[j - 1] = s[j] /\ j - 1 > i
      BY <2>1, <2>2, TailIs
    <3> QED
      BY <1>1, <3>1
  <2> QED
    BY <1>1, <2>1, <2>2 DEF Ends
<1>2. ASSUME ~ Has(Tail(s), A), Head(s) \in A
      PROVE  Head(s) \in B
  <2>1. ASSUME NEW j \in DOMAIN s, j > 1
        PROVE  s[j] \notin A
    <3>1. j - 1 \in DOMAIN Tail(s) /\ Tail(s)[j - 1] = s[j]
      BY <2>1, TailIs
    <3> QED
      BY <1>2, <3>1 DEF Has
  <2> QED
    BY <1>2, <2>1, TailIs DEF Ends
<1> QED
  BY <1>1, <1>2 DEF Ends

LEMMA ConcatIs ==
    ASSUME NEW S, NEW s \in Seq(S), NEW t \in Seq(S)
    PROVE  /\ Len(s) \in Nat /\ DOMAIN s = 1 .. Len(s)
           /\ Len(t) \in Nat /\ DOMAIN t = 1 .. Len(t)
           /\ DOMAIN (s \o t) = 1 .. Len(s) + Len(t)
           /\ \A i \in 1 .. Len(s) : (s \o t)[i] = s[i]
           /\ \A i \in 1 .. Len(t) : (s \o t)[Len(s) + i] = t[i]
<1>1. /\ Len(s) \in Nat /\ DOMAIN s = 1 .. Len(s)
      /\ Len(t) \in Nat /\ DOMAIN t = 1 .. Len(t)
  BY LenProperties
<1>2. /\ s \o t \in Seq(S) /\ Len(s \o t) = Len(s) + Len(t)
      /\ \A i \in 1 .. Len(s) + Len(t) : (s \o t)[i] = IF i <= Len(s) THEN s[i] ELSE t[i - Len(s)]
  BY ConcatProperties
<1>3. DOMAIN (s \o t) = 1 .. Len(s) + Len(t)
  BY <1>2, LenProperties
<1>4. ASSUME NEW i \in 1 .. Len(t)
      PROVE  (s \o t)[Len(s) + i] = t[i]
  <2>1. Len(s) + i \in 1 .. Len(s) + Len(t) /\ ~ (Len(s) + i <= Len(s)) /\ (Len(s) + i) - Len(s) = i
    BY <1>1
  <2> QED
    BY <1>2, <2>1
<1>5. ASSUME NEW i \in 1 .. Len(s)
      PROVE  (s \o t)[i] = s[i]
  BY <1>1, <1>2
<1> QED
  BY <1>1, <1>3, <1>4, <1>5

LEMMA HasConcat ==
    ASSUME NEW S, NEW s \in Seq(S), NEW t \in Seq(S), NEW A
    PROVE  Has(s \o t, A) <=> Has(s, A) \/ Has(t, A)
<1> DEFINE st == s \o t
<1>1. /\ Len(s) \in Nat /\ DOMAIN s = 1 .. Len(s)
      /\ Len(t) \in Nat /\ DOMAIN t = 1 .. Len(t)
      /\ DOMAIN st = 1 .. Len(s) + Len(t)
      /\ \A i \in 1 .. Len(s) : st[i] = s[i]
      /\ \A i \in 1 .. Len(t) : st[Len(s) + i] = t[i]
  BY ConcatIs
<1> HIDE DEF st
<1>2. ASSUME NEW i \in DOMAIN st, st[i] \in A
      PROVE  Has(s, A) \/ Has(t, A)
  <2>1. CASE i <= Len(s)
    BY <1>1, <1>2, <2>1 DEF Has
  <2>2. CASE ~ (i <= Len(s))
    <3>1. i - Len(s) \in DOMAIN t /\ Len(s) + (i - Len(s)) = i
      BY <1>1, <2>2
    <3>2. st[i] = t[i - Len(s)]
      BY <1>1, <3>1
    <3> QED
      BY <1>2, <3>1, <3>2 DEF Has
  <2> QED
    BY <2>1, <2>2
<1>3. ASSUME NEW i \in DOMAIN s, s[i] \in A
      PROVE  Has(st, A)
  BY <1>1, <1>3 DEF Has
<1>4. ASSUME NEW i \in DOMAIN t, t[i] \in A
      PROVE  Has(st, A)
  <2>1. Len(s) + i \in DOMAIN st
    BY <1>1
  <2> QED
    BY <1>1, <1>4, <2>1 DEF Has
<1> QED
  BY <1>2, <1>3, <1>4 DEF Has, st

LEMMA EndsConcat ==
    ASSUME NEW S, NEW s \in Seq(S), NEW t \in Seq(S), NEW A, NEW B,
           Ends(t, A, B), Has(t, A) \/ Ends(s, A, B)
    PROVE  Ends(s \o t, A, B)
<1> DEFINE st == s \o t
<1>1. /\ Len(s) \in Nat /\ DOMAIN s = 1 .. Len(s)
      /\ Len(t) \in Nat /\ DOMAIN t = 1 .. Len(t)
      /\ DOMAIN st = 1 .. Len(s) + Len(t)
      /\ \A i \in 1 .. Len(s) : st[i] = s[i]
      /\ \A i \in 1 .. Len(t) : st[Len(s) + i] = t[i]
  BY ConcatIs
<1> HIDE DEF st
<1> SUFFICES ASSUME NEW i \in DOMAIN st, st[i] \in A, \A j \in DOMAIN st : j > i => st[j] \notin A
             PROVE  st[i] \in B
  BY DEF Ends, st
<1>2. CASE i <= Len(s)
  <2>1. ASSUME NEW j \in DOMAIN t
        PROVE  t[j] \notin A
    <3>1. Len(s) + j \in DOMAIN st /\ Len(s) + j > i
      BY <1>1, <1>2
    <3> QED
      BY <1>1, <3>1
  <2>2. Ends(s, A, B)
    BY <2>1 DEF Has
  <2>3. i \in DOMAIN s /\ s[i] \in A /\ \A j \in DOMAIN s : j > i => s[j] \notin A
    BY <1>1, <1>2
  <2> QED
    BY <1>1, <2>2, <2>3 DEF Ends
<1>3. CASE ~ (i <= Len(s))
  <2> DEFINE k == i - Len(s)
  <2>1. k \in DOMAIN t /\ Len(s) + k = i
    BY <1>1, <1>3
  <2>2. st[i] = t[k]
    BY <1>1, <2>1
  <2>3. ASSUME NEW j \in DOMAIN t, j > k
        PROVE  t[j] \notin A
    <3>1. Len(s) + j \in DOMAIN st /\ Len(s) + j > i
      BY <1>1, <2>1, <2>3
    <3> QED
      BY <1>1, <3>1
  <2> HIDE DEF k
  <2> QED
    BY <2>1, <2>2, <2>3 DEF Ends
<1> QED
  BY <1>2, <1>3

LEMMA NothingHas == \A A, B : ~ Has(<< >>, A) /\ Ends(<< >>, A, B)
  BY DEF Has, Ends

LEMMA FirstIsHead ==
    ASSUME NEW S, NEW s \in Seq(S), NEW i \in DOMAIN s, ~ (i > 1)
    PROVE  s # << >> /\ s[i] = Head(s) /\ RemoveAt(s, i) = Tail(s)
<1>1. Len(s) \in Nat /\ DOMAIN s = 1 .. Len(s) /\ \A j \in 1 .. Len(s) : s[j] \in S
  BY LenProperties, ElementOfSeq
<1>2. i = 1 /\ s # << >> /\ Len(s) >= 1
  BY <1>1
<1>3. SubSeq(s, 1, 0) = << >> /\ SubSeq(s, 2, Len(s)) = Tail(s)
  BY <1>1, <1>2
<1>4. RemoveAt(s, 1) = << >> \o Tail(s)
  BY <1>3 DEF RemoveAt
<1>5. Tail(s) \in Seq(S)
  BY <1>2
<1>6. << >> \o Tail(s) = Tail(s)
  BY <1>5
<1> QED
  BY <1>2, <1>4, <1>6
----------------------------------------------------------------------------
(* What is told follows what is written                                    *)

\* A handler tells of every role it gives, and of nothing else, and whoever
\* it puts out of a workspace is evicted.
Tells(n) ==
    /\ n \in Told(role') /\ Tell(n)
    /\ \A w \in Mine', u \in Users :
         IF n \in About(w, u) THEN n \in Saying(Fact(w, u)', u) ELSE Fact(w, u)' = Fact(w, u)
    /\ \A w \in Mine \ Mine' : n \in Evicting(w)

LEMMA NewsIs ==
    ASSUME NEW event, NEW w, NEW u, NEW arg, NEW channels
    PROVE  LET n == News(event, w, u, arg, channels)
           IN  n.event = event /\ n.ws = w /\ n.user = u /\ n.arg = arg /\ n.channels = channels
  BY DEF News

LEMMA NewsItem ==
    ASSUME role \in Role, NEW w \in Workspaces, NEW u \in Users \cup {None},
           NEW arg \in Users \cup {None} \cup MemberRole \cup {"visible", "hidden"},
           NEW channels \in SUBSET Channels,
           NEW event \in {"workspace_member_joined", "member_role_updated", "workspace_ownership_transferred",
                          "member_kicked", "workspace_deleted"}
    PROVE  News(event, w, u, arg, channels) \in Item
<1>1. role[w][Me] \in MemberRole \cup {"none"}
  BY UsersAssumption DEF Role
<1> QED
  BY <1>1 DEF News, Item

LEMMA RoleSet ==
    ASSUME role \in Role, NEW w \in Workspaces, NEW u \in Users, NEW r, SetRole(w, u, r)
    PROVE  \A w2 \in Workspaces, u2 \in Users :
             role'[w2][u2] = IF w2 = w /\ u2 = u THEN r ELSE role[w2][u2]
  BY DEF SetRole, Role

LEMMA JoinTells ==
    ASSUME IInv, NEW w \in Workspaces, NEW u \in Users, joinWorkspace(w, u)
    PROVE  \E n : Tells(n)
<1> DEFINE n == News("workspace_member_joined", w, u, None, {})
<1>1. /\ n.event = "workspace_member_joined" /\ n.ws = w /\ n.user = u
      /\ u # Me /\ Tell(n)
  BY NewsIs DEF joinWorkspace
<1>2. \A w2 \in Workspaces, u2 \in Users :
        role'[w2][u2] = IF w2 = w /\ u2 = u THEN "MEMBER" ELSE role[w2][u2]
  BY RoleSet DEF joinWorkspace, IInv
<1>3. n \in Told(role')
  BY <1>1, UsersAssumption DEF News, Told, Item, Addressed, Evicts, Role, IInv
<1> HIDE DEF n
<1>4. n \in Item
  BY <1>3 DEF Told
<1>5. ASSUME NEW w2 \in Workspaces, NEW u2 \in Users
      PROVE  IF n \in About(w2, u2) THEN n \in Saying(Fact(w2, u2)', u2) ELSE Fact(w2, u2)' = Fact(w2, u2)
  <2>1. n \in About(w2, u2) <=> w2 = w /\ u2 = u
    BY <1>1, <1>4 DEF About
  <2>2. CASE w2 = w /\ u2 = u
    <3>1. Fact(w2, u2)' = "in"
      BY <1>1, <1>2, <2>2 DEF Fact
    <3> QED
      BY <1>1, <1>4, <2>1, <2>2, <3>1 DEF Saying, Says
  <2>3. CASE ~ (w2 = w /\ u2 = u)
    BY <1>1, <1>2, <2>1, <2>3, UsersAssumption DEF Fact
  <2> QED
    BY <2>2, <2>3
<1>6. Mine' = Mine
  BY <1>1, <1>2, UsersAssumption DEF Mine, IsMember
<1> QED
  BY <1>1, <1>3, <1>5, <1>6 DEF Tells, Mine

LEMMA RoleTells ==
    ASSUME IInv, NEW w \in Workspaces, NEW u \in Users, NEW r \in MemberRole, updateWorkspaceMemberRole(w, u, r)
    PROVE  \E n : Tells(n)
<1> DEFINE n == News("member_role_updated", w, u, r, Revoked(w, r))
<1>1. /\ n.event = "member_role_updated" /\ n.ws = w /\ n.user = u /\ n.arg = r
      /\ role[w][u] \in {"ADMIN", "MEMBER", "GUEST"} /\ r \in {"ADMIN", "MEMBER", "GUEST"}
      /\ Tell(n)
  BY NewsIs DEF updateWorkspaceMemberRole
<1>2. \A w2 \in Workspaces, u2 \in Users :
        role'[w2][u2] = IF w2 = w /\ u2 = u THEN r ELSE role[w2][u2]
  BY RoleSet DEF updateWorkspaceMemberRole, IInv
<1>3. n \in Item
  <2>1. Revoked(w, r) \subseteq Channels
    BY DEF Revoked, ChannelsOf
  <2> QED
    BY <2>1, NewsItem DEF IInv
<1> HIDE DEF n
<1>4. n \in Told(role')
  <2>1. n.channels = Revoked(w, r)
    BY DEF n, News
  <2>2. \A c \in n.channels : Of[c] = n.ws
    BY <1>1, <2>1 DEF Revoked, ChannelsOf
  <2> QED
    BY <1>1, <1>3, <2>2 DEF Told, Addressed, Evicts
<1>5. ASSUME NEW w2 \in Workspaces, NEW u2 \in Users
      PROVE  IF n \in About(w2, u2) THEN n \in Saying(Fact(w2, u2)', u2) ELSE Fact(w2, u2)' = Fact(w2, u2)
  <2>1. n \in About(w2, u2) <=> w2 = w /\ u2 = Me /\ u = Me
    BY <1>1, <1>3 DEF About
  <2>2. CASE w2 = w /\ u2 = Me /\ u = Me
    <3>1. Fact(w2, u2)' = r
      BY <1>2, <2>2 DEF Fact
    <3> QED
      BY <1>1, <1>3, <2>1, <2>2, <3>1 DEF Saying, Says
  <2>3. CASE ~ (w2 = w /\ u2 = Me /\ u = Me)
    <3>1. CASE u2 = Me
      BY <1>2, <2>1, <2>3, <3>1, UsersAssumption DEF Fact
    <3>2. CASE u2 # Me
      <4>1. role'[w2][u2] = "none" <=> role[w2][u2] = "none"
        BY <1>1, <1>2
      <4> QED
        BY <2>1, <2>3, <3>2, <4>1 DEF Fact
    <3> QED
      BY <3>1, <3>2
  <2> QED
    BY <2>2, <2>3
<1>6. Mine' = Mine
  BY <1>1, <1>2, UsersAssumption DEF Mine, IsMember
<1> QED
  BY <1>1, <1>4, <1>5, <1>6 DEF Tells, Mine

LEMMA TransferTells ==
    ASSUME IInv, NEW w \in Workspaces, NEW u \in Users, NEW v \in Users, transferWorkspaceOwnership(w, u, v)
    PROVE  \E n : Tells(n)
<1> DEFINE n == News("workspace_ownership_transferred", w, v, u, {})
<1>1. /\ n.event = "workspace_ownership_transferred" /\ n.ws = w /\ n.user = v /\ n.arg = u
      /\ n.channels = {}
      /\ u # v /\ role[w][u] # "none" /\ role[w][v] # "none"
      /\ Tell(n)
  BY NewsIs DEF transferWorkspaceOwnership
<1>2. \A w2 \in Workspaces, u2 \in Users :
        role'[w2][u2] = IF w2 = w /\ u2 = v THEN "OWNER" ELSE IF w2 = w /\ u2 = u THEN "ADMIN" ELSE role[w2][u2]
  BY DEF transferWorkspaceOwnership, IInv, Role
<1>3. n \in Item
  BY NewsItem DEF IInv
<1> HIDE DEF n
<1>4. n \in Told(role')
  BY <1>1, <1>3 DEF Told, Addressed, Evicts
<1>5. ASSUME NEW w2 \in Workspaces, NEW u2 \in Users
      PROVE  IF n \in About(w2, u2) THEN n \in Saying(Fact(w2, u2)', u2) ELSE Fact(w2, u2)' = Fact(w2, u2)
  <2>1. n \in About(w2, u2) <=> w2 = w /\ u2 = Me /\ Me \in {u, v}
    BY <1>1, <1>3 DEF About
  <2>2. CASE w2 = w /\ u2 = Me /\ Me \in {u, v}
    <3>1. Fact(w2, u2)' = IF u = Me THEN "ADMIN" ELSE "OWNER"
      BY <1>1, <1>2, <2>2 DEF Fact
    <3> QED
      BY <1>1, <1>3, <2>1, <2>2, <3>1 DEF Saying, Says
  <2>3. CASE ~ (w2 = w /\ u2 = Me /\ Me \in {u, v})
    <3>1. CASE u2 = Me
      BY <1>2, <2>1, <2>3, <3>1, UsersAssumption DEF Fact
    <3>2. CASE u2 # Me
      <4>1. role'[w2][u2] = "none" <=> role[w2][u2] = "none"
        BY <1>1, <1>2
      <4> QED
        BY <2>1, <2>3, <3>2, <4>1 DEF Fact
    <3> QED
      BY <3>1, <3>2
  <2> QED
    BY <2>2, <2>3
<1>6. Mine' = Mine
  BY <1>1, <1>2, UsersAssumption DEF Mine, IsMember
<1> QED
  BY <1>1, <1>4, <1>5, <1>6 DEF Tells, Mine

LEMMA KickTells ==
    ASSUME IInv, NEW w \in Workspaces, NEW u \in Users, removeWorkspaceMember(w, u)
    PROVE  \E n : Tells(n)
<1> DEFINE n == News("member_kicked", w, u, None, {})
<1>1. n.event = "member_kicked" /\ n.ws = w /\ n.user = u /\ n.channels = {} /\ Tell(n)
  BY NewsIs DEF removeWorkspaceMember
<1>2. \A w2 \in Workspaces, u2 \in Users :
        role'[w2][u2] = IF w2 = w /\ u2 = u THEN "none" ELSE role[w2][u2]
  BY RoleSet DEF removeWorkspaceMember, IInv
<1>3. n \in Item
  BY NewsItem DEF IInv
<1> HIDE DEF n
<1>4. n \in Told(role')
  BY <1>1, <1>2, <1>3, UsersAssumption DEF Told, Addressed, Evicts, Out
<1>5. ASSUME NEW w2 \in Mine', NEW u2 \in Users
      PROVE  IF n \in About(w2, u2) THEN n \in Saying(Fact(w2, u2)', u2) ELSE Fact(w2, u2)' = Fact(w2, u2)
  <2>1. n \in About(w2, u2) <=> w2 = w /\ u2 = u /\ u # Me
    BY <1>1, <1>3 DEF About
  <2>2. w2 \in Workspaces /\ role'[w2][Me] # "none"
    BY DEF Mine, IsMember
  <2>3. ~ (w2 = w /\ u = Me)
    BY <1>2, <2>2
  <2>4. CASE w2 = w /\ u2 = u
    <3>1. u2 # Me
      BY <2>3, <2>4
    <3>2. Fact(w2, u2)' = "out"
      BY <1>2, <2>4, <3>1 DEF Fact
    <3> QED
      BY <1>1, <1>3, <2>1, <2>4, <3>1, <3>2 DEF Saying, Says
  <2>5. CASE ~ (w2 = w /\ u2 = u)
    BY <1>2, <2>1, <2>2, <2>3, <2>5, UsersAssumption DEF Fact
  <2> QED
    BY <2>4, <2>5
<1>6. ASSUME NEW w2 \in Mine \ Mine'
      PROVE  n \in Evicting(w2)
  <2>1. w2 = w /\ u = Me
    BY <1>2, UsersAssumption DEF Mine, IsMember
  <2> QED
    BY <1>1, <1>3, <2>1 DEF Evicting, Evicts
<1> QED
  BY <1>1, <1>4, <1>5, <1>6 DEF Tells

LEMMA DeleteTells ==
    ASSUME IInv, NEW w \in Workspaces, deleteWorkspace(w)
    PROVE  \E n : Tells(n)
<1> DEFINE n == News("workspace_deleted", w, None, None, {})
<1>1. n.event = "workspace_deleted" /\ n.ws = w /\ Tell(n)
  BY NewsIs DEF deleteWorkspace
<1>2. \A w2 \in Workspaces, u2 \in Users :
        role'[w2][u2] = IF w2 = w THEN "none" ELSE role[w2][u2]
  BY DEF deleteWorkspace, IInv, Role
<1>3. n \in Told(role')
  BY <1>1, <1>2, UsersAssumption DEF News, Told, Item, Addressed, Evicts, Role, Out, IInv
<1> HIDE DEF n
<1>4. n \in Item
  BY <1>3 DEF Told
<1>5. ASSUME NEW w2 \in Mine', NEW u2 \in Users
      PROVE  n \notin About(w2, u2) /\ Fact(w2, u2)' = Fact(w2, u2)
  <2>1. w2 \in Workspaces /\ w2 # w
    BY <1>2, UsersAssumption DEF Mine, IsMember
  <2> QED
    BY <1>1, <1>2, <2>1, UsersAssumption DEF About, Fact
<1>6. ASSUME NEW w2 \in Mine \ Mine'
      PROVE  n \in Evicting(w2)
  <2>1. w2 = w
    BY <1>2, UsersAssumption DEF Mine, IsMember
  <2> QED
    BY <1>1, <1>4, <2>1 DEF Evicting, Evicts
<1> QED
  BY <1>1, <1>3, <1>5, <1>6 DEF Tells

\* News of a channel bears on nobody's role.
LEMMA ChannelTells ==
    ASSUME IInv, UNCHANGED role, NEW c \in Channels, NEW arg \in {None, "visible", "hidden"},
           NEW event \in {"added_to_channel", "channel_created", "channel_access_updated", "channel_deleted"},
           Tell(News(event, Of[c], None, arg, {c}))
    PROVE  \E n : Tells(n)
<1> DEFINE n == News(event, Of[c], None, arg, {c})
<1>1. n.event = event
  BY NewsIs
<1>2. n \in Told(role')
  BY UsersAssumption, ChannelsAssumption DEF News, Told, Item, Addressed, Evicts, Role, IInv
<1> HIDE DEF n
<1>3. \A w, u : n \notin About(w, u) /\ Fact(w, u)' = Fact(w, u)
  BY <1>1 DEF About, Fact
<1>4. Mine' = Mine
  BY DEF Mine, IsMember
<1> QED
  BY <1>2, <1>3, <1>4 DEF Tells, n

LEMMA GovernTells ==
    ASSUME IInv, Govern
    PROVE  UNCHANGED <<role, news>> \/ \E n : Tells(n)
<1>1. ASSUME NEW c \in Channels,
             \/ createChannel(c) \/ inviteToChannel(c) \/ notify_channel_invites(c) \/ deleteChannel(c)
             \/ \E value \in {"visible", "hidden"} : SetAccess(c, value)
      PROVE  UNCHANGED <<role, news>> \/ \E n : Tells(n)
  <2>1. UNCHANGED role
    BY <1>1 DEF createChannel, Insert, inviteToChannel, notify_channel_invites, tables, deleteChannel, SetAccess
  <2>2. \/ UNCHANGED news
        \/ \E event \in {"added_to_channel", "channel_created", "channel_access_updated", "channel_deleted"},
              arg \in {None, "visible", "hidden"} : Tell(News(event, Of[c], None, arg, {c}))
    BY <1>1 DEF createChannel, Insert, inviteToChannel, notify_channel_invites, tables, deleteChannel, SetAccess
  <2> QED
    BY <2>1, <2>2, ChannelTells
<1> QED
  BY <1>1, JoinTells, RoleTells, TransferTells, KickTells, DeleteTells DEF Govern
----------------------------------------------------------------------------
(* What a step leaves right                                                *)

Keeps(w, u) ==
    IsMember(w)' => /\ IsMember(w)
                    /\ Coming(About(w, u)) => Coming(About(w, u))'
                    /\ Fact(w, u)' = Fact(w, u) \/ Coming(About(w, u))'

RightsKept(W) == \A w \in W, u \in Users : Keeps(w, u)

ListsKept(W) == \A w \in W : IsMember(w) \/ Coming(Evicting(w)) => IsMember(w)' \/ Coming(Evicting(w))'

LEMMA RightKept ==
    ASSUME NEW w, NEW u, NEW r, NEW us, Right(r, us, w, u), Keeps(w, u)
    PROVE  Right(r, us, w, u)'
  BY DEF Right, Keeps, Shows

LEMMA ListedKept ==
    ASSUME NEW l, Listed(l), ListsKept(l)
    PROVE  Listed(l)'
  BY DEF Listed, ListsKept

LEMMA AnswerKept ==
    ASSUME IInv, Typed, NEW f \in fetches, AnswerRight(f), Mine' \subseteq Mine,
           RightsKept(Workspaces), ListsKept(Workspaces)
    PROVE  AnswerRight(f)'
<1>1. Asked(f, role) /\ Shaped(f)
  BY DEF IInv, AllAsked, Typed, AllShaped
<1>2. f.kind = "members" => f.ws \in Workspaces
  BY <1>1 DEF Shaped
<1>3. f.kind = "members" /\ f.status = "refused" => ~ IsMember(f.ws)'
  BY <1>2 DEF AnswerRight, Mine
<1>4. ASSUME f.status = "given", ~ f.late, f.kind = "workspaces"
      PROVE  Listed(f.answer.ids)'
  <2>1. Listed(f.answer.ids) /\ f.answer.ids \subseteq Workspaces
    BY <1>1, <1>4 DEF AnswerRight, Asked
  <2> QED
    BY <2>1, ListedKept DEF ListsKept
<1>5. ASSUME f.status = "given", ~ f.late, f.kind = "members", NEW u \in Users
      PROVE  Right(f.answer.role, f.answer.users, f.ws, u)'
  BY <1>2, <1>5, RightKept DEF AnswerRight, RightsKept
<1> QED
  BY <1>3, <1>4, <1>5 DEF AnswerRight

LEMMA AskedIsRight ==
    ASSUME NEW f, f.status = "asked"
    PROVE  AnswerRight(f)'
  BY DEF AnswerRight

\* Requests as they are made.
Fresh(requests) == \A f \in requests : f.status = "asked"

LEMMA AnswersKept ==
    ASSUME IInv, Typed, AnswersRight, Mine' \subseteq Mine, RightsKept(Workspaces), ListsKept(Workspaces),
           \A f \in fetches' : f \in fetches \/ f.status = "asked"
    PROVE  AnswersRight'
  BY AnswerKept, AskedIsRight DEF AnswersRight

LEMMA OvertakenRight ==
    ASSUME IInv, Typed, AnswersRight, Mine' \subseteq Mine,
           \A f \in fetches' : f \in Overtaken(fetches) \/ f.status = "asked"
    PROVE  AnswersRight'
<1> SUFFICES ASSUME NEW g \in Overtaken(fetches)
             PROVE  AnswerRight(g)'
  BY AskedIsRight DEF AnswersRight
<1>1. PICK f \in fetches : g = [f EXCEPT !.late = f.status # "asked"]
  BY DEF Overtaken
<1>2. Asked(f, role) /\ Shaped(f) /\ AnswerRight(f)
  BY DEF IInv, AllAsked, Typed, AllShaped, AnswersRight
<1>3. g.kind = f.kind /\ g.ws = f.ws /\ g.status = f.status /\ g.late = (f.status # "asked")
  BY <1>1, <1>2 DEF Asked
<1>4. f.kind = "members" /\ f.status = "refused" => ~ IsMember(f.ws)'
  BY <1>2 DEF AnswerRight, Shaped, Mine
<1> QED
  BY <1>2, <1>3, <1>4 DEF AnswerRight

LEMMA HydrationFresh ==
    ASSUME NEW w
    PROVE  Fresh(Hydration(w)) /\ Sought(Hydration(w), "members", w)
  BY DEF Fresh, Hydration, Request, Sought, Seeks

LEMMA OvertakenSought ==
    ASSUME IInv, NEW kind, NEW w, Sought(fetches, kind, w)
    PROVE  Sought(Overtaken(fetches), kind, w)
<1>1. PICK f \in fetches : Seeks(f, kind, w)
  BY DEF Sought
<1> DEFINE g == [f EXCEPT !.late = f.status # "asked"]
<1>2. Asked(f, role)
  BY DEF IInv, AllAsked
<1>3. g.kind = f.kind /\ g.ws = f.ws /\ g.status = f.status
  BY <1>2 DEF Asked
<1>4. g \in Overtaken(fetches)
  BY DEF Overtaken
<1> HIDE DEF g
<1> QED
  BY <1>1, <1>3, <1>4 DEF Sought, Seeks

LEMMA WiderSought ==
    ASSUME NEW F, NEW G, F \subseteq G, NEW kind, NEW w, Sought(F, kind, w)
    PROVE  Sought(G, kind, w)
  BY DEF Sought

\* What the page learns, and asks because of it.
LEMMA Learns ==
    ASSUME IInv, Typed, AnswersRight, Mine' \subseteq Mine, NEW requests, Fresh(requests), Learn(requests)
    PROVE  /\ AnswersRight'
           /\ \A kind, w : Sought(fetches, kind, w) \/ Sought(requests, kind, w) => Sought(fetches', kind, w)
<1>1. fetches' = Overtaken(fetches) \cup requests
  BY DEF Learn, Send
<1>2. AnswersRight'
  BY <1>1, OvertakenRight DEF Fresh
<1>3. ASSUME NEW kind, NEW w, Sought(fetches, kind, w) \/ Sought(requests, kind, w)
      PROVE  Sought(fetches', kind, w)
  BY <1>1, <1>3, OvertakenSought, WiderSought
<1> QED
  BY <1>2, <1>3

\* While the page shows the same of the same workspace.
LEMMA ViewKept ==
    ASSUME IInv, Typed, ViewRight, Mine' \subseteq Mine, missed \subseteq missed',
           view'.ws = view.ws, view'.list = view.list, view'.role = view.role, view'.users = view.users,
           Sought(fetches, "workspaces", None) => Sought(fetches', "workspaces", None),
           ListsKept(view.list),
           up' => \/ Sought(fetches', "members", view.ws)
                  \/ up /\ RightsKept({view.ws})
                        /\ (Sought(fetches, "members", view.ws) => Sought(fetches', "members", view.ws)
                                                                   \/ ~ IsMember(view.ws)')
    PROVE  ViewRight'
<1> SUFFICES ASSUME view.ws # None
             PROVE  /\ Mine' \subseteq view.list
                    /\ Sought(fetches', "workspaces", None) \/ Listed(view.list)'
                    /\ up' => Sought(fetches', "members", view.ws) \/ RolesRight'
  BY DEF ViewRight
<1>1. Mine' \subseteq view.list
  BY DEF ViewRight
<1>2. Listed(view.list) => Listed(view.list)'
  BY DEF Listed, ListsKept
<1>3. ASSUME up, RightsKept({view.ws}), RolesRight
      PROVE  RolesRight'
  <2> SUFFICES ASSUME NEW u \in Answerable'
               PROVE  Right(view.role, view.users, view.ws, u)'
    BY DEF RolesRight
  <2>1. u \in Answerable /\ u \in Users
    BY DEF Answerable
  <2>2. Right(view.role, view.users, view.ws, u) /\ Keeps(view.ws, u)
    BY <1>3, <2>1 DEF RolesRight, RightsKept
  <2>3. UNCHANGED <<view.role, view.users, view.ws>>
    OBVIOUS
  <2> QED
    BY <2>2, <2>3 DEF Right, Keeps, Shows
<1>4. ASSUME ~ IsMember(view.ws)'
      PROVE  RolesRight'
  BY <1>4 DEF RolesRight, Right, IsMember
<1> QED
  BY <1>1, <1>2, <1>3, <1>4 DEF ViewRight

LEMMA CalmKept ==
    ASSUME UNCHANGED <<role, news, down>>
    PROVE  /\ Mine' = Mine /\ (InOrder => InOrder')
           /\ RightsKept(Workspaces) /\ ListsKept(Workspaces)
<1>1. \A w, u : Fact(w, u)' = Fact(w, u) /\ (IsMember(w)' <=> IsMember(w))
  BY DEF Fact, IsMember
<1>2. \A A : Coming(A)' <=> Coming(A)
  BY DEF Coming
<1>3. Mine' = Mine
  BY <1>1 DEF Mine
<1>4. InOrder => InOrder'
  BY <1>1, <1>3 DEF InOrder, EndsTrue
<1> QED
  BY <1>1, <1>2, <1>3, <1>4 DEF RightsKept, ListsKept, Keeps
\* A handler's change, with what it tells of it.
LEMMA TellsKept ==
    ASSUME IInv, IInv', [Next]_vars, InOrder, UNCHANGED down,
           UNCHANGED <<role, news>> \/ \E n : Tells(n)
    PROVE  InOrder' /\ RightsKept(Workspaces) /\ ListsKept(Workspaces)
<1>1. CASE UNCHANGED <<role, news>>
  BY <1>1, CalmKept
<1>2. CASE \E n : Tells(n)
  <2>1. PICK n : Tells(n)
    BY <1>2
  <2>2. n \in Told(role') /\ news' = Append(news, n) /\ news \in Seq(Told(role'))
    <3>1. Stays
      BY RoleStep DEF Stays
    <3>2. Told(role) \subseteq Told(role')
      BY <3>1, WiderTold
    <3> QED
      BY <2>1, <3>2, WiderType DEF Tells, Tell, IInv
  <2>3. Mine' \subseteq Mine
    BY MineShrinks
  <2>4. \A A : Has(news', A) <=> Has(news, A) \/ n \in A
    BY <2>2, HasAppend
  <2>5. \A A : Coming(A) \/ n \in A => Coming(A)'
    BY <2>4 DEF Coming
  <2>6. ASSUME NEW w \in Mine', NEW u \in Users
        PROVE  EndsTrue(w, u)' /\ (Fact(w, u)' = Fact(w, u) \/ n \in About(w, u))
    <3> DEFINE A == About(w, u)
               B == Saying(Fact(w, u)', u)
    <3>1. IF n \in A THEN n \in B ELSE Fact(w, u)' = Fact(w, u)
      BY <2>1, <2>6 DEF Tells
    <3>2. EndsTrue(w, u)
      BY <2>3, <2>6 DEF InOrder
    <3>3. n \notin A => Ends(news, A, B) /\ (~ Has(news, A) => Ends(down, A, B))
      BY <3>1, <3>2 DEF EndsTrue
    <3>4. Ends(news', A, B)
      BY <2>2, <3>1, <3>3, EndsAppend
    <3>5. ~ Has(news', A) => Ends(down', A, B)
      BY <2>4, <3>3
    <3>6. EndsTrue(w, u)'
      BY <3>4, <3>5 DEF EndsTrue
    <3> QED
      BY <3>1, <3>6
  <2>7. InOrder'
    BY <2>6 DEF InOrder
  <2>8. ASSUME NEW w \in Workspaces, NEW u \in Users
        PROVE  Keeps(w, u)
    <3> SUFFICES ASSUME IsMember(w)'
                 PROVE  /\ IsMember(w)
                        /\ Coming(About(w, u)) => Coming(About(w, u))'
                        /\ Fact(w, u)' = Fact(w, u) \/ Coming(About(w, u))'
      BY DEF Keeps
    <3>1. w \in Mine' /\ w \in Mine
      BY <2>3 DEF Mine
    <3>2. Coming(About(w, u)) \/ n \in About(w, u) => Coming(About(w, u))'
      BY <2>5
    <3> QED
      BY <2>6, <3>1, <3>2 DEF Mine
  <2>9. ASSUME NEW w \in Workspaces, IsMember(w) \/ Coming(Evicting(w))
        PROVE  IsMember(w)' \/ Coming(Evicting(w))'
    <3>1. IsMember(w) /\ ~ IsMember(w)' => n \in Evicting(w)
      BY <2>1 DEF Tells, Mine
    <3>2. Coming(Evicting(w)) \/ n \in Evicting(w) => Coming(Evicting(w))'
      BY <2>5
    <3> QED
      BY <2>9, <3>1, <3>2
  <2> QED
    BY <2>7, <2>8, <2>9 DEF RightsKept, ListsKept
<1> QED
  BY <1>1, <1>2

LEMMA GovernCurrent ==
    ASSUME IInv, IInv', Typed, Current, Spared', Govern
    PROVE  Current'
<1>1. Spared /\ UNCHANGED <<view, fetches, up, rooms, down, missed>>
  BY GovernChange DEF Change, Spared
<1>2. InOrder /\ AnswersRight /\ ViewRight
  BY <1>1 DEF Current
<1>3. [Next]_vars
  BY DEF Next
<1>4. Mine' \subseteq Mine
  BY <1>3, MineShrinks
<1>5. InOrder' /\ RightsKept(Workspaces) /\ ListsKept(Workspaces)
  BY <1>1, <1>2, <1>3, GovernTells, TellsKept
<1>6. AnswersRight'
  BY <1>1, <1>2, <1>4, <1>5, AnswersKept
<1>7. ViewRight'
  <2>1. CASE view.ws = None
    BY <1>1, <2>1 DEF ViewRight
  <2>2. CASE view.ws # None
    <3>1. view.list \subseteq Workspaces /\ view.ws \in Workspaces
      BY <2>2 DEF Typed, View
    <3>2. ListsKept(view.list) /\ RightsKept({view.ws})
      BY <1>5, <3>1 DEF ListsKept, RightsKept
    <3> QED
      BY <1>1, <1>2, <1>4, <3>2, ViewKept
  <2> QED
    BY <2>1, <2>2
<1> QED
  BY <1>5, <1>6, <1>7 DEF Current

----------------------------------------------------------------------------
(* Announcements                                                           *)

LEMMA SetToSeqIs ==
    ASSUME NEW S, NEW e, S = {e}
    PROVE  1 \in DOMAIN SetToSeq(S) /\ SetToSeq(S)[1] = e
<1>1. SetToSeq(S) \in Seq(S)
  BY SetToSeqType
<1>2. SetToSeq(S) \in [1 .. Cardinality(S) -> S]
  <2>1. Cardinality(S) = 1 /\ IsFiniteSet(S)
    BY FS_Singleton
  <2>2. [i \in 1 .. 1 |-> e] \in [1 .. Cardinality(S) -> S]
    BY <2>1
  <2>3. IsInjective([i \in 1 .. 1 |-> e])
    BY DEF IsInjective
  <2>4. \E f \in [1 .. Cardinality(S) -> S] : IsInjective(f)
    BY <2>2, <2>3
  <2> QED
    BY <2>4 DEF SetToSeq
<1>3. Cardinality(S) = 1
  BY FS_Singleton
<1> QED
  BY <1>2, <1>3

\* What the user's own room is told besides.
Also(n) ==
    IF n.user # Me THEN {}
    ELSE IF n.event = "member_kicked" THEN {"workspace_revoked"}
    ELSE IF n.event = "member_role_updated" /\ n.channels # {} THEN {"private_channels_revoked"}
    ELSE {}

LEMMA AlsoIs ==
    ASSUME NEW n \in Item, NEW e \in Also(n), NEW x, x = [n EXCEPT !.event = e]
    PROVE  /\ x \in Item /\ x.event = e /\ e \in {"workspace_revoked", "private_channels_revoked"}
           /\ x.ws = n.ws /\ x.user = n.user /\ x.arg = n.arg /\ x.channels = n.channels /\ x.was = n.was
  BY DEF Also, Item

LEMMA HeardParts ==
    ASSUME NEW n \in Item
    PROVE  \A x : Has(Heard(n), {x}) <=> \/ x = n /\ Target(n) \in rooms
                                         \/ Me \in rooms /\ \E e \in Also(n) : x = [n EXCEPT !.event = e]
<1> DEFINE items == {[n EXCEPT !.event = e] : e \in IF Me \in rooms THEN Also(n) ELSE {}}
           a == IF Target(n) \in rooms THEN <<n>> ELSE << >>
           b == SetToSeq(items)
<1>1. Heard(n) = a \o b
  BY DEF Heard, Also
<1>2. \E e : items = {} \/ items = {e}
  <2>1. Also(n) = {} \/ \E x : Also(n) = {x}
    BY DEF Also
  <2>2. (IF Me \in rooms THEN Also(n) ELSE {}) = {} \/ \E x : (IF Me \in rooms THEN Also(n) ELSE {}) = {x}
    BY <2>1
  <2> QED
    BY <2>2
<1>3. \A x : x \in items <=> Me \in rooms /\ \E e \in Also(n) : x = [n EXCEPT !.event = e]
  OBVIOUS
<1> HIDE DEF items
<1>4. b \in Seq(items)
  BY <1>2, SetToSeqType
<1>5. \A x : Has(b, {x}) <=> x \in items
  <2>1. \A i \in DOMAIN b : b[i] \in items
    BY <1>4, ElementOfSeq
  <2>2. CASE items = {}
    BY <2>1, <2>2 DEF Has
  <2>3. ASSUME NEW e, items = {e}
        PROVE  \A x : Has(b, {x}) <=> x \in items
    <3>1. 1 \in DOMAIN b /\ b[1] = e
      BY <2>3, SetToSeqIs
    <3> HIDE DEF b
    <3> QED
      BY <2>1, <2>3, <3>1 DEF Has
  <2> QED
    BY <1>2, <2>2, <2>3
<1>6. \A x : Has(a, {x}) <=> x = n /\ Target(n) \in rooms
  BY DEF Has
<1>7. a \in Seq(items \cup {n})
  <2>1. ASSUME NEW S, n \in S
        PROVE  a \in Seq(S)
    BY <2>1
  <2>2. n \in items \cup {n}
    OBVIOUS
  <2> HIDE DEF a
  <2> QED
    BY <2>1, <2>2
<1> HIDE DEF a, b
<1>8. b \in Seq(items \cup {n})
  BY <1>4, WiderType
<1>9. \A x : Has(Heard(n), {x}) <=> Has(a, {x}) \/ Has(b, {x})
  BY <1>1, <1>7, <1>8, HasConcat
<1> QED
  BY <1>3, <1>5, <1>6, <1>9

LEMMA HasOne ==
    ASSUME NEW s, NEW A
    PROVE  /\ \A i \in DOMAIN s : Has(s, {s[i]})
           /\ \A x \in A : Has(s, {x}) => Has(s, A)
  BY DEF Has

\* What is heard of an announcement bears on the same people, and evicts
\* whom it does.
LEMMA HeardIs ==
    ASSUME IInv, Typed, NEW n \in Told(role), Heard(n) # << >>
    PROVE  /\ Heard(n) \in Seq(Told(role))
           /\ \A w, u : \A i \in DOMAIN Heard(n) : Heard(n)[i] \in About(w, u) => Heard(n)[i] = n
           /\ \A w \in Mine, u \in Users : n \in About(w, u) => Has(Heard(n), About(w, u))
           /\ \A w : n \in Evicting(w) => Has(Heard(n), Evicting(w))
<1>1. n \in Item
  BY DEF Told
<1>2. rooms # {} /\ Me \in rooms /\ Mine \subseteq rooms
  BY HeardNowhere DEF Typed, RoomsOK
<1>3. Heard(n) \in Seq(Told(role))
  BY HeardType
<1>4. ASSUME NEW w, NEW u, NEW i \in DOMAIN Heard(n), Heard(n)[i] \in About(w, u)
      PROVE  Heard(n)[i] = n
  <2> SUFFICES ASSUME NEW e \in Also(n), Heard(n)[i] = [n EXCEPT !.event = e]
               PROVE  FALSE
    BY <1>1, HasOne, HeardParts
  <2> QED
    BY <1>1, <1>4, AlsoIs DEF About
<1>5. ASSUME NEW w \in Mine, NEW u \in Users, n \in About(w, u)
      PROVE  Has(Heard(n), About(w, u))
  <2>1. Target(n) = w
    BY <1>5 DEF About, Target
  <2>2. Has(Heard(n), {n})
    BY <1>1, <1>2, <2>1, HeardParts
  <2> QED
    BY <1>5, <2>2, HasOne
<1>6. ASSUME NEW w, n \in Evicting(w)
      PROVE  Has(Heard(n), Evicting(w))
  <2>1. n.ws = w /\ Evicts(n)
    BY <1>6 DEF Evicting
  <2>2. CASE n.event = "member_kicked" /\ n.user = Me
    <3>1. "workspace_revoked" \in Also(n)
      BY <2>2 DEF Also
    <3>2. PICK x : x = [n EXCEPT !.event = "workspace_revoked"]
      OBVIOUS
    <3>3. x \in Evicting(w)
      BY <1>1, <2>1, <3>1, <3>2, AlsoIs DEF Evicting, Evicts
    <3>4. Has(Heard(n), {x})
      BY <1>1, <1>2, <3>1, <3>2, HeardParts
    <3> QED
      BY <3>3, <3>4, HasOne
  <2>3. CASE n.event \in {"workspace_deleted", "workspace_revoked"}
    <3>1. Also(n) = {}
      BY <2>3 DEF Also
    <3>2. Heard(n)[1] = n /\ 1 \in DOMAIN Heard(n)
      <4>1. 1 \in DOMAIN Heard(n)
        BY <1>3, TailIs
      <4> QED
        BY <1>1, <3>1, <4>1, HasOne, HeardParts
    <3> QED
      BY <1>6, <3>2 DEF Has
  <2> QED
    BY <2>1, <2>2, <2>3 DEF Evicts
<1> QED
  BY <1>3, <1>4, <1>5, <1>6

LEMMA TargetHears ==
    ASSUME IInv, NEW n \in Told(role), Target(n) \in rooms
    PROVE  Heard(n) # << >>
<1>1. Has(Heard(n), {n})
  BY HeardParts DEF Told
<1> QED
  BY <1>1 DEF Has

\* The first of the announcements is made, to a socket in the user's rooms
\* or to none.
LEMMA AnnounceOrder ==
    ASSUME IInv, Typed, InOrder, news # << >>, news' = Tail(news), UNCHANGED role,
           down' = IF up THEN down \o Heard(Head(news)) ELSE down
    PROVE  InOrder'
<1> DEFINE n == Head(news)
<1>1. news \in Seq(Told(role)) /\ down \in Seq(Told(role)) /\ n \in Told(role)
  BY TailIs DEF IInv
<1>2. \A w, u : Fact(w, u)' = Fact(w, u)
  BY DEF Fact
<1>3. Mine' = Mine
  BY DEF Mine, IsMember
<1> SUFFICES ASSUME NEW w \in Mine, NEW u \in Users
             PROVE  EndsTrue(w, u)'
  BY <1>3 DEF InOrder
<1> DEFINE A == About(w, u)
           B == Saying(Fact(w, u), u)
<1>4. Ends(news, A, B) /\ (~ Has(news, A) => Ends(down, A, B))
  BY DEF InOrder, EndsTrue
<1>5. Ends(Tail(news), A, B) /\ (~ Has(Tail(news), A) /\ n \in A => n \in B)
  BY <1>1, <1>4, EndsTail
<1>6. Has(news, A) <=> n \in A \/ Has(Tail(news), A)
  BY <1>1, HasTail
<1>7. ASSUME ~ Has(Tail(news), A)
      PROVE  Ends(down', A, B)
  <2>1. CASE down' = << >>
    BY <2>1, NothingHas
  <2>2. CASE ~ up \/ Heard(n) = << >>
    <3>1. down' = down
      BY <1>1, <2>2
    <3>2. CASE rooms = {}
      BY <2>1, <3>1, <3>2 DEF Typed, RoomsOK
    <3>3. CASE rooms # {}
      <4>1. Heard(n) = << >> /\ w \in rooms
        BY <2>2, <3>3 DEF Typed, RoomsOK
      <4>2. n \notin A
        <5> SUFFICES ASSUME n \in A PROVE FALSE
          OBVIOUS
        <5>1. Target(n) \in rooms
          BY <4>1 DEF About, Target
        <5> QED
          BY <1>1, <4>1, <5>1, TargetHears
      <4> QED
        BY <1>4, <1>6, <1>7, <3>1, <4>2
    <3> QED
      BY <3>2, <3>3
  <2>3. CASE up /\ Heard(n) # << >>
    <3> DEFINE h == Heard(n)
    <3>1. /\ h \in Seq(Told(role))
          /\ \A i \in DOMAIN h : h[i] \in A => h[i] = n
          /\ n \in A => Has(h, A)
      BY <1>1, <2>3, HeardIs
    <3>2. down' = down \o h
      BY <2>3
    <3> HIDE DEF h
    <3>3. Ends(h, A, B)
      <4> SUFFICES ASSUME NEW i \in DOMAIN h, h[i] \in A
                   PROVE  h[i] \in B
        BY DEF Ends
      <4> QED
        BY <1>5, <1>7, <3>1
    <3>4. Has(h, A) \/ Ends(down, A, B)
      BY <1>4, <1>6, <1>7, <3>1
    <3> QED
      BY <1>1, <3>1, <3>2, <3>3, <3>4, EndsConcat
  <2> QED
    BY <2>2, <2>3
<1>8. EndsTrue(w, u)' <=> Ends(Tail(news), A, B) /\ (~ Has(Tail(news), A) => Ends(down', A, B))
  BY <1>2 DEF EndsTrue
<1> QED
  BY <1>5, <1>7, <1>8

LEMMA AnnounceCurrent ==
    ASSUME IInv, IInv', Typed, Current, Spared', NEW i \in DOMAIN news, Announce(i)
    PROVE  Current'
<1> DEFINE n == Head(news)
<1>1. Spared /\ ~ (i > 1)
  BY DEF Announce, Note, Spared, Anyhow
<1>2. InOrder /\ AnswersRight /\ ViewRight
  BY <1>1 DEF Current
<1>3. news \in Seq(Told(role)) /\ down \in Seq(Told(role))
  BY DEF IInv
<1>4. news # << >> /\ news[i] = n /\ RemoveAt(news, i) = Tail(news)
  BY <1>1, <1>3, FirstIsHead
<1>5. n \in Told(role)
  BY <1>3, <1>4, TailIs
<1>6. /\ news' = Tail(news) /\ down' = IF up THEN down \o Heard(n) ELSE down
      /\ UNCHANGED <<role, view, up>>
      /\ fetches' = IF up /\ Heard(n) # << >> THEN fetches ELSE Overtaken(fetches)
      /\ missed \subseteq missed'
      /\ up /\ Heard(n) = << >> => n.ws \notin view.list
      /\ ~ up => ~ Evicts(n)
  BY <1>4 DEF Announce, Note, Spared, Anyhow, tables
<1> HIDE DEF n
<1>7. Mine' = Mine /\ \A w, u : Fact(w, u)' = Fact(w, u) /\ (IsMember(w)' <=> IsMember(w))
  BY <1>6 DEF Mine, IsMember, Fact
<1>8. InOrder'
  BY <1>2, <1>4, <1>6, AnnounceOrder DEF n
<1>9. \A A : Has(news, A) <=> n \in A \/ Has(Tail(news), A)
  BY <1>3, <1>4, HasTail DEF n
<1>10. \A A : Has(down, A) => Has(down', A)
  <2>1. Heard(n) \in Seq(Told(role))
    BY <1>5, HeardType
  <2> QED
    BY <1>3, <1>6, <2>1, HasConcat
\* What comes still comes, unless it was not heard.
<1>11. \A A : Coming(A) /\ ~ Coming(A)' => n \in A /\ ~ Has(down', A)
  BY <1>6, <1>9, <1>10 DEF Coming
<1>12. CASE up /\ Heard(n) # << >>
  <2> DEFINE h == Heard(n)
  <2>1. /\ h \in Seq(Told(role))
        /\ \A w \in Mine, u \in Users : n \in About(w, u) => Has(h, About(w, u))
        /\ \A w : n \in Evicting(w) => Has(h, Evicting(w))
    BY <1>5, <1>12, HeardIs
  <2>2. \A A : Has(h, A) => Has(down', A)
    BY <1>3, <1>6, <1>12, <2>1, HasConcat
  <2> HIDE DEF h
  <2>3. RightsKept(Workspaces)
    BY <1>7, <1>11, <2>1, <2>2 DEF RightsKept, Keeps, Mine
  <2>4. ListsKept(Workspaces)
    BY <1>7, <1>11, <2>1, <2>2 DEF ListsKept
  <2>5. AnswersRight'
    BY <1>2, <1>6, <1>7, <1>12, <2>3, <2>4, AnswersKept
  <2>6. ViewRight'
    <3>1. CASE view.ws = None
      BY <1>6, <3>1 DEF ViewRight
    <3>2. CASE view.ws # None
      <4>1. view.list \subseteq Workspaces /\ view.ws \in Workspaces
        BY <3>2 DEF Typed, View
      <4>2. ListsKept(view.list) /\ RightsKept({view.ws})
        BY <2>3, <2>4, <4>1 DEF ListsKept, RightsKept
      <4>3. fetches' = fetches
        BY <1>6, <1>12
      <4> QED
        BY <1>2, <1>6, <1>7, <1>12, <4>2, <4>3, ViewKept
    <3> QED
      BY <3>1, <3>2
  <2> QED
    BY <1>8, <2>5, <2>6 DEF Current
<1>13. CASE ~ (up /\ Heard(n) # << >>)
  <2>1. fetches' = Overtaken(fetches)
    BY <1>6, <1>13
  <2>2. AnswersRight'
    BY <1>2, <1>7, <2>1, OvertakenRight
  <2>3. ViewRight'
    <3>1. CASE view.ws = None
      BY <1>6, <3>1 DEF ViewRight
    <3>2. CASE view.ws # None
      <4>1. view.ws \in view.list
        BY <3>2 DEF Typed, Within
      <4>2. ListsKept(view.list)
        <5> SUFFICES ASSUME NEW w \in view.list
                     PROVE  n \notin Evicting(w)
          BY <1>7, <1>11 DEF ListsKept
        <5> QED
          BY <1>6, <1>13 DEF Evicting
      <4>3. up => RightsKept({view.ws})
        <5> SUFFICES ASSUME up, NEW u \in Users
                     PROVE  n \notin About(view.ws, u)
          BY <1>7, <1>11 DEF RightsKept, Keeps
        <5> QED
          BY <1>6, <1>13, <4>1 DEF About
      <4>4. \A kind, w : Sought(fetches, kind, w) => Sought(fetches', kind, w)
        BY <2>1, OvertakenSought
      <4> QED
        BY <1>2, <1>6, <1>7, <4>2, <4>3, <4>4, ViewKept
    <3> QED
      BY <3>1, <3>2
  <2> QED
    BY <1>8, <2>2, <2>3 DEF Current
<1> QED
  BY <1>12, <1>13
----------------------------------------------------------------------------
(* Events                                                                  *)

\* Only the event handled comes no longer.
Handled(n) ==
    /\ down # << >> /\ n = Head(down) /\ down' = Tail(down)
    /\ UNCHANGED <<role, news, up>> /\ missed \subseteq missed'

LEMMA HandledKept ==
    ASSUME IInv, InOrder, NEW n \in Told(role), Handled(n)
    PROVE  /\ InOrder' /\ Mine' = Mine
           /\ \A w, u : Fact(w, u)' = Fact(w, u) /\ (IsMember(w)' <=> IsMember(w))
           /\ \A A : Coming(A) /\ n \notin A => Coming(A)'
           /\ \A w \in Mine, u \in Users :
                n \in About(w, u) /\ ~ Coming(About(w, u))' => n \in Saying(Fact(w, u), u)
<1>1. down \in Seq(Told(role)) /\ down # << >> /\ n = Head(down) /\ down' = Tail(down) /\ UNCHANGED <<role, news>>
  BY DEF IInv, Handled
<1>2. \A w, u : Fact(w, u)' = Fact(w, u) /\ (IsMember(w)' <=> IsMember(w))
  BY <1>1 DEF Fact, IsMember
<1>3. Mine' = Mine
  BY <1>2 DEF Mine
<1>4. \A A : Has(down, A) <=> n \in A \/ Has(down', A)
  BY <1>1, HasTail
<1>5. \A A : Coming(A) /\ n \notin A => Coming(A)'
  BY <1>1, <1>4 DEF Coming
<1>6. ASSUME NEW w \in Mine, NEW u \in Users
      PROVE  /\ EndsTrue(w, u)'
             /\ n \in About(w, u) /\ ~ Coming(About(w, u))' => n \in Saying(Fact(w, u), u)
  <2> DEFINE A == About(w, u)
             B == Saying(Fact(w, u), u)
  <2>1. Ends(news, A, B) /\ (~ Has(news, A) => Ends(down, A, B))
    BY DEF InOrder, EndsTrue
  <2>2. Ends(down, A, B) => Ends(down', A, B) /\ (~ Has(down', A) /\ n \in A => n \in B)
    BY <1>1, EndsTail
  <2>3. EndsTrue(w, u)' <=> Ends(news, A, B) /\ (~ Has(news, A) => Ends(down', A, B))
    BY <1>1, <1>2 DEF EndsTrue
  <2>4. Coming(A)' <=> Has(down', A) \/ Has(news, A)
    BY <1>1 DEF Coming
  <2> QED
    BY <2>1, <2>2, <2>3, <2>4
<1>7. InOrder'
  BY <1>3, <1>6 DEF InOrder
<1> QED
  BY <1>2, <1>3, <1>5, <1>6, <1>7

\* The page is listed no longer in what it was evicted from, and asks who
\* the members are of where it goes.
LEMMA EvictRight ==
    ASSUME IInv, Typed, InOrder, ViewRight, view.ws # None, NEW n \in Told(role), Handled(n),
           Evicts(n), Evict(n.ws),
           \A kind, w : Sought(fetches, kind, w) => Sought(fetches', kind, w)
    PROVE  ViewRight'
<1> DEFINE left == view.list \ {n.ws}
<1>1. n \in Item /\ n.ws \in Workspaces /\ n.ws \notin Mine
  BY DEF Told, Item, Out, Mine, IsMember
<1>2. view'.list = left /\ left \subseteq Workspaces
  <2>1. left \subseteq Workspaces
    BY DEF Typed, View
  <2> QED
    BY <2>1 DEF Evict, Activate, Typed, View
<1>3. Mine' \subseteq left
  BY <1>1, HandledKept DEF ViewRight
<1>4. Sought(fetches', "workspaces", None) \/ Listed(view.list)'
  <2>1. CASE Sought(fetches, "workspaces", None)
    BY <2>1
  <2>2. CASE Listed(view.list)
    <3>1. \A w \in left : n \notin Evicting(w)
      BY DEF Evicting
    <3>2. \A w \in left : IsMember(w)' \/ Coming(Evicting(w))'
      BY <2>2, <3>1, HandledKept DEF Listed
    <3> QED
      BY <1>2, <3>2 DEF Listed
  <2> QED
    BY <2>1, <2>2 DEF ViewRight
<1>5. ASSUME view'.ws # None, up'
      PROVE  Sought(fetches', "members", view'.ws) \/ RolesRight'
  <2>1. CASE view.ws # n.ws
    <3>1. view'.ws = view.ws /\ view'.role = view.role /\ view'.users = view.users
      BY <2>1 DEF Evict, Typed, View
    <3>2. CASE Sought(fetches, "members", view.ws)
      BY <3>1, <3>2
    <3>3. CASE RolesRight
      <4> SUFFICES ASSUME NEW u \in Answerable'
                   PROVE  Right(view.role, view.users, view.ws, u)'
        BY DEF RolesRight
      <4>1. u \in Answerable
        BY DEF Answerable, Handled
      <4>2. Right(view.role, view.users, view.ws, u) /\ n \notin About(view.ws, u)
        BY <2>1, <3>3, <4>1 DEF RolesRight, About
      <4> QED
        BY <3>1, <4>2, HandledKept DEF Right, Shows
    <3> QED
      BY <1>5, <3>2, <3>3 DEF ViewRight, Handled
  <2>2. CASE view.ws = n.ws
    <3>1. PICK next \in IF left = {} THEN {None} ELSE left :
            /\ view' = [Activate(view, next) EXCEPT !.list = left, !.channels = {}]
            /\ IF next = None THEN Learn({}) ELSE Learn(Hydration(next))
      BY <2>2 DEF Evict
    <3>2. view'.ws = next
      BY <3>1 DEF Activate, Typed, View
    <3>3. Hydration(next) \subseteq fetches'
      BY <1>5, <3>1, <3>2 DEF Learn, Send
    <3> QED
      BY <3>2, <3>3, HydrationFresh, WiderSought
  <2> QED
    BY <2>1, <2>2
<1> QED
  BY <1>2, <1>3, <1>4, <1>5 DEF ViewRight

\* An event corrects what is shown of whom it is about, and of nobody else.
LEMMA ListenShows ==
    ASSUME view \in View, view.ws \in Workspaces, NEW n \in Told(role), Listen(n), ~ Evicts(n)
    PROVE  /\ view'.ws = view.ws /\ view'.list = view.list
           /\ \A u \in Users : Shows(view'.role, view'.users, u) =
                IF n \in About(view.ws, u) THEN Says(n, u) ELSE Shows(view.role, view.users, u)
<1>1. n \in Item /\ Addressed(n)
  BY DEF Told
<1>2. /\ view.users \subseteq Users \ {Me}
      /\ view = [ws |-> view.ws, saved |-> view.saved, list |-> view.list, role |-> view.role,
                 users |-> view.users, channels |-> view.channels, open |-> view.open]
  BY DEF View
<1>3. CASE /\ view'.ws = view.ws /\ view'.list = view.list
           /\ view'.role = view.role /\ view'.users = view.users
           /\ \A u \in Users : n \notin About(view.ws, u)
  BY <1>3
<1>4. CASE n.event = "member_kicked" /\ n.ws = view.ws
  <2>1. n.user # Me /\ view' = [view EXCEPT !.users = @ \ {n.user}]
    BY <1>4 DEF Listen, handleMemberKicked, Evicts
  <2>2. view'.ws = view.ws /\ view'.list = view.list /\ view'.role = view.role /\ view'.users = view.users \ {n.user}
    BY <2>1 DEF View
  <2>3. \A u \in Users : n \in About(view.ws, u) <=> u # Me /\ u = n.user
    BY <1>1, <1>4 DEF About
  <2> QED
    BY <1>4, <2>1, <2>2, <2>3 DEF Shows, Says
<1>5. CASE n.event = "workspace_member_joined" /\ n.ws = view.ws
  <2>1. n.user # Me /\ view' = [view EXCEPT !.users = @ \cup {n.user}]
    BY <1>1, <1>5 DEF Listen, Addressed
  <2>2. view'.ws = view.ws /\ view'.list = view.list /\ view'.role = view.role /\ view'.users = view.users \cup {n.user}
    BY <2>1 DEF View
  <2>3. \A u \in Users : n \in About(view.ws, u) <=> u # Me /\ u = n.user
    BY <1>1, <1>5 DEF About
  <2> QED
    BY <1>5, <2>1, <2>2, <2>3 DEF Shows, Says
<1>6. CASE n.event = "member_role_updated" /\ n.ws = view.ws
  <2>1. view' = IF n.user = Me THEN [view EXCEPT !.role = n.arg] ELSE view
    BY <1>6 DEF Listen, handleRoleUpdated
  <2>2. /\ view'.ws = view.ws /\ view'.list = view.list /\ view'.users = view.users
        /\ view'.role = IF n.user = Me THEN n.arg ELSE view.role
    BY <2>1 DEF View
  <2>3. \A u \in Users : n \in About(view.ws, u) <=> u = Me /\ n.user = Me
    BY <1>1, <1>6 DEF About
  <2> QED
    BY <1>6, <2>2, <2>3 DEF Shows, Says
<1>7. CASE n.event = "workspace_ownership_transferred" /\ n.ws = view.ws
  <2>1. view' = IF n.arg = Me THEN [view EXCEPT !.role = "ADMIN"]
                ELSE IF n.user = Me THEN [view EXCEPT !.role = "OWNER"] ELSE view
    BY <1>7 DEF Listen, handleWorkspaceOwnershipTransferred
  <2>2. /\ view'.ws = view.ws /\ view'.list = view.list /\ view'.users = view.users
        /\ view'.role = IF n.arg = Me THEN "ADMIN" ELSE IF n.user = Me THEN "OWNER" ELSE view.role
    BY <2>1 DEF View
  <2>3. \A u \in Users : n \in About(view.ws, u) <=> u = Me /\ Me \in {n.user, n.arg}
    BY <1>1, <1>7 DEF About
  <2> QED
    BY <1>7, <2>2, <2>3 DEF Shows, Says
<1>8. CASE n.ws # view.ws
  <2>1. /\ view'.ws = view.ws /\ view'.list = view.list
        /\ view'.role = view.role /\ view'.users = view.users
    BY <1>8 DEF Listen, Evicts, handleMemberKicked, handleAddedToChannel, Close, View
  <2> QED
    BY <1>3, <1>8, <2>1 DEF About
<1>9. CASE n.event \in {"added_to_channel", "private_channels_revoked", "channel_created",
                        "channel_access_updated", "channel_deleted"}
  <2>1. /\ view'.ws = view.ws /\ view'.list = view.list
        /\ view'.role = view.role /\ view'.users = view.users
    BY <1>9 DEF Listen, handleAddedToChannel, handleChannelCreated, Close, View
  <2> QED
    BY <1>3, <1>9, <2>1 DEF About
<1>10. n.event \notin {"workspace_deleted", "workspace_revoked"}
  BY DEF Evicts
<1> QED
  BY <1>1, <1>4, <1>5, <1>6, <1>7, <1>8, <1>9, <1>10 DEF Item

\* Whatever is heard, the page learns of it, and asks only afresh.
LEMMA ListenLearns ==
    ASSUME NEW n, Listen(n)
    PROVE  \E requests : Fresh(requests) /\ Learn(requests)
<1>1. Fresh({})
  BY DEF Fresh
<1>2. CASE Evict(n.ws)
  BY <1>1, <1>2, HydrationFresh DEF Evict
<1>3. CASE n.event = "member_role_updated"
  <2>1. Fresh({[Request("promotion", n.ws) EXCEPT !.kept = view.users]})
    BY DEF Fresh, Request
  <2> QED
    BY <1>1, <1>3, <2>1 DEF Listen, handleRoleUpdated
<1>4. CASE n.event = "channel_access_updated"
  <2>1. \A c : Fresh({[Request("access", n.ws) EXCEPT !.channel = c, !.visible = n.arg = "visible"]})
    BY DEF Fresh, Request
  <2> QED
    BY <1>1, <1>4, <2>1 DEF Listen, handleChannelAccessUpdated
<1>5. CASE ~ Evict(n.ws) /\ n.event \notin {"member_role_updated", "channel_access_updated"}
  BY <1>1, <1>5 DEF Listen, handleMemberKicked, handleWorkspaceOwnershipTransferred, handleAddedToChannel,
                    handleChannelCreated
<1> QED
  BY <1>2, <1>3, <1>4, <1>5

LEMMA HandleCurrent ==
    ASSUME IInv, IInv', Typed, Current, Spared', view.ws # None, Handle
    PROVE  Current'
<1> DEFINE n == Head(down)
<1>1. missed \subseteq missed'
  BY DEF Handle, Listen, handleRoleUpdated, handleWorkspaceOwnershipTransferred, handleAddedToChannel,
         handleChannelCreated, Note
<1>2. Spared
  BY <1>1 DEF Spared
<1>3. InOrder /\ AnswersRight /\ ViewRight
  BY <1>2 DEF Current
<1>4. n \in Told(role)
  BY TailIs DEF IInv, Handle
<1>5. Listen(n) /\ Handled(n)
  BY <1>1 DEF Handle, Handled, tables
<1> HIDE DEF n
<1>6. /\ InOrder' /\ Mine' = Mine
      /\ \A w, u : Fact(w, u)' = Fact(w, u) /\ (IsMember(w)' <=> IsMember(w))
      /\ \A A : Coming(A) /\ n \notin A => Coming(A)'
      /\ \A w \in Mine, u \in Users :
           n \in About(w, u) /\ ~ Coming(About(w, u))' => n \in Saying(Fact(w, u), u)
  BY <1>3, <1>4, <1>5, HandledKept
<1>7. AnswersRight' /\ \A kind, w : Sought(fetches, kind, w) => Sought(fetches', kind, w)
  <2>1. PICK requests : Fresh(requests) /\ Learn(requests)
    BY <1>5, ListenLearns
  <2> QED
    BY <1>3, <1>6, <2>1, Learns
<1>8. view.ws \in Workspaces /\ view.ws \in view.list /\ view \in View
  BY DEF Typed, View, Within
<1>9. CASE Evicts(n)
  <2>1. Evict(n.ws)
    BY <1>5, <1>9 DEF Listen, handleMemberKicked, Evicts
  <2>2. ViewRight'
    BY <1>3, <1>4, <1>5, <1>7, <1>9, <2>1, EvictRight
  <2> QED
    BY <1>6, <1>7, <2>2 DEF Current
<1>10. CASE ~ Evicts(n)
  <2>1. /\ view'.ws = view.ws /\ view'.list = view.list
        /\ \A u \in Users : Shows(view'.role, view'.users, u) =
             IF n \in About(view.ws, u) THEN Says(n, u) ELSE Shows(view.role, view.users, u)
    BY <1>4, <1>5, <1>8, <1>10, ListenShows
  <2>2. Listed(view.list) => Listed(view.list)'
    <3>1. \A w : n \notin Evicting(w)
      BY <1>10 DEF Evicting
    <3> QED
      BY <1>6, <2>1, <3>1 DEF Listed
  <2>3. ASSUME RolesRight
        PROVE  RolesRight'
    <3> SUFFICES ASSUME NEW u \in Answerable'
                 PROVE  Right(view.role, view.users, view.ws, u)'
      BY DEF RolesRight
    <3>1. u \in Answerable /\ u \in Users
      BY <1>1 DEF Answerable
    <3>2. Right(view.role, view.users, view.ws, u)
      BY <2>3, <3>1 DEF RolesRight
    <3>3. PICK w : w = view.ws /\ w = view'.ws
      BY <2>1
    <3>4. ASSUME IsMember(w), ~ Coming(About(w, u))'
          PROVE  Shows(view'.role, view'.users, u) = Fact(w, u)
      <4>1. w \in Mine
        BY <1>8, <3>3, <3>4 DEF Mine
      <4>2. CASE n \in About(w, u)
        BY <1>6, <2>1, <3>1, <3>3, <3>4, <4>1, <4>2 DEF Saying
      <4>3. CASE n \notin About(w, u)
        <5>1. ~ Coming(About(w, u))
          BY <1>6, <3>4, <4>3
        <5> QED
          BY <2>1, <3>1, <3>2, <3>3, <3>4, <4>3, <5>1 DEF Right
      <4> QED
        BY <4>2, <4>3
    <3>5. Fact(w, u)' = Fact(w, u) /\ (IsMember(w)' <=> IsMember(w))
      BY <1>6
    <3> QED
      BY <3>3, <3>4, <3>5 DEF Right, Shows
  <2>4. ViewRight'
    BY <1>3, <1>5, <1>6, <1>7, <2>1, <2>2, <2>3 DEF ViewRight, Handled
  <2> QED
    BY <1>6, <1>7, <2>4 DEF Current
<1> QED
  BY <1>9, <1>10
----------------------------------------------------------------------------
(* Requests and answers                                                    *)

\* An answer that is right leaves the others as they are, and is still
\* sought unless it is a refusal.
LEMMA BecomesCurrent ==
    ASSUME IInv, Typed, [Next]_vars, AnswersRight, RightsKept(Workspaces), ListsKept(Workspaces),
           NEW f \in fetches, NEW status \in {"given", "refused"}, NEW answer, Becomes(f, status, answer),
           LET g == [f EXCEPT !.status = status, !.answer = answer] IN AnswerRight(g)'
    PROVE  /\ AnswersRight'
           /\ \A kind, w : Sought(fetches, kind, w) =>
                Sought(fetches', kind, w) \/ (Seeks(f, kind, w) /\ status = "refused")
<1> DEFINE g == [f EXCEPT !.status = status, !.answer = answer]
<1>1. fetches' = (fetches \ {f}) \cup {g}
  BY DEF Becomes
<1>2. AnswerRight(g)'
  OBVIOUS
<1>3. g.kind = f.kind /\ g.ws = f.ws /\ g.status = status
  BY DEF IInv, AllAsked, Asked
<1> HIDE DEF g
<1>4. Mine' \subseteq Mine
  BY MineShrinks
<1>5. AnswersRight'
  <2> SUFFICES ASSUME NEW h \in fetches \ {f}
               PROVE  AnswerRight(h)'
    BY <1>1, <1>2 DEF AnswersRight
  <2>1. h \in fetches /\ AnswerRight(h)
    BY DEF AnswersRight
  <2> QED
    BY <1>4, <2>1, AnswerKept
<1>6. ASSUME NEW kind, NEW w, Sought(fetches, kind, w)
      PROVE  Sought(fetches', kind, w) \/ (Seeks(f, kind, w) /\ status = "refused")
  <2>1. PICK h \in fetches : Seeks(h, kind, w)
    BY <1>6 DEF Sought
  <2>2. CASE h # f
    BY <1>1, <2>1, <2>2 DEF Sought
  <2>3. CASE h = f /\ status = "given"
    BY <1>1, <1>3, <2>1, <2>3 DEF Sought, Seeks
  <2>4. CASE h = f /\ status = "refused"
    BY <2>1, <2>4
  <2> QED
    BY <2>2, <2>3, <2>4
<1> QED
  BY <1>5, <1>6

\* What is answered is so.
LEMMA GivenRight ==
    ASSUME NEW f, NEW answer,
           LET g == [f EXCEPT !.status = "given", !.answer = answer]
           IN  g.kind = f.kind /\ g.ws = f.ws /\ g.status = "given" /\ g.answer = answer,
           f.kind = "workspaces" => answer.ids = Mine,
           f.kind = "members" => answer.role = role[f.ws][Me] /\ answer.users = Others(f.ws)
    PROVE  LET g == [f EXCEPT !.status = "given", !.answer = answer] IN AnswerRight(g)
<1> DEFINE g == [f EXCEPT !.status = "given", !.answer = answer]
<1>1. g.kind = f.kind /\ g.ws = f.ws /\ g.status = "given" /\ g.answer = answer
  OBVIOUS
<1> HIDE DEF g
<1>2. Listed(Mine)
  BY DEF Listed, Mine
<1>3. \A u \in Users : Right(role[f.ws][Me], Others(f.ws), f.ws, u)
  BY DEF Right, Shows, Fact, Others
<1>4. AnswerRight(g)
  BY <1>1, <1>2, <1>3 DEF AnswerRight
<1> QED
  BY <1>4 DEF g

\* A request that has got its answer is for what it was for.
LEMMA Completed ==
  ASSUME NEW f, {"kind", "ws", "status", "answer"} \subseteq DOMAIN f, NEW status, NEW answer,
         NEW g, g = [f EXCEPT !.status = status, !.answer = answer]
  PROVE  g.kind = f.kind /\ g.ws = f.ws /\ g.status = status /\ g.answer = answer
  OBVIOUS

LEMMA AnswerCurrent ==
    ASSUME IInv, IInv', Typed, Current, Spared', NEW f \in fetches, Answer(f), view.ws # None
    PROVE  Current'
<1>1. UNCHANGED <<role, view, up, rooms, news, down, missed>> /\ f.status = "asked"
  BY DEF Answer, tables, socket
<1>2. InOrder /\ AnswersRight /\ ViewRight
  BY <1>1 DEF Current, Spared
<1>3. Mine' = Mine /\ InOrder' /\ RightsKept(Workspaces) /\ ListsKept(Workspaces)
  BY <1>1, <1>2, CalmKept
<1>4. [Next]_vars
  BY DEF Next, Browse
<1>5. Asked(f, role) /\ Shaped(f)
  BY DEF IInv, AllAsked, Typed, AllShaped
<1>6. \A x, y, z : x = [f EXCEPT !.status = y, !.answer = z] =>
                     x.kind = f.kind /\ x.ws = f.ws /\ x.status = y /\ x.answer = z
  BY <1>5 DEF Asked
<1>7. AnswersRight' /\ \A kind, w : Sought(fetches, kind, w) =>
                         Sought(fetches', kind, w) \/ (Seeks(f, kind, w) /\ Refused(f))
  <2>1. CASE Refused(f)
    <3> DEFINE g == [f EXCEPT !.status = "refused", !.answer = Nothing]
    <3>1. Becomes(f, "refused", Nothing)
      BY <2>1 DEF Answer
    <3>2. g.kind = f.kind /\ g.ws = f.ws /\ g.status = "refused"
      BY <1>6
    <3> HIDE DEF g
    <3>3. f.kind # "workspaces" /\ (f.kind = "members" => ~ IsMember(f.ws))
      BY <2>1 DEF Refused
    <3>4. AnswerRight(g)'
      BY <1>1, <3>2, <3>3 DEF AnswerRight, IsMember
    <3> QED
      BY <1>2, <1>3, <1>4, <2>1, <3>1, <3>4, BecomesCurrent DEF g
  <2>2. ASSUME NEW answer, ~ Refused(f), Becomes(f, "given", answer),
               f.kind = "workspaces" => answer.ids = Mine,
               f.kind = "members" => answer.role = role[f.ws][Me] /\ answer.users = Others(f.ws)
        PROVE  AnswersRight' /\ \A kind, w : Sought(fetches, kind, w) => Sought(fetches', kind, w)
    <3> DEFINE g == [f EXCEPT !.status = "given", !.answer = answer]
    <3>1. g.kind = f.kind /\ g.ws = f.ws /\ g.status = "given" /\ g.answer = answer
      <4>1. PICK x : x = [f EXCEPT !.status = "given", !.answer = answer]
        OBVIOUS
      <4>2. x.kind = f.kind /\ x.ws = f.ws /\ x.status = "given" /\ x.answer = answer
        BY <1>5, <4>1, Completed DEF Asked
      <4> QED
        BY <4>1, <4>2
    <3>2. AnswerRight(g)
      BY <2>2, <3>1, GivenRight
    <3> HIDE DEF g
    <3>3. AnswerRight(g)'
      BY <1>1, <3>2 DEF AnswerRight, Listed, Right, IsMember, Coming, Fact
    <3> QED
      BY <1>2, <1>3, <1>4, <2>2, <3>3, BecomesCurrent DEF g
  <2>3. CASE ~ Refused(f) /\ f.kind = "workspaces"
    <3> DEFINE answer == [Nothing EXCEPT !.ids = Mine]
    <3>1. Becomes(f, "given", answer) /\ answer.ids = Mine
      BY <2>3 DEF Answer, Nothing
    <3> HIDE DEF answer
    <3> QED
      BY <2>2, <2>3, <3>1
  <2>4. CASE ~ Refused(f) /\ f.kind = "members"
    <3> DEFINE answer == [Nothing EXCEPT !.role = role[f.ws][Me], !.users = Others(f.ws)]
    <3>1. Becomes(f, "given", answer)
      BY <2>4 DEF Answer
    <3>2. answer.role = role[f.ws][Me] /\ answer.users = Others(f.ws)
      BY DEF Nothing
    <3> HIDE DEF answer
    <3> QED
      BY <2>2, <2>4, <3>1, <3>2
  <2>5. CASE ~ Refused(f) /\ f.kind \notin {"workspaces", "members"}
    <3>1. Becomes(f, "given", [Nothing EXCEPT !.ids = getWorkspaceChannels(f.ws)])
      BY <2>5 DEF Answer
    <3> QED
      BY <2>2, <2>5, <3>1
  <2> QED
    BY <2>1, <2>3, <2>4, <2>5
<1>8. ViewRight'
  <2>1. Sought(fetches, "workspaces", None) => Sought(fetches', "workspaces", None)
    BY <1>7 DEF Seeks, Refused
  <2>2. Sought(fetches, "members", view.ws) =>
          Sought(fetches', "members", view.ws) \/ ~ IsMember(view.ws)'
    BY <1>1, <1>7 DEF Seeks, Refused, IsMember
  <2>3. view.list \subseteq Workspaces /\ view.ws \in Workspaces
    BY DEF Typed, View
  <2>4. ListsKept(view.list) /\ RightsKept({view.ws})
    BY <1>3, <2>3 DEF ListsKept, RightsKept
  <2> QED
    BY <1>1, <1>2, <1>3, <2>1, <2>2, <2>4, ViewKept
<1> QED
  BY <1>3, <1>7, <1>8 DEF Current

LEMMA CreateCurrent ==
    ASSUME IInv, IInv', Typed, Current, Spared', NEW f \in fetches, AnswerCreate(f), view.ws # None
    PROVE  Current'
<1>1. /\ UNCHANGED <<role, view, up, rooms, down, missed>> /\ f.kind = "create"
      /\ Becomes(f, "given", [Nothing EXCEPT !.ids = {f.channel}])
  BY DEF AnswerCreate, Insert
<1>2. InOrder /\ AnswersRight /\ ViewRight
  BY <1>1 DEF Current, Spared
<1>3. [Next]_vars
  BY DEF Next, Browse
<1>4. Mine' \subseteq Mine
  BY <1>3, MineShrinks
<1>5. UNCHANGED <<role, news>> \/ \E n : Tells(n)
  <2>1. f.channel \in Channels
    BY <1>1 DEF Typed, AllShaped, Shaped
  <2>2. \/ UNCHANGED news
        \/ \E event \in {"added_to_channel", "channel_created"} :
             Tell(News(event, Of[f.channel], None, None, {f.channel}))
    BY DEF AnswerCreate, Insert
  <2> QED
    BY <1>1, <2>1, <2>2, ChannelTells
<1>6. InOrder' /\ RightsKept(Workspaces) /\ ListsKept(Workspaces)
  BY <1>1, <1>2, <1>3, <1>5, TellsKept
<1>7. AnswersRight' /\ \A kind, w : Sought(fetches, kind, w) => Sought(fetches', kind, w)
  <2> DEFINE g == [f EXCEPT !.status = "given", !.answer = [Nothing EXCEPT !.ids = {f.channel}]]
  <2>1. g.kind = "create" /\ g.status = "given"
    BY <1>1 DEF IInv, AllAsked, Asked
  <2> HIDE DEF g
  <2>2. AnswerRight(g)'
    BY <2>1 DEF AnswerRight
  <2> QED
    BY <1>1, <1>2, <1>3, <1>6, <2>2, BecomesCurrent DEF g
<1>8. view.list \subseteq Workspaces /\ view.ws \in Workspaces
  BY DEF Typed, View
<1>9. ListsKept(view.list) /\ RightsKept({view.ws})
  BY <1>6, <1>8 DEF ListsKept, RightsKept
<1>10. ViewRight'
  BY <1>1, <1>2, <1>4, <1>7, <1>9, ViewKept
<1> QED
  BY <1>6, <1>7, <1>10 DEF Current

\* Steps that write nothing and tell nothing, and show the same.
LEMMA CalmCurrent ==
    ASSUME IInv, Typed, Current, Spared', UNCHANGED <<role, news, down, up>>, missed \subseteq missed',
           view'.ws = view.ws, view'.list = view.list, view'.role = view.role, view'.users = view.users,
           \A f \in fetches' : f \in fetches \/ f.status = "asked",
           \A kind \in {"workspaces", "members"} : \A w :
             Sought(fetches, kind, w) => Sought(fetches', kind, w)
    PROVE  Current'
<1>1. InOrder /\ AnswersRight /\ ViewRight
  BY DEF Current, Spared
<1>2. Mine' = Mine /\ InOrder' /\ RightsKept(Workspaces) /\ ListsKept(Workspaces)
  BY <1>1, CalmKept
<1>3. AnswersRight'
  BY <1>1, <1>2, AnswersKept
<1>4. ViewRight'
  <2>1. CASE view.ws = None
    BY <2>1 DEF ViewRight
  <2>2. CASE view.ws # None
    <3>1. view.list \subseteq Workspaces /\ view.ws \in Workspaces
      BY <2>2 DEF Typed, View
    <3>2. ListsKept(view.list) /\ RightsKept({view.ws})
      BY <1>2, <3>1 DEF ListsKept, RightsKept
    <3> QED
      BY <1>1, <1>2, <3>2, ViewKept
  <2> QED
    BY <2>1, <2>2
<1> QED
  BY <1>2, <1>3, <1>4 DEF Current
LEMMA ReadCurrent ==
    ASSUME IInv, Typed, Current, Spared', NEW f \in fetches, AnswerRead(f) \/ FetchFails(f)
    PROVE  Current'
<1>1. AnswerRead(f)
  BY DEF FetchFails, Note, Spared, Anyhow
<1>2. /\ UNCHANGED <<role, view, up, news, down>> /\ f.kind = "read"
      /\ fetches' = fetches \ {f} /\ missed \subseteq missed'
  BY <1>1 DEF AnswerRead, socket, Note
<1>3. \A kind \in {"workspaces", "members"} : \A w : Sought(fetches, kind, w) => Sought(fetches', kind, w)
  BY <1>2 DEF Sought, Seeks
<1> QED
  BY <1>2, <1>3, CalmCurrent

\* The user acts, or the server joins the socket to its rooms.
LEMMA ActCurrent ==
    ASSUME IInv, Typed, Current, Spared', view.ws # None,
           \/ \E w \in Workspaces : switch(w)
           \/ \E c \in Channels : handleChannelSelect(c) \/ handleCreate(c)
           \/ JoinRooms
    PROVE  Current'
<1>1. /\ UNCHANGED <<role, news, down, up, missed>>
  BY DEF switch, handleChannelSelect, handleCreate, JoinRooms, tables, socket
<1>2. CASE \E w \in Workspaces : switch(w)
  <2>1. PICK w \in view.list : view' = Activate(view, w) /\ fetches' = fetches \cup Hydration(w)
    BY <1>2 DEF switch, Ask, Send
  <2>2. view'.ws = w /\ view'.list = view.list
    BY <2>1 DEF Activate, Typed, View
  <2>3. InOrder /\ AnswersRight /\ ViewRight
    BY <1>1 DEF Current, Spared
  <2>4. Mine' = Mine /\ InOrder' /\ RightsKept(Workspaces) /\ ListsKept(Workspaces)
    BY <1>1, <2>3, CalmKept
  <2>5. AnswersRight'
    BY <2>1, <2>3, <2>4, HydrationFresh, AnswersKept DEF Fresh
  <2>6. Sought(fetches', "members", w)
    BY <2>1, HydrationFresh, WiderSought
  <2>7. Sought(fetches, "workspaces", None) => Sought(fetches', "workspaces", None)
    BY <2>1, WiderSought
  <2>8. Listed(view.list) => Listed(view.list)'
    <3>1. view.list \subseteq Workspaces
      BY DEF Typed, View
    <3> QED
      BY <2>2, <2>4, <3>1 DEF Listed, ListsKept
  <2>9. ViewRight'
    BY <2>2, <2>3, <2>4, <2>6, <2>7, <2>8 DEF ViewRight
  <2> QED
    BY <2>4, <2>5, <2>9 DEF Current
<1>3. CASE \E c \in Channels : handleChannelSelect(c) \/ handleCreate(c)
  <2>1. /\ view'.ws = view.ws /\ view'.list = view.list
        /\ view'.role = view.role /\ view'.users = view.users
    BY <1>3 DEF handleChannelSelect, handleCreate, Typed, View
  <2>2. PICK requests : Fresh(requests) /\ fetches' = fetches \cup requests
    <3>1. \A c : /\ Fresh({[Request("read", Of[c]) EXCEPT !.channel = c]})
                 /\ Fresh({[Request("create", view.ws) EXCEPT !.kept = view.channels, !.channel = c]})
      BY DEF Fresh, Request
    <3> QED
      BY <1>3, <3>1 DEF handleChannelSelect, handleCreate, Ask, Send
  <2>3. \A kind, w : Sought(fetches, kind, w) => Sought(fetches', kind, w)
    BY <2>2, WiderSought
  <2> QED
    BY <1>1, <2>1, <2>2, <2>3, CalmCurrent DEF Fresh
<1>4. CASE JoinRooms
  <2>1. UNCHANGED <<view, fetches>>
    BY <1>4 DEF JoinRooms
  <2> QED
    BY <1>1, <2>1, CalmCurrent
<1> QED
  BY <1>2, <1>3, <1>4

\* The socket goes, and with it what it had to tell, evictions excepted.
LEMMA CutCurrent ==
    ASSUME IInv, Typed, Current, Spared', Drop \/ Renew
    PROVE  Current'
<1>1. /\ UNCHANGED <<role, news>> /\ down' = << >> /\ up' = FALSE /\ missed \subseteq missed'
      /\ view'.ws = view.ws /\ view'.list = view.list
  BY DEF Drop, Renew, Cut, tables, Note, Typed, View
<1>2. InOrder /\ AnswersRight /\ ViewRight
  BY <1>1 DEF Current, Spared
<1>3. \A w, u : Fact(w, u)' = Fact(w, u) /\ (IsMember(w)' <=> IsMember(w))
  BY <1>1 DEF Fact, IsMember
<1>4. Mine' = Mine
  BY <1>3 DEF Mine
<1>5. InOrder'
  BY <1>1, <1>2, <1>3, <1>4, NothingHas DEF InOrder, EndsTrue
<1>6. PICK requests : /\ Fresh(requests) /\ Learn(requests)
                      /\ Renew => Sought(requests, "workspaces", None)
  <2>1. CASE Drop /\ ~ Renew
    BY <2>1 DEF Drop, Fresh
  <2>2. CASE Renew
    <3> DEFINE both == {Request("workspaces", None)} \cup Hydration(view.ws)
    <3>1. Fresh(both)
      BY HydrationFresh DEF Fresh, Request
    <3>2. Sought(both, "workspaces", None)
      <4>1. Request("workspaces", None) \in both
        OBVIOUS
      <4>2. Seeks(Request("workspaces", None), "workspaces", None)
        BY DEF Seeks, Request
      <4> QED
        BY <4>1, <4>2 DEF Sought
    <3>3. Learn(both)
      BY <2>2 DEF Renew
    <3> HIDE DEF both
    <3> QED
      BY <3>1, <3>2, <3>3
  <2> QED
    BY <2>1, <2>2
<1>7. AnswersRight' /\ \A kind, w : Sought(fetches, kind, w) \/ Sought(requests, kind, w) => Sought(fetches', kind, w)
  BY <1>2, <1>4, <1>6, Learns
<1>8. Drop => \A w : Coming(Evicting(w)) => Coming(Evicting(w))'
  <2> SUFFICES ASSUME Drop, NEW w
               PROVE  ~ Has(down, Evicting(w))
    BY <1>1 DEF Coming
  <2>1. \A n \in Range(down) : ~ Evicts(n)
    BY DEF Drop, Note, Spared, Anyhow
  <2>2. \A i \in DOMAIN down : down[i] \in Range(down)
    BY DEF Range
  <2> QED
    BY <2>1, <2>2 DEF Has, Evicting
<1>9. Sought(fetches', "workspaces", None) \/ (view.ws # None => Listed(view.list)')
  <2>1. CASE Renew
    BY <1>6, <1>7, <2>1
  <2>2. CASE Drop /\ Sought(fetches, "workspaces", None)
    BY <1>7, <2>2
  <2>3. CASE Drop /\ Listed(view.list)
    BY <1>1, <1>3, <1>8, <2>3 DEF Listed
  <2> QED
    BY <1>2, <2>1, <2>2, <2>3 DEF ViewRight
<1>10. ViewRight'
  BY <1>1, <1>2, <1>4, <1>9 DEF ViewRight
<1> QED
  BY <1>5, <1>7, <1>10 DEF Current

LEMMA ConnectCurrent ==
    ASSUME IInv, Typed, Current, Spared', view.ws # None, Connect
    PROVE  Current'
<1>1. /\ UNCHANGED <<role, news, down, view, missed>> /\ fetches' = fetches \cup Hydration(view.ws)
  BY DEF Connect, Ask, Send, tables
<1>2. InOrder /\ AnswersRight /\ ViewRight
  BY <1>1 DEF Current, Spared
<1>3. Mine' = Mine /\ InOrder' /\ RightsKept(Workspaces) /\ ListsKept(Workspaces)
  BY <1>1, <1>2, CalmKept
<1>4. AnswersRight'
  BY <1>1, <1>2, <1>3, HydrationFresh, AnswersKept DEF Fresh
<1>5. /\ Sought(fetches', "members", view.ws)
      /\ Sought(fetches, "workspaces", None) => Sought(fetches', "workspaces", None)
  BY <1>1, HydrationFresh, WiderSought
<1>6. ListsKept(view.list)
  BY <1>3 DEF ListsKept, Typed, View
<1>7. ViewRight'
  BY <1>1, <1>2, <1>3, <1>5, <1>6, ViewKept
<1> QED
  BY <1>3, <1>4, <1>7 DEF Current

\* An answer replaces what is shown by what is so, unless it is one of those
\* the circumstances excuse.
LEMMA ApplyCurrent ==
    ASSUME IInv, Typed, Current, Spared', view.ws # None, NEW f \in fetches, Apply(f)
    PROVE  Current'
<1>1. UNCHANGED <<role, news, down, up>>
  BY DEF Apply, tables, socket
<1>2. /\ f.status # "asked" /\ view' \in Shown(f)
      /\ fetches' = (fetches \ {f}) \cup (IF view'.ws \in {view.ws, None} THEN {} ELSE Hydration(view'.ws))
      /\ missed' = missed \cup Misled(f) \cup IF view'.open \in view'.channels \cup {None} THEN {} ELSE {"replaced"}
  BY DEF Apply, Send, Note
<1>3. missed \subseteq missed' /\ Misled(f) \subseteq missed'
  BY <1>2
<1>4. InOrder /\ AnswersRight /\ ViewRight
  BY <1>3 DEF Current, Spared
<1>5. Mine' = Mine /\ InOrder' /\ RightsKept(Workspaces) /\ ListsKept(Workspaces)
  BY <1>1, <1>4, CalmKept
<1>6. AnswersRight'
  BY <1>2, <1>4, <1>5, HydrationFresh, AnswersKept DEF Fresh
<1>7. Asked(f, role) /\ Shaped(f) /\ AnswerRight(f)
  BY <1>4 DEF IInv, AllAsked, Typed, AllShaped, AnswersRight
<1>8. f.status \in {"given", "refused"}
  BY <1>2, <1>7 DEF Shaped, AnswerRight
<1>9. /\ f.status = "given" => ~ f.late
      /\ f.kind # "workspaces" /\ f.status = "given" => f.ws = view.ws
      /\ f.kind = "promotion" /\ f.kept # view.users => "captured" \in missed'
  BY <1>3 DEF Misled, Spared, Anyhow
<1>10. \A kind, w : Sought(fetches, kind, w) => Sought(fetches', kind, w) \/ Seeks(f, kind, w)
  BY <1>2 DEF Sought
<1>11. view.list \subseteq Workspaces /\ view.ws \in Workspaces
  BY DEF Typed, View
<1>12. ListsKept(view.list) /\ RightsKept({view.ws})
  BY <1>5, <1>11 DEF ListsKept, RightsKept
<1>13. \A r, us, w, u : Right(r, us, w, u)' <=> Right(r, us, w, u)
  BY <1>1 DEF Right, IsMember, Coming, Fact
<1>14. \A l : Listed(l)' <=> Listed(l)
  BY <1>1 DEF Listed, IsMember, Coming
<1>15. CASE f.kind = "workspaces"
  <2>1. f.status = "given"
    BY <1>7, <1>8, <1>15 DEF AnswerRight
  <2>2. Listed(f.answer.ids) /\ Mine \subseteq f.answer.ids
    BY <1>7, <1>9, <1>15, <2>1 DEF AnswerRight, Asked, Out, Mine, IsMember
  <2>3. CASE f.answer.ids = {}
    <3>1. view'.ws = None
      BY <1>2, <1>15, <2>1, <2>3 DEF Shown, Typed, View
    <3> QED
      BY <1>5, <1>6, <3>1 DEF Current, ViewRight
  <2>4. CASE f.answer.ids # {}
    <3>1. PICK w \in IF view.saved \in f.answer.ids THEN {view.saved} ELSE f.answer.ids :
            view' = [(IF w = view.ws THEN view ELSE Activate(view, w)) EXCEPT !.list = f.answer.ids]
      BY <1>2, <1>15, <2>1, <2>4 DEF Shown
    <3>2. view'.ws = w /\ view'.list = f.answer.ids
      BY <3>1 DEF Activate, Typed, View
    <3>3. Listed(view.list)'
      BY <1>14, <2>2, <3>2 DEF Listed
    <3>4. Sought(fetches', "members", w) \/ RolesRight' \/ ~ up
      <4>1. CASE w = view.ws
        <5>1. view'.role = view.role /\ view'.users = view.users /\ view'.ws = view.ws
          BY <3>1, <4>1 DEF Typed, View
        <5>2. CASE RolesRight
          <6>1. PICK r, us, v : r = view.role /\ us = view.users /\ v = view.ws
            OBVIOUS
          <6>2. \A u \in Answerable : Right(r, us, v, u)
            BY <5>2, <6>1 DEF RolesRight
          <6>3. \A u \in Answerable' : Right(r, us, v, u)'
            BY <1>3, <1>13, <6>2 DEF Answerable
          <6> QED
            BY <5>1, <6>1, <6>3 DEF RolesRight, Right
        <5>3. CASE Sought(fetches, "members", view.ws)
          BY <1>10, <1>15, <4>1, <5>3 DEF Seeks
        <5> QED
          BY <1>4, <5>2, <5>3 DEF ViewRight
      <4>2. CASE w # view.ws
        <5>1. w # None
          BY <1>7, <1>11, <1>15, <2>1, <3>1, ChannelsAssumption DEF Asked, IInv, Good
        <5>2. Hydration(w) \subseteq fetches'
          BY <1>2, <3>2, <4>2, <5>1
        <5> QED
          BY <5>2, HydrationFresh, WiderSought
      <4> QED
        BY <4>1, <4>2
    <3> QED
      BY <1>1, <1>5, <1>6, <2>2, <3>2, <3>3, <3>4 DEF Current, ViewRight
  <2> QED
    BY <2>3, <2>4
<1>16. CASE f.kind = "members" /\ f.status = "given"
  <2>1. view' = [view EXCEPT !.role = f.answer.role, !.users = f.answer.users] /\ f.ws = view.ws
    BY <1>2, <1>9, <1>16 DEF Shown
  <2>2. /\ view'.ws = view.ws /\ view'.list = view.list
        /\ view'.role = f.answer.role /\ view'.users = f.answer.users
    BY <2>1 DEF Typed, View
  <2>3. \A u \in Users : Right(f.answer.role, f.answer.users, f.ws, u)
    BY <1>7, <1>9, <1>16 DEF AnswerRight
  <2>4. \A u \in Users : Right(f.answer.role, f.answer.users, f.ws, u)'
    BY <1>13, <2>3
  <2>5. RolesRight'
    BY <2>1, <2>2, <2>4 DEF RolesRight, Answerable, Right, Shows
  <2>6. Sought(fetches', "workspaces", None) \/ Listed(view.list)'
    BY <1>4, <1>10, <1>14, <1>16, <2>2 DEF ViewRight, Seeks, Listed
  <2>7. ViewRight'
    BY <1>4, <1>5, <2>2, <2>5, <2>6 DEF ViewRight
  <2> QED
    BY <1>5, <1>6, <2>7 DEF Current
<1>17. CASE f.kind # "workspaces" /\ ~ (f.kind = "members" /\ f.status = "given") /\ f.kind # "promotion"
  <2>1. /\ view'.ws = view.ws /\ view'.list = view.list
        /\ view'.role = view.role /\ view'.users = view.users
    BY <1>2, <1>7, <1>17 DEF Shown, Asked, Kinds, Typed, View
  <2>2. Sought(fetches, "workspaces", None) => Sought(fetches', "workspaces", None)
    BY <1>10, <1>17 DEF Seeks
  <2>3. Sought(fetches, "members", view.ws) => Sought(fetches', "members", view.ws)
    BY <1>8, <1>10, <1>17 DEF Seeks
  <2>4. ViewRight'
    BY <1>1, <1>3, <1>4, <1>5, <1>12, <2>1, <2>2, <2>3, ViewKept
  <2> QED
    BY <1>5, <1>6, <2>4 DEF Current
<1>18. CASE f.kind = "promotion"
  <2>1. view' = [view EXCEPT !.channels = IF f.status = "given" THEN f.answer.ids ELSE @, !.users = f.kept]
    BY <1>2, <1>18 DEF Shown
  <2>2. /\ view'.ws = view.ws /\ view'.list = view.list
        /\ view'.role = view.role /\ view'.users = f.kept
    BY <2>1 DEF Typed, View
  <2>3. \A kind \in {"workspaces", "members"} : \A w : Sought(fetches, kind, w) => Sought(fetches', kind, w)
    BY <1>10, <1>18 DEF Seeks
  <2>4. Sought(fetches', "workspaces", None) \/ Listed(view.list)'
    BY <1>4, <1>14, <2>2, <2>3 DEF ViewRight, Listed
  <2>5. ASSUME RolesRight
        PROVE  RolesRight'
    <3>1. PICK r, us, v : r = view.role /\ us = view.users /\ v = view.ws
      OBVIOUS
    <3>2. \A u \in Answerable' : u \in Answerable /\ (u = Me \/ f.kept = us)
      BY <1>3, <1>9, <1>18, <3>1 DEF Answerable
    <3>3. \A u \in Answerable' : Right(r, us, v, u)'
      BY <1>13, <2>5, <3>1, <3>2 DEF RolesRight
    <3> QED
      BY <2>2, <3>1, <3>2, <3>3 DEF RolesRight, Right, Shows
  <2>6. ViewRight'
    BY <1>1, <1>4, <1>5, <2>2, <2>3, <2>4, <2>5 DEF ViewRight
  <2> QED
    BY <1>5, <1>6, <2>6 DEF Current
<1> QED
  BY <1>15, <1>16, <1>17, <1>18
----------------------------------------------------------------------------
LEMMA InitCurrent == Init => Current
<1> SUFFICES ASSUME Init PROVE Current
  OBVIOUS
<1>1. news = << >> /\ down = << >> /\ fetches = {}
  BY DEF Init
<1>2. InOrder
  BY <1>1, NothingHas DEF InOrder, EndsTrue
<1>3. AnswersRight
  BY <1>1 DEF AnswersRight
<1>4. PICK w \in Mine : \E open \in getWorkspaceChannels(w) \cup {None} :
        view = [ws |-> w, saved |-> w, list |-> Mine, role |-> role[w][Me], users |-> Others(w),
                channels |-> getWorkspaceChannels(w), open |-> open]
  BY DEF Init
<1>5. view.ws = w /\ view.list = Mine /\ view.role = role[w][Me] /\ view.users = Others(w)
  BY <1>4
<1>6. Listed(Mine)
  BY DEF Listed, Mine
<1>7. \A u \in Users : Right(role[w][Me], Others(w), w, u)
  BY DEF Right, Shows, Fact, Others
<1>8. RolesRight
  BY <1>5, <1>7 DEF RolesRight, Answerable
<1>9. ViewRight
  BY <1>5, <1>6, <1>8 DEF ViewRight
<1> QED
  BY <1>2, <1>3, <1>9 DEF Current

LEMMA CurrentStep ==
    ASSUME IInv, Typed, Current, [Next]_vars
    PROVE  Current'
<1> SUFFICES ASSUME Spared'
             PROVE  Current'
  BY DEF Current
<1>1. IInv'
  BY StepHolds
<1>2. CASE Govern
  BY <1>1, <1>2, GovernCurrent
<1>3. ASSUME NEW i \in DOMAIN news, Announce(i)
      PROVE  Current'
  BY <1>1, <1>3, AnnounceCurrent
<1>4. CASE view.ws # None /\ Browse
  <2>1. ASSUME NEW f \in fetches, Answer(f) \/ AnswerCreate(f) \/ AnswerRead(f) \/ FetchFails(f) \/ Apply(f)
        PROVE  Current'
    BY <1>1, <1>4, <2>1, AnswerCurrent, CreateCurrent, ReadCurrent, ApplyCurrent
  <2>2. CASE Handle
    BY <1>1, <1>4, <2>2, HandleCurrent
  <2>3. CASE \/ \E w \in Workspaces : switch(w)
             \/ \E c \in Channels : handleChannelSelect(c) \/ handleCreate(c)
             \/ JoinRooms
    BY <1>4, <2>3, ActCurrent
  <2>4. CASE Drop \/ Renew
    BY <2>4, CutCurrent
  <2>5. CASE Connect
    BY <1>4, <2>5, ConnectCurrent
  <2> QED
    BY <1>4, <2>1, <2>2, <2>3, <2>4, <2>5 DEF Browse
<1>5. CASE UNCHANGED vars
  <2>1. UNCHANGED <<role, news, down, up, missed, view, fetches>>
    BY <1>5 DEF vars, tables, socket
  <2> QED
    BY <2>1, CalmCurrent
<1> QED
  BY <1>2, <1>3, <1>4, <1>5 DEF Next

\* With nothing on its way, what is right is so.
LEMMA CurrentIsEnough ==
    ASSUME IInv, Typed, Current
    PROVE  RolesAreCurrent
<1> SUFFICES ASSUME Unless(Anyhow)
             PROVE  /\ view.role = role[view.ws][Me] /\ view.list = Mine
                    /\ "captured" \notin missed => view.users = Others(view.ws)
  BY DEF RolesAreCurrent, Unless
<1>1. news = << >> /\ down = << >> /\ fetches = {} /\ up /\ view.ws # None
  BY DEF Unless, Quiet
<1>2. ViewRight
  BY DEF Current, Unless, Spared
<1>3. \A A : ~ Coming(A)
  BY <1>1, NothingHas DEF Coming
<1>4. \A kind, w : ~ Sought(fetches, kind, w)
  BY <1>1 DEF Sought
<1>5. Mine \subseteq view.list /\ Listed(view.list) /\ RolesRight
  BY <1>1, <1>2, <1>4 DEF ViewRight
<1>6. view.list = Mine
  <2>1. view.list \subseteq Workspaces
    BY DEF Typed, View
  <2> QED
    BY <1>3, <1>5, <2>1 DEF Listed, Mine
<1>7. IsMember(view.ws)
  BY <1>1, <1>6 DEF Typed, Within, Mine
<1>8. \A u \in Answerable : Shows(view.role, view.users, u) = Fact(view.ws, u)
  BY <1>3, <1>5, <1>7 DEF RolesRight, Right
<1>9. view.role = role[view.ws][Me]
  BY <1>8, UsersAssumption DEF Answerable, Shows, Fact
<1>10. ASSUME "captured" \notin missed
       PROVE  view.users = Others(view.ws)
  <2>1. \A u \in Users \ {Me} : u \in view.users <=> role[view.ws][u] # "none"
    BY <1>8, <1>10 DEF Answerable, Shows, Fact
  <2>2. view.users \subseteq Users \ {Me}
    BY DEF Typed, View
  <2> QED
    BY <2>1, <2>2 DEF Others
<1> QED
  BY <1>6, <1>9, <1>10

(***************************************************************************)
(* When nothing is under way the page shows the user's role, the user's    *)
(* workspaces and the members as they are, whatever others did meanwhile,  *)
(* unless one of the circumstances was met that the code has no answer to  *)
(* (useWorkspaceEvents, useWorkspaceMembers, useWorkspaceInit).            *)
(***************************************************************************)
THEOREM RolesCurrent == Spec => []RolesAreCurrent
<1>1. Init => Current
  BY InitCurrent
<1>2. (IInv /\ Typed) /\ Current /\ [Next]_vars => Current'
  BY CurrentStep
<1>3. (IInv /\ Typed) /\ Current => RolesAreCurrent
  BY CurrentIsEnough
<1>4. Spec => []Current
  BY <1>1, <1>2, TypedHolds, PTL DEF Spec
<1> QED
  BY <1>3, <1>4, TypedHolds, PTL----------------------------------------------------------------------------
(* The channels of the sidebar, and what is on its way about them          *)

\* Whether the server would list a channel.
Place(c) == IF c \in getWorkspaceChannels(Of[c]) THEN "open" ELSE "shut"

\* The events that put the sidebar right about it: they show it, close it,
\* or have the channels asked for.
Settles(c) ==
    {n \in Item :
       /\ n.ws = Of[c]
       /\ \/ /\ n.event \in {"added_to_channel", "channel_access_updated", "channel_deleted",
                             "private_channels_revoked"}
             /\ c \in n.channels
             /\ n.event = "added_to_channel" => n.arg # "hidden"
          \/ n.event = "channel_created" /\ c \in n.channels /\ n.was # "GUEST"
          \/ n.event = "member_role_updated" /\ n.user = Me /\ n.was = "GUEST" /\ n.arg # "GUEST"
          \/ n.event = "workspace_ownership_transferred" /\ n.user = Me /\ n.was = "GUEST"}

\* The announcements that become one of them: a change of role is told again
\* as the channels it revokes.
Raises(c) ==
    Settles(c) \cup
    {n \in Item : n.ws = Of[c] /\ n.event = "member_role_updated" /\ n.user = Me /\ c \in n.channels}

\* Those that do not say otherwise.
Allowing(x, c) ==
    {n \in Item :
       /\ n.event \in {"added_to_channel", "channel_created"} => x = "open"
       /\ \/ n.event \in {"channel_deleted", "private_channels_revoked"}
          \/ n.event = "member_role_updated" /\ c \in n.channels
          => x = "shut"}

Awaited(c) == Has(down, Settles(c)) \/ Has(news, Raises(c))

\* The last that comes does not contradict the tables.
ChannelInOrder(c) ==
    /\ Ends(news, Raises(c), Allowing(Place(c), c))
    /\ ~ Has(news, Raises(c)) => Ends(down, Settles(c), Allowing(Place(c), c))

ChannelsInOrder == \A c \in Channels : IsMember(Of[c]) => ChannelInOrder(c)

\* A list of channels is that of the workspace, or will be corrected.
ListRight(cs, w) ==
    IsMember(w) => /\ \A c \in cs : Of[c] = w
                   /\ \A c \in Channels : Of[c] = w => Awaited(c) \/ (c \in cs <=> Place(c) = "open")

ListKinds == {"channels", "access", "promotion"}

AnswerListRight(f) ==
    /\ f.status # "failed"
    /\ f.kind \in ListKinds /\ f.status = "refused" => ~ IsMember(f.ws)
    /\ f.status = "given" /\ ~ f.late =>
         /\ f.kind \in ListKinds => ListRight(f.answer.ids, f.ws)
         /\ f.kind = "create" => ~ IsMember(f.ws) \/ Awaited(f.channel) \/ Place(f.channel) = "open"

AnswersListRight == \A f \in fetches : AnswerListRight(f)

ListSought(requests, w) == \E kind \in ListKinds : Sought(requests, kind, w)

SidebarRight == view.ws # None /\ up => ListSought(fetches, view.ws) \/ ListRight(view.channels, view.ws)

OpenListed == view.open \in view.channels \cup {None}

Clear == missed = {}

Sidebar == Clear => ChannelsInOrder /\ AnswersListRight /\ SidebarRight /\ OpenListed

----------------------------------------------------------------------------
(* What is told of channels follows what is written                        *)

\* By the role, the channel's row and the membership of it.
Spot(r, there, a, c) ==
    IF /\ r # "none" /\ there = "there"
       /\ IF r = "GUEST" \/ c \in Private THEN a = "visible" ELSE a # "hidden"
      THEN "open" ELSE "shut"

LEMMA PlaceIs ==
    ASSUME NEW c \in Channels
    PROVE  /\ Place(c) = Spot(role[Of[c]][Me], channel[c], access[c], c)
           /\ Place(c)' = Spot(role'[Of[c]][Me], channel'[c], access'[c], c)
  BY DEF Place, Spot, getWorkspaceChannels, ChannelsOf, Exists, IsMember

LEMMA PlaceStays ==
    ASSUME NEW c \in Channels, role'[Of[c]][Me] = role[Of[c]][Me], channel'[c] = channel[c], access'[c] = access[c]
    PROVE  Place(c)' = Place(c)
  BY PlaceIs

\* A change of which n tells, as far as it changes what the user may see.
Minds(n) ==
    /\ n \in Item /\ Tell(n)
    /\ \A c \in Channels : IsMember(Of[c])' =>
         IF n \in Raises(c) THEN n \in Allowing(Place(c)', c) ELSE Place(c)' = Place(c)

\* A change the user sees nothing of.
Unseen ==
    /\ UNCHANGED news
    /\ \A c \in Channels : IsMember(Of[c])' => Place(c)' = Place(c)

LEMMA NewsWas ==
    ASSUME NEW event, NEW w, NEW u, NEW arg, NEW channels
    PROVE  News(event, w, u, arg, channels).was = role[w][Me]
  BY DEF News

LEMMA OthersMind ==
    ASSUME IInv, NEW w \in Workspaces, NEW u \in Users, joinWorkspace(w, u) \/ removeWorkspaceMember(w, u)
    PROVE  \E n : Minds(n)
<1>1. PICK n \in Item : /\ n.event \in {"workspace_member_joined", "member_kicked"}
                        /\ Tell(n)
  <2>1. News("workspace_member_joined", w, u, None, {}) \in Item
    BY NewsItem DEF IInv
  <2>2. News("member_kicked", w, u, None, {}) \in Item
    BY NewsItem DEF IInv
  <2> QED
    BY <2>1, <2>2, NewsIs DEF joinWorkspace, removeWorkspaceMember
<1>2. \A c : n \notin Raises(c)
  BY <1>1 DEF Raises, Settles
<1>3. PICK r : /\ SetRole(w, u, r) /\ (u = Me => r = "none")
               /\ UNCHANGED channel
               /\ IF u = Me THEN Strip(ChannelsOf(w)) ELSE UNCHANGED access
  BY DEF joinWorkspace, removeWorkspaceMember
<1>4. \A w2 \in Workspaces, u2 \in Users : role'[w2][u2] = IF w2 = w /\ u2 = u THEN r ELSE role[w2][u2]
  BY <1>3, RoleSet DEF IInv
<1>5. ASSUME NEW c \in Channels, IsMember(Of[c])'
      PROVE  Place(c)' = Place(c)
  <2>1. Of[c] \in Workspaces /\ Me \in Users
    BY ChannelsAssumption, UsersAssumption
  <2>2. ~ (Of[c] = w /\ u = Me)
    BY <1>3, <1>4, <1>5, <2>1 DEF IsMember
  <2>3. role'[Of[c]][Me] = role[Of[c]][Me]
    BY <1>4, <2>1, <2>2
  <2>4. access'[c] = access[c]
    BY <1>3, <2>2 DEF Strip, ChannelsOf
  <2> QED
    BY <1>3, <2>3, <2>4, PlaceStays
<1> QED
  BY <1>1, <1>2, <1>5 DEF Minds

LEMMA RoleMinds ==
    ASSUME IInv, Typed, NEW w \in Workspaces, NEW u \in Users, NEW r \in MemberRole, updateWorkspaceMemberRole(w, u, r)
    PROVE  \E n : Minds(n)
<1> DEFINE n == News("member_role_updated", w, u, r, Revoked(w, r))
<1>1. /\ n.event = "member_role_updated" /\ n.ws = w /\ n.user = u /\ n.arg = r
      /\ n.channels = Revoked(w, r) /\ n.was = role[w][Me]
      /\ role[w][u] \in {"ADMIN", "MEMBER", "GUEST"} /\ r \in {"ADMIN", "MEMBER", "GUEST"}
      /\ UNCHANGED channel
      /\ IF u = Me THEN Strip(Revoked(w, r)) ELSE UNCHANGED access
      /\ Tell(n)
  BY NewsIs, NewsWas DEF updateWorkspaceMemberRole
<1>2. \A w2 \in Workspaces, u2 \in Users :
        role'[w2][u2] = IF w2 = w /\ u2 = u THEN r ELSE role[w2][u2]
  BY RoleSet DEF updateWorkspaceMemberRole, IInv
<1>3. n \in Item
  <2>1. Revoked(w, r) \subseteq Channels
    BY DEF Revoked, ChannelsOf
  <2> QED
    BY <2>1, NewsItem DEF IInv
<1> HIDE DEF n
<1>4. ASSUME NEW c \in Channels
      PROVE  IF n \in Raises(c) THEN n \in Allowing(Place(c)', c) ELSE Place(c)' = Place(c)
  <2>1. Of[c] \in Workspaces /\ Me \in Users
    BY ChannelsAssumption, UsersAssumption
  <2>2. CASE ~ (Of[c] = w /\ u = Me)
    <3>1. role'[Of[c]][Me] = role[Of[c]][Me]
      BY <1>2, <2>1, <2>2
    <3>2. access'[c] = access[c]
      BY <1>1, <2>2 DEF Strip, Revoked, ChannelsOf
    <3>3. n \notin Raises(c)
      BY <1>1, <2>2 DEF Raises, Settles
    <3> QED
      BY <1>1, <3>1, <3>2, <3>3, PlaceStays
  <2>3. CASE Of[c] = w /\ u = Me /\ c \in Revoked(w, r)
    <3>1. access'[c] = "none" /\ role'[Of[c]][Me] = r
      BY <1>1, <1>2, <2>1, <2>3 DEF Strip
    <3>2. r = "GUEST" \/ c \in Private
      BY <2>3 DEF Revoked
    <3>3. Place(c)' = "shut"
      BY <3>1, <3>2, PlaceIs DEF Spot
    <3>4. n \in Raises(c)
      BY <1>1, <1>3, <2>3 DEF Raises
    <3> QED
      BY <1>1, <1>3, <3>3, <3>4 DEF Allowing
  <2>4. CASE Of[c] = w /\ u = Me /\ c \notin Revoked(w, r)
    <3>1. access'[c] = access[c] /\ channel'[c] = channel[c] /\ role'[w][Me] = r
      BY <1>1, <1>2, <2>1, <2>4 DEF Strip
    <3>2. n \in Allowing(Place(c)', c)
      BY <1>1, <1>3, <2>4 DEF Allowing
    <3>3. CASE r # "GUEST" /\ role[w][Me] # "GUEST"
      BY <1>1, <2>4, <3>1, <3>2, <3>3, PlaceIs DEF Spot
    <3>4. CASE r # "GUEST" /\ role[w][Me] = "GUEST"
      <4>1. n \in Raises(c)
        BY <1>1, <1>3, <2>4, <3>4 DEF Raises, Settles
      <4> QED
        BY <3>2, <4>1
    <3>5. CASE r = "GUEST"
      <4>1. channel[c] # "there"
        BY <2>4, <3>5 DEF Revoked, ChannelsOf, Exists
      <4>2. Place(c)' = Place(c)
        BY <3>1, <4>1, PlaceIs DEF Spot
      <4> QED
        BY <3>2, <4>2
    <3> QED
      BY <3>3, <3>4, <3>5
  <2> QED
    BY <2>2, <2>3, <2>4
<1> QED
  BY <1>1, <1>3, <1>4 DEF Minds

LEMMA TransferMinds ==
    ASSUME IInv, NEW w \in Workspaces, NEW u \in Users, NEW v \in Users, transferWorkspaceOwnership(w, u, v)
    PROVE  \E n : Minds(n)
<1> DEFINE n == News("workspace_ownership_transferred", w, v, u, {})
<1>1. /\ n.event = "workspace_ownership_transferred" /\ n.ws = w /\ n.user = v /\ n.was = role[w][Me]
      /\ u # v /\ role[w][u] = "OWNER" /\ role[w][v] # "none"
      /\ UNCHANGED <<channel, access>> /\ Tell(n)
  BY NewsIs, NewsWas DEF transferWorkspaceOwnership
<1>2. \A w2 \in Workspaces, u2 \in Users :
        role'[w2][u2] = IF w2 = w /\ u2 = v THEN "OWNER" ELSE IF w2 = w /\ u2 = u THEN "ADMIN" ELSE role[w2][u2]
  BY DEF transferWorkspaceOwnership, IInv, Role
<1>3. n \in Item
  BY NewsItem DEF IInv
<1> HIDE DEF n
<1>4. ASSUME NEW c \in Channels
      PROVE  IF n \in Raises(c) THEN n \in Allowing(Place(c)', c) ELSE Place(c)' = Place(c)
  <2>1. Of[c] \in Workspaces /\ Me \in Users
    BY ChannelsAssumption, UsersAssumption
  <2>2. n \in Allowing(Place(c)', c)
    BY <1>1, <1>3 DEF Allowing
  <2>3. CASE Of[c] = w /\ v = Me /\ role[w][Me] = "GUEST"
    <3>1. n \in Raises(c)
      BY <1>1, <1>3, <2>3 DEF Raises, Settles
    <3> QED
      BY <2>2, <3>1
  <2>4. CASE Of[c] = w /\ (u = Me \/ v = Me) /\ role[w][Me] # "GUEST"
    <3>1. role'[w][Me] \in {"OWNER", "ADMIN"} /\ role[w][Me] # "none"
      BY <1>1, <1>2, <2>1, <2>4
    <3>2. Place(c)' = Place(c)
      BY <1>1, <2>4, <3>1, PlaceIs DEF Spot
    <3> QED
      BY <2>2, <3>2
  <2>5. CASE ~ (Of[c] = w /\ (u = Me \/ v = Me))
    <3>1. role'[Of[c]][Me] = role[Of[c]][Me]
      BY <1>2, <2>1, <2>5
    <3> QED
      BY <1>1, <2>2, <3>1, PlaceStays
  <2> QED
    BY <1>1, <2>3, <2>4, <2>5
<1> QED
  BY <1>1, <1>3, <1>4 DEF Minds
LEMMA DeletionMinds ==
    ASSUME IInv, NEW w \in Workspaces, deleteWorkspace(w)
    PROVE  \E n : Minds(n)
<1> DEFINE n == News("workspace_deleted", w, None, None, {})
<1>1. n.event = "workspace_deleted" /\ Tell(n)
  BY NewsIs DEF deleteWorkspace
<1>2. n \in Item
  BY NewsItem DEF IInv
<1> HIDE DEF n
<1>3. \A c : n \notin Raises(c)
  BY <1>1 DEF Raises, Settles
<1>4. ASSUME NEW c \in Channels, IsMember(Of[c])'
      PROVE  Place(c)' = Place(c)
  <2>1. Of[c] \in Workspaces /\ Me \in Users
    BY ChannelsAssumption, UsersAssumption
  <2>2. \A w2 \in Workspaces, u2 \in Users : role'[w2][u2] = IF w2 = w THEN "none" ELSE role[w2][u2]
    BY DEF deleteWorkspace, IInv, Role
  <2>3. Of[c] # w
    BY <1>4, <2>1, <2>2 DEF IsMember
  <2>4. role'[Of[c]][Me] = role[Of[c]][Me]
    BY <2>1, <2>2, <2>3
  <2>5. channel'[c] = channel[c] /\ access'[c] = access[c]
    BY <2>3 DEF deleteWorkspace, Strip, ChannelsOf
  <2> QED
    BY <2>4, <2>5, PlaceStays
<1> QED
  BY <1>1, <1>2, <1>3, <1>4 DEF Minds

\* One channel changes, and what is told is of it.
LEMMA OneChanges ==
    ASSUME UNCHANGED role, NEW d \in Channels,
           \A c \in Channels \ {d} : channel'[c] = channel[c] /\ access'[c] = access[c]
    PROVE  \A c \in Channels \ {d} : Place(c)' = Place(c)
  BY PlaceStays

LEMMA ChannelMinds ==
    ASSUME IInv, UNCHANGED role, NEW d \in Channels, NEW arg \in {None, "visible", "hidden"},
           NEW event \in {"added_to_channel", "channel_created", "channel_access_updated", "channel_deleted"},
           Tell(News(event, Of[d], None, arg, {d})),
           \A c \in Channels \ {d} : channel'[c] = channel[c] /\ access'[c] = access[c],
           event = "added_to_channel" /\ arg # "hidden" /\ IsMember(Of[d])' => Place(d)' = "open",
           event = "added_to_channel" /\ arg = "hidden" => Place(d)' = Place(d),
           event = "channel_deleted" => Place(d)' = "shut",
           event = "channel_created" =>
             Place(d)' = IF role[Of[d]][Me] \in {"GUEST", "none"} THEN "shut" ELSE "open",
           event = "channel_created" => Place(d) = "shut"
    PROVE  \E n : Minds(n)
<1> DEFINE n == News(event, Of[d], None, arg, {d})
<1>1. /\ n.event = event /\ n.ws = Of[d] /\ n.user = None /\ n.channels = {d} /\ n.was = role[Of[d]][Me]
      /\ n.arg = arg /\ Tell(n)
  BY NewsIs, NewsWas
<1>2. n \in Item
  <2>1. role[Of[d]][Me] \in MemberRole \cup {"none"} /\ Of[d] \in Workspaces
    BY UsersAssumption, ChannelsAssumption DEF IInv, Role
  <2> QED
    BY <2>1 DEF News, Item
<1> HIDE DEF n
<1>3. None # Me
  BY UsersAssumption
<1>4. ASSUME NEW c \in Channels \ {d}
      PROVE  n \notin Raises(c)
  BY <1>1, <1>3 DEF Raises, Settles
<1>5. ASSUME IsMember(Of[d])'
      PROVE  IF n \in Raises(d) THEN n \in Allowing(Place(d)', d) ELSE Place(d)' = Place(d)
  <2>1. n \in Raises(d) <=> ( /\ (event = "channel_created" => role[Of[d]][Me] # "GUEST")
                              /\ (event = "added_to_channel" => arg # "hidden") )
    BY <1>1, <1>2, <1>3 DEF Raises, Settles
  <2>2. role[Of[d]][Me] # "none"
    BY <1>5 DEF IsMember
  <2>3. CASE event # "channel_created" /\ (event = "added_to_channel" => arg # "hidden")
    BY <1>1, <1>2, <1>5, <2>1, <2>3 DEF Allowing
  <2>4. CASE event = "channel_created" /\ role[Of[d]][Me] # "GUEST"
    <3>1. Place(d)' = "open"
      BY <2>2, <2>4
    <3> QED
      BY <1>1, <1>2, <2>1, <2>4, <3>1 DEF Allowing
  <2>5. CASE event = "channel_created" /\ role[Of[d]][Me] = "GUEST"
    BY <2>1, <2>5
  <2>6. CASE event = "added_to_channel" /\ arg = "hidden"
    BY <2>1, <2>6
  <2> QED
    BY <2>3, <2>4, <2>5, <2>6
<1> QED
  BY <1>1, <1>2, <1>4, <1>5, OneChanges DEF Minds

\* A new channel: by the user, who is then no guest, or by others.
LEMMA InsertMinds ==
    ASSUME IInv, Typed, NEW d \in Channels, NEW byMe \in BOOLEAN, Insert(d, byMe),
           byMe => role[Of[d]][Me] \notin {"GUEST", "none"}
    PROVE  /\ Unseen \/ \E n : Minds(n)
           /\ byMe => Place(d)' = "open"
<1> DEFINE mine == byMe \/ (d \in Private /\ role[Of[d]][Me] = "OWNER")
<1>1. /\ channel[d] = "unborn" /\ channel'[d] = "there" /\ UNCHANGED role
      /\ access'[d] = IF mine THEN "visible" ELSE "none"
      /\ \A c \in Channels \ {d} : channel'[c] = channel[c] /\ access'[c] = access[c]
      /\ IF d \in Private /\ ~ mine
           THEN UNCHANGED news
           ELSE Tell(News(IF d \in Private THEN "added_to_channel" ELSE "channel_created", Of[d], None, None, {d}))
  BY DEF Insert, Typed, TablesOK
<1>2. (byMe => mine) /\ (mine => role[Of[d]][Me] \notin {"GUEST", "none"})
  OBVIOUS
<1>3. Place(d) = "shut" /\ Place(d)' = Spot(role[Of[d]][Me], "there", access'[d], d)
  BY <1>1, PlaceIs DEF Spot
<1> HIDE DEF mine
<1>4. mine => Place(d)' = "open"
  BY <1>1, <1>2, <1>3 DEF Spot
<1>5. CASE d \in Private /\ ~ mine
  <2>1. Place(d)' = "shut"
    BY <1>1, <1>3, <1>5 DEF Spot
  <2>2. \A c \in Channels : Place(c)' = Place(c)
    BY <1>1, <1>3, <2>1, OneChanges
  <2> QED
    BY <1>1, <1>2, <1>5, <2>2 DEF Unseen
<1>6. CASE d \in Private /\ mine
  <2>1. Tell(News("added_to_channel", Of[d], None, None, {d}))
    BY <1>1, <1>6
  <2> QED
    BY <1>1, <1>4, <1>6, <2>1, ChannelsAssumption, ChannelMinds
<1>7. CASE d \notin Private
  <2>1. Tell(News("channel_created", Of[d], None, None, {d}))
    BY <1>1, <1>7
  <2>2. Place(d)' = IF role[Of[d]][Me] \in {"GUEST", "none"} THEN "shut" ELSE "open"
    BY <1>1, <1>2, <1>3, <1>7 DEF Spot
  <2> QED
    BY <1>1, <1>3, <2>1, <2>2, ChannelMinds
<1> QED
  BY <1>5, <1>6, <1>7

LEMMA GovernMinds ==
    ASSUME IInv, Typed, Govern
    PROVE  Unseen \/ \E n : Minds(n)
<1>1. ASSUME NEW d \in Channels, createChannel(d)
      PROVE  Unseen \/ \E n : Minds(n)
  BY <1>1, InsertMinds DEF createChannel
<1>2. ASSUME NEW d \in Channels, inviteToChannel(d)
      PROVE  \E n : Minds(n)
  <2>1. /\ UNCHANGED <<role, channel>> /\ access'[d] = "visible" /\ Exists(d) /\ IsMember(Of[d])
        /\ \A c \in Channels \ {d} : access'[c] = access[c]
        /\ Tell(News("added_to_channel", Of[d], None, None, {d}))
    BY <1>2 DEF inviteToChannel, Typed, TablesOK
  <2>2. Place(d)' = "open"
    BY <2>1, PlaceIs DEF Spot, Exists, IsMember
  <2> QED
    BY <2>1, <2>2, ChannelsAssumption, ChannelMinds
<1>5. ASSUME NEW d \in Channels, notify_channel_invites(d)
      PROVE  \E n : Minds(n)
  <2>1. PICK row \in {"visible", "hidden"} :
          /\ UNCHANGED tables /\ Exists(d) /\ access[d] = row
          /\ Tell(News("added_to_channel", Of[d], None, row, {d}))
    BY <1>5 DEF notify_channel_invites
  <2>2. UNCHANGED <<role, channel, access>>
    BY <2>1 DEF tables
  <2>3. Place(d)' = Place(d)
    BY <2>2, PlaceStays
  <2>4. row = "visible" /\ IsMember(Of[d])' => Place(d)' = "open"
    BY <2>1, <2>2, PlaceIs DEF Spot, Exists, IsMember
  <2> QED
    BY <2>1, <2>2, <2>3, <2>4, ChannelMinds
<1>3. ASSUME NEW d \in Channels, NEW value \in {"visible", "hidden"}, SetAccess(d, value)
      PROVE  \E n : Minds(n)
  <2>1. /\ UNCHANGED <<role, channel>>
        /\ \A c \in Channels \ {d} : access'[c] = access[c]
        /\ Tell(News("channel_access_updated", Of[d], None, value, {d}))
    BY <1>3 DEF SetAccess, Typed, TablesOK
  <2> QED
    BY <2>1, ChannelMinds
<1>4. ASSUME NEW d \in Channels, deleteChannel(d)
      PROVE  Unseen \/ \E n : Minds(n)
  <2>1. /\ UNCHANGED role /\ channel'[d] = "gone"
        /\ \A c \in Channels \ {d} : channel'[c] = channel[c] /\ access'[c] = access[c]
        /\ IF d \in Private /\ access[d] = "none"
             THEN UNCHANGED news
             ELSE Tell(News("channel_deleted", Of[d], None, None, {d}))
    BY <1>4 DEF deleteChannel, Strip, Typed, TablesOK
  <2>2. Place(d)' = "shut"
    BY <2>1, PlaceIs DEF Spot
  <2>3. CASE d \in Private /\ access[d] = "none"
    <3>1. Place(d) = "shut"
      BY <2>3, PlaceIs DEF Spot
    <3> QED
      BY <2>1, <2>2, <2>3, <3>1, OneChanges DEF Unseen
  <2>4. CASE ~ (d \in Private /\ access[d] = "none")
    BY <2>1, <2>2, <2>4, ChannelMinds
  <2> QED
    BY <2>3, <2>4
<1> QED
  BY <1>1, <1>2, <1>3, <1>4, <1>5, OthersMind, RoleMinds, TransferMinds, DeletionMinds DEF Govern

----------------------------------------------------------------------------
(* What a step leaves right of the channels                                *)

ChannelKept(c) ==
    IsMember(Of[c])' => /\ IsMember(Of[c])
                        /\ Awaited(c) => Awaited(c)'
                        /\ Place(c)' = Place(c) \/ Awaited(c)'

ChannelsKept(W) == \A c \in Channels : Of[c] \in W => ChannelKept(c)

\* A handler's change, with what it tells of it.
LEMMA MindsKept ==
    ASSUME IInv, [Next]_vars, ChannelsInOrder, UNCHANGED down, Unseen \/ \E n : Minds(n)
    PROVE  ChannelsInOrder' /\ ChannelsKept(Workspaces)
<1>1. news \in Seq(Item)
  <2>1. Told(role) \subseteq Item
    BY DEF Told
  <2> QED
    BY <2>1, WiderType DEF IInv
<1> SUFFICES ASSUME NEW c \in Channels, IsMember(Of[c])'
             PROVE  /\ ChannelInOrder(c)'
                    /\ IsMember(Of[c]) /\ (Awaited(c) => Awaited(c)')
                    /\ Place(c)' = Place(c) \/ Awaited(c)'
  BY DEF ChannelsInOrder, ChannelsKept, ChannelKept
<1>2. IsMember(Of[c])
  <2>1. Of[c] \in Workspaces
    BY ChannelsAssumption
  <2> QED
    BY <2>1, MineShrinks DEF Mine
<1> DEFINE A == Raises(c)
           B == Allowing(Place(c)', c)
<1>3. ChannelInOrder(c)
  BY <1>2 DEF ChannelsInOrder
<1>4. CASE Unseen
  <2>1. Place(c)' = Place(c) /\ UNCHANGED news
    BY <1>4 DEF Unseen
  <2> QED
    BY <1>2, <1>3, <2>1 DEF ChannelInOrder, Awaited
<1>5. CASE \E n : Minds(n)
  <2>1. PICK n \in Item : /\ news' = Append(news, n)
                          /\ IF n \in A THEN n \in B ELSE Place(c)' = Place(c)
    BY <1>5 DEF Minds, Tell
  <2>2. Has(news', A) <=> Has(news, A) \/ n \in A
    BY <1>1, <2>1, HasAppend
  <2>3. Awaited(c)' <=> Has(down, Settles(c)) \/ Has(news', A)
    BY DEF Awaited
  <2>4. n \notin A => Ends(news, A, B) /\ (~ Has(news, A) => Ends(down, Settles(c), B))
    BY <1>3, <2>1 DEF ChannelInOrder
  <2>5. Ends(news', A, B)
    BY <1>1, <2>1, <2>4, EndsAppend
  <2>6. ChannelInOrder(c)' <=> Ends(news', A, B) /\ (~ Has(news', A) => Ends(down, Settles(c), B))
    BY DEF ChannelInOrder
  <2> QED
    BY <1>2, <2>1, <2>2, <2>3, <2>4, <2>5, <2>6 DEF Awaited
<1> QED
  BY <1>4, <1>5
LEMMA ListKept ==
    ASSUME NEW cs, NEW w \in Workspaces, ListRight(cs, w), Mine' \subseteq Mine, ChannelsKept({w})
    PROVE  ListRight(cs, w)'
<1> SUFFICES ASSUME IsMember(w)'
             PROVE  /\ \A c \in cs : Of[c] = w
                    /\ \A c \in Channels : Of[c] = w => Awaited(c)' \/ (c \in cs <=> Place(c)' = "open")
  BY DEF ListRight
<1>1. IsMember(w)
  BY DEF Mine
<1>2. \A c \in cs : Of[c] = w
  BY <1>1 DEF ListRight
<1>3. ASSUME NEW c \in Channels, Of[c] = w
      PROVE  Awaited(c)' \/ (c \in cs <=> Place(c)' = "open")
  <2>1. Awaited(c) \/ (c \in cs <=> Place(c) = "open")
    BY <1>1, <1>3 DEF ListRight
  <2>2. (Awaited(c) => Awaited(c)') /\ (Place(c)' = Place(c) \/ Awaited(c)')
    BY <1>3 DEF ChannelsKept, ChannelKept
  <2> QED
    BY <2>1, <2>2
<1> QED
  BY <1>2, <1>3

LEMMA AnswerListKept ==
    ASSUME Typed, NEW f \in fetches, AnswerListRight(f), Mine' \subseteq Mine, ChannelsKept(Workspaces)
    PROVE  AnswerListRight(f)'
<1>1. Shaped(f)
  BY DEF Typed, AllShaped
<1>2. ASSUME f.kind \in ListKinds
      PROVE  f.ws \in Workspaces
  BY <1>1, <1>2 DEF Shaped, ListKinds
<1>3. f.kind \in ListKinds /\ f.status = "refused" => ~ IsMember(f.ws)'
  BY <1>2 DEF AnswerListRight, Mine
<1>4. ASSUME f.status = "given", ~ f.late, f.kind \in ListKinds
      PROVE  ListRight(f.answer.ids, f.ws)'
  BY <1>2, <1>4, ListKept DEF AnswerListRight, ChannelsKept
<1>5. ASSUME f.status = "given", ~ f.late, f.kind = "create"
      PROVE  ~ IsMember(f.ws)' \/ Awaited(f.channel)' \/ Place(f.channel)' = "open"
  <2>1. f.channel \in Channels /\ f.ws = Of[f.channel] /\ f.ws \in Workspaces
    BY <1>1, <1>5 DEF Shaped
  <2>2. ChannelKept(f.channel)
    BY <2>1 DEF ChannelsKept
  <2>3. ~ IsMember(f.ws) \/ Awaited(f.channel) \/ Place(f.channel) = "open"
    BY <1>5 DEF AnswerListRight
  <2> QED
    BY <2>1, <2>2, <2>3 DEF ChannelKept
<1>6. f.status # "failed"
  BY DEF AnswerListRight
<1> QED
  BY <1>3, <1>4, <1>5, <1>6 DEF AnswerListRight

LEMMA AskedIsListRight ==
    ASSUME NEW f, f.status = "asked"
    PROVE  AnswerListRight(f)'
  BY DEF AnswerListRight

LEMMA AnswersListKept ==
    ASSUME Typed, AnswersListRight, Mine' \subseteq Mine, ChannelsKept(Workspaces),
           \A f \in fetches' : f \in fetches \/ f.status = "asked"
    PROVE  AnswersListRight'
  BY AnswerListKept, AskedIsListRight DEF AnswersListRight

LEMMA OvertakenListRight ==
    ASSUME IInv, Typed, AnswersListRight, Mine' \subseteq Mine,
           \A f \in fetches' : f \in Overtaken(fetches) \/ f.status = "asked"
    PROVE  AnswersListRight'
<1> SUFFICES ASSUME NEW g \in Overtaken(fetches)
             PROVE  AnswerListRight(g)'
  BY AskedIsListRight DEF AnswersListRight
<1>1. PICK f \in fetches : g = [f EXCEPT !.late = f.status # "asked"]
  BY DEF Overtaken
<1>2. Asked(f, role) /\ Shaped(f) /\ AnswerListRight(f)
  BY DEF IInv, AllAsked, Typed, AllShaped, AnswersListRight
<1>3. g.kind = f.kind /\ g.ws = f.ws /\ g.status = f.status /\ g.late = (f.status # "asked")
  BY <1>1, <1>2 DEF Asked
<1>4. f.kind \in ListKinds /\ f.status = "refused" => ~ IsMember(f.ws)'
  BY <1>2 DEF AnswerListRight, Shaped, ListKinds, Mine
<1> QED
  BY <1>2, <1>3, <1>4 DEF AnswerListRight

LEMMA HydrationSeeksList == \A w : ListSought(Hydration(w), w)
  BY DEF Hydration, Request, ListSought, ListKinds, Sought, Seeks

LEMMA WiderListSought ==
    ASSUME NEW F, NEW G, NEW w, \A kind \in ListKinds : Sought(F, kind, w) => Sought(G, kind, w)
    PROVE  ListSought(F, w) => ListSought(G, w)
  BY DEF ListSought

\* While the page shows the same channels of the same workspace.
LEMMA SidebarKept ==
    ASSUME Typed, SidebarRight, Mine' \subseteq Mine, view'.ws = view.ws, view'.channels = view.channels,
           up' => \/ ListSought(fetches', view.ws)
                  \/ /\ up /\ ChannelsKept({view.ws})
                     /\ ListSought(fetches, view.ws) => ListSought(fetches', view.ws) \/ ~ IsMember(view.ws)'
    PROVE  SidebarRight'
<1> SUFFICES ASSUME view.ws # None, up', ~ ListSought(fetches', view.ws), IsMember(view.ws)'
             PROVE  ListRight(view.channels, view.ws)'
  BY DEF SidebarRight, ListRight
<1>1. view.ws \in Workspaces
  BY DEF Typed, View
<1>2. ListRight(view.channels, view.ws)
  BY DEF SidebarRight
<1>3. PICK cs, w : cs = view.channels /\ w = view.ws
  OBVIOUS
<1>4. ListRight(cs, w)'
  BY <1>1, <1>2, <1>3, ListKept
<1> QED
  BY <1>3, <1>4 DEF ListRight

\* Steps that change no table but by what the user cannot see, and tell nothing.
LEMMA CalmChannels ==
    ASSUME UNCHANGED <<role, news, down>>, \A c \in Channels : IsMember(Of[c]) => Place(c)' = Place(c)
    PROVE  /\ Mine' = Mine /\ (ChannelsInOrder => ChannelsInOrder')
           /\ ChannelsKept(Workspaces)
<1>1. \A w : IsMember(w)' <=> IsMember(w)
  BY DEF IsMember
<1>2. \A c : Awaited(c)' <=> Awaited(c)
  BY DEF Awaited
<1>3. \A c \in Channels : IsMember(Of[c]) => (ChannelInOrder(c)' <=> ChannelInOrder(c))
  BY DEF ChannelInOrder
<1> QED
  BY <1>1, <1>2, <1>3 DEF Mine, ChannelsInOrder, ChannelsKept, ChannelKept

\* Steps that leave the sidebar and the connection as they are.
LEMMA StillSidebar ==
    ASSUME Typed, AnswersListRight, SidebarRight, Mine' \subseteq Mine, ChannelsInOrder', ChannelsKept(Workspaces),
           view'.ws = view.ws, view'.channels = view.channels, OpenListed', up' = up,
           \A f \in fetches' : f \in fetches \/ f.status = "asked",
           ListSought(fetches, view.ws) => ListSought(fetches', view.ws)
    PROVE  Sidebar'
<1>1. AnswersListRight'
  BY AnswersListKept
<1>2. view.ws # None => ChannelsKept({view.ws})
  BY DEF ChannelsKept, Typed, View
<1>3. SidebarRight'
  <2>1. CASE view.ws = None
    BY <2>1 DEF SidebarRight
  <2>2. CASE view.ws # None
    BY <1>2, <2>2, SidebarKept
  <2> QED
    BY <2>1, <2>2
<1> QED
  BY <1>1, <1>3 DEF Sidebar

LEMMA GovernSidebar ==
    ASSUME IInv, Typed, Sidebar, Clear', Govern
    PROVE  Sidebar'
<1>1. UNCHANGED <<view, fetches, up, rooms, down, missed>>
  BY GovernChange DEF Change
<1>2. ChannelsInOrder /\ AnswersListRight /\ SidebarRight /\ OpenListed
  BY <1>1 DEF Sidebar, Clear
<1>3. [Next]_vars
  BY DEF Next
<1>4. Mine' \subseteq Mine
  BY <1>3, MineShrinks
<1>5. ChannelsInOrder' /\ ChannelsKept(Workspaces)
  BY <1>1, <1>2, <1>3, GovernMinds, MindsKept
<1>6. OpenListed'
  BY <1>1, <1>2 DEF OpenListed
<1> QED
  BY <1>1, <1>2, <1>4, <1>5, <1>6, StillSidebar
----------------------------------------------------------------------------
(* Announcements of channels                                               *)

LEMMA HeardSettles ==
    ASSUME NEW n \in Item, NEW c, NEW x
    PROVE  \A i \in DOMAIN Heard(n) : Heard(n)[i] \in Settles(c) =>
             n \in Raises(c) /\ (n \in Allowing(x, c) => Heard(n)[i] \in Allowing(x, c))
<1> SUFFICES ASSUME NEW i \in DOMAIN Heard(n), Heard(n)[i] \in Settles(c)
             PROVE  n \in Raises(c) /\ (n \in Allowing(x, c) => Heard(n)[i] \in Allowing(x, c))
  OBVIOUS
<1>1. Heard(n)[i] = n \/ \E e \in Also(n) : Heard(n)[i] = [n EXCEPT !.event = e]
  BY HasOne, HeardParts
<1>2. CASE Heard(n)[i] = n
  BY <1>2 DEF Raises
<1>3. ASSUME NEW e \in Also(n), Heard(n)[i] = [n EXCEPT !.event = e]
      PROVE  n \in Raises(c) /\ (n \in Allowing(x, c) => Heard(n)[i] \in Allowing(x, c))
  <2>1. PICK y : y = Heard(n)[i]
    OBVIOUS
  <2>2. /\ y \in Item /\ y.event = e /\ e \in {"workspace_revoked", "private_channels_revoked"}
        /\ y.ws = n.ws /\ y.channels = n.channels
    BY <1>3, <2>1, AlsoIs
  <2>3. e = "private_channels_revoked" /\ c \in n.channels /\ n.ws = Of[c]
    BY <2>1, <2>2 DEF Settles
  <2>4. n.event = "member_role_updated" /\ n.user = Me
    BY <2>3 DEF Also
  <2>5. n \in Raises(c)
    BY <2>3, <2>4 DEF Raises
  <2>6. n \in Allowing(x, c) => y \in Allowing(x, c)
    BY <2>2, <2>3, <2>4 DEF Allowing
  <2> QED
    BY <2>1, <2>5, <2>6
<1> QED
  BY <1>1, <1>2, <1>3

LEMMA SettlesHeard ==
    ASSUME Typed, NEW n \in Item, NEW c \in Channels, IsMember(Of[c]), n \in Raises(c), rooms # {}
    PROVE  Has(Heard(n), Settles(c))
<1>1. n.ws = Of[c] /\ Me \in rooms /\ Of[c] \in rooms
  <2>1. Of[c] \in Mine
    BY ChannelsAssumption DEF Mine
  <2> QED
    BY <2>1 DEF Typed, RoomsOK, Raises, Settles
<1>2. CASE n \in Settles(c)
  <2>1. Target(n) \in rooms
    BY <1>1 DEF Target
  <2>2. Has(Heard(n), {n})
    BY <2>1, HeardParts
  <2> QED
    BY <1>2, <2>2, HasOne
<1>3. CASE n \notin Settles(c)
  <2>1. n.event = "member_role_updated" /\ n.user = Me /\ c \in n.channels
    BY <1>3 DEF Raises
  <2>2. "private_channels_revoked" \in Also(n)
    BY <2>1 DEF Also
  <2>3. PICK x : x = [n EXCEPT !.event = "private_channels_revoked"]
    OBVIOUS
  <2>4. x \in Settles(c)
    BY <1>1, <2>1, <2>2, <2>3, AlsoIs DEF Settles
  <2>5. Has(Heard(n), {x})
    BY <1>1, <2>2, <2>3, HeardParts
  <2> QED
    BY <2>4, <2>5, HasOne
<1> QED
  BY <1>2, <1>3

\* The first of the announcements is made.
LEMMA AnnounceChannels ==
    ASSUME IInv, Typed, ChannelsInOrder, news # << >>, news' = Tail(news), UNCHANGED tables,
           down' = IF up THEN down \o Heard(Head(news)) ELSE down
    PROVE  ChannelsInOrder'
<1> DEFINE n == Head(news)
<1>1. news \in Seq(Told(role)) /\ down \in Seq(Told(role)) /\ n \in Told(role) /\ n \in Item
  BY TailIs DEF IInv, Told
<1>2. \A c \in Channels : Place(c)' = Place(c) /\ (IsMember(Of[c])' <=> IsMember(Of[c]))
  BY PlaceStays DEF tables, IsMember
<1> SUFFICES ASSUME NEW c \in Channels, IsMember(Of[c])
             PROVE  ChannelInOrder(c)'
  BY <1>2 DEF ChannelsInOrder
<1> DEFINE A == Raises(c)
           S == Settles(c)
           B == Allowing(Place(c), c)
<1>4. Ends(news, A, B) /\ (~ Has(news, A) => Ends(down, S, B))
  BY DEF ChannelsInOrder, ChannelInOrder
<1>5. Ends(Tail(news), A, B) /\ (~ Has(Tail(news), A) /\ n \in A => n \in B)
  BY <1>1, <1>4, EndsTail
<1>6. Has(news, A) <=> n \in A \/ Has(Tail(news), A)
  BY <1>1, HasTail
<1>7. ASSUME ~ Has(Tail(news), A)
      PROVE  Ends(down', S, B)
  <2>1. CASE ~ up \/ Heard(n) = << >>
    <3>1. down' = down
      BY <1>1, <2>1
    <3>2. CASE rooms = {}
      <4>1. down' = << >>
        BY <3>1, <3>2 DEF Typed, RoomsOK
      <4> QED
        BY <4>1, NothingHas
    <3>3. CASE rooms # {}
      <4>1. Heard(n) = << >>
        BY <2>1, <3>3 DEF Typed, RoomsOK
      <4>2. n \notin A
        BY <1>1, <3>3, <4>1, SettlesHeard, NothingHas
      <4> QED
        BY <1>4, <1>6, <1>7, <3>1, <4>2
    <3> QED
      BY <3>2, <3>3
  <2>2. CASE up /\ Heard(n) # << >>
    <3> DEFINE h == Heard(n)
    <3>1. /\ h \in Seq(Told(role))
          /\ \A i \in DOMAIN h : h[i] \in S => n \in A /\ (n \in B => h[i] \in B)
          /\ n \in A => Has(h, S)
      <4>1. rooms # {}
        BY <2>2, HeardNowhere
      <4> QED
        BY <1>1, <4>1, HeardType, HeardSettles, SettlesHeard
    <3>2. down' = down \o h
      BY <2>2
    <3> HIDE DEF h
    <3>3. Ends(h, S, B)
      BY <1>5, <1>7, <3>1 DEF Ends
    <3>4. Has(h, S) \/ Ends(down, S, B)
      BY <1>4, <1>6, <1>7, <3>1
    <3> QED
      BY <1>1, <3>1, <3>2, <3>3, <3>4, EndsConcat
  <2> QED
    BY <2>1, <2>2
<1>8. ChannelInOrder(c)' <=> Ends(Tail(news), A, B) /\ (~ Has(Tail(news), A) => Ends(down', S, B))
  BY <1>2 DEF ChannelInOrder
<1> QED
  BY <1>5, <1>7, <1>8

LEMMA AnnounceSidebar ==
    ASSUME IInv, Typed, Sidebar, Clear', NEW i \in DOMAIN news, Announce(i)
    PROVE  Sidebar'
<1> DEFINE n == Head(news)
<1>1. missed = {} /\ ~ (i > 1)
  BY DEF Announce, Note, Clear
<1>2. ChannelsInOrder /\ AnswersListRight /\ SidebarRight /\ OpenListed
  BY <1>1 DEF Sidebar, Clear
<1>3. news \in Seq(Told(role)) /\ down \in Seq(Told(role))
  BY DEF IInv
<1>4. news # << >> /\ news[i] = n /\ RemoveAt(news, i) = Tail(news)
  BY <1>1, <1>3, FirstIsHead
<1>5. n \in Told(role) /\ n \in Item
  BY <1>3, <1>4, TailIs DEF Told
<1>6. /\ news' = Tail(news) /\ down' = IF up THEN down \o Heard(n) ELSE down
      /\ UNCHANGED <<tables, view, up>>
      /\ fetches' = IF up /\ Heard(n) # << >> THEN fetches ELSE Overtaken(fetches)
      /\ up /\ Heard(n) = << >> => n.ws \notin view.list
  BY <1>4 DEF Announce, Note, Clear
<1> HIDE DEF n
<1>7. Mine' = Mine /\ \A c \in Channels : Place(c)' = Place(c) /\ (IsMember(Of[c])' <=> IsMember(Of[c]))
  BY <1>6, PlaceStays DEF Mine, IsMember, tables
<1>8. ChannelsInOrder'
  BY <1>2, <1>4, <1>6, AnnounceChannels DEF n
<1>9. OpenListed'
  BY <1>2, <1>6 DEF OpenListed
<1>10. \A A : Has(news, A) <=> n \in A \/ Has(Tail(news), A)
  BY <1>3, <1>4, HasTail DEF n
<1>11. \A A : Has(down, A) => Has(down', A)
  <2>1. Heard(n) \in Seq(Told(role))
    BY <1>5, HeardType
  <2> QED
    BY <1>3, <1>6, <2>1, HasConcat
\* What comes still comes, unless it was not heard.
<1>12. \A c : Awaited(c) /\ ~ Awaited(c)' => n \in Raises(c) /\ ~ Has(down', Settles(c))
  BY <1>6, <1>10, <1>11 DEF Awaited
<1>13. CASE up /\ Heard(n) # << >>
  <2> DEFINE h == Heard(n)
  <2>1. rooms # {}
    BY <1>13, HeardNowhere
  <2>2. h \in Seq(Told(role)) /\ \A c \in Channels : IsMember(Of[c]) /\ n \in Raises(c) => Has(h, Settles(c))
    BY <1>5, <2>1, HeardType, SettlesHeard
  <2>3. \A A : Has(h, A) => Has(down', A)
    BY <1>3, <1>6, <1>13, <2>2, HasConcat
  <2> HIDE DEF h
  <2>4. ChannelsKept(Workspaces)
    BY <1>7, <1>12, <2>2, <2>3 DEF ChannelsKept, ChannelKept
  <2>5. fetches' = fetches
    BY <1>6, <1>13
  <2> QED
    BY <1>2, <1>6, <1>7, <1>8, <1>9, <2>4, <2>5, StillSidebar
<1>14. CASE ~ (up /\ Heard(n) # << >>)
  <2>1. fetches' = Overtaken(fetches)
    BY <1>6, <1>14
  <2>2. AnswersListRight'
    BY <1>2, <1>7, <2>1, OvertakenListRight
  <2>3. ListSought(fetches, view.ws) => ListSought(fetches', view.ws)
    BY <2>1, OvertakenSought, WiderListSought
  <2>4. ASSUME view.ws # None, up
        PROVE  ChannelsKept({view.ws})
    <3>1. view.ws \in view.list
      BY <2>4 DEF Typed, Within
    <3>2. n.ws # view.ws
      BY <1>6, <1>14, <2>4, <3>1
    <3>3. \A c : n \in Raises(c) => n.ws = Of[c]
      BY DEF Raises, Settles
    <3> QED
      BY <1>7, <1>12, <3>2, <3>3 DEF ChannelsKept, ChannelKept
  <2>5. SidebarRight'
    <3>1. CASE view.ws = None
      BY <1>6, <3>1 DEF SidebarRight
    <3>2. CASE view.ws # None
      BY <1>2, <1>6, <1>7, <2>3, <2>4, <3>2, SidebarKept
    <3> QED
      BY <3>1, <3>2
  <2> QED
    BY <1>8, <1>9, <2>2, <2>5 DEF Sidebar
<1> QED
  BY <1>13, <1>14
----------------------------------------------------------------------------
(* Events of channels                                                      *)

LEMMA LearnsList ==
    ASSUME IInv, Typed, AnswersListRight, Mine' \subseteq Mine, NEW requests, Fresh(requests), Learn(requests)
    PROVE  /\ AnswersListRight'
           /\ \A w : ListSought(fetches, w) \/ ListSought(requests, w) => ListSought(fetches', w)
<1>1. fetches' = Overtaken(fetches) \cup requests
  BY DEF Learn, Send
<1>2. AnswersListRight'
  BY <1>1, OvertakenListRight DEF Fresh
<1>3. \A kind, w : Sought(fetches, kind, w) \/ Sought(requests, kind, w) => Sought(fetches', kind, w)
  BY <1>1, OvertakenSought, WiderSought
<1> QED
  BY <1>2, <1>3 DEF ListSought

LEMMA HandledChannels ==
    ASSUME IInv, ChannelsInOrder, NEW n \in Told(role), Handled(n), UNCHANGED tables
    PROVE  /\ ChannelsInOrder' /\ Mine' = Mine
           /\ \A c \in Channels : Place(c)' = Place(c) /\ (IsMember(Of[c])' <=> IsMember(Of[c]))
           /\ \A c : Awaited(c) /\ n \notin Settles(c) => Awaited(c)'
           /\ \A c \in Channels :
                IsMember(Of[c]) /\ n \in Settles(c) /\ ~ Awaited(c)' => n \in Allowing(Place(c), c)
<1>1. down \in Seq(Told(role)) /\ down # << >> /\ n = Head(down) /\ down' = Tail(down) /\ UNCHANGED news
  BY DEF IInv, Handled
<1>2. \A c \in Channels : Place(c)' = Place(c) /\ (IsMember(Of[c])' <=> IsMember(Of[c]))
  BY PlaceStays DEF tables, IsMember
<1>3. Mine' = Mine
  BY DEF Mine, IsMember, tables
<1>4. \A A : Has(down, A) <=> n \in A \/ Has(down', A)
  BY <1>1, HasTail
<1>5. \A c : Awaited(c) /\ n \notin Settles(c) => Awaited(c)'
  BY <1>1, <1>4 DEF Awaited
<1>6. ASSUME NEW c \in Channels, IsMember(Of[c])
      PROVE  ChannelInOrder(c)' /\ (n \in Settles(c) /\ ~ Awaited(c)' => n \in Allowing(Place(c), c))
  <2> DEFINE S == Settles(c)
             B == Allowing(Place(c), c)
  <2>1. Ends(news, Raises(c), B) /\ (~ Has(news, Raises(c)) => Ends(down, S, B))
    BY <1>6 DEF ChannelsInOrder, ChannelInOrder
  <2>2. Ends(down, S, B) => Ends(down', S, B) /\ (~ Has(down', S) /\ n \in S => n \in B)
    BY <1>1, EndsTail
  <2>3. ChannelInOrder(c)' <=> Ends(news, Raises(c), B) /\ (~ Has(news, Raises(c)) => Ends(down', S, B))
    BY <1>1, <1>2 DEF ChannelInOrder
  <2>4. Awaited(c)' <=> Has(down', S) \/ Has(news, Raises(c))
    BY <1>1 DEF Awaited
  <2> QED
    BY <2>1, <2>2, <2>3, <2>4
<1>7. ChannelsInOrder'
  BY <1>2, <1>6 DEF ChannelsInOrder
<1> QED
  BY <1>2, <1>3, <1>5, <1>6, <1>7

\* The sidebar does as it is told of the channels the event is about, and
\* leaves the others.
Obeys(n) ==
    /\ \A c \in view'.channels : c \in view.channels \/ Of[c] = view.ws
    /\ \A c \in Channels : Of[c] = view.ws =>
         IF n \in Settles(c)
           THEN \A x \in {"open", "shut"} : n \in Allowing(x, c) => (c \in view'.channels <=> x = "open")
           ELSE c \in view'.channels <=> c \in view.channels

LEMMA ListenObeys ==
    ASSUME view \in View, view.ws \in Workspaces, OpenListed,
           NEW n \in Told(role), Listen(n), ~ Evicts(n), Clear'
    PROVE  /\ view'.ws = view.ws /\ OpenListed'
           /\ Obeys(n) \/ \E requests : Fresh(requests) /\ Learn(requests) /\ ListSought(requests, view.ws)
<1> DEFINE Asks == \E requests : Fresh(requests) /\ Learn(requests) /\ ListSought(requests, view.ws)
<1>1. n \in Item /\ \A c \in n.channels : c \in Channels /\ Of[c] = n.ws
  BY DEF Told, Addressed, Item
<1>2. view = [ws |-> view.ws, saved |-> view.saved, list |-> view.list, role |-> view.role,
              users |-> view.users, channels |-> view.channels, open |-> view.open]
  BY DEF View
<1> HIDE DEF Asks
<1>3. ASSUME view'.ws = view.ws, view'.channels = view.channels, view'.open = view.open,
             \A c \in Channels : Of[c] = view.ws => n \notin Settles(c)
      PROVE  view'.ws = view.ws /\ OpenListed' /\ Obeys(n)
  BY <1>3 DEF OpenListed, Obeys
<1>4. ASSUME n.ws = view.ws, view' = [view EXCEPT !.channels = @ \cup n.channels],
             n.event \in {"added_to_channel", "channel_created"},
             n.event = "added_to_channel" => n.arg # "hidden",
             n.event = "channel_created" => n.was # "GUEST"
      PROVE  view'.ws = view.ws /\ OpenListed' /\ Obeys(n)
  <2>1. view'.ws = view.ws /\ view'.channels = view.channels \cup n.channels /\ view'.open = view.open
    BY <1>2, <1>4
  <2>2. \A c \in Channels : Of[c] = view.ws => (n \in Settles(c) <=> c \in n.channels)
    BY <1>1, <1>4 DEF Settles
  <2>3. \A c, x : n \in Allowing(x, c) => x = "open"
    BY <1>4 DEF Allowing
  <2> QED
    BY <1>1, <1>4, <2>1, <2>2, <2>3 DEF OpenListed, Obeys
<1>5. ASSUME view' = Close(view, n.channels), n.event \in {"private_channels_revoked", "channel_deleted"}
      PROVE  view'.ws = view.ws /\ OpenListed' /\ Obeys(n)
  <2>1. /\ view'.ws = view.ws /\ view'.channels = view.channels \ n.channels
        /\ view'.open = IF view.open \in n.channels THEN None ELSE view.open
    BY <1>2, <1>5 DEF Close
  <2>2. \A c \in Channels : Of[c] = view.ws => (n \in Settles(c) <=> c \in n.channels)
    BY <1>1, <1>5 DEF Settles
  <2>3. \A c, x : n \in Allowing(x, c) => x = "shut"
    BY <1>5 DEF Allowing
  <2> QED
    BY <2>1, <2>2, <2>3 DEF OpenListed, Obeys
<1>6. CASE n.event = "added_to_channel"
  <2>1. n.ws = view.ws /\ n.arg # "hidden" /\ view' = [view EXCEPT !.channels = @ \cup n.channels]
    BY <1>6 DEF Listen, handleAddedToChannel, Note, Clear
  <2> QED
    BY <1>4, <1>6, <2>1
<1>7. CASE n.event = "private_channels_revoked"
  BY <1>5, <1>7 DEF Listen
<1>8. CASE n.event = "member_kicked"
  <2>1. view'.ws = view.ws /\ view'.channels = view.channels /\ view'.open = view.open
    BY <1>2, <1>8 DEF Listen, handleMemberKicked, Evicts
  <2> QED
    BY <1>3, <1>8, <2>1 DEF Settles
<1>9. CASE n.ws # view.ws /\ n.event \notin {"added_to_channel", "private_channels_revoked", "member_kicked"}
  <2>1. view' = view
    BY <1>9 DEF Listen, Evicts
  <2> QED
    BY <1>3, <1>9, <2>1 DEF Settles
<1>10. CASE n.ws = view.ws /\ n.event = "channel_deleted"
  BY <1>5, <1>10 DEF Listen
<1>11. CASE n.ws = view.ws /\ n.event = "channel_created"
  <2>1. handleChannelCreated(n)
    BY <1>11 DEF Listen
  <2>2. (view.role = "GUEST") <=> (n.was = "GUEST")
    <3>1. ~ ((view.role = "GUEST") # (n.was = "GUEST"))
      BY <2>1 DEF handleChannelCreated, Note, Clear
    <3> QED
      BY <3>1
  <2>3. CASE n.was = "GUEST"
    <3>1. view' = view
      BY <2>1, <2>2, <2>3 DEF handleChannelCreated
    <3> QED
      BY <1>3, <1>11, <2>3, <3>1 DEF Settles
  <2>4. CASE n.was # "GUEST"
    <3>1. view' = [view EXCEPT !.channels = @ \cup n.channels]
      BY <2>1, <2>2, <2>4 DEF handleChannelCreated
    <3> QED
      BY <1>4, <1>11, <2>4, <3>1
  <2> QED
    BY <2>3, <2>4
<1>12. CASE n.ws = view.ws /\ n.event = "channel_access_updated"
  <2>1. view' = view /\ handleChannelAccessUpdated(n)
    BY <1>12 DEF Listen
  <2>2. PICK c \in n.channels :
          Learn({[Request("access", n.ws) EXCEPT !.channel = c, !.visible = n.arg = "visible"]})
    BY <2>1 DEF handleChannelAccessUpdated
  <2> DEFINE g == [Request("access", n.ws) EXCEPT !.channel = c, !.visible = n.arg = "visible"]
  <2>3. g.kind = "access" /\ g.ws = n.ws /\ g.status = "asked"
    BY DEF Request
  <2> HIDE DEF g
  <2>4. Fresh({g}) /\ ListSought({g}, view.ws)
    BY <1>12, <2>3 DEF Fresh, ListSought, ListKinds, Sought, Seeks
  <2>5. Asks
    BY <2>2, <2>4 DEF Asks, g
  <2> QED
    BY <2>1, <2>5 DEF OpenListed, Asks
<1>13. CASE n.ws = view.ws /\ n.event = "member_role_updated"
  <2>1. handleRoleUpdated(n)
    BY <1>13 DEF Listen
  <2>2. view'.ws = view.ws /\ view'.channels = view.channels /\ view'.open = view.open
    BY <1>2, <2>1 DEF handleRoleUpdated
  <2>3. CASE n.user = Me /\ view.role = "GUEST" /\ n.arg # "GUEST"
    <3> DEFINE g == [Request("promotion", n.ws) EXCEPT !.kept = view.users]
    <3>1. Learn({g})
      BY <2>1, <2>3 DEF handleRoleUpdated
    <3>2. g.kind = "promotion" /\ g.ws = n.ws /\ g.status = "asked"
      BY DEF Request
    <3> HIDE DEF g
    <3>3. Fresh({g}) /\ ListSought({g}, view.ws)
      BY <1>13, <3>2 DEF Fresh, ListSought, ListKinds, Sought, Seeks
    <3>4. Asks
      BY <3>1, <3>3 DEF Asks
    <3> QED
      BY <2>2, <3>4 DEF OpenListed, Asks
  <2>4. CASE ~ (n.user = Me /\ view.role = "GUEST" /\ n.arg # "GUEST")
    <3>1. ~ (n.user = Me /\ n.was = "GUEST" /\ n.arg # "GUEST")
      BY <2>1, <2>4 DEF handleRoleUpdated, Note, Clear
    <3> QED
      BY <1>3, <1>13, <2>2, <3>1 DEF Settles
  <2> QED
    BY <2>3, <2>4
<1>14. CASE n.ws = view.ws /\ n.event = "workspace_ownership_transferred"
  <2>1. handleWorkspaceOwnershipTransferred(n)
    BY <1>14 DEF Listen
  <2>2. view'.ws = view.ws /\ view'.channels = view.channels /\ view'.open = view.open
    BY <1>2, <2>1 DEF handleWorkspaceOwnershipTransferred
  <2>3. ~ (n.user = Me /\ n.was = "GUEST")
    BY <2>1 DEF handleWorkspaceOwnershipTransferred, Note, Clear
  <2> QED
    BY <1>3, <1>14, <2>2, <2>3 DEF Settles
<1>15. CASE n.ws = view.ws /\ n.event = "workspace_member_joined"
  <2>1. view' = [view EXCEPT !.users = @ \cup {n.user}]
    BY <1>15 DEF Listen
  <2>2. view'.ws = view.ws /\ view'.channels = view.channels /\ view'.open = view.open
    BY <1>2, <2>1
  <2> QED
    BY <1>3, <1>15, <2>2 DEF Settles
<1>16. n.event \notin {"workspace_deleted", "workspace_revoked"}
  BY DEF Evicts
<1> QED
  BY <1>1, <1>6, <1>7, <1>8, <1>9, <1>10, <1>11, <1>12, <1>13, <1>14, <1>15, <1>16 DEF Item
LEMMA HandleSidebar ==
    ASSUME IInv, Typed, Sidebar, Clear', view.ws # None, Handle
    PROVE  Sidebar'
<1> DEFINE n == Head(down)
<1>1. missed \subseteq missed'
  BY DEF Handle, Listen, handleRoleUpdated, handleWorkspaceOwnershipTransferred, handleAddedToChannel,
         handleChannelCreated, Note
<1>2. ChannelsInOrder /\ AnswersListRight /\ SidebarRight /\ OpenListed
  BY <1>1 DEF Sidebar, Clear
<1>3. n \in Told(role) /\ n \in Item
  BY TailIs DEF IInv, Handle, Told
<1>4. Listen(n) /\ Handled(n) /\ UNCHANGED <<tables, up>>
  BY <1>1 DEF Handle, Handled, tables
<1> HIDE DEF n
<1>5. /\ ChannelsInOrder' /\ Mine' = Mine
      /\ \A c \in Channels : Place(c)' = Place(c) /\ (IsMember(Of[c])' <=> IsMember(Of[c]))
      /\ \A c : Awaited(c) /\ n \notin Settles(c) => Awaited(c)'
      /\ \A c \in Channels :
           IsMember(Of[c]) /\ n \in Settles(c) /\ ~ Awaited(c)' => n \in Allowing(Place(c), c)
  BY <1>2, <1>3, <1>4, HandledChannels
<1>6. AnswersListRight' /\ \A w : ListSought(fetches, w) => ListSought(fetches', w)
  <2>1. PICK requests : Fresh(requests) /\ Learn(requests)
    BY <1>4, ListenLearns
  <2> QED
    BY <1>2, <1>5, <2>1, LearnsList
<1>7. view.ws \in Workspaces /\ view \in View
  BY DEF Typed, View
<1>8. CASE Evicts(n) /\ view.ws # n.ws
  <2>1. Evict(n.ws)
    BY <1>4, <1>8 DEF Listen, handleMemberKicked, Evicts
  <2>2. view'.ws = view.ws /\ view'.channels = view.channels /\ view'.open = view.open
    BY <1>7, <1>8, <2>1 DEF Evict, View
  <2>3. ChannelsKept({view.ws})
    <3>1. \A c : n \in Settles(c) => n.ws = Of[c]
      BY DEF Settles
    <3> QED
      BY <1>5, <1>8, <3>1 DEF ChannelsKept, ChannelKept
  <2>4. SidebarRight'
    BY <1>2, <1>4, <1>5, <1>6, <2>2, <2>3, SidebarKept
  <2>5. OpenListed'
    BY <1>2, <2>2 DEF OpenListed
  <2> QED
    BY <1>5, <1>6, <2>4, <2>5 DEF Sidebar
<1>9. CASE Evicts(n) /\ view.ws = n.ws
  <2>1. Evict(n.ws)
    BY <1>4, <1>9 DEF Listen, handleMemberKicked, Evicts
  <2>2. PICK left, next : /\ view' = [Activate(view, next) EXCEPT !.list = left, !.channels = {}]
                          /\ IF next = None THEN Learn({}) ELSE Learn(Hydration(next))
    BY <1>9, <2>1 DEF Evict
  <2>3. view'.ws = next /\ view'.channels = {} /\ view'.open = None
    BY <1>7, <2>2 DEF Activate, View
  <2>4. next # None => ListSought(fetches', next)
    <3> SUFFICES ASSUME next # None PROVE ListSought(fetches', next)
      OBVIOUS
    <3>1. Learn(Hydration(next))
      BY <2>2
    <3> QED
      BY <1>2, <1>5, <3>1, HydrationFresh, HydrationSeeksList, LearnsList
  <2>5. SidebarRight' /\ OpenListed'
    BY <2>3, <2>4 DEF SidebarRight, OpenListed
  <2> QED
    BY <1>5, <1>6, <2>5 DEF Sidebar
<1>10. CASE ~ Evicts(n)
  <2>1. /\ view'.ws = view.ws /\ OpenListed'
        /\ Obeys(n) \/ \E requests : Fresh(requests) /\ Learn(requests) /\ ListSought(requests, view.ws)
    BY <1>2, <1>3, <1>4, <1>7, <1>10, ListenObeys
  <2>2. ASSUME NEW requests, Fresh(requests), Learn(requests), ListSought(requests, view.ws)
        PROVE  ListSought(fetches', view.ws)
    BY <1>2, <1>5, <2>2, LearnsList
  <2>3. ASSUME Obeys(n), ListRight(view.channels, view.ws), up
        PROVE  ListRight(view.channels, view.ws)'
    <3>1. PICK w : w = view.ws /\ w = view'.ws
      BY <2>1
    <3>2. PICK shown : shown = view'.channels
      OBVIOUS
    <3>3. IsMember(w)' => IsMember(w)
      BY <1>4 DEF IsMember, tables
    <3>4. ASSUME IsMember(w)
          PROVE  \A c \in shown : Of[c] = w
      BY <2>3, <3>1, <3>2, <3>4 DEF Obeys, ListRight
    <3>5. ASSUME IsMember(w), NEW c \in Channels, Of[c] = w, ~ Awaited(c)'
          PROVE  c \in shown <=> Place(c)' = "open"
      <4>1. Place(c)' = Place(c) /\ Place(c) \in {"open", "shut"}
        BY <1>5 DEF Place
      <4>2. CASE n \in Settles(c)
        <5>1. n \in Allowing(Place(c), c)
          BY <1>5, <3>5, <4>2
        <5> QED
          BY <2>3, <3>1, <3>2, <3>5, <4>1, <4>2, <5>1 DEF Obeys
      <4>3. CASE n \notin Settles(c)
        <5>1. ~ Awaited(c)
          BY <1>5, <3>5, <4>3
        <5>2. c \in view.channels <=> Place(c) = "open"
          BY <2>3, <3>1, <3>5, <5>1 DEF ListRight
        <5> QED
          BY <2>3, <3>1, <3>2, <3>5, <4>1, <4>3, <5>2 DEF Obeys
      <4> QED
        BY <4>2, <4>3
    <3>6. ListRight(shown, w)'
      BY <3>3, <3>4, <3>5 DEF ListRight
    <3> QED
      BY <3>1, <3>2, <3>6 DEF ListRight
  <2>4. SidebarRight'
    <3>1. up' <=> up
      BY <1>4
    <3>2. ListSought(fetches, view.ws) => ListSought(fetches', view.ws)
      BY <1>6
    <3> QED
      BY <1>2, <2>1, <2>2, <2>3, <3>1, <3>2 DEF SidebarRight
  <2> QED
    BY <1>5, <1>6, <2>1, <2>4 DEF Sidebar
<1> QED
  BY <1>8, <1>9, <1>10

----------------------------------------------------------------------------
(* Requests for channels and their answers                                 *)

LEMMA BecomesListRight ==
    ASSUME IInv, Typed, Mine' \subseteq Mine, AnswersListRight, ChannelsKept(Workspaces),
           NEW f \in fetches, NEW status \in {"given", "refused"}, NEW answer, Becomes(f, status, answer),
           LET g == [f EXCEPT !.status = status, !.answer = answer] IN AnswerListRight(g)'
    PROVE  /\ AnswersListRight'
           /\ \A w : ListSought(fetches, w) =>
                ListSought(fetches', w) \/ (f.kind \in ListKinds /\ f.ws = w /\ status = "refused")
<1> DEFINE g == [f EXCEPT !.status = status, !.answer = answer]
<1>1. fetches' = (fetches \ {f}) \cup {g} /\ AnswerListRight(g)'
  BY DEF Becomes
<1>2. g.kind = f.kind /\ g.ws = f.ws /\ g.status = status
  BY DEF IInv, AllAsked, Asked
<1> HIDE DEF g
<1>3. AnswersListRight'
  <2> SUFFICES ASSUME NEW h \in fetches \ {f}
               PROVE  AnswerListRight(h)'
    BY <1>1 DEF AnswersListRight
  <2> QED
    BY AnswerListKept DEF AnswersListRight
<1>4. ASSUME NEW w, NEW kind \in ListKinds, NEW h \in fetches, Seeks(h, kind, w)
      PROVE  Sought(fetches', kind, w) \/ (f.kind \in ListKinds /\ f.ws = w /\ status = "refused")
  <2>1. CASE h # f
    BY <1>1, <1>4, <2>1 DEF Sought
  <2>2. CASE h = f
    BY <1>1, <1>2, <1>4, <2>2 DEF Sought, Seeks
  <2> QED
    BY <2>1, <2>2
<1> QED
  BY <1>3, <1>4 DEF ListSought, Sought

LEMMA AnswerSidebar ==
    ASSUME IInv, Typed, Sidebar, Clear', NEW f \in fetches, Answer(f), view.ws # None
    PROVE  Sidebar'
<1>1. UNCHANGED <<tables, role, view, up, rooms, news, down, missed>> /\ f.status = "asked"
  BY DEF Answer, tables, socket
<1>2. ChannelsInOrder /\ AnswersListRight /\ SidebarRight /\ OpenListed
  BY <1>1 DEF Sidebar, Clear
<1>3. \A c \in Channels : Place(c)' = Place(c)
  BY <1>1, PlaceStays DEF tables
<1>4. Mine' = Mine /\ ChannelsInOrder' /\ ChannelsKept(Workspaces)
  BY <1>1, <1>2, <1>3, CalmChannels
<1>5. Asked(f, role) /\ Shaped(f)
  BY DEF IInv, AllAsked, Typed, AllShaped
<1>6. \A x, y, z : x = [f EXCEPT !.status = y, !.answer = z] =>
                     x.kind = f.kind /\ x.ws = f.ws /\ x.status = y /\ x.answer = z
  BY <1>5 DEF Asked
<1>7. /\ AnswersListRight'
      /\ \A w : ListSought(fetches, w) =>
           ListSought(fetches', w) \/ (f.kind \in ListKinds /\ f.ws = w /\ Refused(f))
  <2>1. CASE Refused(f)
    <3> DEFINE g == [f EXCEPT !.status = "refused", !.answer = Nothing]
    <3>1. Becomes(f, "refused", Nothing)
      BY <2>1 DEF Answer
    <3>2. g.kind = f.kind /\ g.ws = f.ws /\ g.status = "refused"
      BY <1>6
    <3> HIDE DEF g
    <3>3. f.kind \in ListKinds => ~ IsMember(f.ws)
      BY <2>1 DEF Refused, ListKinds
    <3>4. AnswerListRight(g)'
      BY <1>1, <3>2, <3>3 DEF AnswerListRight, IsMember
    <3> QED
      BY <1>2, <1>4, <2>1, <3>1, <3>4, BecomesListRight DEF g
  <2>2. ASSUME NEW answer, ~ Refused(f), Becomes(f, "given", answer), f.kind # "create",
               f.kind \in ListKinds => answer.ids = getWorkspaceChannels(f.ws)
        PROVE  AnswersListRight' /\ \A w : ListSought(fetches, w) => ListSought(fetches', w)
    <3> DEFINE g == [f EXCEPT !.status = "given", !.answer = answer]
    <3>1. g.kind = f.kind /\ g.ws = f.ws /\ g.status = "given" /\ g.answer = answer
      <4>1. PICK x : x = [f EXCEPT !.status = "given", !.answer = answer]
        OBVIOUS
      <4>2. x.kind = f.kind /\ x.ws = f.ws /\ x.status = "given" /\ x.answer = answer
        BY <1>5, <4>1, Completed DEF Asked
      <4> QED
        BY <4>1, <4>2
    <3> HIDE DEF g
    <3>2. PICK cs, w : cs = getWorkspaceChannels(w) /\ w = f.ws
      OBVIOUS
    <3>3. \A c \in Channels : Of[c] = w => (c \in cs <=> Place(c)' = "open")
      BY <1>3, <3>2 DEF Place
    <3>4. \A c \in cs : Of[c] = w
      BY <3>2 DEF getWorkspaceChannels, ChannelsOf
    <3>5. ListRight(cs, w)'
      BY <3>3, <3>4 DEF ListRight
    <3>6. AnswerListRight(g)'
      BY <2>2, <3>1, <3>2, <3>5 DEF AnswerListRight
    <3> QED
      BY <1>2, <1>4, <2>2, <3>6, BecomesListRight DEF g
  <2>3. CASE ~ Refused(f) /\ f.kind \in {"workspaces", "members"}
    <3>1. PICK answer : Becomes(f, "given", answer)
      BY <2>3 DEF Answer
    <3> QED
      BY <2>2, <2>3, <3>1 DEF ListKinds
  <2>4. CASE ~ Refused(f) /\ f.kind \notin {"workspaces", "members"}
    <3> DEFINE answer == [Nothing EXCEPT !.ids = getWorkspaceChannels(f.ws)]
    <3>1. Becomes(f, "given", answer) /\ f.kind # "create"
      BY <2>4 DEF Answer
    <3>2. answer.ids = getWorkspaceChannels(f.ws)
      BY DEF Nothing
    <3> HIDE DEF answer
    <3> QED
      BY <2>2, <2>4, <3>1, <3>2
  <2> QED
    BY <2>1, <2>3, <2>4
<1>8. ListSought(fetches, view.ws) => ListSought(fetches', view.ws) \/ ~ IsMember(view.ws)'
  BY <1>1, <1>7 DEF Refused, ListKinds, IsMember
<1>9. SidebarRight'
  <2>1. ChannelsKept({view.ws})
    BY <1>4 DEF ChannelsKept, Typed, View
  <2> QED
    BY <1>1, <1>2, <1>4, <1>8, <2>1, SidebarKept
<1>10. OpenListed'
  BY <1>1, <1>2 DEF OpenListed
<1> QED
  BY <1>4, <1>7, <1>9, <1>10 DEF Sidebar
LEMMA CreateSidebar ==
    ASSUME IInv, Typed, Sidebar, Clear', NEW f \in fetches, AnswerCreate(f), view.ws # None
    PROVE  Sidebar'
<1>1. /\ UNCHANGED <<view, up, rooms, down, missed>> /\ f.kind = "create" /\ Insert(f.channel, TRUE)
      /\ ~ Refused(f) /\ Becomes(f, "given", [Nothing EXCEPT !.ids = {f.channel}])
  BY DEF AnswerCreate
<1>2. ChannelsInOrder /\ AnswersListRight /\ SidebarRight /\ OpenListed
  BY <1>1 DEF Sidebar, Clear
<1>3. [Next]_vars
  BY DEF Next, Browse
<1>4. Mine' \subseteq Mine
  BY <1>3, MineShrinks
<1>5. f.channel \in Channels /\ f.ws = Of[f.channel]
  BY <1>1 DEF Typed, AllShaped, Shaped
<1>6. role[Of[f.channel]][Me] \notin {"GUEST", "none"}
  BY <1>1, <1>5 DEF Refused, IsMember
<1>7. (Unseen \/ \E n : Minds(n)) /\ Place(f.channel)' = "open"
  BY <1>1, <1>5, <1>6, InsertMinds
<1>8. ChannelsInOrder' /\ ChannelsKept(Workspaces)
  BY <1>1, <1>2, <1>3, <1>7, MindsKept
<1>9. AnswersListRight' /\ \A w : ListSought(fetches, w) => ListSought(fetches', w)
  <2> DEFINE g == [f EXCEPT !.status = "given", !.answer = [Nothing EXCEPT !.ids = {f.channel}]]
  <2>1. g.kind = "create" /\ g.status = "given" /\ g.channel = f.channel
    BY <1>1 DEF IInv, AllAsked, Asked
  <2> HIDE DEF g
  <2>2. AnswerListRight(g)'
    BY <1>7, <2>1 DEF AnswerListRight, ListKinds
  <2> QED
    BY <1>1, <1>2, <1>4, <1>8, <2>2, BecomesListRight DEF g
<1>10. SidebarRight'
  <2>1. ChannelsKept({view.ws})
    BY <1>8 DEF ChannelsKept, Typed, View
  <2> QED
    BY <1>1, <1>2, <1>4, <1>9, <2>1, SidebarKept
<1>11. OpenListed'
  BY <1>1, <1>2 DEF OpenListed
<1> QED
  BY <1>8, <1>9, <1>10, <1>11 DEF Sidebar

\* To who is no guest reading opens no channel that was shut.
LEMMA ReadSidebar ==
    ASSUME Typed, Sidebar, Clear', NEW f \in fetches, AnswerRead(f) \/ FetchFails(f)
    PROVE  Sidebar'
<1>1. AnswerRead(f)
  BY DEF FetchFails, Note, Clear
<1>2. /\ UNCHANGED <<role, channel, view, up, news, down>> /\ f.kind = "read" /\ ~ Refused(f)
      /\ fetches' = fetches \ {f} /\ missed = {}
      /\ access' = [access EXCEPT ![f.channel] = IF access[f.channel] = "none" THEN "visible" ELSE @]
      /\ ~ (access[f.channel] = "none" /\ role[f.ws][Me] = "GUEST")
  BY <1>1 DEF AnswerRead, socket, Note, Clear
<1>3. ChannelsInOrder /\ AnswersListRight /\ SidebarRight /\ OpenListed
  BY <1>2 DEF Sidebar, Clear
<1>4. f.ws = Of[f.channel] /\ f.channel \in Channels
  BY <1>2 DEF Typed, AllShaped, Shaped
<1>5. ASSUME NEW c \in Channels
      PROVE  Place(c)' = Place(c)
  <2>1. CASE c # f.channel \/ access[c] # "none"
    <3>1. access'[c] = access[c]
      BY <1>2, <2>1 DEF Typed, TablesOK
    <3> QED
      BY <1>2, <3>1, PlaceStays
  <2>2. CASE c = f.channel /\ access[c] = "none"
    <3>1. access'[c] = "visible"
      BY <1>2, <2>2 DEF Typed, TablesOK
    <3>2. c \notin Private /\ role[Of[c]][Me] # "GUEST"
      BY <1>2, <1>4, <2>2 DEF Refused
    <3> QED
      BY <1>2, <2>2, <3>1, <3>2, PlaceIs DEF Spot
  <2> QED
    BY <2>1, <2>2
<1>6. Mine' = Mine /\ ChannelsInOrder' /\ ChannelsKept(Workspaces)
  BY <1>2, <1>3, <1>5, CalmChannels
<1>7. ListSought(fetches, view.ws) => ListSought(fetches', view.ws)
  BY <1>2 DEF ListSought, ListKinds, Sought, Seeks
<1>8. OpenListed'
  BY <1>2, <1>3 DEF OpenListed
<1> QED
  BY <1>2, <1>3, <1>6, <1>7, <1>8, StillSidebar

LEMMA ActSidebar ==
    ASSUME IInv, Typed, Sidebar, Clear', view.ws # None,
           \/ \E w \in Workspaces : switch(w)
           \/ \E c \in Channels : handleChannelSelect(c) \/ handleCreate(c)
           \/ JoinRooms
    PROVE  Sidebar'
<1>1. UNCHANGED <<tables, role, news, down, up, missed>>
  BY DEF switch, handleChannelSelect, handleCreate, JoinRooms, tables, socket
<1>2. ChannelsInOrder /\ AnswersListRight /\ SidebarRight /\ OpenListed
  BY <1>1 DEF Sidebar, Clear
<1>3. \A c \in Channels : Place(c)' = Place(c)
  BY <1>1, PlaceStays DEF tables
<1>4. Mine' = Mine /\ ChannelsInOrder' /\ ChannelsKept(Workspaces)
  BY <1>1, <1>2, <1>3, CalmChannels
<1>5. CASE \E w \in Workspaces : switch(w)
  <2>1. PICK w \in view.list : view' = Activate(view, w) /\ fetches' = fetches \cup Hydration(w)
    BY <1>5 DEF switch, Ask, Send
  <2>2. view'.ws = w /\ view'.open = None
    BY <2>1 DEF Activate, Typed, View
  <2>3. AnswersListRight'
    BY <1>2, <1>4, <2>1, HydrationFresh, AnswersListKept DEF Fresh
  <2>4. ListSought(fetches', w)
    BY <2>1, HydrationSeeksList, WiderSought DEF ListSought
  <2> QED
    BY <1>4, <2>2, <2>3, <2>4 DEF Sidebar, SidebarRight, OpenListed
<1>6. CASE \E c \in Channels : handleChannelSelect(c) \/ handleCreate(c)
  <2>1. /\ view'.ws = view.ws /\ view'.channels = view.channels
        /\ view'.open = view.open \/ view'.open \in view.channels
    BY <1>6 DEF handleChannelSelect, handleCreate, Typed, View
  <2>2. PICK requests : Fresh(requests) /\ fetches' = fetches \cup requests
    <3>1. \A c : /\ Fresh({[Request("read", Of[c]) EXCEPT !.channel = c]})
                 /\ Fresh({[Request("create", view.ws) EXCEPT !.kept = view.channels, !.channel = c]})
      BY DEF Fresh, Request
    <3> QED
      BY <1>6, <3>1 DEF handleChannelSelect, handleCreate, Ask, Send
  <2>3. ListSought(fetches, view.ws) => ListSought(fetches', view.ws)
    BY <2>2, WiderSought, WiderListSought
  <2>4. OpenListed'
    BY <1>2, <2>1 DEF OpenListed
  <2> QED
    BY <1>1, <1>2, <1>4, <2>1, <2>2, <2>3, <2>4, StillSidebar DEF Fresh
<1>7. CASE JoinRooms
  <2>1. UNCHANGED <<view, fetches>>
    BY <1>7 DEF JoinRooms
  <2>2. OpenListed'
    BY <1>2, <2>1 DEF OpenListed
  <2> QED
    BY <1>1, <1>2, <1>4, <2>1, <2>2, StillSidebar
<1> QED
  BY <1>5, <1>6, <1>7

\* What the socket had to tell is asked for when there is another.
LEMMA CutSidebar ==
    ASSUME IInv, Typed, Sidebar, Clear', Drop \/ Renew
    PROVE  Sidebar'
<1>1. /\ UNCHANGED <<tables, news>> /\ down' = << >> /\ up' = FALSE /\ missed \subseteq missed'
      /\ view'.channels = view.channels /\ view'.open = view.open
  BY DEF Drop, Renew, Cut, Note, Typed, View
<1>2. ChannelsInOrder /\ AnswersListRight /\ SidebarRight /\ OpenListed
  BY <1>1 DEF Sidebar, Clear
<1>3. \A c \in Channels : Place(c)' = Place(c) /\ (IsMember(Of[c])' <=> IsMember(Of[c]))
  BY <1>1, PlaceStays DEF tables, IsMember
<1>4. Mine' = Mine
  BY <1>1 DEF Mine, IsMember, tables
<1>5. ChannelsInOrder'
  BY <1>1, <1>2, <1>3, NothingHas DEF ChannelsInOrder, ChannelInOrder
<1>6. PICK requests : Fresh(requests) /\ Learn(requests)
  <2>1. Fresh({}) /\ Fresh({Request("workspaces", None)} \cup Hydration(view.ws))
    BY HydrationFresh DEF Fresh, Request
  <2> QED
    BY <2>1 DEF Drop, Renew
<1>7. AnswersListRight'
  BY <1>2, <1>4, <1>6, LearnsList
<1> QED
  BY <1>1, <1>2, <1>5, <1>7 DEF Sidebar, SidebarRight, OpenListed

LEMMA ConnectSidebar ==
    ASSUME IInv, Typed, Sidebar, Clear', view.ws # None, Connect
    PROVE  Sidebar'
<1>1. UNCHANGED <<tables, role, news, down, view, missed>> /\ fetches' = fetches \cup Hydration(view.ws)
  BY DEF Connect, Ask, Send, tables
<1>2. ChannelsInOrder /\ AnswersListRight /\ OpenListed
  BY <1>1 DEF Sidebar, Clear
<1>3. \A c \in Channels : Place(c)' = Place(c)
  BY <1>1, PlaceStays DEF tables
<1>4. Mine' = Mine /\ ChannelsInOrder' /\ ChannelsKept(Workspaces)
  BY <1>1, <1>2, <1>3, CalmChannels
<1>5. AnswersListRight'
  BY <1>1, <1>2, <1>4, HydrationFresh, AnswersListKept DEF Fresh
<1>6. ListSought(fetches', view.ws)
  BY <1>1, HydrationSeeksList, WiderSought DEF ListSought
<1> QED
  BY <1>1, <1>2, <1>4, <1>5, <1>6 DEF Sidebar, SidebarRight, OpenListed
\* An answer replaces the sidebar by what is so, or leaves it.
LEMMA ApplySidebar ==
    ASSUME IInv, Typed, Sidebar, Clear', view.ws # None, NEW f \in fetches, Apply(f)
    PROVE  Sidebar'
<1>1. UNCHANGED <<tables, role, news, down, up>>
  BY DEF Apply, tables, socket
<1>2. /\ f.status # "asked" /\ view' \in Shown(f)
      /\ fetches' = (fetches \ {f}) \cup (IF view'.ws \in {view.ws, None} THEN {} ELSE Hydration(view'.ws))
      /\ missed = {} /\ Misled(f) = {} /\ OpenListed'
  BY DEF Apply, Send, Note, Clear, OpenListed
<1>3. ChannelsInOrder /\ AnswersListRight /\ SidebarRight /\ OpenListed
  BY <1>2 DEF Sidebar, Clear
<1>4. \A c \in Channels : Place(c)' = Place(c)
  BY <1>1, PlaceStays DEF tables
<1>5. Mine' = Mine /\ ChannelsInOrder' /\ ChannelsKept(Workspaces)
  BY <1>1, <1>3, <1>4, CalmChannels
<1>6. AnswersListRight'
  BY <1>2, <1>3, <1>5, HydrationFresh, AnswersListKept DEF Fresh
<1>7. Asked(f, role) /\ Shaped(f) /\ AnswerListRight(f)
  BY <1>3 DEF IInv, AllAsked, Typed, AllShaped, AnswersListRight
<1>8. f.status \in {"given", "refused"}
  BY <1>2, <1>7 DEF Shaped, AnswerListRight
<1>9. /\ f.status = "given" => ~ f.late
      /\ f.kind # "workspaces" /\ f.status = "given" => f.ws = view.ws
      /\ f.kind = "create" /\ f.status = "given" => f.kept = view.channels \ f.answer.ids
  BY <1>2 DEF Misled
<1>10. f.kind \notin ListKinds \/ f.status = "refused" =>
         (ListSought(fetches, view.ws) => ListSought(fetches', view.ws))
  BY <1>2 DEF ListSought, Sought, Seeks
<1>11. view.ws \in Workspaces /\ ChannelsKept({view.ws})
  BY <1>5 DEF ChannelsKept, Typed, View
<1>12. ASSUME view'.ws = view.ws, view'.channels = view.channels, f.kind \notin ListKinds \/ f.status = "refused"
       PROVE  SidebarRight'
  BY <1>1, <1>3, <1>5, <1>10, <1>11, <1>12, SidebarKept
<1>13. CASE f.kind \in {"workspaces", "members", "create", "read"} /\ f.status = "refused"
  <2>1. view' = view
    BY <1>2, <1>13 DEF Shown
  <2> QED
    BY <1>2, <1>5, <1>6, <1>12, <1>13, <2>1 DEF Sidebar
<1>14. CASE f.kind \in ListKinds /\ f.status = "refused"
  <2>1. view'.ws = view.ws /\ view'.channels = view.channels
    BY <1>2, <1>14 DEF Shown, ListKinds, Typed, View
  <2> QED
    BY <1>2, <1>5, <1>6, <1>12, <1>14, <2>1 DEF Sidebar
<1>15. CASE f.kind \in ListKinds /\ f.status = "given"
  <2>1. view'.ws = view.ws /\ view'.channels = f.answer.ids
    BY <1>2, <1>15 DEF Shown, ListKinds, Typed, View
  <2>2. PICK cs, w : cs = f.answer.ids /\ w = view.ws
    OBVIOUS
  <2>3. ListRight(cs, w)'
    BY <1>5, <1>7, <1>9, <1>11, <1>15, <2>2, ListKept DEF AnswerListRight, ListKinds
  <2>4. SidebarRight'
    BY <2>1, <2>2, <2>3 DEF SidebarRight, ListRight
  <2> QED
    BY <1>2, <1>5, <1>6, <2>4 DEF Sidebar
<1>16. CASE f.kind = "members" /\ f.status = "given"
  <2>1. view'.ws = view.ws /\ view'.channels = view.channels
    BY <1>2, <1>16 DEF Shown, Typed, View
  <2> QED
    BY <1>2, <1>5, <1>6, <1>12, <1>16, <2>1 DEF Sidebar, ListKinds
<1>17. CASE f.kind = "create" /\ f.status = "given"
  <2>1. f.answer.ids = {f.channel} /\ f.ws = Of[f.channel] /\ f.channel \in Channels /\ f.ws = view.ws
    BY <1>7, <1>9, <1>17 DEF Shaped
  <2>2. view'.ws = view.ws /\ view'.channels = view.channels \cup {f.channel}
    <3>1. view' = [view EXCEPT !.channels = f.kept \cup f.answer.ids]
      BY <1>2, <1>17 DEF Shown
    <3> QED
      BY <1>9, <1>17, <2>1, <3>1 DEF Typed, View
  <2>3. ~ IsMember(view.ws) \/ Awaited(f.channel) \/ Place(f.channel) = "open"
    BY <1>7, <1>9, <1>17, <2>1 DEF AnswerListRight
  <2>4. ListSought(fetches, view.ws) => ListSought(fetches', view.ws)
    BY <1>10, <1>17 DEF ListKinds
  <2>5. ASSUME ListRight(view.channels, view.ws)
        PROVE  ListRight(view.channels, view.ws)'
    <3>1. PICK cs, w : cs = view.channels \cup {f.channel} /\ w = view.ws
      OBVIOUS
    <3>2. ListRight(cs, w)
      BY <2>1, <2>3, <2>5, <3>1 DEF ListRight
    <3>3. ListRight(cs, w)'
      BY <1>5, <1>11, <3>1, <3>2, ListKept
    <3> QED
      BY <2>2, <3>1, <3>3 DEF ListRight
  <2>6. SidebarRight'
    BY <1>1, <1>3, <2>2, <2>4, <2>5 DEF SidebarRight
  <2> QED
    BY <1>2, <1>5, <1>6, <2>6 DEF Sidebar
<1>18. CASE f.kind = "workspaces" /\ f.status = "given"
  <2>1. CASE f.answer.ids = {}
    <3>1. view'.ws = None
      BY <1>2, <1>18, <2>1 DEF Shown, Typed, View
    <3> QED
      BY <1>2, <1>5, <1>6, <3>1 DEF Sidebar, SidebarRight
  <2>2. CASE f.answer.ids # {}
    <3>1. PICK w \in IF view.saved \in f.answer.ids THEN {view.saved} ELSE f.answer.ids :
            view' = [(IF w = view.ws THEN view ELSE Activate(view, w)) EXCEPT !.list = f.answer.ids]
      BY <1>2, <1>18, <2>2 DEF Shown
    <3>2. view'.ws = w /\ view'.channels = view.channels
      BY <3>1 DEF Activate, Typed, View
    <3>3. CASE w = view.ws
      BY <1>2, <1>5, <1>6, <1>12, <1>18, <3>2, <3>3 DEF Sidebar, ListKinds
    <3>4. CASE w # view.ws
      <4>1. w # None
        BY <1>7, <1>18, <3>1, ChannelsAssumption DEF Asked
      <4>2. Hydration(w) \subseteq fetches'
        BY <1>2, <3>2, <3>4, <4>1
      <4>3. ListSought(fetches', w)
        BY <4>2, HydrationSeeksList, WiderSought DEF ListSought
      <4> QED
        BY <1>2, <1>5, <1>6, <3>2, <4>3 DEF Sidebar, SidebarRight
    <3> QED
      BY <3>3, <3>4
  <2> QED
    BY <2>1, <2>2
<1>19. f.kind \in ListKinds \cup {"workspaces", "members", "create", "read"} /\ (f.kind = "read" => f.status # "given")
  BY <1>7 DEF Asked, Kinds, ListKinds
<1> QED
  BY <1>8, <1>13, <1>14, <1>15, <1>16, <1>17, <1>18, <1>19

----------------------------------------------------------------------------
LEMMA InitSidebar == Init => Sidebar
<1> SUFFICES ASSUME Init PROVE Sidebar
  OBVIOUS
<1>1. news = << >> /\ down = << >> /\ fetches = {}
  BY DEF Init
<1>2. ChannelsInOrder
  BY <1>1, NothingHas DEF ChannelsInOrder, ChannelInOrder
<1>3. AnswersListRight
  BY <1>1 DEF AnswersListRight
<1>4. PICK w \in Mine : \E open \in getWorkspaceChannels(w) \cup {None} :
        view = [ws |-> w, saved |-> w, list |-> Mine, role |-> role[w][Me], users |-> Others(w),
                channels |-> getWorkspaceChannels(w), open |-> open]
  BY DEF Init
<1>5. view.ws = w /\ view.channels = getWorkspaceChannels(w) /\ OpenListed
  BY <1>4 DEF OpenListed
<1>6. ListRight(getWorkspaceChannels(w), w)
  BY DEF ListRight, Place, getWorkspaceChannels, ChannelsOf
<1> QED
  BY <1>2, <1>3, <1>5, <1>6 DEF Sidebar, SidebarRight

LEMMA SidebarStep ==
    ASSUME IInv, Typed, Sidebar, [Next]_vars
    PROVE  Sidebar'
<1> SUFFICES ASSUME Clear'
             PROVE  Sidebar'
  BY DEF Sidebar
<1>1. CASE Govern
  BY <1>1, GovernSidebar
<1>2. ASSUME NEW i \in DOMAIN news, Announce(i)
      PROVE  Sidebar'
  BY <1>2, AnnounceSidebar
<1>3. CASE view.ws # None /\ Browse
  <2>1. ASSUME NEW f \in fetches, Answer(f) \/ AnswerCreate(f) \/ AnswerRead(f) \/ FetchFails(f) \/ Apply(f)
        PROVE  Sidebar'
    BY <1>3, <2>1, AnswerSidebar, CreateSidebar, ReadSidebar, ApplySidebar
  <2>2. CASE Handle
    BY <1>3, <2>2, HandleSidebar
  <2>3. CASE \/ \E w \in Workspaces : switch(w)
             \/ \E c \in Channels : handleChannelSelect(c) \/ handleCreate(c)
             \/ JoinRooms
    BY <1>3, <2>3, ActSidebar
  <2>4. CASE Drop \/ Renew
    BY <2>4, CutSidebar
  <2>5. CASE Connect
    BY <1>3, <2>5, ConnectSidebar
  <2> QED
    BY <1>3, <2>1, <2>2, <2>3, <2>4, <2>5 DEF Browse
<1>4. CASE UNCHANGED vars
  <2>1. UNCHANGED <<tables, role, news, down, up, missed, view, fetches>>
    BY <1>4 DEF vars, tables, socket
  <2>2. ChannelsInOrder /\ AnswersListRight /\ SidebarRight /\ OpenListed
    BY <2>1 DEF Sidebar, Clear
  <2>3. \A c \in Channels : Place(c)' = Place(c)
    BY <2>1, PlaceStays DEF tables
  <2>4. Mine' = Mine /\ ChannelsInOrder' /\ ChannelsKept(Workspaces)
    BY <2>1, <2>2, <2>3, CalmChannels
  <2>5. OpenListed'
    BY <2>1, <2>2 DEF OpenListed
  <2> QED
    BY <2>1, <2>2, <2>4, <2>5, StillSidebar
<1> QED
  BY <1>1, <1>2, <1>3, <1>4 DEF Next

\* With nothing on its way, the sidebar is what the server would answer.
LEMMA SidebarIsEnough ==
    ASSUME Typed, Current, Sidebar
    PROVE  SidebarIsCurrent
<1> SUFFICES ASSUME Unless(Circumstance)
             PROVE  view.channels = getWorkspaceChannels(view.ws) /\ OpenListed
  BY DEF SidebarIsCurrent, OpenListed
<1>1. news = << >> /\ down = << >> /\ fetches = {} /\ up /\ view.ws # None
  BY DEF Unless, Quiet
<1>2. missed = {}
  BY DEF Unless, Typed
<1>3. ViewRight /\ SidebarRight /\ OpenListed
  BY <1>2 DEF Current, Spared, Sidebar, Clear
<1>4. \A A : ~ Has(news, A) /\ ~ Has(down, A)
  BY <1>1, NothingHas
<1>5. IsMember(view.ws)
  <2>1. Listed(view.list)
    BY <1>1, <1>3 DEF ViewRight, Sought
  <2> QED
    BY <1>1, <1>4, <2>1 DEF Typed, Within, Listed, Coming
<1>6. ListRight(view.channels, view.ws)
  BY <1>1, <1>3 DEF SidebarRight, ListSought, Sought
<1>7. \A c \in Channels : Of[c] = view.ws => (c \in view.channels <=> c \in getWorkspaceChannels(view.ws))
  BY <1>4, <1>5, <1>6 DEF ListRight, Awaited, Place
<1>8. /\ \A c \in view.channels : c \in Channels /\ Of[c] = view.ws
      /\ \A c \in getWorkspaceChannels(view.ws) : c \in Channels /\ Of[c] = view.ws
  BY <1>5, <1>6 DEF ListRight, Typed, View, getWorkspaceChannels, ChannelsOf
<1> QED
  BY <1>3, <1>7, <1>8

(***************************************************************************)
(* When nothing is under way the sidebar lists the channels the server     *)
(* would answer, and the open one is among them, whatever roles, channels  *)
(* and memberships became meanwhile, unless one of the circumstances was   *)
(* met that the code has no answer to (useChannelEvents, useChannelFetch,  *)
(* useWorkspaceEvents, channelController).                                 *)
(***************************************************************************)
THEOREM SidebarCurrent == Spec => []SidebarIsCurrent
<1>1. Init => Sidebar
  BY InitSidebar
<1>2. (IInv /\ Typed) /\ Sidebar /\ [Next]_vars => Sidebar'
  BY SidebarStep
<1>3. Typed /\ Current /\ Sidebar => SidebarIsCurrent
  BY SidebarIsEnough
<1>4. Spec => []Sidebar
  BY <1>1, <1>2, TypedHolds, PTL DEF Spec
<1>5. Spec => []Current
  BY InitCurrent, CurrentStep, TypedHolds, PTL DEF Spec
<1> QED
  BY <1>3, <1>4, <1>5, TypedHolds, PTL
=============================================================================
