---------------------------- MODULE WorkspaceView ----------------------------
(***************************************************************************)
(* What one browser shows of a workspace while others govern it: the role  *)
(* of its user, the members, the channels of the sidebar, the open one.    *)
(*                                                                         *)
(* Every change is written by a handler of the server and announced after  *)
(* an await, to the sockets in a room; the browser also asks over HTTP, on *)
(* every connect, new token and change of workspace, and lets each answer  *)
(* replace what it shows, whichever workspace is open by then.  Answers    *)
(* and announcements travel apart and are not ordered.                     *)
(*                                                                         *)
(* Governance cuts the server's handlers at every await; here the tables   *)
(* change in one step, as this user's requests would find them.            *)
(***************************************************************************)
EXTENDS Naturals, FiniteSets, SequencesExt

CONSTANTS
    Users, Me,
    Workspaces,
    Channels,    \* the ids channels may get, never reused
    Of,          \* the workspace of each
    Private,     \* those of type PRIVATE
    None,
    Tables,      \* the tables a behaviour may start with
    Bounds       \* bounds, one of which a behaviour keeps to: how many changes others make, how
                 \* often the user acts (acts), the connection or a request fails (faults) or
                 \* the token is renewed (renewals), how many requests are under way (fetches)

MemberRole == {"OWNER", "ADMIN", "MEMBER", "GUEST"}

\* A user is never taken for a workspace (a UUID each).
ASSUME UsersAssumption ==
    Me \in Users /\ IsFiniteSet(Users) /\ None \notin Users /\ Users \cap Workspaces = {}
ASSUME ChannelsAssumption ==
    /\ Of \in [Channels -> Workspaces] /\ Private \subseteq Channels
    /\ None \notin Channels \cup Workspaces \cup {"visible", "hidden"}
\* A ChannelMember is of a channel there is (its foreign key).
ASSUME TablesAssumption ==
    /\ Tables \subseteq [role : [Workspaces -> [Users -> MemberRole \cup {"none"}]],
                         channel : SUBSET Channels, visible : SUBSET Channels]
    /\ \A t \in Tables : t.visible \subseteq t.channel
ASSUME BoundsAssumption ==
    Bounds # {} /\ Bounds \subseteq [{"changes", "acts", "faults", "renewals", "fetches"} -> Nat]

VARIABLES
    role,      \* WorkspaceMember.role, "none" where there is no row
    channel,   \* which channels there are, and were
    access,    \* this user's ChannelMember: "none", "visible", "hidden"
    view,      \* activeWorkspaceId, lastActiveWorkspaceId, workspaces, currentUserRole,
               \* users, channels, activeChannelId
    fetches,   \* requests under way and what the server answered; a request not yet
               \* answered is not told from another like it
    up,        \* the socket is connected
    rooms,     \* the rooms it is in; Me is the user's own
    news,      \* what is to be announced
    down,      \* events to the browser
    missed,    \* the circumstances that were met in which it is misled
    budget     \* what is left of the bounds

tables == <<role, channel, access>>
socket == <<up, rooms, news, down>>
vars == <<tables, view, fetches, socket, missed, budget>>

IsMember(w) == role[w][Me] # "none"
Exists(c) == channel[c] = "there"
ChannelsOf(w) == {c \in Channels : Exists(c) /\ Of[c] = w}
Owned(w) == \E u \in Users : role[w][u] = "OWNER"
Others(w) == {u \in Users \ {Me} : role[w][u] # "none"}
Mine == {w \in Workspaces : IsMember(w)}

getWorkspaceChannels(w) ==
    { c \in ChannelsOf(w) :
        /\ IsMember(w)
        /\ IF role[w][Me] = "GUEST" \/ c \in Private
             THEN access[c] = "visible"
             ELSE access[c] # "hidden" }

Circumstance == {"late", "swapped", "gap", "unheard", "failed", "foreign", "stranger",
                 "captured", "promoted", "unhydrated", "replaced", "restored", "relisted"}

TypeOK ==
    /\ role \in [Workspaces -> [Users -> MemberRole \cup {"none"}]]
    /\ channel \in [Channels -> {"unborn", "there", "gone"}]
    /\ access \in [Channels -> {"none", "visible", "hidden"}]
    /\ \A c \in Channels : Exists(c) \/ access[c] = "none"
    /\ view \in [ws : Workspaces \cup {None}, saved : Workspaces \cup {None}, list : SUBSET Workspaces,
                 role : MemberRole \cup {None}, users : SUBSET (Users \ {Me}),
                 channels : SUBSET Channels, open : Channels \cup {None}]
    /\ view.ws # None => view.saved = view.ws
    /\ \A f \in fetches :
         f.kind \in {"workspaces", "members", "channels", "access", "promotion", "create", "read"}
    /\ rooms \subseteq Workspaces \cup {Me}
    /\ ~ up => rooms = {} /\ down = << >>
    /\ missed \subseteq Circumstance
    /\ \E most \in Bounds : \A what \in DOMAIN most : budget[what] \in 0 .. most[what]

\* A page that has loaded, and shows what there is.
Init ==
    /\ \E t \in Tables :
         /\ role = t.role
         /\ channel = [c \in Channels |-> IF c \in t.channel THEN "there" ELSE "unborn"]
         /\ access = [c \in Channels |-> IF c \in t.visible THEN "visible" ELSE "none"]
    /\ \E w \in Mine : \E open \in getWorkspaceChannels(w) \cup {None} :
         view = [ws |-> w, saved |-> w, list |-> Mine, role |-> role[w][Me], users |-> Others(w),
                 channels |-> getWorkspaceChannels(w), open |-> open]
    /\ fetches = {}
    /\ up = TRUE
    /\ rooms = Mine \cup {Me}
    /\ news = << >> /\ down = << >>
    /\ missed = {}
    /\ budget \in Bounds

Spend(what) ==
    /\ budget[what] > 0
    /\ budget' = [budget EXCEPT ![what] = @ - 1]

Note(circumstances) == missed' = missed \cup circumstances

----------------------------------------------------------------------------
(* What others do, written and then announced                              *)

\* was: this user's role when it was written, which the code does not send.
News(event, w, u, arg, channels) ==
    [event |-> event, ws |-> w, user |-> u, arg |-> arg, channels |-> channels, was |-> role[w][Me]]

Tell(n) == news' = Append(news, n)

Change == Spend("changes") /\ UNCHANGED <<view, fetches, up, rooms, down, missed>>

SetRole(w, u, r) == role' = [role EXCEPT ![w][u] = r]

Strip(channels) == access' = [c \in Channels |-> IF c \in channels THEN "none" ELSE access[c]]

joinWorkspace(w, u) ==
    /\ u # Me /\ role[w][u] = "none" /\ Owned(w)
    /\ SetRole(w, u, "MEMBER")
    /\ Tell(News("workspace_member_joined", w, u, None, {}))
    /\ UNCHANGED <<channel, access>>
    /\ Change

\* The channels a change of role revokes.
Revoked(w, r) ==
    {c \in ChannelsOf(w) : r = "GUEST" \/ (r = "MEMBER" /\ c \in Private)}

updateWorkspaceMemberRole(w, u, r) ==
    /\ role[w][u] \in {"ADMIN", "MEMBER", "GUEST"} /\ Owned(w)
    /\ r \in {"ADMIN", "MEMBER", "GUEST"}
    /\ SetRole(w, u, r)
    /\ IF u = Me THEN Strip(Revoked(w, r)) ELSE UNCHANGED access
    /\ Tell(News("member_role_updated", w, u, r, Revoked(w, r)))
    /\ UNCHANGED channel
    /\ Change

transferWorkspaceOwnership(w, u, v) ==
    /\ u # v /\ role[w][u] = "OWNER" /\ role[w][v] # "none"
    /\ role' = [role EXCEPT ![w][u] = "ADMIN", ![w][v] = "OWNER"]
    /\ Tell(News("workspace_ownership_transferred", w, v, u, {}))
    /\ UNCHANGED <<channel, access>>
    /\ Change

removeWorkspaceMember(w, u) ==
    /\ role[w][u] \in {"ADMIN", "MEMBER", "GUEST"} /\ Owned(w)
    /\ SetRole(w, u, "none")
    /\ IF u = Me THEN Strip(ChannelsOf(w)) ELSE UNCHANGED access
    /\ Tell(News("member_kicked", w, u, None, {}))
    /\ UNCHANGED channel
    /\ Change

deleteWorkspace(w) ==
    /\ Owned(w)
    /\ role' = [role EXCEPT ![w] = [u \in Users |-> "none"]]
    /\ channel' = [c \in Channels |-> IF c \in ChannelsOf(w) THEN "gone" ELSE channel[c]]
    /\ Strip(ChannelsOf(w))
    /\ Tell(News("workspace_deleted", w, None, None, {}))
    /\ Change

\* A private channel takes in the owner.
Insert(c, byMe) ==
    /\ channel[c] = "unborn"
    /\ channel' = [channel EXCEPT ![c] = "there"]
    /\ LET mine == byMe \/ (c \in Private /\ role[Of[c]][Me] = "OWNER")
       IN  /\ access' = [access EXCEPT ![c] = IF mine THEN "visible" ELSE "none"]
           /\ IF c \in Private /\ ~ mine
                THEN UNCHANGED news
                ELSE Tell(News(IF c \in Private THEN "added_to_channel" ELSE "channel_created",
                               Of[c], None, None, {c}))
    /\ UNCHANGED role

createChannel(c) ==
    /\ \E u \in Users \ {Me} : role[Of[c]][u] \in {"OWNER", "ADMIN", "MEMBER"}
    /\ Insert(c, FALSE)
    /\ Change

inviteToChannel(c) ==
    /\ Exists(c) /\ IsMember(Of[c]) /\ access[c] = "none"
    /\ \E u \in Users \ {Me} : role[Of[c]][u] \in {"OWNER", "ADMIN"}
    /\ access' = [access EXCEPT ![c] = "visible"]
    /\ Tell(News("added_to_channel", Of[c], None, None, {c}))
    /\ UNCHANGED <<role, channel>>
    /\ Change

\* After every invitation the inviter's browser has the channel announced to
\* all who have a row, those who left it too; others' rows are not kept here.
notify_channel_invites(c) ==
    \E row \in {"visible", "hidden"} :
      /\ Exists(c) /\ access[c] = row
      /\ \E u \in Users : role[Of[c]][u] \in {"OWNER", "ADMIN"}
      /\ Tell(News("added_to_channel", Of[c], None, row, {c}))
      /\ UNCHANGED tables
      /\ Change

\* leaveChannel, and setChannelMemberVisibility by another owner.
SetAccess(c, value) ==
    /\ Exists(c) /\ IsMember(Of[c])
    /\ value = "hidden" \/ \E u \in Users \ {Me} : role[Of[c]][u] = "OWNER"
    /\ access' = [access EXCEPT ![c] = value]
    /\ Tell(News("channel_access_updated", Of[c], None, value, {c}))
    /\ UNCHANGED <<role, channel>>
    /\ Change

\* Told to the workspace, or to those who had a row.
deleteChannel(c) ==
    /\ Exists(c) /\ Owned(Of[c])
    /\ channel' = [channel EXCEPT ![c] = "gone"]
    /\ Strip({c})
    /\ IF c \in Private /\ access[c] = "none"
         THEN UNCHANGED news
         ELSE Tell(News("channel_deleted", Of[c], None, None, {c}))
    /\ UNCHANGED role
    /\ Change

Govern ==
    \/ \E w \in Workspaces, u \in Users :
         \/ joinWorkspace(w, u)
         \/ \E r \in MemberRole : updateWorkspaceMemberRole(w, u, r)
         \/ \E v \in Users : transferWorkspaceOwnership(w, u, v)
         \/ removeWorkspaceMember(w, u)
    \/ \E w \in Workspaces : deleteWorkspace(w)
    \/ \E c \in Channels :
         \/ createChannel(c)
         \/ inviteToChannel(c)
         \/ notify_channel_invites(c)
         \/ \E value \in {"visible", "hidden"} : SetAccess(c, value)
         \/ deleteChannel(c)

\* The rooms an event goes to.
Target(n) ==
    IF n.event \in {"added_to_channel", "channel_access_updated"}
         \/ (n.event = "channel_deleted" /\ n.channels \subseteq Private)
      THEN Me ELSE n.ws

\* The events of one announcement that reach this socket.
Heard(n) ==
    LET also == IF n.user # Me THEN {}
                ELSE IF n.event = "member_kicked" THEN {"workspace_revoked"}
                ELSE IF n.event = "member_role_updated" /\ n.channels # {} THEN {"private_channels_revoked"}
                ELSE {}
    IN  (IF Target(n) \in rooms THEN <<n>> ELSE << >>)
        \o SetToSeq({[n EXCEPT !.event = e] : e \in IF Me \in rooms THEN also ELSE {}})

Evicts(n) == n.event \in {"workspace_deleted", "workspace_revoked"} \/ (n.event = "member_kicked" /\ n.user = Me)

\* An answer given by now is older than what the browser is told, or not told.
Overtaken(requests) == {[f EXCEPT !.late = f.status # "asked"] : f \in requests}

\* Handlers announce in any order.
Announce(i) ==
    LET n == news[i] IN
    /\ news' = RemoveAt(news, i)
    /\ down' = IF up THEN down \o Heard(n) ELSE down
    /\ rooms' = IF n.event = "member_kicked" /\ n.user = Me THEN rooms \ {n.ws} ELSE rooms
    /\ fetches' = IF up /\ Heard(n) # << >> THEN fetches ELSE Overtaken(fetches)
    /\ Note((IF i > 1 THEN {"swapped"} ELSE {})
            \cup (IF up /\ Heard(n) = << >> /\ n.ws \in view.list THEN {"gap"} ELSE {})
            \cup (IF ~ up /\ Evicts(n) THEN {"unheard"} ELSE {}))
    /\ UNCHANGED <<tables, view, up, budget>>

\* The connection handler joins the user's room and those of its workspaces.
JoinRooms ==
    /\ up /\ rooms = {}
    /\ rooms' = Mine \cup {Me}
    /\ UNCHANGED <<tables, view, fetches, up, news, down, missed, budget>>

----------------------------------------------------------------------------
(* Requests                                                                *)

Nothing == [role |-> None, users |-> {}, ids |-> {}]

Request(kind, w) ==
    [kind |-> kind, ws |-> w, status |-> "asked", answer |-> Nothing, late |-> FALSE,
     kept |-> {}, channel |-> None, visible |-> TRUE]

Send(pending, requests) ==
    /\ Cardinality(pending \cup requests) <= budget.fetches
    /\ fetches' = pending \cup requests

Ask(requests) == Send(fetches, requests)

Learn(requests) == Send(Overtaken(fetches), requests)

Hydration(w) == {Request("members", w), Request("channels", w)}

\* Only members are answered, what is read must be open to them, and guests
\* create no channel.
Refused(f) ==
    \/ f.kind # "workspaces" /\ ~ IsMember(f.ws)
    \/ f.kind = "read" /\ (~ Exists(f.channel) \/ (f.channel \in Private /\ access[f.channel] = "none"))
    \/ f.kind = "create" /\ role[f.ws][Me] = "GUEST"

Becomes(f, status, answer) ==
    fetches' = (fetches \ {f}) \cup {[f EXCEPT !.status = status, !.answer = answer]}

Answer(f) ==
    /\ f.status = "asked"
    /\ IF Refused(f)
         THEN Becomes(f, "refused", Nothing)
         ELSE /\ f.kind \notin {"create", "read"}
              /\ Becomes(f, "given",
                   CASE f.kind = "workspaces" -> [Nothing EXCEPT !.ids = Mine]
                     [] f.kind = "members" -> [Nothing EXCEPT !.role = role[f.ws][Me], !.users = Others(f.ws)]
                     [] OTHER -> [Nothing EXCEPT !.ids = getWorkspaceChannels(f.ws)])
    /\ UNCHANGED <<tables, view, socket, missed, budget>>

AnswerCreate(f) ==
    /\ f.kind = "create" /\ f.status = "asked" /\ ~ Refused(f)
    /\ Insert(f.channel, TRUE)
    /\ Becomes(f, "given", [Nothing EXCEPT !.ids = {f.channel}])
    /\ UNCHANGED <<view, up, rooms, down, missed, budget>>

\* The socket's markChannelAsRead gives a row to who has none, guests too.
AnswerRead(f) ==
    /\ f.kind = "read" /\ f.status = "asked" /\ ~ Refused(f)
    /\ LET added == access[f.channel] = "none"
       IN  /\ access' = [access EXCEPT ![f.channel] = IF added THEN "visible" ELSE @]
           /\ Note(IF added /\ role[f.ws][Me] = "GUEST" THEN {"restored"} ELSE {})
    /\ fetches' = fetches \ {f}
    /\ UNCHANGED <<role, channel, view, socket, budget>>

\* The request, or its answer, is lost.
FetchFails(f) ==
    /\ f.status # "failed"
    /\ Spend("faults")
    /\ Becomes(f, "failed", Nothing)
    /\ Note({"failed"})
    /\ UNCHANGED <<tables, view, socket>>

----------------------------------------------------------------------------
(* The browser                                                             *)

\* setActiveWorkspaceId, and the effects that depend on it: the members are
\* cleared, the channels stay until they are replaced.
Activate(v, w) ==
    [v EXCEPT !.ws = w, !.saved = w, !.role = None, !.users = {}, !.open = None]

\* Mutant: only the first choice is remembered.
switchForgetting(w) ==
    /\ w \in view.list /\ w # view.ws
    /\ Spend("acts")
    /\ view' = [Activate(view, w) EXCEPT !.saved = view.saved]
    /\ Ask(Hydration(w))
    /\ UNCHANGED <<tables, socket, missed>>

switch(w) ==
    /\ w \in view.list /\ w # view.ws
    /\ Spend("acts")
    /\ view' = Activate(view, w)
    /\ Ask(Hydration(w))
    /\ UNCHANGED <<tables, socket, missed>>

\* The channel is marked as read over the socket, which keeps what it is given
\* while it is not connected, and over HTTP.
handleChannelSelect(c) ==
    /\ c \in view.channels
    /\ Spend("acts")
    /\ view' = [view EXCEPT !.open = c]
    /\ Ask({[Request("read", Of[c]) EXCEPT !.channel = c]})
    /\ UNCHANGED <<tables, socket, missed>>

\* The dialog keeps the list of channels it was shown with.
handleCreate(c) ==
    /\ Of[c] = view.ws /\ channel[c] = "unborn" /\ view.role \in {"OWNER", "ADMIN", "MEMBER"}
    /\ Spend("acts")
    /\ Ask({[Request("create", view.ws) EXCEPT !.kept = view.channels, !.channel = c]})
    /\ UNCHANGED <<tables, view, socket, missed>>

\* Mutant: the list is the one place where a removal is looked for.
EvictLeaving(w) ==
    /\ view' = [view EXCEPT !.list = @ \ {w}]
    /\ Learn({})

\* handleWorkspaceEviction, handleWorkspaceDeleted.  With no workspace left
\* the page is left for another.
Evict(w) ==
    LET left == view.list \ {w} IN
    IF view.ws # w
      THEN view' = [view EXCEPT !.list = left] /\ Learn({})
      ELSE \E next \in IF left = {} THEN {None} ELSE left :
             /\ view' = [Activate(view, next) EXCEPT !.list = left, !.channels = {}]
             /\ IF next = None THEN Learn({}) ELSE Learn(Hydration(next))

\* Mutant: a new role never asks for the channels it opens.
PromoteQuietly(n) ==
    /\ view' = IF n.user = Me THEN [view EXCEPT !.role = n.arg] ELSE view
    /\ Learn({}) /\ UNCHANGED missed

\* The members are written back after the await, as they were before it.
handleRoleUpdated(n) ==
    /\ view' = IF n.user = Me THEN [view EXCEPT !.role = n.arg] ELSE view
    /\ IF n.user = Me /\ view.role = "GUEST" /\ n.arg # "GUEST"
         THEN Learn({[Request("promotion", n.ws) EXCEPT !.kept = view.users]}) /\ UNCHANGED missed
         ELSE /\ Note(IF n.user = Me /\ n.was = "GUEST" /\ n.arg # "GUEST" THEN {"unhydrated"} ELSE {})
              /\ Learn({})

\* A guest who becomes the owner is not shown what an owner may see.
handleWorkspaceOwnershipTransferred(n) ==
    /\ view' = IF n.arg = Me THEN [view EXCEPT !.role = "ADMIN"]
               ELSE IF n.user = Me THEN [view EXCEPT !.role = "OWNER"] ELSE view
    /\ Note(IF n.user = Me /\ n.was = "GUEST" THEN {"promoted"} ELSE {})
    /\ Learn({})

\* Mutant: the members stay as they are.
KickUnseen(n) ==
    IF n.user = Me THEN Evict(n.ws) ELSE Learn({}) /\ UNCHANGED view

handleMemberKicked(n) ==
    IF n.user = Me
      THEN Evict(n.ws)
      ELSE /\ view' = IF n.ws = view.ws THEN [view EXCEPT !.users = @ \ {n.user}] ELSE view
           /\ Learn({})

Close(v, channels) ==
    [v EXCEPT !.channels = @ \ channels, !.open = IF @ \in channels THEN None ELSE @]

\* Whichever workspace is open, and though it was left.
handleAddedToChannel(n) ==
    /\ view' = [view EXCEPT !.channels = @ \cup n.channels]
    /\ Note((IF n.ws # view.ws THEN {"stranger"} ELSE {})
            \cup (IF n.arg = "hidden" THEN {"relisted"} ELSE {}))
    /\ Learn({})

\* Somebody whose role is not known is no guest; who was a guest before the
\* connection was lost still is one until the members are answered.
handleChannelCreated(n) ==
    /\ view' = IF view.role # "GUEST" THEN [view EXCEPT !.channels = @ \cup n.channels] ELSE view
    /\ Note(IF (view.role = "GUEST") # (n.was = "GUEST") THEN {"unhydrated"} ELSE {})
    /\ Learn({})

handleChannelAccessUpdated(n) ==
    \E c \in n.channels :
       Learn({[Request("access", n.ws) EXCEPT !.channel = c, !.visible = n.arg = "visible"]})

\* One disjunct per listener; those that look at the workspace ignore others.
Listen(n) ==
    \/ /\ n.event \in {"workspace_revoked", "workspace_deleted"}
       /\ Evict(n.ws) /\ UNCHANGED missed
    \/ n.event = "member_kicked" /\ handleMemberKicked(n) /\ UNCHANGED missed
    \/ n.event = "added_to_channel" /\ handleAddedToChannel(n)
    \/ /\ n.event = "private_channels_revoked"
       /\ view' = Close(view, n.channels) /\ Learn({}) /\ UNCHANGED missed
    \/ /\ n.event \notin {"workspace_revoked", "workspace_deleted", "member_kicked",
                          "added_to_channel", "private_channels_revoked"}
       /\ n.ws # view.ws
       /\ Learn({}) /\ UNCHANGED <<view, missed>>
    \/ /\ n.ws = view.ws
       /\ \/ /\ n.event = "workspace_member_joined"
             /\ view' = [view EXCEPT !.users = @ \cup {n.user}] /\ Learn({}) /\ UNCHANGED missed
          \/ n.event = "member_role_updated" /\ handleRoleUpdated(n)
          \/ n.event = "workspace_ownership_transferred" /\ handleWorkspaceOwnershipTransferred(n)
          \/ n.event = "channel_created" /\ handleChannelCreated(n)
          \/ n.event = "channel_access_updated" /\ handleChannelAccessUpdated(n) /\ UNCHANGED <<view, missed>>
          \/ /\ n.event = "channel_deleted"
             /\ view' = Close(view, n.channels) /\ Learn({}) /\ UNCHANGED missed

\* The event is dispatched, with what its listener asks for.
Handle ==
    /\ down # << >>
    /\ down' = Tail(down)
    /\ Listen(Head(down))
    /\ UNCHANGED <<tables, up, rooms, news, budget>>

\* An answer replaces what is shown, whatever has happened since it was
\* asked for.  An empty list of workspaces sends the user elsewhere, another
\* resumes the workspace last chosen if it is still there.
Shown(f) ==
    IF f.kind = "promotion"
      THEN {[view EXCEPT !.channels = IF f.status = "given" THEN f.answer.ids ELSE @, !.users = f.kept]}
      ELSE IF f.status # "given" THEN {view}
      ELSE CASE f.kind = "workspaces" ->
             IF f.answer.ids = {} THEN {[view EXCEPT !.ws = None]}
             ELSE LET resumed == IF view.saved \in f.answer.ids THEN {view.saved} ELSE f.answer.ids
                  IN  {[(IF w = view.ws THEN view ELSE Activate(view, w)) EXCEPT !.list = f.answer.ids] : w \in resumed}
        [] f.kind = "members" -> {[view EXCEPT !.role = f.answer.role, !.users = f.answer.users]}
        [] f.kind = "channels" -> {[view EXCEPT !.channels = f.answer.ids]}
        [] f.kind = "access" ->
             {[view EXCEPT !.channels = f.answer.ids,
                           !.open = IF ~ f.visible /\ @ = f.channel THEN None ELSE @]}
        [] f.kind = "create" -> {[view EXCEPT !.channels = f.kept \cup f.answer.ids]}

Misled(f) ==
    {m \in {"late", "foreign", "captured"} :
       CASE m = "late" -> f.late /\ f.status = "given"
         [] m = "foreign" -> f.kind # "workspaces" /\ f.ws # view.ws /\ (f.status = "given" \/ f.kind = "promotion")
         [] m = "captured" -> \/ f.kind = "promotion" /\ f.kept # view.users
                              \/ f.kind = "create" /\ f.status = "given" /\ f.kept # view.channels \ f.answer.ids}

Apply(f) ==
    /\ f.status # "asked"
    /\ \E v \in Shown(f) :
         /\ view' = v
         /\ Send(fetches \ {f}, IF v.ws \in {view.ws, None} THEN {} ELSE Hydration(v.ws))
         /\ Note(Misled(f) \cup IF v.open \in v.channels \cup {None} THEN {} ELSE {"replaced"})
    /\ UNCHANGED <<tables, socket, budget>>

Cut ==
    /\ up' = FALSE /\ rooms' = {} /\ down' = << >>
    /\ UNCHANGED <<tables, news>>

Drop ==
    /\ up
    /\ Spend("faults")
    /\ Cut
    /\ Learn({})
    /\ Note(IF \E n \in Range(down) : Evicts(n) THEN {"unheard"} ELSE {})
    /\ UNCHANGED view

\* Every effect that depends on the socket asks again, but not for the
\* workspaces.
Connect ==
    /\ ~ up
    /\ up' = TRUE
    /\ Ask(Hydration(view.ws))
    /\ UNCHANGED <<tables, view, rooms, news, down, missed, budget>>

\* A new token brings a new socket, and asks for everything.
Renew ==
    /\ Spend("renewals")
    /\ Cut
    /\ view' = [view EXCEPT !.users = {}]
    /\ Learn({Request("workspaces", None)} \cup Hydration(view.ws))
    /\ UNCHANGED missed

Browse ==
    \/ \E w \in Workspaces : switch(w)
    \/ \E c \in Channels : handleChannelSelect(c) \/ handleCreate(c)
    \/ Handle
    \/ \E f \in fetches : Answer(f) \/ AnswerCreate(f) \/ AnswerRead(f) \/ FetchFails(f) \/ Apply(f)
    \/ JoinRooms \/ Drop \/ Connect \/ Renew

Next ==
    \/ Govern
    \/ \E i \in DOMAIN news : Announce(i)
    \/ view.ws # None /\ Browse

Spec == Init /\ [][Next]_vars

----------------------------------------------------------------------------
(* What is shown is what there is                                          *)

Quiet == news = << >> /\ down = << >> /\ fetches = {} /\ up /\ rooms # {} /\ view.ws # None

Unless(circumstances) == Quiet /\ missed \cap circumstances = {}

Anyhow == {"late", "swapped", "gap", "unheard", "failed", "foreign"}

\* The workspace shown changes only when the user chooses one, or is no
\* member of it any more: no answer, renewal or reconnect moves anybody.
StaysWhereItIs ==
    [][view'.ws # view.ws => budget'.acts < budget.acts \/ ~ IsMember(view.ws)]_vars

\* When nothing is under way the user is in the workspace shown, in the role
\* the buttons go by, unless an answer or announcement was overtaken or lost,
\* or of another workspace; and with the members listed, also unless a
\* promotion has written back an earlier list (useWorkspaceEvents 43-160,
\* useWorkspaceMembers, useWorkspaceInit).
RolesAreCurrent ==
    /\ Unless(Anyhow) => view.role = role[view.ws][Me] /\ view.list = Mine
    /\ Unless(Anyhow \cup {"captured"}) => view.users = Others(view.ws)

\* The sidebar lists what the server would, and what is open is listed.
SidebarIsCurrent ==
    Unless(Circumstance) =>
        /\ view.channels = getWorkspaceChannels(view.ws)
        /\ view.open \in view.channels \cup {None}
=============================================================================
