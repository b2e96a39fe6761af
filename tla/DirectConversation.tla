------------------------- MODULE DirectConversation -------------------------
(***************************************************************************)
(* Conversations of two people of one workspace, and what the browsers of  *)
(* both make of them.                                                      *)
(*                                                                         *)
(* Selecting a person empties the view and asks the server for the room:   *)
(* joinPrivateChat looks for a conversation of the two and creates one if  *)
(* there is none.  Its answer, roomJoined, says which room it is and not   *)
(* whose, so it is taken for the room of whoever is selected by then.  The *)
(* room's history is then fetched, and markAsRead stamps the participant   *)
(* with the time at which the server gets to it.  A message that is not of *)
(* the open room raises the badge of its sender; the badges of the time    *)
(* spent offline come with the member list, fetched on every connect.      *)
(*                                                                         *)
(* Time is counted in messages: the n-th is stored at n, and what happens  *)
(* before it happens at n or earlier.  0 is never.                         *)
(***************************************************************************)
EXTENDS Naturals, FiniteSets, SequencesExt

CONSTANTS
    Users,
    Active,      \* those with a browser
    None,        \* nobody is selected: a channel, or nothing
    Known,       \* conversations that may exist already
    Bounds       \* bounds, one of which a behaviour keeps to: how often the view changes
                 \* (selects), messages are composed (sends), a connection is lost or a packet
                 \* or request refused, failed or lost (faults); how many packets and how many
                 \* history requests of one browser are under way together (packets, fetches)

ASSUME UsersAssumption == Active \subseteq Users /\ IsFiniteSet(Users) /\ None \notin Users
ASSUME BoundsAssumption ==
    Bounds # {} /\ Bounds \subseteq [{"selects", "sends", "faults", "packets", "fetches"} -> Nat]
ASSUME KnownAssumption == \A pair \in Known : pair \subseteq Users /\ Cardinality(pair) = 2

VARIABLES
    convs,     \* conversations: the n-th is of these two people
    log,       \* messages: the n-th one's conversation, sender, and addressee
    readAt,    \* participants' lastReadAt
    view,      \* selectedUser, activeRoomId, messages, targetLastReadAt; mixed when
               \* an answer to an earlier selection was taken for this one's
    badge,     \* unreadCounts
    fetches,   \* history requests under way; at is when it was read
    polls,     \* member lists under way: the counts, when they were read
    up,        \* the socket is connected
    buffer,    \* what was emitted while it was not
    handlers,  \* packets sent, and the handlers they have become
    down,      \* events to the browser
    seen,      \* messages that were ever in the list
    passed,    \* messages marked read, or taken off the badge, before they were
    unheard,   \* messages whose only news failed: the announcement, or the member
               \* list that would have counted them; until a list is read again
    budget     \* what is left of the bounds

database == <<convs, log, readAt>>
socket == <<up, buffer, handlers, down>>
ghosts == <<seen, passed, unheard>>
vars == <<database, view, badge, fetches, polls, socket, ghosts, budget>>

Now == Len(log) + 1
Most(what) == Max({most[what] : most \in Bounds})
Room == DOMAIN convs
Pair == {pair \in SUBSET Users : Cardinality(pair) = 2}
Counts == [Users -> 0 .. Most("sends")]
Badges == [Users -> Nat]
Other(u, room) == CHOOSE p \in convs[room] : p # u

TypeOK ==
    /\ convs \in Seq(Pair)
    /\ \A m \in DOMAIN log : log[m].room \in Room /\ log[m].from \in Active /\ log[m].to \in Users
    /\ readAt \in [Active -> [Room -> 0 .. Now]]
    /\ view \in [Active -> [peer : Users \cup {None}, room : Room \cup {0},
                            list : SUBSET DOMAIN log, tick : 0 .. Now, mixed : BOOLEAN]]
    /\ badge \in [Active -> Badges]
    /\ \A u \in Active :
         /\ \A f \in Range(fetches[u]) : f.room \in Room /\ u \in convs[f.room] /\ f.at \in 0 .. Now
         /\ polls[u] \subseteq Counts \cup {None}
         /\ up[u] => buffer[u] = << >>
         /\ ~ up[u] => down[u] = << >>
         /\ \A h \in Range(handlers[u]) : h.at = "sent" \/ <<h.op, h.at>> \in {<<"join", "create">>, <<"send", "announce">>}
         /\ view[u].list \subseteq seen[u] /\ seen[u] \subseteq DOMAIN log
    /\ passed \in [Active -> SUBSET DOMAIN log] /\ unheard \in [Active -> SUBSET DOMAIN log]
    /\ \E most \in Bounds : \A what \in DOMAIN most : budget[what] \in 0 .. most[what]

Empty(p, room) == [peer |-> p, room |-> room, list |-> {}, tick |-> 0, mixed |-> FALSE]

Opened(u, open) ==
    IF open /\ \E room \in Room : u \in convs[room]
      THEN LET room == CHOOSE r \in Room : u \in convs[r] IN Empty(Other(u, room), room)
      ELSE Empty(None, 0)

\* Nothing was written yet in the conversations there are; some have one open.
Init ==
    /\ \E made \in SUBSET Known : convs = SetToSeq(made)
    /\ \E open \in SUBSET Active : view = [u \in Active |-> Opened(u, u \in open)]
    /\ log = << >>
    /\ readAt = [u \in Active |-> [r \in Room |-> 0]]
    /\ badge = [u \in Active |-> [p \in Users |-> 0]]
    /\ fetches = [u \in Active |-> << >>]
    /\ polls = [u \in Active |-> {}]
    /\ up = [u \in Active |-> TRUE]
    /\ buffer = [u \in Active |-> << >>]
    /\ handlers = [u \in Active |-> << >>]
    /\ down = [u \in Active |-> << >>]
    /\ seen = [u \in Active |-> {}]
    /\ passed = [u \in Active |-> {}]
    /\ unheard = [u \in Active |-> {}]
    /\ budget \in Bounds

Spend(what) ==
    /\ budget[what] > 0
    /\ budget' = [budget EXCEPT ![what] = @ - 1]

----------------------------------------------------------------------------
(* The browser                                                             *)

Join(p) == [op |-> "join", peer |-> p, room |-> 0, at |-> "sent", time |-> 0, orphan |-> FALSE]
Read(room) == [op |-> "read", peer |-> None, room |-> room, at |-> "sent", time |-> 0, orphan |-> FALSE]
Send(room, p) == [op |-> "send", peer |-> p, room |-> room, at |-> "sent", time |-> 0, orphan |-> FALSE]

\* socket.emit
Emit(u, packet) ==
    IF up[u]
      THEN /\ Len(handlers[u]) < budget.packets
           /\ handlers' = [handlers EXCEPT ![u] = Append(@, packet)]
           /\ UNCHANGED buffer
      ELSE buffer' = [buffer EXCEPT ![u] = Append(@, packet)] /\ UNCHANGED handlers

Show(u, p) == view' = [view EXCEPT ![u] = Empty(p, 0)]

\* What these people have written, whether it is listed or not, counts no more.
Pass(u, people) ==
    passed' = [passed EXCEPT ![u] = @ \cup ({m \in DOMAIN log : log[m].from \in people} \ seen[u])]

handleUserSelect(u, p) ==
    /\ p # u
    /\ Spend("selects")
    /\ Show(u, p)
    /\ badge' = [badge EXCEPT ![u][p] = 0]
    /\ Emit(u, Join(p))
    /\ Pass(u, {p})
    /\ UNCHANGED <<database, fetches, polls, up, down, seen, unheard>>

\* A channel is opened.
setActiveChannelId(u) ==
    /\ view[u].peer # None
    /\ Spend("selects")
    /\ Show(u, None)
    /\ UNCHANGED <<database, badge, fetches, polls, socket, ghosts>>

\* The room and the addressee are read together; they need not belong together.
sendMessage(u) ==
    /\ view[u].peer # None /\ view[u].room # 0
    /\ Spend("sends")
    /\ Emit(u, Send(view[u].room, view[u].peer))
    /\ UNCHANGED <<database, view, badge, fetches, polls, up, down, ghosts>>

Handled(u) == down' = [down EXCEPT ![u] = Tail(@)]

Comes(u, event) == down[u] # << >> /\ Head(down[u]).event = event

Stray(u, room) == convs[room] # {u, view[u].peer}

\* The answer to an earlier selection is taken for the answer to this one.
handleRoomJoined(u) ==
    /\ Comes(u, "roomJoined")
    /\ LET room == Head(down[u]).room
           p == view[u].peer
       IN  /\ view' = [view EXCEPT ![u].room = room, ![u].mixed = @ \/ Stray(u, room)]
           /\ Len(fetches[u]) < budget.fetches
           /\ fetches' = [fetches EXCEPT ![u] = Append(@, [room |-> room, of |-> p, at |-> 0, last |-> 0])]
           /\ IF p = None
                THEN UNCHANGED <<handlers, buffer, badge, passed>>
                ELSE /\ Emit(u, Read(room))
                     /\ badge' = [badge EXCEPT ![u][p] = 0]
                     /\ Pass(u, {p, Other(u, room)})
    /\ Handled(u)
    /\ UNCHANGED <<database, polls, up, seen, unheard, budget>>

\* Listed if it is of the open room and of the selected person, or one's own.
Listed(u, m) ==
    /\ log[m].from \in {u, view[u].peer}
    /\ view[u].room = log[m].room

\* Mutant: a message of another conversation is not counted.
ReceiveSilently(u) ==
    /\ Comes(u, "receiveMessage")
    /\ LET m == Head(down[u]).m
       IN  IF Listed(u, m)
             THEN /\ view' = [view EXCEPT ![u].list = @ \cup {m}]
                  /\ seen' = [seen EXCEPT ![u] = @ \cup {m}]
                  /\ IF log[m].from = u
                       THEN UNCHANGED <<handlers, buffer>>
                       ELSE Emit(u, Read(view[u].room))
             ELSE UNCHANGED <<view, seen, handlers, buffer>>
    /\ Handled(u)
    /\ UNCHANGED <<database, badge, fetches, polls, up, passed, unheard, budget>>

\* A badge for oneself is never shown.  The receipt of a message not listed,
\* markAsDelivered, changes the sign of a row that says delivered already.
handleNewMessage(u) ==
    /\ Comes(u, "receiveMessage")
    /\ LET m == Head(down[u]).m
       IN  IF Listed(u, m)
             THEN /\ view' = [view EXCEPT ![u].list = @ \cup {m}]
                  /\ seen' = [seen EXCEPT ![u] = @ \cup {m}]
                  /\ IF log[m].from = u
                       THEN UNCHANGED <<handlers, buffer>>
                       ELSE Emit(u, Read(view[u].room))
                  /\ UNCHANGED badge
             ELSE /\ badge' = IF log[m].from = u THEN badge
                              ELSE [badge EXCEPT ![u][log[m].from] = @ + 1]
                  /\ UNCHANGED <<view, seen, handlers, buffer>>
    /\ Handled(u)
    /\ UNCHANGED <<database, fetches, polls, up, passed, unheard, budget>>

\* Mutant: whoever read something read this.
TickAnyway(u) ==
    /\ Comes(u, "messagesRead")
    /\ view' = [view EXCEPT ![u].tick = Now]
    /\ Handled(u)
    /\ UNCHANGED <<database, badge, fetches, polls, up, buffer, handlers, ghosts, budget>>

\* Two listeners: the second sets the browser's time over the server's.
handleMessagesRead(u) ==
    /\ Comes(u, "messagesRead")
    /\ view' = IF view[u].room = Head(down[u]).room
                 THEN [view EXCEPT ![u].tick = Now] ELSE view
    /\ Handled(u)
    /\ UNCHANGED <<database, badge, fetches, polls, up, buffer, handlers, ghosts, budget>>

\* setMessages: whatever is open by now.
HistoryArrives(u, i) ==
    /\ fetches[u][i].at > 0
    /\ LET f == fetches[u][i]
           list == {m \in DOMAIN log : log[m].room = f.room /\ m < f.at}
       IN  /\ view' = [view EXCEPT ![u].list = list,
                                   ![u].tick = IF f.of = None THEN @ ELSE f.last,
                                   ![u].mixed = @ \/ Stray(u, f.room)]
           /\ seen' = [seen EXCEPT ![u] = @ \cup list]
    /\ fetches' = [fetches EXCEPT ![u] = RemoveAt(@, i)]
    /\ UNCHANGED <<database, badge, polls, socket, passed, unheard, budget>>

HistoryFails(u, i) ==
    /\ Spend("faults")
    /\ fetches' = [fetches EXCEPT ![u] = RemoveAt(@, i)]
    /\ UNCHANGED <<database, view, badge, polls, socket, ghosts>>

\* Only what is above zero is merged into the badges.
MembersArrive(u) ==
    \E counts \in polls[u] \ {None} :
       /\ polls' = [polls EXCEPT ![u] = @ \ {counts}]
       /\ badge' = [badge EXCEPT ![u] = [p \in Users |-> IF counts[p] > 0 THEN counts[p] ELSE @[p]]]
       /\ UNCHANGED <<database, view, fetches, socket, ghosts, budget>>

Handler(u, i, op, at) == handlers[u][i].op = op /\ handlers[u][i].at = at

\* Where news of a message still is.
Announcing(u, m) == \E i \in DOMAIN handlers[u] : Handler(u, i, "send", "announce") /\ handlers[u][i].time = m

Told(u, m) == \E i \in DOMAIN down[u] : down[u][i].event = "receiveMessage" /\ down[u][i].m = m

\* Refused or lost.  What no event will bring is not heard of.
MembersFail(u) ==
    /\ Spend("faults")
    /\ \E list \in polls[u] : polls' = [polls EXCEPT ![u] = @ \ {list}]
    /\ unheard' = [unheard EXCEPT ![u] = @ \cup
         {m \in DOMAIN log : log[m].to = u /\ ~ Announcing(log[m].from, m) /\ ~ Told(u, m)}]
    /\ UNCHANGED <<database, view, badge, fetches, socket, seen, passed>>

\* What the old connection's handlers still answer is lost.
Drop(u) ==
    /\ up[u]
    /\ Spend("faults")
    /\ up' = [up EXCEPT ![u] = FALSE]
    /\ down' = [down EXCEPT ![u] = << >>]
    /\ handlers' = [handlers EXCEPT ![u] = [i \in DOMAIN @ |-> [@[i] EXCEPT !.orphan = TRUE]]]
    /\ UNCHANGED <<database, view, badge, fetches, polls, buffer, ghosts>>

\* The buffered packets go first, then every listener of "connect" runs: a
\* person selected offline is joined twice.
Connect(u) ==
    /\ ~ up[u]
    /\ up' = [up EXCEPT ![u] = TRUE]
    /\ buffer' = [buffer EXCEPT ![u] = << >>]
    /\ handlers' = [handlers EXCEPT ![u] =
         @ \o buffer[u] \o IF view[u].peer = None THEN << >> ELSE <<Join(view[u].peer)>>]
    /\ polls' = [polls EXCEPT ![u] = @ \cup {None}]
    /\ UNCHANGED <<database, view, badge, fetches, down, ghosts, budget>>

----------------------------------------------------------------------------
(* The server                                                              *)

Done(u, i) == handlers' = [handlers EXCEPT ![u] = RemoveAt(@, i)]

\* io.to(userId).emit
Tell(people, event) ==
    down' = [u \in Active |-> IF u \in people /\ up[u] THEN Append(down[u], event) ELSE down[u]]

\* socket.emit of the handler's own connection
Answer(u, i, event) ==
    IF handlers[u][i].orphan THEN UNCHANGED down ELSE Tell({u}, event)

RoomJoined(room) == [event |-> "roomJoined", room |-> room, m |-> 0]

\* Mutant: one's own part is not asked for.
FindTheirs(u, p) == {room \in Room : p \in convs[room]}

\* Mutant: the lookup finds nothing.
FindNone(u, p) == {}

\* prisma.conversation.findFirst: which of several it finds is not said.
Find(u, p) == {room \in Room : convs[room] = {u, p}}

joinPrivateChat(u, i) ==
    /\ Handler(u, i, "join", "sent")
    /\ LET found == Find(u, handlers[u][i].peer)
       IN  IF found = {}
             THEN /\ handlers' = [handlers EXCEPT ![u][i].at = "create", ![u][i].time = Len(convs)]
                  /\ UNCHANGED down
             ELSE /\ \E room \in found : Answer(u, i, RoomJoined(room))
                  /\ Done(u, i)
    /\ UNCHANGED <<database, view, badge, fetches, polls, up, buffer, ghosts, budget>>

\* No unique key stands against a second conversation of the two.
CreateConversation(u, i) ==
    /\ Handler(u, i, "join", "create")
    /\ convs' = Append(convs, {u, handlers[u][i].peer})
    /\ readAt' = [v \in Active |-> Append(readAt[v], 0)]
    /\ Answer(u, i, RoomJoined(Len(convs) + 1))
    /\ Done(u, i)
    /\ UNCHANGED <<log, view, badge, fetches, polls, up, buffer, ghosts, budget>>

\* Mutant: the room is enough.
AuthorizedAnyway(u, room, p) == u \in convs[room]

\* getAuthorizedDirectConversation, and the addressee is a participant.
Authorized(u, room, p) == u \in convs[room] /\ p \in convs[room]

sendPrivateMessage(u, i) ==
    /\ Handler(u, i, "send", "sent")
    /\ LET room == handlers[u][i].room
           p == handlers[u][i].peer
       IN  IF Authorized(u, room, p)
             THEN /\ log' = Append(log, [room |-> room, from |-> u, to |-> p])
                  /\ handlers' = [handlers EXCEPT ![u][i].at = "announce", ![u][i].time = Len(log) + 1]
             ELSE Done(u, i) /\ UNCHANGED log
    /\ UNCHANGED <<convs, readAt, view, badge, fetches, polls, up, buffer, down, ghosts, budget>>

\* Stored, and signed, before anyone is told.
Announce(u, i) ==
    /\ Handler(u, i, "send", "announce")
    /\ LET room == handlers[u][i].room
       IN  Tell(convs[room], [event |-> "receiveMessage", room |-> room, m |-> handlers[u][i].time])
    /\ Done(u, i)
    /\ UNCHANGED <<database, view, badge, fetches, polls, up, buffer, ghosts, budget>>

\* The time is taken, stored and told in one step: two receipts of one person
\* may store theirs in either order, which only leaves more unread.
markAsRead(u, i) ==
    /\ Handler(u, i, "read", "sent")
    /\ LET room == handlers[u][i].room
           theirs == {m \in DOMAIN log : log[m].room = room /\ log[m].from # u}
       IN  /\ readAt' = [readAt EXCEPT ![u][room] = Now]
           /\ Tell(convs[room] \ {u}, [event |-> "messagesRead", room |-> room, m |-> 0])
           /\ passed' = [passed EXCEPT ![u] = @ \cup (theirs \ seen[u])]
    /\ Done(u, i)
    /\ UNCHANGED <<convs, log, view, badge, fetches, polls, up, buffer, seen, unheard, budget>>

\* Refused by the rate limit, arrived before the listeners, lost, or failed.  When
\* what was attached cannot be signed, the message is stored and nobody is told.
Fail(u, i) ==
    /\ Spend("faults")
    /\ LET h == handlers[u][i]
       IN  unheard' = IF h.at = "announce"
             THEN [v \in Active |-> IF v \in convs[h.room] THEN unheard[v] \cup {h.time} ELSE unheard[v]]
             ELSE unheard
    /\ Done(u, i)
    /\ UNCHANGED <<database, view, badge, fetches, polls, up, buffer, down, seen, passed>>

LastRead(p, room) == IF p \in Active /\ p \in convs[room] THEN readAt[p][room] ELSE 0

\* Messages and participants are read one after the other; what is written
\* between the two comes as an event as well.
getDirectMessages(u, i) ==
    /\ fetches[u][i].at = 0
    /\ fetches' = [fetches EXCEPT ![u][i].at = Now,
                                  ![u][i].last = LastRead(fetches[u][i].of, fetches[u][i].room)]
    /\ UNCHANGED <<database, view, badge, polls, socket, ghosts, budget>>

\* What is unread in a conversation; of several with one person, any one counts.
Unread(u, room) ==
    Cardinality({m \in DOMAIN log : log[m].room = room /\ log[m].from # u /\ m >= readAt[u][room]})

\* Its queries are one step: a message between two of them is counted or told.
\* It counts what was not heard of as well.
getWorkspaceMembers(u) ==
    /\ None \in polls[u]
    /\ \E counts \in Counts :
         /\ \A p \in Users :
              IF Find(u, p) = {} THEN counts[p] = 0 ELSE \E room \in Find(u, p) : counts[p] = Unread(u, room)
         /\ polls' = [polls EXCEPT ![u] = (@ \ {None}) \cup {counts}]
    /\ unheard' = [unheard EXCEPT ![u] = {}]
    /\ UNCHANGED <<database, view, badge, fetches, socket, seen, passed, budget>>

----------------------------------------------------------------------------
Browser(u) ==
    \/ \E p \in Users : handleUserSelect(u, p)
    \/ setActiveChannelId(u)
    \/ sendMessage(u)
    \/ handleRoomJoined(u)
    \/ handleNewMessage(u)
    \/ handleMessagesRead(u)
    \/ \E i \in DOMAIN fetches[u] : HistoryArrives(u, i) \/ HistoryFails(u, i)
    \/ MembersArrive(u)
    \/ MembersFail(u)
    \/ Drop(u)
    \/ Connect(u)

Server(u) ==
    \/ \E i \in DOMAIN handlers[u] :
         \/ joinPrivateChat(u, i)
         \/ CreateConversation(u, i)
         \/ sendPrivateMessage(u, i)
         \/ Announce(u, i)
         \/ markAsRead(u, i)
         \/ Fail(u, i)
    \/ \E i \in DOMAIN fetches[u] : getDirectMessages(u, i)
    \/ getWorkspaceMembers(u)

Next == \E u \in Active : Browser(u) \/ Server(u)

Spec == Init /\ [][Next]_vars

----------------------------------------------------------------------------
(* Properties                                                              *)

\* A late answer may leave the room of one person under the name of another;
\* still nobody is ever sent what was written to someone else, since the
\* server refuses an addressee who is not in the room.
OnlyTheAddressee ==
    \A m \in DOMAIN log : convs[log[m].room] = {log[m].from, log[m].to}

\* A second conversation of two people is created only by a handler that looked
\* before the first was there: two that follow one another share one.
SecondsAreRaced ==
    [][\A second \in DOMAIN convs' \ DOMAIN convs, first \in DOMAIN convs :
         convs[first] = convs'[second] =>
           \E u \in convs[first] \cap Active : \E i \in DOMAIN handlers[u] :
              Handler(u, i, "join", "create") /\ handlers[u][i].time < first]_vars

\* Unless an answer to an earlier selection came in between, a message is shown
\* as read only if its addressee once opened a conversation with the sender:
\* neither another person's receipt nor another's stamp is taken for it.
TickIsEarned ==
    \A u \in Active : ~ view[u].mixed =>
       \A m \in view[u].list : (log[m].from = u /\ m < view[u].tick) =>
          \E room \in Find(u, log[m].to) : LastRead(log[m].to, room) > 0

Quiet(u) ==
    /\ up[u] /\ handlers[u] = << >> /\ down[u] = << >>
    /\ fetches[u] = << >> /\ polls[u] = {}

\* When all is answered, every message was listed or its sender has a badge,
\* connections lost or not.  Not so: what was cleared or marked read before it was
\* listed (a receipt marks what is stored by then, also what was not announced
\* yet or was announced to a lost connection); people who have two conversations;
\* and, until the next member list is read, what nobody was told because the
\* handler failed after it was stored, or what the list that failed would have counted.
NothingGoesUnnoticed ==
    \A m \in DOMAIN log : LET u == log[m].to  p == log[m].from IN
       u \in Active /\ Cardinality(Find(u, p)) = 1 => (Quiet(u) =>
          \/ Announcing(p, m)
          \/ m \in seen[u] \cup passed[u] \cup unheard[u]
          \/ badge[u][p] > 0)
=============================================================================
