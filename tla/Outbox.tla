------------------------------- MODULE Outbox -------------------------------
(***************************************************************************)
(* Sending a message: one browser tab, its optimistic rows, its pending    *)
(* queue and its socket, and the two server handlers that store a message  *)
(* and announce it.                                                        *)
(*                                                                         *)
(* The composer emits at once and also queues the message.  The echo of    *)
(* the stored row (receiveMessage, receive_channel_message) takes it off   *)
(* the queue if it finds the optimistic row; whatever is still queued one  *)
(* second after a connect is emitted again, as a direct message.  A        *)
(* message is known by its tempId until the echo or the acknowledgement    *)
(* gives its row the id the database chose: the n-th stored row has id n.  *)
(***************************************************************************)
EXTENDS Naturals, FiniteSets, SequencesExt

CONSTANTS
    Direct,       \* the tempIds of messages to a person
    InChannel,    \* the tempIds of messages to a channel
    Bare,         \* of these, the ones with attachments and no text
    None,
    MaxLosses,    \* bound: connections lost, by the network, a reload of the page or a new socket
    Renewing,     \* the socket may be replaced because the access token was
    MaxMoves,     \* bound: changes of conversation
    MaxFetches,   \* bound: history requests under way together
    Prompt,       \* the server listens before the first packet arrives
    Faulty        \* handlers may be refused (rate limit) or fail (database)

Msgs == Direct \cup InChannel

\* A tempId is never taken for the id of a stored row (a UUID each).
ASSUME MsgsAssumption ==
    /\ Direct \cap InChannel = {} /\ Bare \subseteq Msgs
    /\ None \notin Msgs /\ Msgs \cap Nat = {}
ASSUME SwitchesAssumption == {Prompt, Faulty, Renewing} \subseteq BOOLEAN
ASSUME BoundsAssumption == {MaxLosses, MaxMoves, MaxFetches} \subseteq Nat

VARIABLES
    view,      \* what is open: selectedUser, activeRoomId, activeChannelId
    rows,      \* the message list, [id, tempId]
    queue,     \* pendingQueue
    composed,  \* the messages sent off so far
    fetches,   \* history requests: the conversation, and the ids read if any
    up,        \* the socket is connected
    buffer,    \* what was emitted while it was not
    net,       \* packets to the server
    down,      \* events to the client
    timers,    \* armed one-second timers of this socket and of replaced ones
    server,    \* its end of the socket: listening, in the channel's room
    handlers,  \* handlers under way; the socket of an orphan is gone
    stored,    \* the message table: the n-th row's tempId
    budget     \* what is left of the bounds

client == <<view, rows, queue, composed, fetches>>
link == <<up, buffer, net, timers>>
vars == <<client, link, down, server, handlers, stored, budget>>

Bound == MaxLosses + 1
Id == Msgs \cup DOMAIN stored

TypeOK ==
    /\ view \in [peer : BOOLEAN, room : BOOLEAN, channel : BOOLEAN]
    /\ \A i \in DOMAIN rows : rows[i].id \in Id /\ rows[i].tempId \in Msgs \cup {None}
    /\ Range(queue) \subseteq composed
    /\ composed \subseteq Msgs
    /\ \A f \in fetches : f.of \in {"dm", "channel"}
    /\ up \in BOOLEAN
    /\ up => buffer = << >>
    /\ ~ up => net = << >> /\ down = << >> /\ ~ server.listening /\ ~ server.inRoom
    /\ timers \in [own : 0 .. Bound, stale : 0 .. Bound]
    /\ \A i \in DOMAIN handlers : handlers[i].pc \in {"create", "announce"}
    /\ Range(stored) \subseteq composed

Init ==
    /\ view = [peer |-> FALSE, room |-> FALSE, channel |-> FALSE]
    /\ rows = << >> /\ queue = << >> /\ composed = {} /\ fetches = {}
    /\ up = FALSE /\ buffer = << >> /\ net = << >> /\ down = << >>
    /\ timers = [own |-> 0, stale |-> 0]
    /\ server = [listening |-> FALSE, inRoom |-> FALSE]
    /\ handlers = << >> /\ stored = << >>
    /\ budget = [losses |-> MaxLosses, moves |-> MaxMoves]

----------------------------------------------------------------------------
(* The socket of socket.io                                                 *)

Packet(op, m) == [op |-> op, m |-> m]

\* emit: sent, or kept for the next connect.
Emit(packets) ==
    IF up
      THEN net' = net \o packets /\ UNCHANGED buffer
      ELSE buffer' = buffer \o packets /\ UNCHANGED net

Ask(conversation) ==
    /\ fetches' = fetches \cup {[of |-> conversation, seen |-> None]}
    /\ Cardinality(fetches') <= MaxFetches

\* Mutant: the buffer is sent and kept.
ConnectKeeping ==
    /\ ~ up
    /\ up' = TRUE
    /\ net' = buffer \o IF view.peer THEN <<Packet("join", None)>> ELSE << >>
    /\ timers' = [timers EXCEPT !.own = @ + 1]
    /\ server' = [server EXCEPT !.listening = Prompt]
    /\ IF view.channel THEN Ask("channel") ELSE UNCHANGED fetches
    /\ UNCHANGED <<view, rows, queue, composed, buffer, down, handlers, stored, budget>>

\* Mutant: no timer is armed.
ConnectIdle ==
    /\ ~ up
    /\ up' = TRUE
    /\ buffer' = << >>
    /\ net' = buffer \o IF view.peer THEN <<Packet("join", None)>> ELSE << >>
    /\ UNCHANGED timers
    /\ server' = [server EXCEPT !.listening = Prompt]
    /\ IF view.channel THEN Ask("channel") ELSE UNCHANGED fetches
    /\ UNCHANGED <<view, rows, queue, composed, down, handlers, stored, budget>>

\* What was emitted offline goes first, then the listeners of "connect" run:
\* they arm the timer and hydrate the open conversation again.
Connect ==
    /\ ~ up
    /\ up' = TRUE
    /\ buffer' = << >>
    /\ net' = buffer \o IF view.peer THEN <<Packet("join", None)>> ELSE << >>
    /\ timers' = [timers EXCEPT !.own = @ + 1]
    /\ server' = [server EXCEPT !.listening = Prompt]
    /\ IF view.channel THEN Ask("channel") ELSE UNCHANGED fetches
    /\ UNCHANGED <<view, rows, queue, composed, down, handlers, stored, budget>>

\* The connection handler registers its listeners after its own awaits.
Listen ==
    /\ up /\ ~ server.listening
    /\ server' = [server EXCEPT !.listening = TRUE]
    /\ UNCHANGED <<client, link, down, handlers, stored, budget>>

\* The list of channels is fetched on connect, and every room joined.
RejoinChannels ==
    /\ server.listening /\ ~ server.inRoom
    /\ server' = [server EXCEPT !.inRoom = TRUE]
    /\ UNCHANGED <<client, link, down, handlers, stored, budget>>

Sever ==
    /\ up' = FALSE
    /\ net' = << >> /\ down' = << >>
    /\ server' = [listening |-> FALSE, inRoom |-> FALSE]
    /\ handlers' = [i \in DOMAIN handlers |-> [handlers[i] EXCEPT !.orphan = TRUE]]

Drop ==
    /\ up /\ budget.losses > 0
    /\ budget' = [budget EXCEPT !.losses = @ - 1]
    /\ Sever
    /\ UNCHANGED <<client, buffer, timers, stored>>

\* A new access token makes a new socket: the old one's buffer goes with it,
\* its timer does not.  The history of an open channel is fetched again.
Renew ==
    /\ Renewing /\ budget.losses > 0
    /\ budget' = [budget EXCEPT !.losses = @ - 1]
    /\ buffer' = << >>
    /\ timers' = [own |-> 0, stale |-> timers.own + timers.stale]
    /\ Sever
    /\ IF view.channel THEN Ask("channel") ELSE UNCHANGED fetches
    /\ UNCHANGED <<view, rows, queue, composed, stored>>

\* Mutant: nothing is persisted.
ReloadForgetting ==
    /\ budget.losses > 0
    /\ budget' = [budget EXCEPT !.losses = @ - 1]
    /\ view' = [peer |-> FALSE, room |-> FALSE, channel |-> FALSE]
    /\ rows' = << >> /\ fetches' = {} /\ queue' = << >>
    /\ buffer' = << >>
    /\ timers' = [own |-> 0, stale |-> 0]
    /\ Sever
    /\ UNCHANGED <<composed, stored>>

\* Of the page only the queue is kept, in localStorage.
Reload ==
    /\ budget.losses > 0
    /\ budget' = [budget EXCEPT !.losses = @ - 1]
    /\ view' = [peer |-> FALSE, room |-> FALSE, channel |-> FALSE]
    /\ rows' = << >> /\ fetches' = {}
    /\ buffer' = << >>
    /\ timers' = [own |-> 0, stale |-> 0]
    /\ Sever
    /\ UNCHANGED <<queue, composed, stored>>

----------------------------------------------------------------------------
(* The tab                                                                 *)

Move ==
    /\ budget.moves > 0
    /\ budget' = [budget EXCEPT !.moves = @ - 1]
    /\ rows' = << >>
    /\ UNCHANGED <<queue, composed, up, timers, down, handlers, stored>>

SelectUser ==
    /\ Move
    /\ view' = [peer |-> TRUE, room |-> FALSE, channel |-> FALSE]
    /\ Emit(<<Packet("join", None)>>)
    /\ UNCHANGED <<fetches, server>>

\* Selecting the open channel again clears its list and fetches nothing.
\* join_channel is emitted too: its effect is RejoinChannels.
SelectChannel ==
    /\ Move
    /\ view' = [peer |-> FALSE, room |-> FALSE, channel |-> TRUE]
    /\ IF view.channel THEN UNCHANGED fetches ELSE Ask("channel")
    /\ UNCHANGED <<buffer, net, server>>

addPendingMessage(m) ==
    /\ rows' = Append(rows, [id |-> m, tempId |-> m])
    /\ queue' = Append(queue, m)

\* The composer looks at the socket object, never at its connection.
sendMessage(m) ==
    /\ m \notin composed
    /\ composed' = composed \cup {m}
    /\ \/ view.channel /\ m \in InChannel /\ Emit(<<Packet("channel", m)>>)
       \/ ~ view.channel /\ view.room /\ view.peer /\ m \in Direct /\ Emit(<<Packet("dm", m)>>)
    /\ addPendingMessage(m)
    /\ UNCHANGED <<view, fetches, up, timers, down, server, handlers, stored, budget>>

\* Mutant: what was emitted again stays queued.
FlushKeeping ==
    /\ timers.own > 0
    /\ timers' = [timers EXCEPT !.own = @ - 1]
    /\ Emit([i \in DOMAIN queue |-> Packet("retry", queue[i])])
    /\ UNCHANGED queue
    /\ UNCHANGED <<view, rows, composed, fetches, up, down, server, handlers, stored, budget>>

\* One second after a connect.
Flush ==
    /\ timers.own > 0
    /\ timers' = [timers EXCEPT !.own = @ - 1]
    /\ Emit([i \in DOMAIN queue |-> Packet("retry", queue[i])])
    /\ queue' = << >>
    /\ UNCHANGED <<view, rows, composed, fetches, up, down, server, handlers, stored, budget>>

\* The timer of a replaced socket emits into that socket.
FlushStale ==
    /\ timers.stale > 0
    /\ timers' = [timers EXCEPT !.stale = @ - 1]
    /\ queue' = << >>
    /\ UNCHANGED <<view, rows, composed, fetches, up, buffer, net, down, server, handlers,
                   stored, budget>>

\* The entries of s that are in S, in their order.
Kept(s, S) ==
    LET upTo[n \in 0 .. Len(s)] ==
          IF n = 0 THEN << >>
          ELSE IF s[n] \in S THEN Append(upTo[n - 1], s[n]) ELSE upTo[n - 1]
    IN  upTo[Len(s)]

\* Does an incoming row stand for the row already listed?
Matches(row, new) ==
    \/ row.id = new.id
    \/ new.tempId # None /\ (row.tempId = new.tempId \/ row.id = new.tempId)
    \/ row.tempId # None /\ row.tempId = new.id

\* Mutant: the filter is inverted.
addMessageInverted(new) ==
    LET found == {i \in DOMAIN rows : Matches(rows[i], new)}
        i == Min(found)
    IN  IF found = {}
          THEN rows' = Append(rows, new) /\ UNCHANGED queue
          ELSE /\ rows' = [rows EXCEPT ![i] =
                             [id |-> new.id,
                              tempId |-> IF new.tempId = None THEN @.tempId ELSE new.tempId]]
               /\ queue' = Kept(queue, {rows[i].id, new.id, new.tempId})

addMessage(new) ==
    LET found == {i \in DOMAIN rows : Matches(rows[i], new)}
        i == Min(found)
    IN  IF found = {}
          THEN rows' = Append(rows, new) /\ UNCHANGED queue
          ELSE /\ rows' = [rows EXCEPT ![i] =
                             [id |-> new.id,
                              tempId |-> IF new.tempId = None THEN @.tempId ELSE new.tempId]]
               /\ queue' = Kept(queue, Msgs \ {rows[i].id, new.id, new.tempId})

\* Mutant: every row still waiting is taken for the acknowledged one.
updateRealMessageIdLoose(tempId, realId) ==
    rows' = [i \in DOMAIN rows |->
               IF rows[i].id \in Msgs
                 THEN [rows[i] EXCEPT !.id = realId] ELSE rows[i]]

updateRealMessageId(tempId, realId) ==
    rows' = [i \in DOMAIN rows |->
               IF tempId \in {rows[i].tempId, rows[i].id}
                 THEN [rows[i] EXCEPT !.id = realId] ELSE rows[i]]

\* The event at the head of down, one disjunct per listener.
Handle ==
    /\ down # << >>
    /\ down' = Tail(down)
    /\ LET e == Head(down)
       IN  \/ /\ e.ev = "receive"
              /\ IF (IF e.m \in Direct THEN view.room ELSE view.channel)
                   THEN addMessage([id |-> e.id, tempId |-> e.m])
                   ELSE UNCHANGED <<rows, queue>>
              /\ UNCHANGED <<view, fetches>>
           \/ /\ e.ev = "messageSentAck"
              /\ updateRealMessageId(e.m, e.id)
              /\ UNCHANGED <<view, queue, fetches>>
           \/ /\ e.ev = "roomJoined"
              /\ view' = [view EXCEPT !.room = TRUE]
              /\ Ask("dm")
              /\ UNCHANGED <<rows, queue>>
           \/ /\ e.ev = "dm_recipient_unavailable"
              /\ UNCHANGED <<view, rows, queue, fetches>>
    /\ UNCHANGED <<composed, link, server, handlers, stored, budget>>

----------------------------------------------------------------------------
(* History over HTTP                                                       *)

Conversation(of) == IF of = "dm" THEN Direct ELSE InChannel

AnswerFetch(f) ==
    /\ f \in fetches /\ f.seen = None
    /\ fetches' = (fetches \ {f}) \cup
         { [of |-> f.of,
            seen |-> Kept([n \in DOMAIN stored |-> n],
                          {n \in DOMAIN stored : stored[n] \in Conversation(f.of)})] }
    /\ UNCHANGED <<view, rows, queue, composed, link, down, server, handlers, stored, budget>>

\* setMessages: whatever the list shows by now.
ApplyFetch(f) ==
    /\ f \in fetches /\ f.seen # None
    /\ fetches' = fetches \ {f}
    /\ rows' = [i \in DOMAIN f.seen |-> [id |-> f.seen[i], tempId |-> None]]
    /\ UNCHANGED <<view, queue, composed, link, down, server, handlers, stored, budget>>

FailFetch(f) ==
    /\ Faulty
    /\ f \in fetches
    /\ fetches' = fetches \ {f}
    /\ UNCHANGED <<view, rows, queue, composed, link, down, server, handlers, stored, budget>>

----------------------------------------------------------------------------
(* The server                                                              *)

Reach(events) == down' = down \o events

\* A packet nobody listens for yet is lost.
Unheard ==
    /\ net # << >> /\ ~ server.listening
    /\ net' = Tail(net)
    /\ UNCHANGED <<client, up, buffer, timers, down, server, handlers, stored, budget>>

\* A retry carries the text only, to the target the queue remembers: the
\* schema refuses one without text, and "channel" is no user.
Receive ==
    /\ net # << >> /\ server.listening
    /\ net' = Tail(net)
    /\ LET p == Head(net)
       IN  \/ /\ p.op = "join"
              /\ Reach(<<[ev |-> "roomJoined", m |-> None, id |-> 0]>>)
              /\ UNCHANGED handlers
           \/ /\ p.op = "retry" /\ p.m \in Bare
              /\ UNCHANGED <<down, handlers>>
           \/ /\ p.op = "retry" /\ p.m \in InChannel \ Bare
              /\ Reach(<<[ev |-> "dm_recipient_unavailable", m |-> p.m, id |-> 0]>>)
              /\ UNCHANGED handlers
           \/ /\ p.op \in {"dm", "channel"} \/ (p.op = "retry" /\ p.m \in Direct \ Bare)
              /\ handlers' = Append(handlers, [m |-> p.m, pc |-> "create", id |-> 0,
                                               orphan |-> FALSE])
              /\ UNCHANGED down
    /\ UNCHANGED <<client, up, buffer, timers, server, stored, budget>>

Create(i) ==
    /\ handlers[i].pc = "create"
    /\ stored' = Append(stored, handlers[i].m)
    /\ handlers' = [handlers EXCEPT ![i].pc = "announce", ![i].id = Len(stored) + 1]
    /\ UNCHANGED <<client, link, down, server, budget>>

\* After the attachments are signed: to the sender's own room, or to the
\* channel's, whichever socket is in it by now; the acknowledgement only to
\* the socket the message came by.
Announce(i) ==
    LET h == handlers[i]
        heard == up /\ (h.m \in InChannel => server.inRoom)
    IN  /\ h.pc = "announce"
        /\ Reach((IF heard THEN <<[ev |-> "receive", m |-> h.m, id |-> h.id]>> ELSE << >>)
                 \o (IF h.orphan THEN << >>
                       ELSE <<[ev |-> "messageSentAck", m |-> h.m, id |-> h.id]>>))
        /\ handlers' = RemoveAt(handlers, i)
        /\ UNCHANGED <<client, link, server, stored, budget>>

\* No callback was passed: nobody is told.
Fail(i) ==
    /\ Faulty
    /\ handlers' = RemoveAt(handlers, i)
    /\ UNCHANGED <<client, link, down, server, stored, budget>>

----------------------------------------------------------------------------
Fetching == \E f \in fetches : AnswerFetch(f) \/ ApplyFetch(f) \/ FailFetch(f)

Serving == \E i \in DOMAIN handlers : Create(i) \/ Announce(i) \/ Fail(i)

Next ==
    \/ Connect \/ Listen \/ RejoinChannels \/ Drop \/ Renew \/ Reload
    \/ SelectUser \/ SelectChannel
    \/ \E m \in Msgs : sendMessage(m)
    \/ Flush \/ FlushStale \/ Handle
    \/ Fetching
    \/ Unheard \/ Receive \/ Serving

Spec == Init /\ [][Next]_vars

\* The browser and the server run their event loops, the socket reconnects,
\* a pending query returns.  Nothing is owed by the user or by the network.
Fairness ==
    /\ WF_vars(Connect) /\ WF_vars(Listen) /\ WF_vars(Flush) /\ WF_vars(Handle)
    /\ WF_vars(Fetching) /\ WF_vars(Receive) /\ WF_vars(Serving)

FairSpec == Spec /\ Fairness

----------------------------------------------------------------------------
Copies(m) == Cardinality({n \in DOMAIN stored : stored[n] = m})

\* A retry happens once: however often the connection is lost and replaced,
\* a message has at most two rows in the table, and only one if its retry
\* cannot be stored (SocketProvider 57-70, messageSlice removePendingMessage);
\* and no row appears for a message nobody composed.
Tries == [m \in Msgs |-> IF m \in Direct \ Bare THEN 2 ELSE 1]
D == INSTANCE Delivery WITH copies <- [m \in Msgs |-> Copies(m)]
DeliverySpec == D!Spec

\* Whatever the order of echoes, acknowledgements, retries and histories, a
\* row that knows its tempId shows that tempId or the id of a row stored for
\* it, and every other row shows a stored one.
RowsAreFaithful ==
    \A i \in DOMAIN rows :
      LET row == rows[i]
      IN  \/ row.tempId # None /\ row.id = row.tempId
          \/ row.id \in DOMAIN stored /\ row.tempId \in {None, stored[row.id]}

\* A message leaves the queue by a retry or because its row is stored: neither a
\* reload nor the reconciliation with another message's row takes it away.
PrunedOnlyWhenStored ==
    [][ \A m \in Range(queue) :
          m \notin Range(queue') => timers' # timers \/ Copies(m) > 0 ]_vars

\* Once the connection is lost no more and the page not reloaded, a message to
\* a person that is still queued is stored, one that was queued before the page
\* was included, provided the server listens in time and no handler fails.
\* (A retry that is lost is not queued any more.)
QueueReachesTheTable ==
    \A m \in Direct \ Bare :
      (m \in Range(queue) /\ budget.losses = 0 /\ ~ Renewing) ~> Copies(m) > 0
=============================================================================
