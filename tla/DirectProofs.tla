---------------------------- MODULE DirectProofs ----------------------------
(***************************************************************************)
(* Theorems about DirectConversation: nobody is sent what was written to   *)
(* someone else, a second conversation of two people takes a race, ticks   *)
(* are earned, and nothing goes unnoticed, for any people, bounds, faults  *)
(* and orders of answers.  IInv is of rooms and addressees; Full adds the  *)
(* types, what is shown, and where each notice is.                         *)
(***************************************************************************)
EXTENDS DirectConversation, FiniteSetTheorems, SequenceTheorems, TLAPS

PacketOver(peers) ==
    [op : {"join", "read", "send"}, peer : peers, room : Nat,
     at : {"sent", "create", "announce"}, time : Nat, orphan : BOOLEAN]

\* What u may have sent, over the conversations cs: nothing to themselves, only
\* into rooms there are; one who is about to create a conversation saw none.
Packet(u, cs) ==
    {h \in PacketOver((Users \cup {None}) \ {u}) :
       /\ h.op \in {"join", "send"} => h.peer # None
       /\ h.op = "send" => h.room \in DOMAIN cs
       /\ h.at = "create" => /\ h.time <= Len(cs)
                             /\ \A room \in DOMAIN cs : cs[room] = {u, h.peer} => h.time < room}

Event(cs) ==
    {e \in [event : {"roomJoined", "receiveMessage", "messagesRead"}, room : Nat, m : Nat] :
       e.event = "roomJoined" => e.room \in DOMAIN cs}

\* A message that was stored is of the two whose conversation it is in.
Message(cs) ==
    {m \in [room : DOMAIN cs, from : Active, to : Users] : cs[m.room] = {m.from, m.to}}

PacketsAreOwn ==
    /\ DOMAIN handlers = Active /\ DOMAIN buffer = Active
    /\ \A u \in Active : handlers[u] \in Seq(Packet(u, convs)) /\ buffer[u] \in Seq(Packet(u, convs))

EventsAreOfRooms == DOMAIN down = Active /\ \A u \in Active : down[u] \in Seq(Event(convs))

ViewsAreOfRooms ==
    /\ DOMAIN view = Active
    /\ \A u \in Active :
         /\ {"peer", "room"} \subseteq DOMAIN view[u]
         /\ view[u].peer \in (Users \cup {None}) \ {u}
         /\ view[u].room \in 0 .. Len(convs)

IInv ==
    /\ convs \in Seq(Pair)
    /\ log \in Seq(Message(convs))
    /\ PacketsAreOwn
    /\ EventsAreOfRooms
    /\ ViewsAreOfRooms

----------------------------------------------------------------------------
(* Sequences                                                               *)

LEMMA RemoveAtType ==
  ASSUME NEW S, NEW s \in Seq(S), NEW i \in DOMAIN s
  PROVE  RemoveAt(s, i) \in Seq(S)
<1>1. Len(s) \in Nat /\ DOMAIN s = 1 .. Len(s) /\ i \in Int
  BY LenProperties
<1>2. \A j \in 1 .. Len(s) : s[j] \in S
  BY ElementOfSeq
<1>3. SubSeq(s, 1, i - 1) \in Seq(S)
  BY <1>1, <1>2, SubSeqProperties
<1>4. SubSeq(s, i + 1, Len(s)) \in Seq(S)
  BY <1>1, <1>2, SubSeqProperties
<1> QED
  BY <1>3, <1>4, ConcatProperties DEF RemoveAt

LEMMA AppendType ==
  ASSUME NEW S, NEW s \in Seq(S), NEW e \in S
  PROVE  Append(s, e) \in Seq(S)
  OBVIOUS

\* One more conversation takes nothing away.
LEMMA Grows ==
  ASSUME NEW cs \in Seq(Pair), NEW pair \in Pair, NEW u
  PROVE  LET more == Append(cs, pair)
         IN  /\ more \in Seq(Pair) /\ Len(more) = Len(cs) + 1
             /\ DOMAIN cs \subseteq DOMAIN more
             /\ Packet(u, cs) \subseteq Packet(u, more)
             /\ Event(cs) \subseteq Event(more)
             /\ Message(cs) \subseteq Message(more)
<1> DEFINE more == Append(cs, pair)
<1>1. /\ more \in Seq(Pair) /\ Len(more) = Len(cs) + 1 /\ Len(cs) \in Nat
      /\ DOMAIN cs = 1 .. Len(cs) /\ DOMAIN more = 1 .. Len(cs) + 1
      /\ \A room \in DOMAIN cs : more[room] = cs[room]
  OBVIOUS
<1> HIDE DEF more
<1>2. DOMAIN cs \subseteq DOMAIN more
  BY <1>1
<1>3. Packet(u, cs) \subseteq Packet(u, more)
  <2> SUFFICES ASSUME NEW h \in Packet(u, cs) PROVE h \in Packet(u, more)
    OBVIOUS
  <2>1. h.time \in Nat
    BY DEF Packet, PacketOver
  <2>2. ASSUME h.at = "create", NEW room \in DOMAIN more, more[room] = {u, h.peer}
        PROVE  h.time < room
    <3>1. CASE room \in DOMAIN cs
      BY <1>1, <2>2, <3>1 DEF Packet
    <3>2. CASE room \notin DOMAIN cs
      <4>1. room = Len(cs) + 1 /\ h.time <= Len(cs)
        BY <1>1, <2>2, <3>2 DEF Packet
      <4> QED
        BY <1>1, <2>1, <4>1
    <3> QED
      BY <3>1, <3>2
  <2>3. h.at = "create" => h.time <= Len(more)
    BY <1>1, <2>1 DEF Packet
  <2> QED
    BY <1>2, <2>2, <2>3 DEF Packet
<1>4. Event(cs) \subseteq Event(more)
  BY <1>2 DEF Event
<1>5. Message(cs) \subseteq Message(more)
  BY <1>1, <1>2 DEF Message
<1> QED
  BY <1>1, <1>2, <1>3, <1>4, <1>5 DEF more
----------------------------------------------------------------------------
(* Parts of the browser's steps                                            *)

LEMMA SelectedPackets ==
  ASSUME NEW u \in Active, NEW p \in Users \ {u}
  PROVE  /\ Join(p) \in Packet(u, convs)
         /\ \A room \in Nat : Read(room) \in Packet(u, convs)
         /\ \A room \in Nat \cap DOMAIN convs : Send(room, p) \in Packet(u, convs)
<1>1. None \notin Users /\ Active \subseteq Users
  BY UsersAssumption
<1> QED
  BY <1>1 DEF Packet, PacketOver, Join, Read, Send

LEMMA ReadPacket ==
  ASSUME NEW u \in Active, NEW room \in Nat
  PROVE  Read(room) \in Packet(u, convs)
  BY UsersAssumption DEF Packet, PacketOver, Read

LEMMA EmitKeeps ==
  ASSUME PacketsAreOwn, UNCHANGED convs, NEW u \in Active, NEW packet \in Packet(u, convs),
         Emit(u, packet)
  PROVE  PacketsAreOwn'
<1>1. Append(handlers[u], packet) \in Seq(Packet(u, convs))
      /\ Append(buffer[u], packet) \in Seq(Packet(u, convs))
  BY AppendType DEF PacketsAreOwn
<1>2. CASE /\ handlers' = [handlers EXCEPT ![u] = Append(@, packet)]
           /\ UNCHANGED buffer
  BY <1>1, <1>2 DEF PacketsAreOwn
<1>3. CASE /\ buffer' = [buffer EXCEPT ![u] = Append(@, packet)]
           /\ UNCHANGED handlers
  BY <1>1, <1>3 DEF PacketsAreOwn
<1> QED
  BY <1>2, <1>3 DEF Emit

LEMMA SamePackets ==
  ASSUME PacketsAreOwn, UNCHANGED <<convs, handlers, buffer>> PROVE PacketsAreOwn'
  BY DEF PacketsAreOwn

LEMMA SameEvents == ASSUME EventsAreOfRooms, UNCHANGED <<convs, down>> PROVE EventsAreOfRooms'
  BY DEF EventsAreOfRooms

LEMMA HandledKeeps ==
  ASSUME EventsAreOfRooms, UNCHANGED convs, NEW u \in Active, down[u] # << >>, Handled(u)
  PROVE  EventsAreOfRooms' /\ Head(down[u]) \in Event(convs)
<1>1. Head(down[u]) \in Event(convs) /\ Tail(down[u]) \in Seq(Event(convs))
  BY HeadTailProperties DEF EventsAreOfRooms
<1> QED
  BY <1>1 DEF EventsAreOfRooms, Handled

LEMMA SameViews == ASSUME ViewsAreOfRooms, UNCHANGED <<convs, view>> PROVE ViewsAreOfRooms'
  BY DEF ViewsAreOfRooms

LEMMA NewView ==
  ASSUME ViewsAreOfRooms, UNCHANGED convs, NEW u \in Active, NEW new,
         view' = [view EXCEPT ![u] = new], {"peer", "room"} \subseteq DOMAIN new,
         new.peer \in (Users \cup {None}) \ {u}, new.room \in 0 .. Len(convs)
  PROVE  ViewsAreOfRooms'
  BY DEF ViewsAreOfRooms

\* What is listed or ticked in a view says nothing of its room.
LEMMA SameRoom ==
  ASSUME ViewsAreOfRooms, UNCHANGED convs, NEW u \in Active, NEW list, NEW tick,
         \/ view' = [view EXCEPT ![u].list = list]
         \/ view' = [view EXCEPT ![u].tick = tick]
  PROVE  ViewsAreOfRooms'
  BY DEF ViewsAreOfRooms

LEMMA Shown ==
  ASSUME IInv, UNCHANGED convs, NEW u \in Active, NEW p \in (Users \cup {None}) \ {u}, Show(u, p)
  PROVE  ViewsAreOfRooms'
<1>1. /\ view' = [view EXCEPT ![u] = Empty(p, 0)] /\ Len(convs) \in Nat
      /\ {"peer", "room"} \subseteq DOMAIN Empty(p, 0)
      /\ Empty(p, 0).peer = p /\ Empty(p, 0).room = 0
  BY DEF Show, Empty, IInv
<1>2. Empty(p, 0).peer \in (Users \cup {None}) \ {u} /\ Empty(p, 0).room \in 0 .. Len(convs)
  BY <1>1
<1>3. ViewsAreOfRooms
  BY DEF IInv
<1> QED
  BY <1>1, <1>2, <1>3, NewView

\* A step of the browser that leaves the database alone.
LEMMA Kept ==
  ASSUME IInv, UNCHANGED <<convs, log>>, PacketsAreOwn', EventsAreOfRooms', ViewsAreOfRooms'
  PROVE  IInv'
  BY DEF IInv

----------------------------------------------------------------------------
(* The browser's steps                                                     *)

LEMMA SelectKeeps == ASSUME IInv, NEW u \in Active, NEW p \in Users, handleUserSelect(u, p) PROVE IInv'
<1>1. p # u /\ Show(u, p) /\ Emit(u, Join(p)) /\ UNCHANGED <<convs, log, down>>
  BY DEF handleUserSelect, database
<1>2. ViewsAreOfRooms'
  BY <1>1, Shown
<1>3. PacketsAreOwn'
  BY <1>1, SelectedPackets, EmitKeeps DEF IInv
<1> QED
  BY <1>1, <1>2, <1>3, SameEvents, Kept DEF IInv

LEMMA ChannelKeeps == ASSUME IInv, NEW u \in Active, setActiveChannelId(u) PROVE IInv'
<1>1. Show(u, None) /\ UNCHANGED <<convs, log, handlers, buffer, down>> /\ None # u
  BY UsersAssumption DEF setActiveChannelId, database, socket
<1>2. ViewsAreOfRooms'
  BY <1>1, Shown
<1> QED
  BY <1>1, <1>2, SamePackets, SameEvents, Kept DEF IInv

LEMMA SendKeeps == ASSUME IInv, NEW u \in Active, sendMessage(u) PROVE IInv'
<1>1. /\ view[u].peer # None /\ view[u].room # 0 /\ Emit(u, Send(view[u].room, view[u].peer))
      /\ UNCHANGED <<convs, log, view, down>>
  BY DEF sendMessage, database
<1>2. view[u].peer \in Users \ {u} /\ view[u].room \in Nat \cap DOMAIN convs
  BY <1>1 DEF IInv, ViewsAreOfRooms
<1>3. PacketsAreOwn'
  BY <1>1, <1>2, SelectedPackets, EmitKeeps DEF IInv
<1> QED
  BY <1>1, <1>3, SameEvents, SameViews, Kept DEF IInv

LEMMA RoomJoinedKeeps == ASSUME IInv, NEW u \in Active, handleRoomJoined(u) PROVE IInv'
<1> DEFINE room == Head(down[u]).room
           new == [view[u] EXCEPT !.room = room, !.mixed = @ \/ Stray(u, room)]
<1>1. /\ down[u] # << >> /\ Head(down[u]).event = "roomJoined" /\ Handled(u)
      /\ view' = [view EXCEPT ![u].room = room, ![u].mixed = @ \/ Stray(u, room)]
      /\ UNCHANGED <<convs, log>>
      /\ \/ UNCHANGED <<handlers, buffer>>
         \/ Emit(u, Read(room))
  BY DEF handleRoomJoined, Comes, database
<1>2. EventsAreOfRooms' /\ room \in DOMAIN convs /\ room \in Nat
  BY <1>1, HandledKeeps DEF IInv, Event
<1>4. PacketsAreOwn'
  BY <1>1, <1>2, ReadPacket, EmitKeeps, SamePackets DEF IInv
<1>5. view' = [view EXCEPT ![u] = new]
  BY <1>1 DEF IInv, ViewsAreOfRooms
<1>6. /\ {"peer", "room"} \subseteq DOMAIN new
      /\ new.peer = view[u].peer /\ new.room = room
  BY DEF IInv, ViewsAreOfRooms
<1>7. room \in 0 .. Len(convs) /\ view[u].peer \in (Users \cup {None}) \ {u}
  BY <1>2 DEF IInv, ViewsAreOfRooms
<1> HIDE DEF new
<1>8. ViewsAreOfRooms'
  BY <1>1, <1>5, <1>6, <1>7, NewView DEF IInv
<1> QED
  BY <1>1, <1>2, <1>4, <1>8, Kept

LEMMA NewMessageKeeps == ASSUME IInv, NEW u \in Active, handleNewMessage(u) PROVE IInv'
<1> DEFINE m == Head(down[u]).m
<1>1. /\ down[u] # << >> /\ Handled(u) /\ UNCHANGED <<convs, log>>
      /\ UNCHANGED view \/ view' = [view EXCEPT ![u].list = @ \cup {m}]
      /\ \/ UNCHANGED <<handlers, buffer>>
         \/ Emit(u, Read(view[u].room))
  BY DEF handleNewMessage, Comes, database
<1>2. EventsAreOfRooms'
  BY <1>1, HandledKeeps DEF IInv
<1>3. view[u].room \in Nat
  BY DEF IInv, ViewsAreOfRooms
<1>4. PacketsAreOwn'
  BY <1>1, <1>3, ReadPacket, EmitKeeps, SamePackets DEF IInv
<1>5. ViewsAreOfRooms'
  BY <1>1, SameRoom, SameViews DEF IInv
<1> QED
  BY <1>1, <1>2, <1>4, <1>5, Kept

LEMMA MessagesReadKeeps == ASSUME IInv, NEW u \in Active, handleMessagesRead(u) PROVE IInv'
<1>1. /\ down[u] # << >> /\ Handled(u) /\ UNCHANGED <<convs, log, handlers, buffer>>
      /\ UNCHANGED view \/ view' = [view EXCEPT ![u].tick = Now]
  BY DEF handleMessagesRead, Comes, database
<1>2. ViewsAreOfRooms'
  BY <1>1, SameRoom, SameViews DEF IInv
<1> QED
  BY <1>1, <1>2, HandledKeeps, SamePackets, Kept DEF IInv

LEMMA HistoryKeeps ==
  ASSUME IInv, NEW u \in Active, NEW i, HistoryArrives(u, i) \/ HistoryFails(u, i)
  PROVE  IInv'
<1> DEFINE f == fetches[u][i]
           list == {m \in DOMAIN log : log[m].room = f.room /\ m < f.at}
           tick == IF f.of = None THEN view[u].tick ELSE f.last
           mixed == view[u].mixed \/ Stray(u, f.room)
           new == [view[u] EXCEPT !.list = list, !.tick = tick, !.mixed = mixed]
<1>1. UNCHANGED <<convs, log, handlers, buffer, down>>
  BY DEF HistoryArrives, HistoryFails, database, socket
<1>2. ViewsAreOfRooms'
  <2>1. CASE HistoryArrives(u, i)
    <3>1. view' = [view EXCEPT ![u] = new]
      BY <2>1 DEF HistoryArrives, IInv, ViewsAreOfRooms
    <3>2. /\ {"peer", "room"} \subseteq DOMAIN new
          /\ new.peer = view[u].peer /\ new.room = view[u].room
      BY DEF IInv, ViewsAreOfRooms
    <3> HIDE DEF new
    <3>3. new.peer \in (Users \cup {None}) \ {u} /\ new.room \in 0 .. Len(convs)
      BY <3>2 DEF IInv, ViewsAreOfRooms
    <3> QED
      BY <1>1, <3>1, <3>2, <3>3, NewView DEF IInv
  <2>2. CASE HistoryFails(u, i)
    BY <1>1, <2>2, SameViews DEF HistoryFails, IInv
  <2> QED
    BY <2>1, <2>2
<1> QED
  BY <1>1, <1>2, SamePackets, SameEvents, Kept DEF IInv
\* One packet of a sequence is altered, or each of them.
LEMMA OrphanType ==
  ASSUME NEW u \in Active, NEW s \in Seq(Packet(u, convs))
  PROVE  [i \in DOMAIN s |-> [s[i] EXCEPT !.orphan = TRUE]] \in Seq(Packet(u, convs))
<1> DEFINE left == [i \in DOMAIN s |-> [s[i] EXCEPT !.orphan = TRUE]]
<1>1. Len(s) \in Nat /\ DOMAIN s = 1 .. Len(s)
  OBVIOUS
<1>2. \A i \in 1 .. Len(s) : [s[i] EXCEPT !.orphan = TRUE] \in Packet(u, convs)
  <2> SUFFICES ASSUME NEW i \in 1 .. Len(s) PROVE [s[i] EXCEPT !.orphan = TRUE] \in Packet(u, convs)
    OBVIOUS
  <2>1. s[i] \in Packet(u, convs)
    BY ElementOfSeq
  <2> QED
    BY <2>1 DEF Packet, PacketOver
<1>3. left \in [1 .. Len(s) -> Packet(u, convs)]
  BY <1>1, <1>2
<1> QED
  BY <1>1, <1>3, SeqDef

LEMMA DropKeeps == ASSUME IInv, NEW u \in Active, Drop(u) PROVE IInv'
<1> DEFINE left == [i \in DOMAIN handlers[u] |-> [handlers[u][i] EXCEPT !.orphan = TRUE]]
<1>1. UNCHANGED <<convs, log, view, buffer>> /\ down' = [down EXCEPT ![u] = << >>]
      /\ handlers' = [handlers EXCEPT ![u] = left]
  BY DEF Drop, database, IInv, PacketsAreOwn
<1>2. left \in Seq(Packet(u, convs))
  BY OrphanType DEF IInv, PacketsAreOwn
<1> HIDE DEF left
<1>3. PacketsAreOwn'
  BY <1>1, <1>2 DEF IInv, PacketsAreOwn
<1>4. EventsAreOfRooms'
  BY <1>1 DEF IInv, EventsAreOfRooms
<1> QED
  BY <1>1, <1>3, <1>4, SameViews, Kept DEF IInv

LEMMA ConnectKeeps == ASSUME IInv, NEW u \in Active, Connect(u) PROVE IInv'
<1> DEFINE again == IF view[u].peer = None THEN << >> ELSE <<Join(view[u].peer)>>
<1>1. UNCHANGED <<convs, log, view, down>> /\ buffer' = [buffer EXCEPT ![u] = << >>]
      /\ handlers' = [handlers EXCEPT ![u] = @ \o buffer[u] \o again]
  BY DEF Connect, database
<1>2. again \in Seq(Packet(u, convs))
  <2>1. CASE view[u].peer = None
    BY <2>1
  <2>2. CASE view[u].peer # None
    <3>1. view[u].peer \in Users \ {u}
      BY <2>2 DEF IInv, ViewsAreOfRooms
    <3>2. Join(view[u].peer) \in Packet(u, convs)
      BY <3>1, SelectedPackets
    <3> QED
      BY <2>2, <3>2
  <2> QED
    BY <2>1, <2>2
<1> HIDE DEF again
<1>3. handlers[u] \o buffer[u] \o again \in Seq(Packet(u, convs))
  BY <1>2, ConcatProperties DEF IInv, PacketsAreOwn
<1>4. PacketsAreOwn'
  BY <1>1, <1>3 DEF IInv, PacketsAreOwn
<1> QED
  BY <1>1, <1>4, SameEvents, SameViews, Kept DEF IInv

LEMMA BrowserKeeps == ASSUME IInv, NEW u \in Active, Browser(u) PROVE IInv'
<1>1. ASSUME MembersArrive(u) \/ MembersFail(u) PROVE IInv'
  <2>1. UNCHANGED <<convs, log, view, handlers, buffer, down>>
    BY <1>1 DEF MembersArrive, MembersFail, database, socket
  <2> QED
    BY <2>1, SamePackets, SameEvents, SameViews, Kept DEF IInv
<1> QED
  BY <1>1, SelectKeeps, ChannelKeeps, SendKeeps, RoomJoinedKeeps, NewMessageKeeps,
     MessagesReadKeeps, HistoryKeeps, DropKeeps, ConnectKeeps DEF Browser

----------------------------------------------------------------------------
(* The server's steps                                                      *)

LEMMA TwoAreTwo == ASSUME NEW a, NEW b, a # b PROVE Cardinality({a, b}) = 2
<1>1. IsFiniteSet({a}) /\ Cardinality({a}) = 1 /\ b \notin {a}
  BY FS_Singleton
<1>2. Cardinality({a} \cup {b}) = 1 + 1
  BY <1>1, FS_AddElement
<1>3. {a} \cup {b} = {a, b}
  OBVIOUS
<1> QED
  BY <1>2, <1>3

LEMMA PairOfTwo ==
  ASSUME NEW pair \in Pair, NEW a \in pair, NEW b \in pair, a # b
  PROVE  pair = {a, b}
<1>1. IsFiniteSet(pair) /\ Cardinality(pair) = 2
  BY UsersAssumption, FS_Subset DEF Pair
<1>2. Cardinality({a, b}) = 2
  BY TwoAreTwo
<1> QED
  BY <1>1, <1>2, FS_Subset

LEMMA PairIsMade ==
  ASSUME NEW u \in Active, NEW p \in Users \ {u} PROVE {u, p} \in Pair
<1>1. u \in Users
  BY UsersAssumption
<1>2. Cardinality({u, p}) = 2
  BY TwoAreTwo
<1> QED
  BY <1>1, <1>2 DEF Pair

LEMMA DoneKeeps ==
  ASSUME PacketsAreOwn, NEW u \in Active, NEW i \in DOMAIN handlers[u], Done(u, i),
         UNCHANGED <<convs, buffer>>
  PROVE  PacketsAreOwn'
<1>1. RemoveAt(handlers[u], i) \in Seq(Packet(u, convs))
  BY RemoveAtType DEF PacketsAreOwn
<1> QED
  BY <1>1 DEF PacketsAreOwn, Done

LEMMA TellKeeps ==
  ASSUME EventsAreOfRooms, UNCHANGED convs, NEW people, NEW event \in Event(convs),
         Tell(people, event)
  PROVE  EventsAreOfRooms'
<1>1. \A u \in Active : Append(down[u], event) \in Seq(Event(convs))
  BY AppendType DEF EventsAreOfRooms
<1> QED
  BY <1>1 DEF EventsAreOfRooms, Tell

LEMMA AnswerKeeps ==
  ASSUME EventsAreOfRooms, UNCHANGED convs, NEW u, NEW i, NEW event \in Event(convs),
         Answer(u, i, event)
  PROVE  EventsAreOfRooms'
  BY TellKeeps, SameEvents DEF Answer

LEMMA JoinedEvent ==
  ASSUME convs \in Seq(Pair), NEW room \in DOMAIN convs PROVE RoomJoined(room) \in Event(convs)
  BY DEF RoomJoined, Event

\* A packet of the table, and its place.
LEMMA HandlerShape ==
  ASSUME IInv, NEW u \in Active, NEW i \in DOMAIN handlers[u]
  PROVE  /\ handlers[u][i] \in Packet(u, convs)
         /\ \A new \in Packet(u, convs) :
              [handlers[u] EXCEPT ![i] = new] \in Seq(Packet(u, convs))
<1>1. handlers[u] \in Seq(Packet(u, convs)) /\ i \in 1 .. Len(handlers[u])
  BY DEF IInv, PacketsAreOwn
<1> QED
  BY <1>1, ElementOfSeq, ExceptSeq

LEMMA NewPacket ==
  ASSUME IInv, NEW u \in Active, NEW i \in DOMAIN handlers[u], NEW new \in Packet(u, convs),
         handlers' = [handlers EXCEPT ![u][i] = new], UNCHANGED <<convs, buffer>>
  PROVE  PacketsAreOwn'
<1>1. handlers' = [handlers EXCEPT ![u] = [handlers[u] EXCEPT ![i] = new]]
  BY DEF IInv, PacketsAreOwn
<1> QED
  BY <1>1, HandlerShape DEF IInv, PacketsAreOwn

LEMMA JoinKeeps ==
  ASSUME IInv, NEW u \in Active, NEW i \in DOMAIN handlers[u], joinPrivateChat(u, i)
  PROVE  IInv'
<1> DEFINE h == handlers[u][i]
           new == [h EXCEPT !.at = "create", !.time = Len(convs)]
<1>1. h.op = "join" /\ h.at = "sent" /\ UNCHANGED <<convs, log, view, buffer>>
  BY DEF joinPrivateChat, Handler, database
<1>2. h \in Packet(u, convs)
  BY HandlerShape
<1>3. CASE /\ Find(u, h.peer) = {} /\ UNCHANGED down
           /\ handlers' = [handlers EXCEPT ![u][i].at = "create", ![u][i].time = Len(convs)]
  <2>1. handlers' = [handlers EXCEPT ![u][i] = new]
    BY <1>3 DEF IInv, PacketsAreOwn
  <2>2. new \in Packet(u, convs)
    <3>1. Len(convs) \in Nat
      BY DEF IInv
    <3>2. new.op = h.op /\ new.peer = h.peer /\ new.at = "create" /\ new.time = Len(convs)
          /\ new.room = h.room /\ new \in PacketOver((Users \cup {None}) \ {u})
      BY <1>2, <3>1 DEF Packet, PacketOver
    <3>3. \A room \in DOMAIN convs : convs[room] # {u, new.peer}
      BY <1>3, <3>2 DEF Find, Room
    <3> HIDE DEF new
    <3> QED
      BY <1>1, <1>2, <3>1, <3>2, <3>3 DEF Packet
  <2> HIDE DEF new
  <2>3. PacketsAreOwn'
    BY <1>1, <2>1, <2>2, NewPacket
  <2> QED
    BY <1>1, <1>3, <2>3, SameEvents, SameViews, Kept DEF IInv
<1>4. CASE Done(u, i) /\ \E room \in Find(u, h.peer) : Answer(u, i, RoomJoined(room))
  <2>1. PICK room \in DOMAIN convs : Answer(u, i, RoomJoined(room))
    BY <1>4 DEF Find, Room
  <2>2. EventsAreOfRooms'
    BY <1>1, <2>1, JoinedEvent, AnswerKeeps DEF IInv
  <2>3. PacketsAreOwn'
    BY <1>1, <1>4, DoneKeeps DEF IInv
  <2> QED
    BY <1>1, <2>2, <2>3, SameViews, Kept DEF IInv
<1> QED
  BY <1>3, <1>4 DEF joinPrivateChat
LEMMA CreateKeeps ==
  ASSUME IInv, NEW u \in Active, NEW i \in DOMAIN handlers[u], CreateConversation(u, i)
  PROVE  IInv'
<1> DEFINE pair == {u, handlers[u][i].peer}
           cs == Append(convs, pair)
           event == RoomJoined(Len(convs) + 1)
<1>1. /\ handlers[u][i].op = "join" /\ UNCHANGED <<log, view, buffer>> /\ convs' = cs
      /\ Answer(u, i, event) /\ Done(u, i)
  BY DEF CreateConversation, Handler
<1>2. pair \in Pair
  <2>1. handlers[u][i].peer \in Users \ {u}
    BY <1>1, HandlerShape DEF Packet, PacketOver
  <2> QED
    BY <2>1, PairIsMade
<1> HIDE DEF pair
<1>3. /\ cs \in Seq(Pair) /\ Len(cs) = Len(convs) + 1 /\ Message(convs) \subseteq Message(cs)
      /\ Event(convs) \subseteq Event(cs) /\ \A v : Packet(v, convs) \subseteq Packet(v, cs)
  BY <1>2, Grows DEF IInv
<1>4. Len(convs) \in Nat
  BY DEF IInv
<1>5. event \in Event(cs)
  BY <1>3, <1>4 DEF RoomJoined, Event
<1> HIDE DEF cs, event
<1>6. log \in Seq(Message(cs))
  BY <1>3, SeqMonotonic DEF IInv
<1>7. \A v \in Active : /\ handlers[v] \in Seq(Packet(v, cs)) /\ buffer[v] \in Seq(Packet(v, cs))
                        /\ down[v] \in Seq(Event(cs))
  BY <1>3, SeqMonotonic DEF IInv, PacketsAreOwn, EventsAreOfRooms
<1>8. PacketsAreOwn'
  <2>1. RemoveAt(handlers[u], i) \in Seq(Packet(u, cs))
    BY <1>7, RemoveAtType
  <2> QED
    BY <1>1, <1>7, <2>1 DEF IInv, PacketsAreOwn, Done
<1>9. EventsAreOfRooms'
  <2>1. \A v \in Active : Append(down[v], event) \in Seq(Event(cs))
    BY <1>5, <1>7, AppendType
  <2>2. CASE UNCHANGED down
    BY <1>1, <1>7, <2>2 DEF IInv, EventsAreOfRooms
  <2>3. CASE Tell({u}, event)
    BY <1>1, <1>7, <2>1, <2>3 DEF EventsAreOfRooms, Tell
  <2> QED
    BY <1>1, <2>2, <2>3 DEF Answer
<1>10. ViewsAreOfRooms'
  BY <1>1, <1>3, <1>4 DEF IInv, ViewsAreOfRooms
<1> QED
  BY <1>1, <1>3, <1>6, <1>8, <1>9, <1>10 DEF IInv

LEMMA StoreKeeps ==
  ASSUME IInv, NEW u \in Active, NEW i \in DOMAIN handlers[u], sendPrivateMessage(u, i)
  PROVE  IInv'
<1> DEFINE h == handlers[u][i]
           m == [room |-> h.room, from |-> u, to |-> h.peer]
           new == [h EXCEPT !.at = "announce", !.time = Len(log) + 1]
<1>1. h.op = "send" /\ UNCHANGED <<convs, view, buffer, down>>
  BY DEF sendPrivateMessage, Handler
<1>2. h \in Packet(u, convs)
  BY HandlerShape
<1>3. CASE /\ Authorized(u, h.room, h.peer) /\ log' = Append(log, m)
           /\ handlers' = [handlers EXCEPT ![u][i].at = "announce", ![u][i].time = Len(log) + 1]
  <2>1. m \in Message(convs)
    <3>1. /\ h.room \in DOMAIN convs /\ convs[h.room] \in Pair
          /\ h.peer \in Users /\ h.peer # u /\ u \in Users
      BY <1>1, <1>2, UsersAssumption DEF Packet, PacketOver, IInv
    <3>2. convs[h.room] = {u, h.peer}
      BY <1>3, <3>1, PairOfTwo DEF Authorized
    <3> QED
      BY <3>1, <3>2 DEF Message
  <2>2. log' \in Seq(Message(convs))
    BY <1>3, <2>1, AppendType DEF IInv
  <2>3. handlers' = [handlers EXCEPT ![u][i] = new]
    BY <1>3 DEF IInv, PacketsAreOwn
  <2>4. new \in Packet(u, convs)
    <3>1. Len(log) + 1 \in Nat
      BY DEF IInv
    <3>2. new.op = h.op /\ new.peer = h.peer /\ new.at = "announce" /\ new.room = h.room
          /\ new \in PacketOver((Users \cup {None}) \ {u})
      BY <1>2, <3>1 DEF Packet, PacketOver
    <3> HIDE DEF new
    <3> QED
      BY <1>1, <1>2, <3>2 DEF Packet
  <2> HIDE DEF new
  <2>5. PacketsAreOwn'
    BY <1>1, <2>3, <2>4, NewPacket
  <2>6. EventsAreOfRooms' /\ ViewsAreOfRooms'
    BY <1>1, SameEvents, SameViews DEF IInv
  <2> QED
    BY <1>1, <2>2, <2>5, <2>6 DEF IInv
<1>4. CASE Done(u, i) /\ UNCHANGED log
  BY <1>1, <1>4, DoneKeeps, SameEvents, SameViews, Kept DEF IInv
<1> QED
  BY <1>3, <1>4 DEF sendPrivateMessage

LEMMA AnnounceKeeps ==
  ASSUME IInv, NEW u \in Active, NEW i \in DOMAIN handlers[u], Announce(u, i) \/ markAsRead(u, i)
  PROVE  IInv'
<1>1. /\ Done(u, i) /\ UNCHANGED <<convs, log, view, buffer>>
      /\ \E name \in {"receiveMessage", "messagesRead"}, m \in {handlers[u][i].time, 0} :
           \E people : Tell(people, [event |-> name, room |-> handlers[u][i].room, m |-> m])
  BY DEF Announce, markAsRead, database
<1>2. handlers[u][i].time \in Nat /\ handlers[u][i].room \in Nat
  BY HandlerShape DEF Packet, PacketOver
<1>3. PICK event \in Event(convs) : \E people : Tell(people, event)
  BY <1>1, <1>2 DEF Event
<1> QED
  BY <1>1, <1>3, DoneKeeps, TellKeeps, SameViews, Kept DEF IInv

LEMMA ServerKeeps == ASSUME IInv, NEW u \in Active, Server(u) PROVE IInv'
<1>1. ASSUME NEW i \in DOMAIN handlers[u], Fail(u, i) PROVE IInv'
  <2>1. Done(u, i) /\ UNCHANGED <<convs, log, view, buffer, down>>
    BY <1>1 DEF Fail, database
  <2> QED
    BY <2>1, DoneKeeps, SameEvents, SameViews, Kept DEF IInv
<1>2. ASSUME getWorkspaceMembers(u) \/ \E i \in DOMAIN fetches[u] : getDirectMessages(u, i)
      PROVE  IInv'
  <2>1. UNCHANGED <<convs, log, view, handlers, buffer, down>>
    BY <1>2 DEF getWorkspaceMembers, getDirectMessages, database, socket
  <2> QED
    BY <2>1, SamePackets, SameEvents, SameViews, Kept DEF IInv
<1> QED
  BY <1>1, <1>2, JoinKeeps, CreateKeeps, StoreKeeps, AnnounceKeeps DEF Server

----------------------------------------------------------------------------
(* The invariant                                                           *)

\* The conversations there are at first.
LEMMA SomeConversations ==
  ASSUME NEW made \in SUBSET Known PROVE SetToSeq(made) \in Seq(Pair)
<1>1. made \subseteq Pair /\ Pair \subseteq SUBSET Users
  BY KnownAssumption DEF Pair
<1>2. IsFiniteSet(made)
  BY <1>1, UsersAssumption, FS_SUBSET, FS_Subset
<1>3. Cardinality(made) \in Nat /\ ExistsBijection(1 .. Cardinality(made), made)
  BY <1>2, FS_CardinalityType
<1>4. \E f \in [1 .. Cardinality(made) -> made] : IsInjective(f)
  BY <1>3 DEF ExistsBijection, Bijection, Injection, IsInjective
<1>5. SetToSeq(made) \in [1 .. Cardinality(made) -> made]
  BY <1>4 DEF SetToSeq
<1>6. SetToSeq(made) \in [1 .. Cardinality(made) -> Pair]
  BY <1>1, <1>5
<1> QED
  BY <1>3, <1>6, SeqDef

LEMMA OpenedShape ==
  ASSUME convs \in Seq(Pair), NEW u \in Active, NEW open
  PROVE  LET v == Opened(u, open)
         IN  /\ {"peer", "room"} \subseteq DOMAIN v
             /\ v.peer \in (Users \cup {None}) \ {u} /\ v.room \in 0 .. Len(convs)
<1>1. u \in Users /\ None \notin Users /\ Len(convs) \in Nat
  BY UsersAssumption
<1>2. CASE ~ (open /\ \E room \in Room : u \in convs[room])
  BY <1>1, <1>2 DEF Opened, Empty
<1>3. CASE open /\ \E room \in Room : u \in convs[room]
  <2> DEFINE room == CHOOSE r \in Room : u \in convs[r]
  <2>1. room \in DOMAIN convs /\ u \in convs[room]
    BY <1>3 DEF Room
  <2>2. convs[room] \in Pair
    BY <2>1
  <2> HIDE DEF room
  <2>3. \E p \in convs[room] : p # u
    <3> SUFFICES ASSUME convs[room] = {u} PROVE FALSE
      BY <2>1
    <3>1. Cardinality(convs[room]) = 1
      BY FS_Singleton
    <3>2. Cardinality(convs[room]) = 2
      BY <2>2 DEF Pair
    <3> QED
      BY <3>1, <3>2
  <2>4. Other(u, room) \in Users \ {u}
    BY <2>2, <2>3 DEF Other, Pair
  <2>5. Opened(u, open) = Empty(Other(u, room), room)
    BY <1>3 DEF Opened, room
  <2> QED
    BY <1>1, <2>1, <2>4, <2>5 DEF Empty
<1> QED
  BY <1>2, <1>3

LEMMA InitHolds == Init => IInv
<1> SUFFICES ASSUME Init PROVE IInv
  OBVIOUS
<1>1. convs \in Seq(Pair)
  BY SomeConversations DEF Init
<1>2. log \in Seq(Message(convs)) /\ PacketsAreOwn /\ EventsAreOfRooms
  BY EmptySeq DEF Init, PacketsAreOwn, EventsAreOfRooms
<1>3. ViewsAreOfRooms
  <2>1. PICK open \in SUBSET Active : view = [u \in Active |-> Opened(u, u \in open)]
    BY DEF Init
  <2> QED
    BY <1>1, <2>1, OpenedShape DEF ViewsAreOfRooms
<1> QED
  BY <1>1, <1>2, <1>3 DEF IInv

LEMMA StepHolds == IInv /\ [Next]_vars => IInv'
<1> SUFFICES ASSUME IInv, [Next]_vars PROVE IInv'
  OBVIOUS
<1>1. CASE UNCHANGED vars
  <2>1. UNCHANGED <<convs, log, view, handlers, buffer, down>>
    BY <1>1 DEF vars, database, socket
  <2> QED
    BY <2>1, SamePackets, SameEvents, SameViews, Kept DEF IInv
<1>2. CASE Next
  BY <1>2, BrowserKeeps, ServerKeeps DEF Next
<1> QED
  BY <1>1, <1>2

LEMMA Invariant == Spec => []IInv
  BY InitHolds, StepHolds, PTL DEF Spec

(***************************************************************************)
(* Whatever answers overtake one another, a message is stored only in the  *)
(* conversation of its sender and its addressee, and it is announced to    *)
(* these two (getAuthorizedDirectConversation, sendPrivateMessage).        *)
(***************************************************************************)
THEOREM AddresseesOnly == Spec => []OnlyTheAddressee
<1>1. IInv => OnlyTheAddressee
  BY ElementOfSeq DEF IInv, Message, OnlyTheAddressee
<1> QED
  BY <1>1, Invariant, PTL

\* Only the handler of a join creates a conversation.
LEMMA OnlyJoinsCreate ==
  ASSUME IInv, NEW u \in Active, Browser(u) \/ Server(u)
  PROVE  UNCHANGED convs \/ \E i \in DOMAIN handlers[u] : CreateConversation(u, i)
  BY DEF Browser, Server, handleUserSelect, setActiveChannelId, sendMessage, handleRoomJoined,
     handleNewMessage, handleMessagesRead, HistoryArrives, HistoryFails, MembersArrive, MembersFail, Drop, Connect,
     joinPrivateChat, sendPrivateMessage, Announce, markAsRead, Fail, getDirectMessages,
     getWorkspaceMembers, database

(***************************************************************************)
(* Two people who have a conversation get a second one only from a handler *)
(* that looked for it before the first was made (joinPrivateChat).         *)
(***************************************************************************)
THEOREM SecondsAreFromRaces == Spec => SecondsAreRaced
<1> DEFINE Raced ==
      \A second \in DOMAIN convs' \ DOMAIN convs, first \in DOMAIN convs :
         convs[first] = convs'[second] =>
           \E u \in convs[first] \cap Active : \E i \in DOMAIN handlers[u] :
              Handler(u, i, "join", "create") /\ handlers[u][i].time < first
<1>1. IInv /\ [Next]_vars => [Raced]_vars
  <2> SUFFICES ASSUME IInv, Next PROVE Raced
    OBVIOUS
  <2>1. PICK u \in Active : Browser(u) \/ Server(u)
    BY DEF Next
  <2>2. CASE UNCHANGED convs
    BY <2>2
  <2>3. ASSUME NEW i \in DOMAIN handlers[u], CreateConversation(u, i) PROVE Raced
    <3> DEFINE h == handlers[u][i]
    <3>1. Handler(u, i, "join", "create") /\ convs' = Append(convs, {u, h.peer})
      BY <2>3 DEF CreateConversation
    <3>2. h \in Packet(u, convs) /\ h.at = "create"
      BY <3>1, HandlerShape DEF Handler
    <3>3. convs \in Seq(Pair)
      BY DEF IInv
    <3>4. \A second \in DOMAIN convs' \ DOMAIN convs : convs'[second] = {u, h.peer}
      BY <3>1, <3>3
    <3>5. \A first \in DOMAIN convs : convs[first] = {u, h.peer} => h.time < first
      BY <3>2 DEF Packet
    <3> QED
      BY <3>1, <3>4, <3>5
  <2> QED
    BY <2>1, <2>2, <2>3, OnlyJoinsCreate
<1> QED
  BY <1>1, Invariant, PTL DEF Spec, SecondsAreRaced
----------------------------------------------------------------------------
(***************************************************************************)
(* Types, ticks and notices.  What is under way is bound to what is        *)
(* stored: a packet, an event or a request of somebody is of a             *)
(* conversation of theirs, a message that is told is in the log, a receipt *)
(* or a stamp that is told was stored before.  A view that is not mixed is *)
(* of one conversation, and its tick was stored by the other of the two.   *)
(* And of every message one can say where its notice is.                   *)
(***************************************************************************)

RoomsOf(u) == {room \in Room : u \in convs[room]}

HasRead(q, room) == q \in Active /\ q \in convs[room] /\ readAt[q][room] > 0

OwnPacket(u) ==
    {h \in Packet(u, convs) :
       /\ h.at = "sent" \/ <<h.op, h.at>> \in {<<"join", "create">>, <<"send", "announce">>}
       /\ h.op = "read" => h.room \in RoomsOf(u)
       /\ h.at = "announce" =>
            h.time \in DOMAIN log /\ log[h.time] = [room |-> h.room, from |-> u, to |-> h.peer]}

OwnEvent(u) ==
    {e \in Event(convs) :
       /\ e.room \in RoomsOf(u)
       /\ e.event = "receiveMessage" => e.m \in DOMAIN log
       /\ e.event = "messagesRead" => \E q \in Users \ {u} : HasRead(q, e.room)}

OwnFetch(u) ==
    {f \in [room : RoomsOf(u), of : (Users \cup {None}) \ {u}, at : 0 .. Now, last : 0 .. Now] :
       f.last > 0 => HasRead(f.of, f.room)}

OwnView(u) ==
    {v \in [peer : (Users \cup {None}) \ {u}, room : RoomsOf(u) \cup {0}, list : SUBSET seen[u],
            tick : 0 .. Now, mixed : BOOLEAN] :
       ~ v.mixed =>
         /\ v.room # 0 => convs[v.room] = {u, v.peer}
         /\ \A m \in v.list : convs[log[m].room] = {u, v.peer}
         /\ v.tick > 0 => \E room \in Room : convs[room] = {u, v.peer} /\ HasRead(v.peer, room)}

PacketsTyped ==
    /\ up \in [Active -> BOOLEAN]
    /\ \A u \in Active :
         /\ handlers[u] \in Seq(OwnPacket(u)) /\ buffer[u] \in Seq(OwnPacket(u))
         /\ up[u] => buffer[u] = << >>

EventsTyped == \A u \in Active : down[u] \in Seq(OwnEvent(u)) /\ (~ up[u] => down[u] = << >>)

FetchesTyped == DOMAIN fetches = Active /\ \A u \in Active : fetches[u] \in Seq(OwnFetch(u))

ViewsTyped == view = [u \in Active |-> view[u]] /\ \A u \in Active : view[u] \in OwnView(u)

TablesTyped ==
    /\ readAt \in [Active -> [Room -> 0 .. Now]]
    /\ seen \in [Active -> SUBSET DOMAIN log] /\ passed \in [Active -> SUBSET DOMAIN log]
    /\ unheard \in [Active -> SUBSET DOMAIN log]

CountsTyped == badge \in [Active -> Badges] /\ polls \in [Active -> SUBSET (Counts \cup {None})]

BudgetTyped ==
    /\ budget \in [{"selects", "sends", "faults", "packets", "fetches"} -> Nat]
    /\ \E most \in Bounds : \A what \in DOMAIN most : budget[what] <= most[what]

Polled(u, p) == \E counts \in polls[u] \ {None} : counts[p] > 0

\* Where the notice of the m-th message is that p wrote to u.
Pending(u, p, m) ==
    \/ Announcing(p, m)
    \/ m \in seen[u] \cup passed[u] \cup unheard[u]
    \/ badge[u][p] > 0
    \/ ~ up[u]
    \/ None \in polls[u]
    \/ Told(u, m)
    \/ Polled(u, p)

\* Marked read in the table and neither listed nor passed is no message.
Noticed ==
    \A m \in DOMAIN log : log[m].to \in Active =>
      /\ m < readAt[log[m].to][log[m].room] => m \in seen[log[m].to] \cup passed[log[m].to]
      /\ Cardinality(Find(log[m].to, log[m].from)) = 1 => Pending(log[m].to, log[m].from, m)

Typed ==
    /\ PacketsTyped
    /\ EventsTyped
    /\ FetchesTyped
    /\ ViewsTyped
    /\ TablesTyped
    /\ CountsTyped
    /\ BudgetTyped

Full == IInv /\ Typed /\ Noticed

\* The tables only grow, and so does what was seen.
TablesGrow ==
    /\ Room \subseteq Room' /\ \A room \in Room : convs'[room] = convs[room]
    /\ DOMAIN log \subseteq DOMAIN log' /\ \A m \in DOMAIN log : log'[m] = log[m]
    /\ Now \in Nat /\ Now' \in Nat /\ Now <= Now'
    /\ \A q \in Active : \A room \in Room : readAt[q][room] > 0 => readAt'[q][room] > 0
    /\ \A u \in Active : seen[u] \subseteq seen'[u]
    /\ \A u \in Active : Packet(u, convs) \subseteq Packet(u, convs')
    /\ Event(convs) \subseteq Event(convs')

LEMMA StillRead ==
  ASSUME TablesGrow, NEW q, NEW room \in Room, HasRead(q, room) PROVE HasRead(q, room)'
  BY DEF HasRead, TablesGrow

LEMMA StillOwn ==
  ASSUME TablesGrow, NEW u \in Active
  PROVE  /\ RoomsOf(u) \subseteq RoomsOf(u)'
         /\ OwnPacket(u) \subseteq OwnPacket(u)' /\ OwnEvent(u) \subseteq OwnEvent(u)'
         /\ OwnFetch(u) \subseteq OwnFetch(u)'
<1>1. RoomsOf(u) \subseteq RoomsOf(u)'
  BY DEF RoomsOf, TablesGrow
<1>2. OwnPacket(u) \subseteq OwnPacket(u)'
  <2> SUFFICES ASSUME NEW h \in OwnPacket(u) PROVE h \in OwnPacket(u)'
    OBVIOUS
  <2>1. h \in Packet(u, convs')
    BY DEF OwnPacket, TablesGrow
  <2> QED
    BY <1>1, <2>1 DEF OwnPacket, TablesGrow
<1>3. OwnEvent(u) \subseteq OwnEvent(u)'
  <2> SUFFICES ASSUME NEW e \in OwnEvent(u) PROVE e \in OwnEvent(u)'
    OBVIOUS
  <2>1. e \in Event(convs') /\ e.room \in RoomsOf(u)' /\ e.room \in Room
        /\ (e.event = "receiveMessage" => e.m \in DOMAIN log')
    BY <1>1 DEF OwnEvent, TablesGrow, RoomsOf
  <2>2. e.event = "messagesRead" => \E q \in Users \ {u} : HasRead(q, e.room)'
    BY <2>1, StillRead DEF OwnEvent
  <2> QED
    BY <2>1, <2>2 DEF OwnEvent
<1>4. OwnFetch(u) \subseteq OwnFetch(u)'
  <2> SUFFICES ASSUME NEW f \in OwnFetch(u) PROVE f \in OwnFetch(u)'
    OBVIOUS
  <2>1. f.last > 0 => HasRead(f.of, f.room)'
    BY StillRead DEF OwnFetch, RoomsOf
  <2>2. 0 .. Now \subseteq 0 .. Now'
    BY DEF TablesGrow
  <2>3. f \in [room : RoomsOf(u)', of : (Users \cup {None}) \ {u}, at : 0 .. Now', last : 0 .. Now']
    BY <1>1, <2>2 DEF OwnFetch
  <2> QED
    BY <2>1, <2>3 DEF OwnFetch
<1> QED
  BY <1>1, <1>2, <1>3, <1>4

LEMMA StillOwnView ==
  ASSUME Full, TablesGrow, NEW u \in Active PROVE OwnView(u) \subseteq OwnView(u)'
<1> SUFFICES ASSUME NEW v \in OwnView(u) PROVE v \in OwnView(u)'
  OBVIOUS
<1>1. RoomsOf(u) \subseteq RoomsOf(u)' /\ 0 .. Now \subseteq 0 .. Now' /\ seen[u] \subseteq seen'[u]
  BY StillOwn DEF TablesGrow
<1>2. v \in [peer : (Users \cup {None}) \ {u}, room : RoomsOf(u)' \cup {0}, list : SUBSET seen'[u],
             tick : 0 .. Now', mixed : BOOLEAN]
  BY <1>1 DEF OwnView
<1>3. ASSUME ~ v.mixed, v.room # 0 PROVE convs'[v.room] = {u, v.peer}
  BY <1>3 DEF OwnView, TablesGrow, RoomsOf
<1>4. ASSUME ~ v.mixed, NEW m \in v.list PROVE convs'[log'[m].room] = {u, v.peer}
  <2>1. m \in DOMAIN log
    BY DEF OwnView, Full, Typed, TablesTyped
  <2>2. log[m].room \in Room /\ log'[m] = log[m]
    BY <2>1, ElementOfSeq DEF Full, IInv, Message, Room, TablesGrow
  <2> QED
    BY <1>4, <2>2 DEF OwnView, TablesGrow
<1>5. ASSUME ~ v.mixed, v.tick > 0
      PROVE  \E room \in Room' : convs'[room] = {u, v.peer} /\ HasRead(v.peer, room)'
  <2>1. PICK room \in Room : convs[room] = {u, v.peer} /\ HasRead(v.peer, room)
    BY <1>5 DEF OwnView
  <2>2. HasRead(v.peer, room)'
    BY <2>1, StillRead
  <2> QED
    BY <2>1, <2>2 DEF TablesGrow
<1> QED
  BY <1>2, <1>3, <1>4, <1>5 DEF OwnView
----------------------------------------------------------------------------
(* Parts of the steps                                                      *)

\* Nothing is stored, and what was seen is seen.
LEMMA Untouched ==
  ASSUME Full, UNCHANGED <<convs, log, readAt>>, \A u \in Active : seen[u] \subseteq seen'[u]
  PROVE  TablesGrow
<1>1. Len(log) \in Nat
  BY DEF IInv, Full
<1> QED
  BY <1>1 DEF TablesGrow, Room, Now

LEMMA MoreIn == ASSUME NEW S, NEW T, S \subseteq T, NEW s \in Seq(S) PROVE s \in Seq(T)
  BY SeqMonotonic

LEMMA PacketsAsTheyWere ==
  ASSUME Full, TablesGrow, UNCHANGED <<handlers, buffer, up>> PROVE PacketsTyped'
<1>1. PacketsTyped
  BY DEF Full, Typed
<1>2. \A u \in Active : handlers[u] \in Seq(OwnPacket(u)') /\ buffer[u] \in Seq(OwnPacket(u)')
  BY <1>1, StillOwn, MoreIn DEF PacketsTyped
<1> QED
  BY <1>1, <1>2 DEF PacketsTyped

LEMMA PacketEmitted ==
  ASSUME Full, TablesGrow, UNCHANGED up, NEW u \in Active, NEW packet \in OwnPacket(u), Emit(u, packet)
  PROVE  PacketsTyped'
<1>1. PacketsTyped /\ DOMAIN handlers = Active /\ DOMAIN buffer = Active
  BY DEF Full, Typed, IInv, PacketsAreOwn
<1>2. \A v \in Active : handlers[v] \in Seq(OwnPacket(v)') /\ buffer[v] \in Seq(OwnPacket(v)')
  BY <1>1, StillOwn, MoreIn DEF PacketsTyped
<1>3. packet \in OwnPacket(u)'
  BY StillOwn
<1>4. Append(handlers[u], packet) \in Seq(OwnPacket(u)') /\ Append(buffer[u], packet) \in Seq(OwnPacket(u)')
  BY <1>2, <1>3, AppendType
<1>5. CASE up[u] /\ handlers' = [handlers EXCEPT ![u] = Append(@, packet)] /\ UNCHANGED buffer
  BY <1>1, <1>2, <1>4, <1>5 DEF PacketsTyped
<1>6. CASE ~ up[u] /\ buffer' = [buffer EXCEPT ![u] = Append(@, packet)] /\ UNCHANGED handlers
  BY <1>1, <1>2, <1>4, <1>6 DEF PacketsTyped
<1> QED
  BY <1>5, <1>6 DEF Emit

LEMMA PacketDone ==
  ASSUME Full, TablesGrow, UNCHANGED <<buffer, up>>, NEW u \in Active, NEW i \in DOMAIN handlers[u], Done(u, i)
  PROVE  PacketsTyped'
<1>1. PacketsTyped /\ DOMAIN handlers = Active
  BY DEF Full, Typed, IInv, PacketsAreOwn
<1>2. \A v \in Active : handlers[v] \in Seq(OwnPacket(v)') /\ buffer[v] \in Seq(OwnPacket(v)')
  BY <1>1, StillOwn, MoreIn DEF PacketsTyped
<1>3. RemoveAt(handlers[u], i) \in Seq(OwnPacket(u)')
  BY <1>2, RemoveAtType
<1> QED
  BY <1>1, <1>2, <1>3 DEF PacketsTyped, Done

LEMMA PacketMoved ==
  ASSUME Full, TablesGrow, UNCHANGED <<buffer, up>>, NEW u \in Active, NEW i \in DOMAIN handlers[u],
         NEW new \in OwnPacket(u)', handlers' = [handlers EXCEPT ![u][i] = new]
  PROVE  PacketsTyped'
<1>1. PacketsTyped /\ DOMAIN handlers = Active
  BY DEF Full, Typed, IInv, PacketsAreOwn
<1>2. \A v \in Active : handlers[v] \in Seq(OwnPacket(v)') /\ buffer[v] \in Seq(OwnPacket(v)')
  BY <1>1, StillOwn, MoreIn DEF PacketsTyped
<1>3. i \in 1 .. Len(handlers[u])
  BY <1>2
<1>4. [handlers[u] EXCEPT ![i] = new] \in Seq(OwnPacket(u)')
  BY <1>2, <1>3, ExceptSeq
<1>5. handlers' = [handlers EXCEPT ![u] = [handlers[u] EXCEPT ![i] = new]]
  BY <1>1
<1> QED
  BY <1>1, <1>2, <1>4, <1>5 DEF PacketsTyped

LEMMA EventsAsTheyWere ==
  ASSUME Full, TablesGrow, UNCHANGED <<down, up>> PROVE EventsTyped'
<1>1. EventsTyped
  BY DEF Full, Typed
<1>2. \A u \in Active : down[u] \in Seq(OwnEvent(u)')
  BY <1>1, StillOwn, MoreIn DEF EventsTyped
<1> QED
  BY <1>1, <1>2 DEF EventsTyped

LEMMA EventHandled ==
  ASSUME Full, TablesGrow, UNCHANGED up, NEW u \in Active, down[u] # << >>, Handled(u)
  PROVE  EventsTyped' /\ Head(down[u]) \in OwnEvent(u)
<1>1. EventsTyped /\ DOMAIN down = Active
  BY DEF Full, Typed, IInv, EventsAreOfRooms
<1>2. \A v \in Active : down[v] \in Seq(OwnEvent(v)')
  BY <1>1, StillOwn, MoreIn DEF EventsTyped
<1>3. Head(down[u]) \in OwnEvent(u) /\ Tail(down[u]) \in Seq(OwnEvent(u)')
  BY <1>1, <1>2, HeadTailProperties DEF EventsTyped
<1> QED
  BY <1>1, <1>2, <1>3 DEF EventsTyped, Handled

LEMMA Heard ==
  ASSUME Full, NEW u \in Active, down[u] # << >> PROVE Head(down[u]) \in OwnEvent(u)
<1>1. down[u] \in Seq(OwnEvent(u))
  BY DEF Full, Typed, EventsTyped
<1> QED
  BY <1>1, HeadTailProperties

LEMMA EventTold ==
  ASSUME Full, TablesGrow, UNCHANGED up, NEW people, NEW event,
         \A u \in people \cap Active : event \in OwnEvent(u)', Tell(people, event)
  PROVE  EventsTyped'
<1>1. EventsTyped
  BY DEF Full, Typed
<1>2. \A v \in Active : down[v] \in Seq(OwnEvent(v)')
  BY <1>1, StillOwn, MoreIn DEF EventsTyped
<1>3. \A v \in people \cap Active : Append(down[v], event) \in Seq(OwnEvent(v)')
  BY <1>2, AppendType
<1> QED
  BY <1>1, <1>2, <1>3 DEF EventsTyped, Tell

LEMMA EventAnswered ==
  ASSUME Full, TablesGrow, UNCHANGED up, NEW u \in Active, NEW i, NEW event \in OwnEvent(u)', Answer(u, i, event)
  PROVE  EventsTyped'
<1>1. CASE UNCHANGED down
  BY <1>1, EventsAsTheyWere
<1>2. CASE Tell({u}, event)
  BY <1>2, EventTold
<1> QED
  BY <1>1, <1>2 DEF Answer

LEMMA FetchesAsTheyWere == ASSUME Full, TablesGrow, UNCHANGED fetches PROVE FetchesTyped'
<1>1. FetchesTyped
  BY DEF Full, Typed
<1> QED
  BY <1>1, StillOwn, MoreIn DEF FetchesTyped

LEMMA FetchesOf ==
  ASSUME Full, TablesGrow, NEW u \in Active, NEW s, fetches' = [fetches EXCEPT ![u] = s], s \in Seq(OwnFetch(u)')
  PROVE  FetchesTyped'
<1>1. FetchesTyped
  BY DEF Full, Typed
<1>2. \A v \in Active : fetches[v] \in Seq(OwnFetch(v)')
  BY <1>1, StillOwn, MoreIn DEF FetchesTyped
<1> QED
  BY <1>1, <1>2 DEF FetchesTyped

LEMMA ViewsAsTheyWere == ASSUME Full, TablesGrow, UNCHANGED view PROVE ViewsTyped'
<1>1. ViewsTyped
  BY DEF Full, Typed
<1> QED
  BY <1>1, StillOwnView DEF ViewsTyped

LEMMA ViewOf ==
  ASSUME Full, TablesGrow, NEW u \in Active, NEW new \in OwnView(u)', view' = [view EXCEPT ![u] = new]
  PROVE  ViewsTyped'
<1>1. ViewsTyped /\ DOMAIN view = Active
  BY DEF Full, Typed, IInv, ViewsAreOfRooms
<1>2. \A v \in Active : view[v] \in OwnView(v)'
  BY <1>1, StillOwnView DEF ViewsTyped
<1> QED
  BY <1>1, <1>2 DEF ViewsTyped

LEMMA TablesAsTheyWere ==
  ASSUME Full, UNCHANGED <<convs, log, readAt, seen, passed, unheard>> PROVE TablesTyped'
  BY DEF Full, Typed, TablesTyped, Room, Now

LEMMA CountsAsTheyWere == ASSUME Full, UNCHANGED <<badge, polls>> PROVE CountsTyped'
  BY DEF Full, Typed, CountsTyped

LEMMA BudgetAsItWas == ASSUME Full, UNCHANGED budget PROVE BudgetTyped'
  BY DEF Full, Typed, BudgetTyped

LEMMA BudgetSpent ==
  ASSUME Full, NEW what \in {"selects", "sends", "faults"}, Spend(what) PROVE BudgetTyped'
<1>1. BudgetTyped
  BY DEF Full, Typed
<1>2. budget[what] \in Nat /\ budget[what] > 0
  BY <1>1 DEF BudgetTyped, Spend
<1>3. /\ budget' \in [{"selects", "sends", "faults", "packets", "fetches"} -> Nat]
      /\ \A w \in {"selects", "sends", "faults", "packets", "fetches"} : budget'[w] <= budget[w]
  BY <1>1, <1>2 DEF BudgetTyped, Spend
<1>4. PICK most \in Bounds : \A w \in DOMAIN most : budget[w] <= most[w]
  BY <1>1 DEF BudgetTyped
<1>5. most \in [{"selects", "sends", "faults", "packets", "fetches"} -> Nat]
  BY BoundsAssumption
<1>6. \A w \in DOMAIN most : budget'[w] <= most[w]
  BY <1>1, <1>3, <1>4, <1>5 DEF BudgetTyped
<1> QED
  BY <1>3, <1>6 DEF BudgetTyped

LEMMA TypedAgain ==
  ASSUME PacketsTyped', EventsTyped', FetchesTyped', ViewsTyped', TablesTyped', CountsTyped', BudgetTyped'
  PROVE  Typed'
  BY DEF Typed
----------------------------------------------------------------------------
(* Where notices are                                                       *)

LEMMA Removed ==
  ASSUME NEW S, NEW s \in Seq(S), NEW i \in DOMAIN s, NEW j \in DOMAIN s, j # i
  PROVE  \E k \in DOMAIN RemoveAt(s, i) : RemoveAt(s, i)[k] = s[j]
<1> DEFINE front == SubSeq(s, 1, i - 1)
           back == SubSeq(s, i + 1, Len(s))
<1>1. Len(s) \in Nat /\ i \in 1 .. Len(s) /\ j \in 1 .. Len(s)
  OBVIOUS
<1>2. /\ front \in Seq(S) /\ Len(front) = i - 1
      /\ \A k \in 1 .. i - 1 : front[k] = s[k]
  BY <1>1, SubSeqProperties
<1>3. /\ back \in Seq(S) /\ Len(back) = Len(s) - i
      /\ \A k \in 1 .. Len(s) - i : back[k] = s[i + k]
  <2>1. CASE i = Len(s)
    BY <1>1, <2>1, SubSeqProperties
  <2>2. CASE i < Len(s)
    BY <1>1, <2>2, SubSeqProperties
  <2> QED
    BY <1>1, <2>1, <2>2
<1>4. RemoveAt(s, i) = front \o back
  BY DEF RemoveAt
<1> HIDE DEF front, back
<1>5. /\ DOMAIN (front \o back) = 1 .. Len(s) - 1
      /\ \A k \in 1 .. Len(s) - 1 :
           (front \o back)[k] = IF k <= i - 1 THEN front[k] ELSE back[k - (i - 1)]
  <2>1. /\ front \o back \in Seq(S) /\ Len(front \o back) = Len(front) + Len(back)
        /\ \A k \in 1 .. Len(front) + Len(back) :
             (front \o back)[k] = IF k <= Len(front) THEN front[k] ELSE back[k - Len(front)]
    BY <1>2, <1>3, ConcatProperties
  <2>2. Len(front) + Len(back) = Len(s) - 1 /\ Len(front) = i - 1
    BY <1>1, <1>2, <1>3
  <2>3. DOMAIN (front \o back) = 1 .. Len(front \o back)
    BY <2>1
  <2> QED
    BY <2>1, <2>2, <2>3
<1>6. CASE j < i
  <2>1. j \in 1 .. Len(s) - 1 /\ j \in 1 .. i - 1
    BY <1>1, <1>6
  <2> QED
    BY <1>2, <1>4, <1>5, <2>1
<1>7. CASE j > i
  <2>1. /\ j - 1 \in 1 .. Len(s) - 1 /\ ~ (j - 1 <= i - 1)
        /\ (j - 1) - (i - 1) = j - i /\ j - i \in 1 .. Len(s) - i /\ i + (j - i) = j
    BY <1>1, <1>7
  <2>2. (front \o back)[j - 1] = back[(j - 1) - (i - 1)]
    BY <1>5, <2>1
  <2>3. back[j - i] = s[i + (j - i)]
    BY <1>3, <2>1
  <2> QED
    BY <1>4, <1>5, <2>1, <2>2, <2>3
<1> QED
  BY <1>1, <1>6, <1>7

LEMMA AppendedAt ==
  ASSUME NEW S, NEW s \in Seq(S), NEW e, NEW i \in DOMAIN s
  PROVE  i \in DOMAIN Append(s, e) /\ Append(s, e)[i] = s[i]
  OBVIOUS

LEMMA AppendedLast ==
  ASSUME NEW S, NEW s \in Seq(S), NEW e
  PROVE  Len(s) + 1 \in DOMAIN Append(s, e) /\ Append(s, e)[Len(s) + 1] = e
  OBVIOUS

LEMMA ConcatenatedAt ==
  ASSUME NEW S, NEW s \in Seq(S), NEW t \in Seq(S), NEW i \in DOMAIN s
  PROVE  i \in DOMAIN (s \o t) /\ (s \o t)[i] = s[i]
  BY ConcatProperties

LEMMA EmittedStill ==
  ASSUME Full, NEW u \in Active, NEW packet, Emit(u, packet), NEW v \in Active, NEW m, Announcing(v, m)
  PROVE  Announcing(v, m)'
<1>1. DOMAIN handlers = Active /\ handlers[u] \in Seq(Packet(u, convs))
  BY DEF Full, IInv, PacketsAreOwn
<1>2. CASE UNCHANGED handlers
  BY <1>2 DEF Announcing, Handler
<1>3. CASE handlers' = [handlers EXCEPT ![u] = Append(@, packet)]
  BY <1>1, <1>3, AppendedAt DEF Announcing, Handler
<1> QED
  BY <1>2, <1>3 DEF Emit

LEMMA DoneStill ==
  ASSUME Full, NEW u \in Active, NEW i \in DOMAIN handlers[u], Done(u, i), NEW v \in Active, NEW m,
         Announcing(v, m), ~ (v = u /\ handlers[u][i].at = "announce" /\ handlers[u][i].time = m)
  PROVE  Announcing(v, m)'
<1>1. DOMAIN handlers = Active /\ handlers[u] \in Seq(Packet(u, convs))
  BY DEF Full, IInv, PacketsAreOwn
<1>2. PICK j \in DOMAIN handlers[v] : Handler(v, j, "send", "announce") /\ handlers[v][j].time = m
  BY DEF Announcing
<1>3. CASE v = u
  <2>1. j # i
    BY <1>2, <1>3 DEF Handler
  <2>2. PICK k \in DOMAIN RemoveAt(handlers[u], i) : RemoveAt(handlers[u], i)[k] = handlers[u][j]
    BY <1>1, <1>2, <1>3, <2>1, Removed
  <2>3. handlers'[v] = RemoveAt(handlers[u], i)
    BY <1>1, <1>3 DEF Done
  <2> QED
    BY <1>2, <1>3, <2>2, <2>3 DEF Announcing, Handler
<1>4. CASE v # u
  <2>1. handlers'[v] = handlers[v]
    BY <1>1, <1>4 DEF Done
  <2> QED
    BY <1>2, <2>1 DEF Announcing, Handler
<1> QED
  BY <1>3, <1>4

LEMMA MovedStill ==
  ASSUME Full, NEW u \in Active, NEW i \in DOMAIN handlers[u], handlers[u][i].at # "announce",
         NEW new, handlers' = [handlers EXCEPT ![u][i] = new], NEW v \in Active, NEW m, Announcing(v, m)
  PROVE  Announcing(v, m)'
<1>1. DOMAIN handlers = Active
  BY DEF Full, IInv, PacketsAreOwn
<1>2. PICK j \in DOMAIN handlers[v] : Handler(v, j, "send", "announce") /\ handlers[v][j].time = m
  BY DEF Announcing
<1>3. v = u => j # i
  BY <1>2 DEF Handler
<1>4. j \in DOMAIN handlers'[v] /\ handlers'[v][j] = handlers[v][j]
  BY <1>1, <1>2, <1>3
<1> QED
  BY <1>2, <1>4 DEF Announcing, Handler

LEMMA HandledStill ==
  ASSUME Full, NEW u \in Active, down[u] # << >>, Handled(u), NEW v \in Active, NEW m, Told(v, m)
  PROVE  \/ Told(v, m)'
         \/ v = u /\ Head(down[u]).event = "receiveMessage" /\ Head(down[u]).m = m
<1>1. DOMAIN down = Active /\ down[u] \in Seq(Event(convs))
  BY DEF Full, IInv, EventsAreOfRooms
<1>2. PICK j \in DOMAIN down[v] : down[v][j].event = "receiveMessage" /\ down[v][j].m = m
  BY DEF Told
<1>3. CASE v # u
  BY <1>1, <1>2, <1>3 DEF Told, Handled
<1>4. CASE v = u
  <2>1. down'[u] = Tail(down[u]) /\ Len(down[u]) \in Nat \ {0} /\ j \in 1 .. Len(down[u])
    BY <1>1, <1>2, <1>4 DEF Handled
  <2>2. CASE j = 1
    BY <1>1, <1>2, <1>4, <2>2
  <2>3. CASE j > 1
    <3>1. j - 1 \in DOMAIN Tail(down[u]) /\ Tail(down[u])[j - 1] = down[u][j]
      BY <1>1, <2>1, <2>3, HeadTailProperties
    <3> QED
      BY <1>2, <1>4, <2>1, <3>1 DEF Told
  <2> QED
    BY <2>1, <2>2, <2>3
<1> QED
  BY <1>3, <1>4

LEMMA ToldStill ==
  ASSUME Full, NEW people, NEW event, Tell(people, event), NEW v \in Active, NEW m, Told(v, m)
  PROVE  Told(v, m)'
<1>1. down[v] \in Seq(Event(convs))
  BY DEF Full, IInv, EventsAreOfRooms
<1> QED
  BY <1>1, AppendedAt DEF Told, Tell

LEMMA NowTold ==
  ASSUME Full, NEW people, NEW event, Tell(people, event), NEW v \in people \cap Active, up[v],
         event.event = "receiveMessage"
  PROVE  Told(v, event.m)'
<1>1. down[v] \in Seq(Event(convs)) /\ down'[v] = Append(down[v], event)
  BY DEF Full, IInv, EventsAreOfRooms, Tell
<1>2. Len(down[v]) + 1 \in DOMAIN down'[v] /\ down'[v][Len(down[v]) + 1] = event
  BY <1>1, AppendedLast
<1> QED
  BY <1>2 DEF Told

LEMMA AnsweredStill ==
  ASSUME Full, NEW u, NEW i, NEW event, Answer(u, i, event), NEW v \in Active, NEW m, Told(v, m)
  PROVE  Told(v, m)'
<1>1. CASE UNCHANGED down
  BY <1>1 DEF Told
<1>2. CASE Tell({u}, event)
  BY <1>2, ToldStill
<1> QED
  BY <1>1, <1>2 DEF Answer

\* Who wrote to whom.
LEMMA Written ==
  ASSUME Full, NEW m \in DOMAIN log
  PROVE  /\ log[m].room \in Room /\ log[m].from \in Active /\ log[m].to \in Users
         /\ convs[log[m].room] = {log[m].from, log[m].to}
         /\ log[m].from # log[m].to /\ log[m].from \in Users
<1>1. log[m] \in Message(convs) /\ convs \in Seq(Pair)
  BY ElementOfSeq DEF Full, IInv
<1>2. /\ log[m].room \in Room /\ log[m].from \in Active /\ log[m].to \in Users
      /\ convs[log[m].room] = {log[m].from, log[m].to}
  BY <1>1 DEF Message, Room
<1>3. Cardinality(convs[log[m].room]) = 2
  <2>1. \A room \in DOMAIN convs : convs[room] \in Pair
    BY <1>1
  <2>2. convs[log[m].room] \in Pair
    BY <1>2, <2>1 DEF Room
  <2> QED
    BY <2>2 DEF Pair
<1>4. ASSUME log[m].from = log[m].to PROVE FALSE
  <2>1. convs[log[m].room] = {log[m].from}
    BY <1>2, <1>4
  <2>2. Cardinality({log[m].from}) = 1
    BY FS_Singleton
  <2> QED
    BY <1>3, <2>1, <2>2
<1> QED
  BY <1>2, <1>4, UsersAssumption

\* What is stored stays; so each notice has to be somewhere again.
LEMMA StillNoticed ==
  ASSUME Full, UNCHANGED <<convs, log, readAt>>,
         \A u \in Active : seen[u] \cup passed[u] \subseteq seen'[u] \cup passed'[u],
         \A m \in DOMAIN log : log[m].to \in Active /\ Pending(log[m].to, log[m].from, m)
                                 => Pending(log[m].to, log[m].from, m)'
  PROVE  Noticed'
<1>1. Noticed
  BY DEF Full
<1>2. \A u, p : Find(u, p)' = Find(u, p)
  BY DEF Find, Room
<1> QED
  BY <1>1, <1>2 DEF Noticed

\* Nothing that bears a notice is changed, but for packets and events.
LEMMA SameNotices ==
  ASSUME Full, UNCHANGED <<convs, log, readAt, badge, polls, seen, passed, unheard, up>>,
         \A v \in Active, m \in DOMAIN log : Announcing(v, m) => Announcing(v, m)',
         \A v \in Active, m \in DOMAIN log : Told(v, m) => Told(v, m)'
  PROVE  Noticed'
<1>1. SUFFICES ASSUME NEW m \in DOMAIN log, log[m].to \in Active, Pending(log[m].to, log[m].from, m)
               PROVE  Pending(log[m].to, log[m].from, m)'
  BY StillNoticed
<1>2. Announcing(log[m].from, m) => Announcing(log[m].from, m)'
  BY Written
<1>3. Told(log[m].to, m) => Told(log[m].to, m)'
  BY <1>1
<1>4. Polled(log[m].to, log[m].from) => Polled(log[m].to, log[m].from)'
  BY DEF Polled
<1> QED
  BY <1>1, <1>2, <1>3, <1>4 DEF Pending
----------------------------------------------------------------------------
(* The browser's steps, once more                                          *)

LEMMA OwnPackets ==
  ASSUME Full, NEW u \in Active
  PROVE  /\ \A p \in Users \ {u} : Join(p) \in OwnPacket(u)
         /\ \A room \in RoomsOf(u) : Read(room) \in OwnPacket(u)
         /\ \A p \in Users \ {u}, room \in RoomsOf(u) : Send(room, p) \in OwnPacket(u)
<1>1. \A room \in RoomsOf(u) : room \in Nat \cap DOMAIN convs
  BY DEF RoomsOf, Room, Full, IInv
<1>2. \A p \in Users \ {u} : Join(p) \in OwnPacket(u)
  BY SelectedPackets DEF OwnPacket, Join
<1>3. \A room \in RoomsOf(u) : Read(room) \in OwnPacket(u)
  BY <1>1, ReadPacket DEF OwnPacket, Read
<1>4. \A p \in Users \ {u}, room \in RoomsOf(u) : Send(room, p) \in OwnPacket(u)
  BY <1>1, SelectedPackets DEF OwnPacket, Send
<1> QED
  BY <1>2, <1>3, <1>4

LEMMA EmptyView ==
  ASSUME TablesGrow, NEW u \in Active, NEW p \in (Users \cup {None}) \ {u}
  PROVE  Empty(p, 0) \in OwnView(u)'
<1>1. 0 \in 0 .. Now'
  BY DEF TablesGrow
<1> QED
  BY <1>1 DEF OwnView, Empty

LEMMA ShownTyped ==
  ASSUME Full, TablesGrow, NEW u \in Active, NEW p \in (Users \cup {None}) \ {u}, Show(u, p)
  PROVE  ViewsTyped'
  BY EmptyView, ViewOf DEF Show

LEMMA Passes ==
  ASSUME Full, UNCHANGED log, NEW u \in Active, NEW people, Pass(u, people)
  PROVE  /\ passed' \in [Active -> SUBSET DOMAIN log']
         /\ \A v \in Active : passed[v] \subseteq passed'[v]
         /\ \A m \in DOMAIN log : log[m].from \in people => m \in seen[u] \cup passed'[u]
  BY DEF Pass, Full, Typed, TablesTyped

LEMMA PassesTyped ==
  ASSUME Full, UNCHANGED <<convs, log, readAt, seen, unheard>>, NEW u \in Active, NEW people, Pass(u, people)
  PROVE  TablesTyped'
  BY Passes DEF Full, Typed, TablesTyped, Room, Now

LEMMA ClearedCounts ==
  ASSUME Full, UNCHANGED polls, NEW u \in Active, NEW p, badge' = [badge EXCEPT ![u][p] = 0]
  PROVE  CountsTyped'
<1>1. badge \in [Active -> Badges] /\ Badges = [Users -> Nat]
  BY DEF Full, Typed, CountsTyped, Badges
<1>2. [badge[u] EXCEPT ![p] = 0] \in Badges
  BY <1>1
<1>3. badge' = [badge EXCEPT ![u] = [badge[u] EXCEPT ![p] = 0]]
  BY <1>1
<1>4. badge' \in [Active -> Badges]
  BY <1>1, <1>2, <1>3
<1> QED
  BY <1>4 DEF Full, Typed, CountsTyped

\* A badge is cleared, and what its sender wrote is passed.
LEMMA ClearedNotices ==
  ASSUME Full, UNCHANGED <<convs, log, readAt, polls, seen, unheard, up>>,
         NEW u \in Active, NEW p, NEW people, p \in people,
         badge' = [badge EXCEPT ![u][p] = 0], Pass(u, people),
         \A v \in Active, m \in DOMAIN log : Announcing(v, m) => Announcing(v, m)',
         \A v \in Active, m \in DOMAIN log : Told(v, m) => Told(v, m)'
  PROVE  Noticed'
<1>1. /\ \A v \in Active : passed[v] \subseteq passed'[v]
      /\ \A m \in DOMAIN log : log[m].from \in people => m \in seen[u] \cup passed'[u]
  BY Passes
<1>2. SUFFICES ASSUME NEW m \in DOMAIN log, log[m].to \in Active, Pending(log[m].to, log[m].from, m)
               PROVE  Pending(log[m].to, log[m].from, m)'
  BY <1>1, StillNoticed
<1>3. log' = log /\ seen' = seen /\ up' = up /\ polls' = polls
  OBVIOUS
<1>4. CASE log[m].to = u /\ log[m].from = p
  BY <1>1, <1>3, <1>4 DEF Pending
<1>5. CASE ~ (log[m].to = u /\ log[m].from = p)
  <2>1. badge \in [Active -> [Users -> Nat]]
    BY DEF Full, Typed, CountsTyped, Badges
  <2>2. badge'[log[m].to][log[m].from] = badge[log[m].to][log[m].from]
    BY <1>2, <1>5, <2>1
  <2>3. Announcing(log[m].from, m) => Announcing(log[m].from, m)'
    BY Written
  <2>4. Told(log[m].to, m) => Told(log[m].to, m)'
    BY <1>2
  <2>5. Polled(log[m].to, log[m].from) => Polled(log[m].to, log[m].from)'
    BY DEF Polled
  <2> QED
    BY <1>1, <1>2, <1>3, <2>2, <2>3, <2>4, <2>5 DEF Pending
<1> QED
  BY <1>4, <1>5

LEMMA SelectTyped ==
  ASSUME Full, NEW u \in Active, NEW p \in Users, handleUserSelect(u, p) PROVE Typed' /\ Noticed'
<1>1. /\ p \in Users \ {u} /\ Spend("selects") /\ Show(u, p) /\ Emit(u, Join(p)) /\ Pass(u, {p})
      /\ badge' = [badge EXCEPT ![u][p] = 0]
      /\ UNCHANGED <<convs, log, readAt, fetches, polls, up, down, seen, unheard>>
  BY DEF handleUserSelect, database
<1>2. TablesGrow
  BY <1>1, Untouched
<1>3. PacketsTyped'
  BY <1>1, <1>2, OwnPackets, PacketEmitted
<1>4. ViewsTyped' /\ TablesTyped' /\ CountsTyped' /\ BudgetTyped'
  BY <1>1, <1>2, ShownTyped, PassesTyped, ClearedCounts, BudgetSpent
<1>5. EventsTyped' /\ FetchesTyped'
  BY <1>1, <1>2, EventsAsTheyWere, FetchesAsTheyWere
<1>6. \A v \in Active, m \in DOMAIN log : Announcing(v, m) => Announcing(v, m)'
  BY <1>1, EmittedStill
<1>7. \A v \in Active, m \in DOMAIN log : Told(v, m) => Told(v, m)'
  BY <1>1 DEF Told
<1>8. Noticed'
  BY <1>1, <1>6, <1>7, ClearedNotices
<1> QED
  BY <1>3, <1>4, <1>5, <1>8, TypedAgain

LEMMA ChannelTyped == ASSUME Full, NEW u \in Active, setActiveChannelId(u) PROVE Typed' /\ Noticed'
<1>1. /\ Spend("selects") /\ Show(u, None) /\ None # u
      /\ UNCHANGED <<convs, log, readAt, badge, fetches, polls, up, buffer, handlers, down, seen, passed, unheard>>
  BY UsersAssumption DEF setActiveChannelId, database, socket, ghosts
<1>2. TablesGrow
  BY <1>1, Untouched
<1>3. PacketsTyped' /\ EventsTyped' /\ FetchesTyped' /\ TablesTyped' /\ CountsTyped' /\ BudgetTyped'
  BY <1>1, <1>2, PacketsAsTheyWere, EventsAsTheyWere, FetchesAsTheyWere, TablesAsTheyWere,
     CountsAsTheyWere, BudgetSpent
<1>4. ViewsTyped'
  BY <1>1, <1>2, ShownTyped
<1>5. Noticed'
  BY <1>1, SameNotices DEF Announcing, Handler, Told
<1> QED
  BY <1>3, <1>4, <1>5, TypedAgain

LEMMA OpenRoom ==
  ASSUME Full, NEW u \in Active
  PROVE  /\ view[u] \in OwnView(u) /\ view[u].peer \in (Users \cup {None}) \ {u}
         /\ view[u].room \in RoomsOf(u) \cup {0}
  BY DEF Full, Typed, ViewsTyped, OwnView

LEMMA SendTyped == ASSUME Full, NEW u \in Active, sendMessage(u) PROVE Typed' /\ Noticed'
<1>1. /\ view[u].peer # None /\ view[u].room # 0 /\ Spend("sends") /\ Emit(u, Send(view[u].room, view[u].peer))
      /\ UNCHANGED <<convs, log, readAt, view, badge, fetches, polls, up, down, seen, passed, unheard>>
  BY DEF sendMessage, database, ghosts
<1>2. TablesGrow
  BY <1>1, Untouched
<1>3. PacketsTyped'
  BY <1>1, <1>2, OpenRoom, OwnPackets, PacketEmitted
<1>4. EventsTyped' /\ FetchesTyped' /\ ViewsTyped' /\ TablesTyped' /\ CountsTyped' /\ BudgetTyped'
  BY <1>1, <1>2, EventsAsTheyWere, FetchesAsTheyWere, ViewsAsTheyWere, TablesAsTheyWere,
     CountsAsTheyWere, BudgetSpent
<1>5. \A v \in Active, m \in DOMAIN log : Announcing(v, m) => Announcing(v, m)'
  BY <1>1, EmittedStill
<1>6. Noticed'
  BY <1>1, <1>5, SameNotices DEF Told
<1> QED
  BY <1>3, <1>4, <1>6, TypedAgain
LEMMA RoomJoinedTyped == ASSUME Full, NEW u \in Active, handleRoomJoined(u) PROVE Typed' /\ Noticed'
<1> DEFINE room == Head(down[u]).room
           p == view[u].peer
           fetch == [room |-> room, of |-> p, at |-> 0, last |-> 0]
           mixed == view[u].mixed \/ Stray(u, room)
           new == [view[u] EXCEPT !.room = room, !.mixed = mixed]
<1>1. /\ down[u] # << >> /\ Head(down[u]).event = "roomJoined" /\ Handled(u)
      /\ view' = [view EXCEPT ![u].room = room, ![u].mixed = @ \/ Stray(u, room)]
      /\ fetches' = [fetches EXCEPT ![u] = Append(@, fetch)]
      /\ UNCHANGED <<convs, log, readAt, polls, up, seen, unheard, budget>>
      /\ \/ UNCHANGED <<handlers, buffer, badge, passed>>
         \/ /\ p # None /\ Emit(u, Read(room)) /\ badge' = [badge EXCEPT ![u][p] = 0]
            /\ Pass(u, {p, Other(u, room)})
  BY DEF handleRoomJoined, Comes, database
<1>2. TablesGrow
  BY <1>1, Untouched
<1>3. EventsTyped' /\ room \in RoomsOf(u)
  BY <1>1, <1>2, EventHandled DEF OwnEvent
<1>4. PacketsTyped'
  BY <1>1, <1>2, <1>3, OwnPackets, PacketEmitted, PacketsAsTheyWere
<1>5. FetchesTyped'
  <2>1. fetches[u] \in Seq(OwnFetch(u)) /\ DOMAIN fetches = Active
    BY DEF Full, Typed, FetchesTyped
  <2>2. fetch \in OwnFetch(u)
    BY <1>2, <1>3, OpenRoom DEF OwnFetch, TablesGrow
  <2> HIDE DEF fetch
  <2>3. Append(fetches[u], fetch) \in Seq(OwnFetch(u)')
    BY <1>2, <2>1, <2>2, StillOwn, AppendType, MoreIn
  <2> QED
    BY <1>1, <1>2, <2>1, <2>3, FetchesOf
<1>6. ViewsTyped'
  <2>1. view' = [view EXCEPT ![u] = new]
    BY <1>1 DEF Full, IInv, ViewsAreOfRooms
  <2>2. new \in OwnView(u)
    <3>1. mixed \in BOOLEAN
      BY DEF Stray
    <3>2. ~ mixed => ~ view[u].mixed /\ convs[room] = {u, p}
      BY DEF Stray
    <3> HIDE DEF mixed
    <3> DEFINE Views == [peer : (Users \cup {None}) \ {u}, room : RoomsOf(u) \cup {0},
                         list : SUBSET seen[u], tick : 0 .. Now, mixed : BOOLEAN]
    <3>3. /\ view[u] \in Views
          /\ ~ view[u].mixed =>
               /\ \A m \in view[u].list : convs[log[m].room] = {u, p}
               /\ view[u].tick > 0 => \E r \in Room : convs[r] = {u, p} /\ HasRead(p, r)
      BY OpenRoom DEF OwnView
    <3> HIDE DEF room
    <3>4. /\ new \in Views
          /\ new.peer = p /\ new.room = room /\ new.list = view[u].list /\ new.tick = view[u].tick
          /\ new.mixed = mixed
      BY <1>3, <3>1, <3>3
    <3> HIDE DEF new
    <3> QED
      BY <3>2, <3>3, <3>4 DEF OwnView
  <2>3. new \in OwnView(u)'
    BY <1>2, <2>2, StillOwnView
  <2> QED
    BY <1>2, <2>1, <2>3, ViewOf
<1>7. CountsTyped' /\ TablesTyped' /\ BudgetTyped'
  BY <1>1, CountsAsTheyWere, ClearedCounts, TablesAsTheyWere, PassesTyped, BudgetAsItWas
<1>8. \A v \in Active, m \in DOMAIN log : Announcing(v, m) => Announcing(v, m)'
  BY <1>1, EmittedStill DEF Announcing, Handler
<1>9. \A v \in Active, m \in DOMAIN log : Told(v, m) => Told(v, m)'
  BY <1>1, HandledStill
<1>10. Noticed'
  <2>1. CASE UNCHANGED <<badge, passed>>
    BY <1>1, <1>8, <1>9, <2>1, SameNotices
  <2>2. CASE badge' = [badge EXCEPT ![u][p] = 0] /\ Pass(u, {p, Other(u, room)})
    BY <1>1, <1>8, <1>9, <2>2, ClearedNotices
  <2> QED
    BY <1>1, <2>1, <2>2
<1> QED
  BY <1>3, <1>4, <1>5, <1>6, <1>7, <1>10, TypedAgain

LEMMA MessagesReadTyped == ASSUME Full, NEW u \in Active, handleMessagesRead(u) PROVE Typed' /\ Noticed'
<1> DEFINE e == Head(down[u])
           new == [view[u] EXCEPT !.tick = Now]
<1>1. /\ down[u] # << >> /\ e.event = "messagesRead" /\ Handled(u)
      /\ view' = IF view[u].room = e.room THEN [view EXCEPT ![u].tick = Now] ELSE view
      /\ UNCHANGED <<convs, log, readAt, badge, fetches, polls, up, buffer, handlers, seen, passed, unheard, budget>>
  BY DEF handleMessagesRead, Comes, database, ghosts
<1>2. TablesGrow
  BY <1>1, Untouched
<1>3. EventsTyped' /\ e \in OwnEvent(u)
  BY <1>1, <1>2, EventHandled
<1>4. PacketsTyped' /\ FetchesTyped' /\ TablesTyped' /\ CountsTyped' /\ BudgetTyped'
  BY <1>1, <1>2, PacketsAsTheyWere, FetchesAsTheyWere, TablesAsTheyWere, CountsAsTheyWere, BudgetAsItWas
<1>5. ViewsTyped'
  <2>1. CASE view' = view
    BY <1>2, <2>1, ViewsAsTheyWere
  <2>2. CASE view[u].room = e.room /\ view' = [view EXCEPT ![u].tick = Now]
    <3>1. view' = [view EXCEPT ![u] = new]
      BY <2>2 DEF Full, IInv, ViewsAreOfRooms
    <3>2. e.room \in Room /\ e.room # 0
      BY <1>3 DEF OwnEvent, RoomsOf, Room, Full, IInv
    <3>3. PICK q \in Users \ {u} : HasRead(q, e.room)
      BY <1>1, <1>3 DEF OwnEvent
    <3>4. ~ view[u].mixed => convs[e.room] = {u, view[u].peer} /\ HasRead(view[u].peer, e.room)
      BY <2>2, <3>2, <3>3, OpenRoom DEF OwnView, HasRead
    <3>5. Now \in 0 .. Now
      BY <1>2 DEF TablesGrow
    <3>6. new \in OwnView(u)
      <4>1. view[u] \in OwnView(u)
        BY OpenRoom
      <4>2. /\ new.room = view[u].room /\ new.peer = view[u].peer /\ new.mixed = view[u].mixed
            /\ new.tick = Now
        BY <4>1 DEF OwnView
      <4> QED
        BY <3>2, <3>4, <3>5, <4>1, <4>2 DEF OwnView
    <3> HIDE DEF new
    <3>7. new \in OwnView(u)'
      BY <1>2, <3>6, StillOwnView
    <3> QED
      BY <1>2, <3>1, <3>7, ViewOf
  <2> QED
    BY <1>1, <2>1, <2>2
<1>6. \A v \in Active, m \in DOMAIN log : Told(v, m) => Told(v, m)'
  BY <1>1, HandledStill
<1>7. Noticed'
  BY <1>1, <1>6, SameNotices DEF Announcing, Handler
<1> QED
  BY <1>3, <1>4, <1>5, <1>7, TypedAgain

LEMMA NewMessageTyped == ASSUME Full, NEW u \in Active, handleNewMessage(u) PROVE Typed' /\ Noticed'
<1> DEFINE m == Head(down[u]).m
           new == [view[u] EXCEPT !.list = @ \cup {m}]
<1>1. /\ down[u] # << >> /\ Head(down[u]).event = "receiveMessage" /\ Handled(u)
      /\ UNCHANGED <<convs, log, readAt, fetches, polls, up, passed, unheard, budget>>
  BY DEF handleNewMessage, Comes, database
<1>2. m \in DOMAIN log
  BY <1>1, Heard DEF OwnEvent
<1>3. seen \in [Active -> SUBSET DOMAIN log] /\ badge \in [Active -> [Users -> Nat]]
  BY DEF Full, Typed, TablesTyped, CountsTyped, Badges
<1>4. CASE /\ Listed(u, m)
           /\ view' = [view EXCEPT ![u].list = @ \cup {m}]
           /\ seen' = [seen EXCEPT ![u] = @ \cup {m}]
           /\ UNCHANGED <<handlers, buffer>> \/ Emit(u, Read(view[u].room))
           /\ UNCHANGED badge
  <2>1. TablesGrow
    BY <1>1, <1>3, <1>4, Untouched
  <2>2. EventsTyped' /\ FetchesTyped' /\ CountsTyped' /\ BudgetTyped'
    BY <1>1, <1>4, <2>1, EventHandled, FetchesAsTheyWere, CountsAsTheyWere, BudgetAsItWas
  <2>3. view[u].room = log[m].room /\ view[u].room \in RoomsOf(u) /\ view[u].room # 0
    <3>1. log[m].room \in Room /\ log[m].room # 0
      BY <1>2, Written DEF Room, Full, IInv
    <3> QED
      BY <1>4, <3>1, OpenRoom DEF Listed
  <2>4. PacketsTyped'
    BY <1>1, <1>4, <2>1, <2>3, OwnPackets, PacketEmitted, PacketsAsTheyWere
  <2>5. TablesTyped'
    BY <1>1, <1>2, <1>3, <1>4 DEF Full, Typed, TablesTyped, Room, Now
  <2>6. ViewsTyped'
    <3>1. view' = [view EXCEPT ![u] = new]
      BY <1>4 DEF Full, IInv, ViewsAreOfRooms
    <3>2. view[u] \in OwnView(u)'
      BY <2>1, OpenRoom, StillOwnView
    <3>3. view[u].list \cup {m} \in SUBSET seen'[u]
      BY <1>3, <1>4, OpenRoom DEF OwnView
    <3>4. ~ view[u].mixed => convs'[log'[m].room] = {u, view[u].peer}
      <4>1. ~ view[u].mixed => convs[view[u].room] = {u, view[u].peer}
        BY <2>3, OpenRoom DEF OwnView
      <4>2. convs' = convs /\ log' = log
        BY <1>1
      <4> QED
        BY <2>3, <4>1, <4>2
    <3>5. new \in OwnView(u)'
      BY <3>2, <3>3, <3>4 DEF OwnView
    <3> HIDE DEF new
    <3> QED
      BY <2>1, <3>1, <3>5, ViewOf
  <2>7. Noticed'
    <3>1. /\ \A v \in Active : seen[v] \cup passed[v] \subseteq seen'[v] \cup passed'[v]
          /\ m \in seen'[u]
      BY <1>1, <1>3, <1>4
    <3>2. SUFFICES ASSUME NEW n \in DOMAIN log, log[n].to \in Active, Pending(log[n].to, log[n].from, n)
                   PROVE  Pending(log[n].to, log[n].from, n)'
      BY <1>1, <3>1, StillNoticed
    <3>3. Announcing(log[n].from, n) => Announcing(log[n].from, n)'
      <4>1. log[n].from \in Active /\ log' = log
        BY <1>1, Written
      <4>2. CASE UNCHANGED handlers
        BY <4>1, <4>2 DEF Announcing, Handler
      <4>3. CASE Emit(u, Read(view[u].room))
        BY <4>1, <4>3, EmittedStill
      <4> QED
        BY <1>4, <4>2, <4>3
    <3>4. Told(log[n].to, n) => Told(log[n].to, n)' \/ (log[n].to = u /\ n = m)
      BY <1>1, <3>2, HandledStill
    <3>5. Polled(log[n].to, log[n].from) => Polled(log[n].to, log[n].from)'
      BY <1>1 DEF Polled
    <3> QED
      BY <1>1, <1>4, <3>1, <3>2, <3>3, <3>4, <3>5 DEF Pending
  <2> QED
    BY <2>2, <2>4, <2>5, <2>6, <2>7, TypedAgain
<1>5. CASE /\ badge' = IF log[m].from = u THEN badge ELSE [badge EXCEPT ![u][log[m].from] = @ + 1]
           /\ UNCHANGED <<view, seen, handlers, buffer>>
  <2>1. TablesGrow
    BY <1>1, <1>5, Untouched
  <2>2. EventsTyped' /\ FetchesTyped' /\ PacketsTyped' /\ ViewsTyped' /\ TablesTyped' /\ BudgetTyped'
    BY <1>1, <1>5, <2>1, EventHandled, FetchesAsTheyWere, PacketsAsTheyWere, ViewsAsTheyWere,
       TablesAsTheyWere, BudgetAsItWas
  <2>3. /\ badge' \in [Active -> [Users -> Nat]]
        /\ \A v \in Active, p \in Users : badge[v][p] > 0 => badge'[v][p] > 0
        /\ log[m].from # u => badge'[u][log[m].from] > 0
    <3>1. CASE log[m].from = u
      BY <1>3, <1>5, <3>1
    <3>2. CASE log[m].from # u
      <4> DEFINE p == log[m].from
      <4>1. p \in Users /\ badge[u][p] \in Nat
        BY <1>2, <1>3, Written
      <4>2. badge' = [badge EXCEPT ![u][p] = badge[u][p] + 1]
        BY <1>5, <3>2
      <4> HIDE DEF p
      <4>3. /\ badge' \in [Active -> [Users -> Nat]]
            /\ \A v \in Active, q \in Users : badge'[v][q] = IF v = u /\ q = p THEN badge[u][p] + 1 ELSE badge[v][q]
        BY <1>3, <4>1, <4>2
      <4> QED
        BY <4>1, <4>3 DEF p
    <3> QED
      BY <3>1, <3>2
  <2>4. CountsTyped'
    BY <1>1, <2>3 DEF Full, Typed, CountsTyped, Badges
  <2>5. Noticed'
    <3>1. SUFFICES ASSUME NEW n \in DOMAIN log, log[n].to \in Active, Pending(log[n].to, log[n].from, n)
                   PROVE  Pending(log[n].to, log[n].from, n)'
      BY <1>1, <1>5, StillNoticed
    <3>2. Announcing(log[n].from, n) => Announcing(log[n].from, n)'
      BY <1>1, <1>5 DEF Announcing, Handler
    <3>3. Told(log[n].to, n) => Told(log[n].to, n)' \/ (log[n].to = u /\ n = m)
      BY <1>1, <3>1, HandledStill
    <3>4. Polled(log[n].to, log[n].from) => Polled(log[n].to, log[n].from)'
      BY <1>1 DEF Polled
    <3>5. badge[log[n].to][log[n].from] > 0 => badge'[log[n].to][log[n].from] > 0
      BY <2>3, <3>1, Written
    <3>6. log[n].to = u /\ n = m => badge'[log[n].to][log[n].from] > 0
      BY <2>3, Written
    <3> QED
      BY <1>1, <1>5, <3>1, <3>2, <3>3, <3>4, <3>5, <3>6 DEF Pending
  <2> QED
    BY <2>2, <2>4, <2>5, TypedAgain
<1> QED
  BY <1>4, <1>5 DEF handleNewMessage
LEMMA Fetch ==
  ASSUME Full, NEW u \in Active, NEW i \in DOMAIN fetches[u]
  PROVE  /\ fetches[u] \in Seq(OwnFetch(u)) /\ DOMAIN fetches = Active /\ fetches[u][i] \in OwnFetch(u)
         /\ RemoveAt(fetches[u], i) \in Seq(OwnFetch(u))
<1>1. fetches[u] \in Seq(OwnFetch(u)) /\ DOMAIN fetches = Active
  BY DEF Full, Typed, FetchesTyped
<1> QED
  BY <1>1, RemoveAtType, ElementOfSeq

LEMMA FetchRemoved ==
  ASSUME Full, TablesGrow, NEW u \in Active, NEW i \in DOMAIN fetches[u],
         fetches' = [fetches EXCEPT ![u] = RemoveAt(@, i)]
  PROVE  FetchesTyped'
<1>1. RemoveAt(fetches[u], i) \in Seq(OwnFetch(u)') /\ DOMAIN fetches = Active
  BY Fetch, StillOwn, MoreIn
<1> QED
  BY <1>1, FetchesOf

LEMMA HistoryTyped ==
  ASSUME Full, NEW u \in Active, NEW i \in DOMAIN fetches[u], HistoryArrives(u, i) PROVE Typed' /\ Noticed'
<1>0. PICK f \in OwnFetch(u), p \in (Users \cup {None}) \ {u} : f = fetches[u][i] /\ p = view[u].peer
  BY Fetch, OpenRoom
<1> DEFINE list == {m \in DOMAIN log : log[m].room = f.room /\ m < f.at}
           tick == IF f.of = None THEN view[u].tick ELSE f.last
           mixed == view[u].mixed \/ Stray(u, f.room)
           new == [view[u] EXCEPT !.list = list, !.tick = tick, !.mixed = mixed]
           Views == [peer : (Users \cup {None}) \ {u}, room : RoomsOf(u)' \cup {0},
                     list : SUBSET seen'[u], tick : 0 .. Now', mixed : BOOLEAN]
<1>1. /\ view' = [view EXCEPT ![u] = new] /\ seen' = [seen EXCEPT ![u] = @ \cup list]
      /\ fetches' = [fetches EXCEPT ![u] = RemoveAt(@, i)]
      /\ UNCHANGED <<convs, log, readAt, badge, polls, up, buffer, handlers, down, passed, unheard, budget>>
  BY <1>0 DEF HistoryArrives, database, socket, Full, IInv, ViewsAreOfRooms
<1>2. /\ seen \in [Active -> SUBSET DOMAIN log] /\ passed \in [Active -> SUBSET DOMAIN log]
      /\ unheard \in [Active -> SUBSET DOMAIN log]
  BY DEF Full, Typed, TablesTyped
<1>3. TablesGrow
  BY <1>1, <1>2, Untouched
<1>4. PacketsTyped' /\ EventsTyped' /\ FetchesTyped' /\ CountsTyped' /\ BudgetTyped'
  BY <1>1, <1>3, PacketsAsTheyWere, EventsAsTheyWere, FetchRemoved, CountsAsTheyWere, BudgetAsItWas
<1>5. TablesTyped'
  <2>1. seen' \in [Active -> SUBSET DOMAIN log]
    BY <1>1, <1>2
  <2> QED
    BY <1>1, <2>1 DEF Full, Typed, TablesTyped, Room, Now
<1>6. ViewsTyped'
  <2>1. f \in OwnFetch(u) /\ f.room \in Room /\ f.last \in 0 .. Now
        /\ (f.last > 0 => HasRead(f.of, f.room) /\ f.of # u)
    BY DEF OwnFetch, RoomsOf
  <2>v. PICK v \in OwnView(u)' : v = view[u] /\ v.peer = p
    BY <1>0, <1>3, OpenRoom, StillOwnView
  <2>2. v \in Views
    BY DEF OwnView
  <2>w. ~ v.mixed =>
          /\ v.room # 0 => convs'[v.room] = {u, p}
          /\ v.tick > 0 => \E r \in Room' : convs'[r] = {u, p} /\ HasRead(p, r)'
    BY <2>v DEF OwnView
  <2>3. list \in SUBSET seen'[u] /\ tick \in 0 .. Now' /\ mixed \in BOOLEAN
    <3>1. list \in SUBSET seen'[u]
      BY <1>1, <1>2
    <3>2. tick \in 0 .. Now'
      BY <1>1, <2>1, <2>2, <2>v DEF Now
    <3> QED
      BY <3>1, <3>2 DEF Stray
  <2>4. \A m \in list : log'[m].room = f.room
    BY <1>1
  <2>5. ASSUME ~ mixed
        PROVE  /\ ~ view[u].mixed /\ convs'[f.room] = {u, p}
               /\ tick > 0 => \E r \in Room' : convs'[r] = {u, p} /\ HasRead(p, r)'
    <3>1. ~ view[u].mixed /\ convs[f.room] = {u, p} /\ convs' = convs
      BY <1>0, <1>1, <2>5 DEF Stray
    <3>2. CASE f.of = None
      BY <2>v, <2>w, <3>1, <3>2
    <3>3. ASSUME f.of # None, tick > 0 PROVE HasRead(p, f.room)' /\ f.room \in Room'
      <4>1. HasRead(f.of, f.room) /\ f.of # u
        BY <2>1, <3>3
      <4>2. f.of = p
        BY <3>1, <4>1 DEF HasRead
      <4> QED
        BY <1>3, <2>1, <4>1, <4>2, StillRead DEF TablesGrow
    <3> QED
      BY <3>1, <3>2, <3>3
  <2> HIDE DEF list, tick, mixed
  <2>6. /\ new \in Views
        /\ new.peer = p /\ new.room = view[u].room /\ new.list = list /\ new.tick = tick /\ new.mixed = mixed
    BY <2>2, <2>3, <2>v
  <2> HIDE DEF new
  <2>7. new \in OwnView(u)'
    BY <2>v, <2>w, <2>4, <2>5, <2>6 DEF OwnView
  <2> QED
    BY <1>1, <1>3, <2>7, ViewOf
<1>7. Noticed'
  <2>1. \A v \in Active : seen[v] \cup passed[v] \subseteq seen'[v] \cup passed'[v]
    BY <1>1, <1>2
  <2>2. SUFFICES ASSUME NEW n \in DOMAIN log, log[n].to \in Active, Pending(log[n].to, log[n].from, n)
                 PROVE  Pending(log[n].to, log[n].from, n)'
    BY <1>1, <2>1, StillNoticed
  <2> HIDE DEF list
  <2> QED
    BY <1>1, <2>1, <2>2 DEF Pending, Announcing, Handler, Told, Polled
<1> QED
  BY <1>4, <1>5, <1>6, <1>7, TypedAgain

LEMMA HistoryFailsTyped ==
  ASSUME Full, NEW u \in Active, NEW i \in DOMAIN fetches[u], HistoryFails(u, i) PROVE Typed' /\ Noticed'
<1>1. /\ Spend("faults") /\ fetches' = [fetches EXCEPT ![u] = RemoveAt(@, i)]
      /\ UNCHANGED <<convs, log, readAt, view, badge, polls, up, buffer, handlers, down, seen, passed, unheard>>
  BY DEF HistoryFails, database, socket, ghosts
<1>2. TablesGrow
  BY <1>1, Untouched
<1>3. PacketsTyped' /\ EventsTyped' /\ FetchesTyped' /\ ViewsTyped' /\ TablesTyped' /\ CountsTyped' /\ BudgetTyped'
  BY <1>1, <1>2, PacketsAsTheyWere, EventsAsTheyWere, FetchRemoved, ViewsAsTheyWere, TablesAsTheyWere,
     CountsAsTheyWere, BudgetSpent
<1>4. Noticed'
  BY <1>1, SameNotices DEF Announcing, Handler, Told
<1> QED
  BY <1>3, <1>4, TypedAgain

LEMMA MembersTyped == ASSUME Full, NEW u \in Active, MembersArrive(u) PROVE Typed' /\ Noticed'
<1>1. PICK counts \in polls[u] \ {None} :
        /\ polls' = [polls EXCEPT ![u] = @ \ {counts}]
        /\ badge' = [badge EXCEPT ![u] = [p \in Users |-> IF counts[p] > 0 THEN counts[p] ELSE @[p]]]
        /\ UNCHANGED <<convs, log, readAt, view, fetches, up, buffer, handlers, down, seen, passed, unheard, budget>>
  BY DEF MembersArrive, database, socket, ghosts
<1>2. badge \in [Active -> [Users -> Nat]] /\ polls \in [Active -> SUBSET (Counts \cup {None})]
  BY DEF Full, Typed, CountsTyped, Badges
<1>3. \A p \in Users : counts[p] > 0 => counts[p] \in Nat
  BY <1>2 DEF Counts
<1> DEFINE new == [p \in Users |-> IF counts[p] > 0 THEN counts[p] ELSE badge[u][p]]
<1>4. new \in [Users -> Nat] /\ badge' = [badge EXCEPT ![u] = new]
  BY <1>1, <1>2, <1>3
<1>5. \A p \in Users : counts[p] > 0 \/ badge[u][p] > 0 => new[p] > 0
  BY <1>2, <1>3
<1> HIDE DEF new
<1>6. TablesGrow
  BY <1>1, Untouched
<1>7. PacketsTyped' /\ EventsTyped' /\ FetchesTyped' /\ ViewsTyped' /\ TablesTyped' /\ BudgetTyped'
  BY <1>1, <1>6, PacketsAsTheyWere, EventsAsTheyWere, FetchesAsTheyWere, ViewsAsTheyWere,
     TablesAsTheyWere, BudgetAsItWas
<1>8. CountsTyped'
  <2>1. badge' \in [Active -> [Users -> Nat]]
    BY <1>2, <1>4
  <2>2. polls' \in [Active -> SUBSET (Counts \cup {None})]
    BY <1>1, <1>2
  <2> QED
    BY <2>1, <2>2 DEF CountsTyped, Badges
<1>9. Noticed'
  <2>1. SUFFICES ASSUME NEW n \in DOMAIN log, log[n].to \in Active, Pending(log[n].to, log[n].from, n)
                 PROVE  Pending(log[n].to, log[n].from, n)'
    BY <1>1, StillNoticed
  <2>2. log' = log /\ log[n].from \in Users
    BY <1>1, Written
  <2>3. badge[log[n].to][log[n].from] > 0 => badge'[log[n].to][log[n].from] > 0
    BY <1>2, <1>4, <1>5, <2>1, <2>2
  <2>4. Polled(log[n].to, log[n].from) =>
          Polled(log[n].to, log[n].from)' \/ badge'[log[n].to][log[n].from] > 0
    <3> SUFFICES ASSUME NEW other \in polls[log[n].to] \ {None}, other[log[n].from] > 0
                 PROVE  Polled(log[n].to, log[n].from)' \/ badge'[log[n].to][log[n].from] > 0
      BY DEF Polled
    <3>1. CASE log[n].to = u /\ other = counts
      BY <1>2, <1>4, <1>5, <2>2, <3>1
    <3>2. CASE ~ (log[n].to = u /\ other = counts)
      <4>1. other \in polls'[log[n].to] \ {None}
        BY <1>1, <1>2, <2>1, <3>2
      <4> QED
        BY <2>2, <4>1 DEF Polled
    <3> QED
      BY <3>1, <3>2
  <2>5. None \in polls[log[n].to] => None \in polls'[log[n].to]
    BY <1>1, <1>2, <2>1
  <2>6. Announcing(log[n].from, n) => Announcing(log[n].from, n)'
    BY <1>1 DEF Announcing, Handler
  <2>7. Told(log[n].to, n) => Told(log[n].to, n)'
    BY <1>1 DEF Told
  <2> QED
    BY <1>1, <2>1, <2>2, <2>3, <2>4, <2>5, <2>6, <2>7 DEF Pending
<1> QED
  BY <1>7, <1>8, <1>9, TypedAgain
\* What no event brings is not heard of; so the list bore the only notice of no other.
LEMMA MembersFailTyped == ASSUME Full, NEW u \in Active, MembersFail(u) PROVE Typed' /\ Noticed'
<1> DEFINE silent == {m \in DOMAIN log : log[m].to = u /\ ~ Announcing(log[m].from, m) /\ ~ Told(u, m)}
<1>1. /\ Spend("faults") /\ unheard' = [unheard EXCEPT ![u] = @ \cup silent]
      /\ UNCHANGED <<convs, log, readAt, view, badge, fetches, up, buffer, handlers, down, seen, passed>>
  BY DEF MembersFail, database, socket
<1>2. PICK list \in polls[u] : polls' = [polls EXCEPT ![u] = @ \ {list}]
  BY DEF MembersFail
<1>3. /\ polls \in [Active -> SUBSET (Counts \cup {None})] /\ badge \in [Active -> Badges]
      /\ unheard \in [Active -> SUBSET DOMAIN log]
  BY DEF Full, Typed, CountsTyped, TablesTyped
<1>4. silent \subseteq DOMAIN log
  OBVIOUS
<1>5. \A n \in DOMAIN log : log[n].to = u => Announcing(log[n].from, n) \/ Told(u, n) \/ n \in silent
  OBVIOUS
<1> HIDE DEF silent
<1>6. TablesGrow
  BY <1>1, Untouched
<1>7. /\ unheard' \in [Active -> SUBSET DOMAIN log] /\ silent \subseteq unheard'[u]
      /\ \A v \in Active : unheard[v] \subseteq unheard'[v]
  BY <1>1, <1>3, <1>4
<1>8. TablesTyped'
  BY <1>1, <1>7 DEF Full, Typed, TablesTyped, Room, Now
<1>9. CountsTyped'
  <2>1. polls' \in [Active -> SUBSET (Counts \cup {None})]
    BY <1>2, <1>3
  <2> QED
    BY <1>1, <1>3, <2>1 DEF CountsTyped
<1>10. Typed'
  BY <1>1, <1>6, <1>8, <1>9, PacketsAsTheyWere, EventsAsTheyWere, FetchesAsTheyWere, ViewsAsTheyWere,
     BudgetSpent, TypedAgain
<1>11. Noticed'
  <2>1. SUFFICES ASSUME NEW n \in DOMAIN log, log[n].to \in Active, Pending(log[n].to, log[n].from, n)
                 PROVE  Pending(log[n].to, log[n].from, n)'
    BY <1>1, StillNoticed
  <2>2. PICK a, b : a = log[n].to /\ b = log[n].from /\ a \in Active /\ b \in Active
    BY <2>1, Written
  <2>3. (Announcing(b, n) => Announcing(b, n)') /\ (Told(a, n) => Told(a, n)')
    BY <1>1 DEF Announcing, Handler, Told
  <2>4. CASE a = u
    BY <1>1, <1>5, <1>7, <2>2, <2>3, <2>4 DEF Pending
  <2>5. CASE a # u
    <3>1. polls'[a] = polls[a]
      BY <1>2, <1>3, <2>2, <2>5
    <3>2. Pending(a, b, n)'
      BY <1>1, <1>7, <2>1, <2>2, <2>3, <3>1 DEF Pending, Polled
    <3> QED
      BY <1>1, <2>2, <3>2
  <2> QED
    BY <2>4, <2>5
<1> QED
  BY <1>10, <1>11

LEMMA OrphanOwn ==
  ASSUME Full, NEW u \in Active
  PROVE  LET left == [i \in DOMAIN handlers[u] |-> [handlers[u][i] EXCEPT !.orphan = TRUE]]
         IN  /\ left \in Seq(OwnPacket(u)) /\ DOMAIN left = DOMAIN handlers[u]
             /\ \A i \in DOMAIN handlers[u] : /\ left[i].op = handlers[u][i].op
                                              /\ left[i].at = handlers[u][i].at
                                              /\ left[i].time = handlers[u][i].time
<1> DEFINE s == handlers[u]
           left == [i \in DOMAIN s |-> [s[i] EXCEPT !.orphan = TRUE]]
<1>1. s \in Seq(OwnPacket(u)) /\ s \in Seq(Packet(u, convs))
  BY DEF Full, IInv, PacketsAreOwn, Typed, PacketsTyped
<1> HIDE DEF s
<1>2. Len(s) \in Nat /\ DOMAIN s = 1 .. Len(s)
  BY <1>1
<1>3. \A i \in 1 .. Len(s) :
        /\ [s[i] EXCEPT !.orphan = TRUE] \in OwnPacket(u)
        /\ [s[i] EXCEPT !.orphan = TRUE].op = s[i].op
        /\ [s[i] EXCEPT !.orphan = TRUE].at = s[i].at
        /\ [s[i] EXCEPT !.orphan = TRUE].time = s[i].time
  <2> SUFFICES ASSUME NEW i \in 1 .. Len(s)
               PROVE  /\ [s[i] EXCEPT !.orphan = TRUE] \in OwnPacket(u)
                      /\ [s[i] EXCEPT !.orphan = TRUE].op = s[i].op
                      /\ [s[i] EXCEPT !.orphan = TRUE].at = s[i].at
                      /\ [s[i] EXCEPT !.orphan = TRUE].time = s[i].time
    OBVIOUS
  <2> DEFINE h == s[i]
             new == [h EXCEPT !.orphan = TRUE]
  <2>1. h \in OwnPacket(u)
    BY <1>1, ElementOfSeq
  <2>2. h \in PacketOver((Users \cup {None}) \ {u}) /\ h \in Packet(u, convs)
    BY <2>1 DEF OwnPacket, Packet
  <2> HIDE DEF h
  <2>3. /\ new \in PacketOver((Users \cup {None}) \ {u}) /\ new.op = h.op /\ new.at = h.at
        /\ new.time = h.time /\ new.room = h.room /\ new.peer = h.peer
    BY <2>2 DEF PacketOver
  <2> HIDE DEF new
  <2>4. new \in Packet(u, convs)
    BY <2>2, <2>3 DEF Packet
  <2>5. new \in OwnPacket(u)
    BY <2>1, <2>3, <2>4 DEF OwnPacket
  <2> QED
    BY <2>3, <2>5 DEF new, h
<1>4. left \in [1 .. Len(s) -> OwnPacket(u)] /\ DOMAIN left = DOMAIN s
  BY <1>2, <1>3
<1>5. left \in Seq(OwnPacket(u))
  BY <1>2, <1>4, SeqDef
<1>6. \A i \in DOMAIN s : left[i].op = s[i].op /\ left[i].at = s[i].at /\ left[i].time = s[i].time
  BY <1>2, <1>3
<1> QED
  BY <1>4, <1>5, <1>6 DEF s

LEMMA DropTyped == ASSUME Full, NEW u \in Active, Drop(u) PROVE Typed' /\ Noticed'
<1> DEFINE left == [i \in DOMAIN handlers[u] |-> [handlers[u][i] EXCEPT !.orphan = TRUE]]
<1>1. /\ Spend("faults") /\ up' = [up EXCEPT ![u] = FALSE] /\ down' = [down EXCEPT ![u] = << >>]
      /\ handlers' = [handlers EXCEPT ![u] = left]
      /\ UNCHANGED <<convs, log, readAt, view, badge, fetches, polls, buffer, seen, passed, unheard>>
  BY DEF Drop, database, ghosts, Full, IInv, PacketsAreOwn
<1>2. TablesGrow
  BY <1>1, Untouched
<1>3. PacketsTyped /\ EventsTyped /\ DOMAIN handlers = Active /\ DOMAIN down = Active
  BY DEF Full, Typed, IInv, PacketsAreOwn, EventsAreOfRooms
<1>4. /\ left \in Seq(OwnPacket(u)) /\ DOMAIN left = DOMAIN handlers[u]
      /\ \A i \in DOMAIN handlers[u] : /\ left[i].op = handlers[u][i].op
                                       /\ left[i].at = handlers[u][i].at
                                       /\ left[i].time = handlers[u][i].time
  BY OrphanOwn
<1> HIDE DEF left
<1>5. PacketsTyped'
  <2>1. \A v \in Active : handlers[v] \in Seq(OwnPacket(v)') /\ buffer[v] \in Seq(OwnPacket(v)')
    BY <1>2, <1>3, StillOwn, MoreIn DEF PacketsTyped
  <2>2. left \in Seq(OwnPacket(u)')
    BY <1>2, <1>4, StillOwn, MoreIn
  <2> QED
    BY <1>1, <1>3, <2>1, <2>2 DEF PacketsTyped
<1>6. EventsTyped'
  <2>1. \A v \in Active : down[v] \in Seq(OwnEvent(v)')
    BY <1>2, <1>3, StillOwn, MoreIn DEF EventsTyped
  <2>2. up \in [Active -> BOOLEAN]
    BY <1>3 DEF PacketsTyped
  <2> QED
    BY <1>1, <1>3, <2>1, <2>2 DEF EventsTyped
<1>7. FetchesTyped' /\ ViewsTyped' /\ TablesTyped' /\ CountsTyped' /\ BudgetTyped'
  BY <1>1, <1>2, FetchesAsTheyWere, ViewsAsTheyWere, TablesAsTheyWere, CountsAsTheyWere, BudgetSpent
<1>8. Noticed'
  <2>1. SUFFICES ASSUME NEW n \in DOMAIN log, log[n].to \in Active, Pending(log[n].to, log[n].from, n)
                 PROVE  Pending(log[n].to, log[n].from, n)'
    BY <1>1, StillNoticed
  <2>2. log' = log /\ log[n].from \in Active /\ up \in [Active -> BOOLEAN]
    BY <1>1, <1>3, Written DEF PacketsTyped
  <2>3. CASE log[n].to = u
    BY <1>1, <2>2, <2>3 DEF Pending
  <2>4. CASE log[n].to # u
    <3>1. Announcing(log[n].from, n) => Announcing(log[n].from, n)'
      BY <1>1, <1>3, <1>4, <2>2 DEF Announcing, Handler
    <3>2. Told(log[n].to, n) => Told(log[n].to, n)'
      BY <1>1, <1>3, <2>1, <2>2, <2>4 DEF Told
    <3>3. up'[log[n].to] = up[log[n].to]
      BY <1>1, <2>1, <2>2, <2>4
    <3>4. Polled(log[n].to, log[n].from) => Polled(log[n].to, log[n].from)'
      BY <1>1 DEF Polled
    <3> QED
      BY <1>1, <2>1, <2>2, <3>1, <3>2, <3>3, <3>4 DEF Pending
  <2> QED
    BY <2>3, <2>4
<1> QED
  BY <1>5, <1>6, <1>7, <1>8, TypedAgain

LEMMA ConnectTyped == ASSUME Full, NEW u \in Active, Connect(u) PROVE Typed' /\ Noticed'
<1> DEFINE again == IF view[u].peer = None THEN << >> ELSE <<Join(view[u].peer)>>
           more == handlers[u] \o buffer[u] \o again
<1>1. /\ up' = [up EXCEPT ![u] = TRUE] /\ buffer' = [buffer EXCEPT ![u] = << >>]
      /\ handlers' = [handlers EXCEPT ![u] = more]
      /\ polls' = [polls EXCEPT ![u] = @ \cup {None}]
      /\ UNCHANGED <<convs, log, readAt, view, badge, fetches, down, seen, passed, unheard, budget>>
  BY DEF Connect, database, ghosts, Full, IInv, PacketsAreOwn
<1>2. TablesGrow
  BY <1>1, Untouched
<1>3. /\ PacketsTyped /\ EventsTyped /\ CountsTyped
      /\ DOMAIN handlers = Active /\ DOMAIN buffer = Active /\ up \in [Active -> BOOLEAN]
  BY DEF Full, Typed, PacketsTyped, IInv, PacketsAreOwn
<1>4. again \in Seq(OwnPacket(u))
  <2>1. CASE view[u].peer = None
    BY <2>1
  <2>2. CASE view[u].peer # None
    <3>1. Join(view[u].peer) \in OwnPacket(u)
      BY <2>2, OpenRoom, OwnPackets
    <3> QED
      BY <2>2, <3>1
  <2> QED
    BY <2>1, <2>2
<1> HIDE DEF again
<1>5. /\ more \in Seq(OwnPacket(u))
      /\ \A i \in DOMAIN handlers[u] : i \in DOMAIN more /\ more[i] = handlers[u][i]
  <2>1. handlers[u] \in Seq(OwnPacket(u)) /\ buffer[u] \in Seq(OwnPacket(u))
    BY <1>3 DEF PacketsTyped
  <2>2. handlers[u] \o buffer[u] \in Seq(OwnPacket(u))
    BY <2>1, ConcatProperties
  <2>3. more \in Seq(OwnPacket(u))
    BY <1>4, <2>2, ConcatProperties
  <2>4. \A i \in DOMAIN handlers[u] :
          i \in DOMAIN (handlers[u] \o buffer[u]) /\ (handlers[u] \o buffer[u])[i] = handlers[u][i]
    BY <2>1, ConcatenatedAt
  <2>5. \A i \in DOMAIN (handlers[u] \o buffer[u]) :
          i \in DOMAIN more /\ more[i] = (handlers[u] \o buffer[u])[i]
    BY <1>4, <2>2, ConcatenatedAt
  <2> HIDE DEF more
  <2> QED
    BY <2>3, <2>4, <2>5
<1> HIDE DEF more
<1>6. PacketsTyped'
  <2>1. \A v \in Active : handlers[v] \in Seq(OwnPacket(v)') /\ buffer[v] \in Seq(OwnPacket(v)')
    BY <1>2, <1>3, StillOwn, MoreIn DEF PacketsTyped
  <2>2. more \in Seq(OwnPacket(u)') /\ << >> \in Seq(OwnPacket(u)')
    BY <1>2, <1>5, StillOwn, MoreIn
  <2> QED
    BY <1>1, <1>3, <2>1, <2>2 DEF PacketsTyped
<1>7. EventsTyped'
  <2>1. \A v \in Active : down[v] \in Seq(OwnEvent(v)')
    BY <1>2, <1>3, StillOwn, MoreIn DEF EventsTyped
  <2> QED
    BY <1>1, <1>3, <2>1 DEF EventsTyped
<1>8. CountsTyped'
  BY <1>1, <1>3 DEF CountsTyped
<1>9. FetchesTyped' /\ ViewsTyped' /\ TablesTyped' /\ BudgetTyped'
  BY <1>1, <1>2, FetchesAsTheyWere, ViewsAsTheyWere, TablesAsTheyWere, BudgetAsItWas
<1>10. Noticed'
  <2>1. SUFFICES ASSUME NEW n \in DOMAIN log, log[n].to \in Active, Pending(log[n].to, log[n].from, n)
                 PROVE  Pending(log[n].to, log[n].from, n)'
    BY <1>1, StillNoticed
  <2>2. log' = log /\ log[n].from \in Active /\ polls \in [Active -> SUBSET (Counts \cup {None})]
    BY <1>1, <1>3, Written DEF CountsTyped
  <2>3. CASE log[n].to = u
    BY <1>1, <2>2, <2>3 DEF Pending
  <2>4. CASE log[n].to # u
    <3>1. Announcing(log[n].from, n) => Announcing(log[n].from, n)'
      BY <1>1, <1>3, <1>5, <2>2 DEF Announcing, Handler
    <3>2. Told(log[n].to, n) => Told(log[n].to, n)'
      BY <1>1 DEF Told
    <3>3. up'[log[n].to] = up[log[n].to] /\ polls'[log[n].to] = polls[log[n].to]
      BY <1>1, <1>3, <2>1, <2>2, <2>4
    <3>4. Polled(log[n].to, log[n].from) => Polled(log[n].to, log[n].from)'
      BY <2>2, <3>3 DEF Polled
    <3> QED
      BY <1>1, <2>1, <2>2, <3>1, <3>2, <3>3, <3>4 DEF Pending
  <2> QED
    BY <2>3, <2>4
<1> QED
  BY <1>6, <1>7, <1>8, <1>9, <1>10, TypedAgain

LEMMA BrowserTyped == ASSUME Full, NEW u \in Active, Browser(u) PROVE Typed' /\ Noticed'
  BY SelectTyped, ChannelTyped, SendTyped, RoomJoinedTyped, NewMessageTyped, MessagesReadTyped,
     HistoryTyped, HistoryFailsTyped, MembersTyped, MembersFailTyped, DropTyped, ConnectTyped DEF Browser
----------------------------------------------------------------------------
(* The server's steps, once more                                           *)

LEMMA OwnHandler ==
  ASSUME Full, NEW u \in Active, NEW i \in DOMAIN handlers[u]
  PROVE  handlers[u][i] \in OwnPacket(u) /\ handlers[u][i] \in Packet(u, convs)
<1>1. handlers[u] \in Seq(OwnPacket(u)) /\ handlers[u] \in Seq(Packet(u, convs))
  BY DEF Full, IInv, PacketsAreOwn, Typed, PacketsTyped
<1> QED
  BY <1>1, ElementOfSeq

\* What a moved handler is, is told by the invariant of the step.
LEMMA MovedOwn ==
  ASSUME Full, IInv', NEW u \in Active, NEW i \in DOMAIN handlers[u], NEW new,
         handlers' = [handlers EXCEPT ![u][i] = new]
  PROVE  new \in Packet(u, convs')
<1>1. DOMAIN handlers = Active /\ handlers'[u] \in Seq(Packet(u, convs'))
  BY DEF Full, IInv, PacketsAreOwn
<1>2. i \in DOMAIN handlers'[u] /\ handlers'[u][i] = new
  BY <1>1
<1> QED
  BY <1>1, <1>2, ElementOfSeq

LEMMA JoinTyped ==
  ASSUME Full, NEW u \in Active, NEW i \in DOMAIN handlers[u], joinPrivateChat(u, i)
  PROVE  Typed' /\ Noticed'
<1> DEFINE h == handlers[u][i]
           new == [h EXCEPT !.at = "create", !.time = Len(convs)]
<1>1. /\ h.op = "join" /\ h.at = "sent"
      /\ UNCHANGED <<convs, log, readAt, view, badge, fetches, polls, up, buffer, seen, passed, unheard, budget>>
  BY DEF joinPrivateChat, Handler, database, ghosts
<1>2. TablesGrow
  BY <1>1, Untouched
<1>3. FetchesTyped' /\ ViewsTyped' /\ TablesTyped' /\ CountsTyped' /\ BudgetTyped'
  BY <1>1, <1>2, FetchesAsTheyWere, ViewsAsTheyWere, TablesAsTheyWere, CountsAsTheyWere, BudgetAsItWas
<1>4. CASE /\ UNCHANGED down
           /\ handlers' = [handlers EXCEPT ![u][i].at = "create", ![u][i].time = Len(convs)]
  <2>1. handlers' = [handlers EXCEPT ![u][i] = new]
    BY <1>4 DEF Full, IInv, PacketsAreOwn
  <2>2. new \in Packet(u, convs)
    BY <1>1, <2>1, JoinKeeps, MovedOwn DEF Full
  <2>3. h \in Packet(u, convs)
    BY OwnHandler
  <2>4. new.op = "join" /\ new.at = "create"
    BY <1>1, <2>3 DEF Packet, PacketOver
  <2> HIDE DEF new
  <2>5. new \in OwnPacket(u)'
    BY <1>2, <2>2, <2>4, StillOwn DEF OwnPacket
  <2>6. PacketsTyped' /\ EventsTyped'
    BY <1>1, <1>2, <1>4, <2>1, <2>5, PacketMoved, EventsAsTheyWere
  <2>7. \A v \in Active, m \in DOMAIN log : Announcing(v, m) => Announcing(v, m)'
    BY <1>1, <2>1, MovedStill
  <2>8. Noticed'
    BY <1>1, <1>4, <2>7, SameNotices DEF Told
  <2> QED
    BY <1>3, <2>6, <2>8, TypedAgain
<1>5. ASSUME Done(u, i), NEW room \in Find(u, h.peer), Answer(u, i, RoomJoined(room))
      PROVE  Typed' /\ Noticed'
  <2>1. room \in RoomsOf(u)
    BY DEF Find, RoomsOf
  <2>2. RoomJoined(room) \in OwnEvent(u)
    BY <2>1, JoinedEvent DEF OwnEvent, RoomJoined, RoomsOf, Room, Full, IInv
  <2>3. PacketsTyped' /\ EventsTyped'
    BY <1>1, <1>2, <1>5, <2>2, StillOwn, PacketDone, EventAnswered
  <2>4. \A v \in Active, m \in DOMAIN log : Announcing(v, m) => Announcing(v, m)'
    BY <1>1, <1>5, DoneStill
  <2>5. \A v \in Active, m \in DOMAIN log : Told(v, m) => Told(v, m)'
    BY <1>5, AnsweredStill
  <2>6. Noticed'
    BY <1>1, <2>4, <2>5, SameNotices
  <2> QED
    BY <1>3, <2>3, <2>6, TypedAgain
<1> QED
  BY <1>4, <1>5 DEF joinPrivateChat

LEMMA OneOf ==
  ASSUME NEW S, IsFiniteSet(S), Cardinality(S) = 1, NEW x \in S PROVE S = {x}
<1>1. {x} \subseteq S /\ Cardinality({x}) = 1
  BY FS_Singleton
<1> QED
  BY <1>1, FS_Subset

LEMMA FoundIsFinite ==
  ASSUME NEW cs \in Seq(Pair), NEW pair PROVE IsFiniteSet({room \in DOMAIN cs : cs[room] = pair})
<1>1. {room \in DOMAIN cs : cs[room] = pair} \subseteq 1 .. Len(cs) /\ IsFiniteSet(1 .. Len(cs))
  BY FS_Interval
<1> QED
  BY <1>1, FS_Subset

\* Who has one conversation now had it when it was one of fewer.
LEMMA OneBefore ==
  ASSUME Full, IInv', TablesGrow, NEW u, NEW p, Find(u, p) # {}, Cardinality(Find(u, p)') = 1
  PROVE  Cardinality(Find(u, p)) = 1
<1>1. Find(u, p) \subseteq Find(u, p)'
  BY DEF Find, TablesGrow
<1>2. PICK room : room \in Find(u, p)
  OBVIOUS
<1>3. IsFiniteSet(Find(u, p)')
  BY FoundIsFinite DEF IInv, Find, Room
<1>4. Find(u, p)' = {room}
  BY <1>1, <1>2, <1>3, OneOf
<1>5. Find(u, p) = {room}
  BY <1>1, <1>2, <1>4
<1> QED
  BY <1>5, FS_Singleton
LEMMA FunctionIsSeq ==
  ASSUME NEW S, NEW n \in Nat, NEW s \in [1 .. n -> S] PROVE s \in Seq(S) /\ Len(s) = n
<1>1. s \in Seq(S)
  BY SeqDef
<1>2. Len(s) \in Nat /\ 1 .. Len(s) = 1 .. n
  BY <1>1
<1>3. \A k \in Nat : (k \in 1 .. Len(s)) = (k \in 1 .. n)
  BY <1>2
<1>4. Len(s) = n
  <2>1. Len(s) <= n
    BY <1>2, <1>3
  <2>2. n <= Len(s)
    BY <1>2, <1>3
  <2> QED
    BY <1>2, <2>1, <2>2
<1> QED
  BY <1>1, <1>4

LEMMA SeqIsFunction ==
  ASSUME NEW S, NEW s \in Seq(S), NEW n \in Nat, Len(s) = n PROVE s \in [1 .. n -> S]
  OBVIOUS

LEMMA CreateTyped ==
  ASSUME Full, NEW u \in Active, NEW i \in DOMAIN handlers[u], CreateConversation(u, i)
  PROVE  Typed' /\ Noticed'
<1> DEFINE pair == {u, handlers[u][i].peer}
           event == RoomJoined(Len(convs) + 1)
<1>1. /\ handlers[u][i].op = "join" /\ handlers[u][i].at = "create"
      /\ convs' = Append(convs, pair) /\ readAt' = [v \in Active |-> Append(readAt[v], 0)]
      /\ Answer(u, i, event) /\ Done(u, i)
      /\ UNCHANGED <<log, view, badge, fetches, polls, up, buffer, seen, passed, unheard, budget>>
  BY DEF CreateConversation, Handler, ghosts
<1>2. IInv' /\ convs \in Seq(Pair) /\ Len(convs) \in Nat
  BY CreateKeeps DEF Full, IInv
<1>3. /\ Room = 1 .. Len(convs) /\ Room' = 1 .. Len(convs) + 1
      /\ \A room \in Room : convs'[room] = convs[room]
      /\ convs'[Len(convs) + 1] = pair
  <2> HIDE DEF pair
  <2> QED
    BY <1>1, <1>2 DEF Room
<1>4. \A v \in Active :
        /\ readAt'[v] \in [Room' -> 0 .. Now]
        /\ \A room \in Room : readAt'[v][room] = readAt[v][room]
  <2> SUFFICES ASSUME NEW v \in Active
               PROVE  /\ readAt'[v] \in [Room' -> 0 .. Now]
                      /\ \A room \in Room : readAt'[v][room] = readAt[v][room]
    OBVIOUS
  <2>1. readAt[v] \in [1 .. Len(convs) -> 0 .. Now]
    BY <1>3 DEF Full, Typed, TablesTyped
  <2>2. readAt[v] \in Seq(0 .. Now) /\ Len(readAt[v]) = Len(convs)
    BY <1>2, <2>1, FunctionIsSeq
  <2>3. 0 \in 0 .. Now
    BY DEF Full, IInv, Now
  <2>4. /\ Append(readAt[v], 0) \in Seq(0 .. Now) /\ Len(Append(readAt[v], 0)) = Len(convs) + 1
        /\ \A room \in 1 .. Len(convs) : Append(readAt[v], 0)[room] = readAt[v][room]
    BY <2>2, <2>3
  <2>5. Append(readAt[v], 0) \in [1 .. Len(convs) + 1 -> 0 .. Now]
    <3>1. PICK n \in Nat : n = Len(convs) + 1
      BY <1>2
    <3>2. PICK s \in Seq(0 .. Now) : s = Append(readAt[v], 0)
      BY <2>4
    <3>3. s \in [1 .. n -> 0 .. Now]
      BY <2>4, <3>1, <3>2, SeqIsFunction
    <3> QED
      BY <3>1, <3>2, <3>3
  <2> QED
    BY <1>1, <1>3, <2>4, <2>5
<1>5. TablesGrow
  <2>1. \A v \in Active : Packet(v, convs) \subseteq Packet(v, convs')
    <3>1. handlers[u][i].peer \in Users \ {u}
      BY <1>1, OwnHandler DEF Packet, PacketOver
    <3>2. pair \in Pair
      BY <3>1, PairIsMade
    <3> QED
      BY <1>1, <1>2, <3>2, Grows
  <2>2. Event(convs) \subseteq Event(convs')
    BY <1>3 DEF Event, Room
  <2>3. Now \in Nat /\ Now' = Now /\ log' = log /\ seen' = seen
    BY <1>1 DEF Full, IInv, Now
  <2>4. Room \subseteq Room'
    BY <1>2, <1>3
  <2> QED
    BY <1>3, <1>4, <2>1, <2>2, <2>3, <2>4 DEF TablesGrow
<1>6. TablesTyped'
  <2>1. readAt' \in [Active -> [Room' -> 0 .. Now']]
    BY <1>1, <1>4 DEF Now
  <2> QED
    BY <1>1, <2>1 DEF Full, Typed, TablesTyped
<1>7. event \in OwnEvent(u)'
  <2>1. event \in Event(convs') /\ event.room = Len(convs) + 1 /\ event.event = "roomJoined"
    BY <1>2, <1>3, JoinedEvent DEF RoomJoined, Room, Event
  <2>2. event.room \in RoomsOf(u)'
    BY <1>2, <1>3, <2>1 DEF RoomsOf
  <2> HIDE DEF event
  <2> QED
    BY <2>1, <2>2 DEF OwnEvent
<1>8. PacketsTyped' /\ EventsTyped'
  BY <1>1, <1>5, <1>7, PacketDone, EventAnswered
<1>9. FetchesTyped' /\ ViewsTyped' /\ CountsTyped' /\ BudgetTyped'
  BY <1>1, <1>5, FetchesAsTheyWere, ViewsAsTheyWere, CountsAsTheyWere, BudgetAsItWas
<1>10. Noticed'
  <2> SUFFICES ASSUME NEW m \in DOMAIN log, log[m].to \in Active
               PROVE  /\ m < readAt'[log[m].to][log[m].room] => m \in seen'[log[m].to] \cup passed'[log[m].to]
                      /\ Cardinality(Find(log[m].to, log[m].from)') = 1
                           => Pending(log[m].to, log[m].from, m)'
    <3>1. log' = log
      BY <1>1
    <3> QED
      BY <3>1 DEF Noticed
  <2>1. /\ m < readAt[log[m].to][log[m].room] => m \in seen[log[m].to] \cup passed[log[m].to]
        /\ Cardinality(Find(log[m].to, log[m].from)) = 1 => Pending(log[m].to, log[m].from, m)
    BY DEF Full, Noticed
  <2>2. log[m].room \in Room /\ log[m].from \in Active /\ convs[log[m].room] = {log[m].from, log[m].to}
    BY Written
  <2>3. m < readAt'[log[m].to][log[m].room] => m \in seen'[log[m].to] \cup passed'[log[m].to]
    BY <1>1, <1>4, <2>1, <2>2
  <2>4. ASSUME Cardinality(Find(log[m].to, log[m].from)') = 1 PROVE Pending(log[m].to, log[m].from, m)'
    <3>1. PICK a, b : a = log[m].to /\ b = log[m].from /\ a \in Active /\ b \in Active
      BY <2>2
    <3>2. Find(a, b) # {}
      BY <2>2, <3>1 DEF Find
    <3>3. Cardinality(Find(a, b)') = 1
      BY <1>1, <2>4, <3>1
    <3>4. Pending(a, b, m)
      BY <1>2, <1>5, <2>1, <3>1, <3>2, <3>3, OneBefore
    <3>5. Announcing(b, m) => Announcing(b, m)'
      BY <1>1, <3>1, DoneStill
    <3>6. Told(a, m) => Told(a, m)'
      BY <1>1, <3>1, AnsweredStill
    <3>7. Pending(a, b, m)'
      BY <1>1, <3>4, <3>5, <3>6 DEF Pending, Polled
    <3> QED
      BY <1>1, <3>1, <3>7
  <2> QED
    BY <2>3, <2>4
<1> QED
  BY <1>6, <1>8, <1>9, <1>10, TypedAgain
LEMMA StoreTyped ==
  ASSUME Full, NEW u \in Active, NEW i \in DOMAIN handlers[u], sendPrivateMessage(u, i)
  PROVE  Typed' /\ Noticed'
<1> DEFINE h == handlers[u][i]
           m == [room |-> h.room, from |-> u, to |-> h.peer]
           new == [h EXCEPT !.at = "announce", !.time = Len(log) + 1]
<1>1. /\ h.op = "send" /\ h.at = "sent"
      /\ UNCHANGED <<convs, readAt, view, badge, fetches, polls, up, buffer, down, seen, passed, unheard, budget>>
  BY DEF sendPrivateMessage, Handler, ghosts
<1>2. h \in Packet(u, convs) /\ IInv'
  BY OwnHandler, StoreKeeps DEF Full
<1>3. CASE log' = log /\ Done(u, i)
  <2>1. TablesGrow
    BY <1>1, <1>3, Untouched
  <2>2. Typed'
    BY <1>1, <1>3, <2>1, PacketDone, EventsAsTheyWere, FetchesAsTheyWere, ViewsAsTheyWere,
       TablesAsTheyWere, CountsAsTheyWere, BudgetAsItWas, TypedAgain
  <2>3. \A v \in Active, n \in DOMAIN log : Announcing(v, n) => Announcing(v, n)'
    BY <1>1, <1>3, DoneStill
  <2> QED
    BY <1>1, <1>3, <2>2, <2>3, SameNotices DEF Told
<1>4. CASE /\ log' = Append(log, m)
           /\ handlers' = [handlers EXCEPT ![u][i].at = "announce", ![u][i].time = Len(log) + 1]
  <2>1. log \in Seq(Message(convs)) /\ Len(log) \in Nat
    BY DEF Full, IInv
  <2>2. /\ DOMAIN log = 1 .. Len(log) /\ DOMAIN log' = 1 .. Len(log) + 1
        /\ \A n \in DOMAIN log : log'[n] = log[n]
        /\ log'[Len(log) + 1] = m
        /\ Now = Len(log) + 1 /\ Now' = Len(log) + 2
    <3> HIDE DEF m
    <3>1. Len(log') = Len(log) + 1
      BY <1>4, <2>1
    <3> QED
      BY <1>4, <2>1, <3>1 DEF Now
  <2>3. TablesGrow
    <3>1. Now \in Nat /\ Now' \in Nat /\ Now <= Now' /\ DOMAIN log \subseteq DOMAIN log'
      BY <2>1, <2>2
    <3> QED
      BY <1>1, <2>2, <3>1 DEF TablesGrow, Room
  <2>4. handlers' = [handlers EXCEPT ![u][i] = new]
    BY <1>4 DEF Full, IInv, PacketsAreOwn
  <2>5. new \in OwnPacket(u)'
    <3>1. new \in Packet(u, convs')
      BY <1>2, <2>4, MovedOwn
    <3>2. /\ new.op = "send" /\ new.at = "announce" /\ new.time = Len(log) + 1
          /\ new.room = h.room /\ new.peer = h.peer
      BY <1>1, <1>2 DEF Packet, PacketOver
    <3> HIDE DEF new
    <3>3. new.time \in DOMAIN log' /\ log'[new.time] = [room |-> new.room, from |-> u, to |-> new.peer]
      BY <2>1, <2>2, <3>2
    <3> QED
      BY <3>1, <3>2, <3>3 DEF OwnPacket
  <2>6. TablesTyped'
    <3>1. 0 .. Now \subseteq 0 .. Now' /\ DOMAIN log \subseteq DOMAIN log'
      BY <2>3 DEF TablesGrow
    <3>2. readAt \in [Active -> [Room -> 0 .. Now']]
      BY <3>1 DEF Full, Typed, TablesTyped
    <3> QED
      BY <1>1, <3>1, <3>2 DEF Full, Typed, TablesTyped, Room
  <2>7. Typed'
    BY <1>1, <2>3, <2>4, <2>5, <2>6, PacketMoved, EventsAsTheyWere, FetchesAsTheyWere, ViewsAsTheyWere,
       CountsAsTheyWere, BudgetAsItWas, TypedAgain
  <2>8. \A v \in Active : \A n : Announcing(v, n) => Announcing(v, n)'
    BY <1>1, <2>4, MovedStill
  <2>9. PICK last : last = Len(log) + 1
    OBVIOUS
  <2>10. Announcing(u, last)'
    <3>1. handlers'[u][i] = new /\ i \in DOMAIN handlers'[u]
      BY <2>4 DEF Full, IInv, PacketsAreOwn
    <3>2. new.op = "send" /\ new.at = "announce" /\ new.time = Len(log) + 1
      BY <1>1, <1>2 DEF Packet, PacketOver
    <3> HIDE DEF new
    <3> QED
      BY <2>9, <3>1, <3>2 DEF Announcing, Handler
  <2>11. Noticed'
    <3> SUFFICES ASSUME NEW n \in DOMAIN log', log'[n].to \in Active
                 PROVE  /\ n < readAt'[log'[n].to][log'[n].room]
                             => n \in seen'[log'[n].to] \cup passed'[log'[n].to]
                        /\ Cardinality(Find(log[n].to, log[n].from)') = 1
                             => Pending(log[n].to, log[n].from, n)'
      BY DEF Noticed
    <3>1. CASE n \in DOMAIN log
      <4>1. PICK a, b : a = log[n].to /\ b = log[n].from /\ a \in Active /\ b \in Active
        BY <2>2, <3>1, Written
      <4>2. log'[n].to = a /\ log'[n].from = b /\ log'[n].room = log[n].room
        BY <2>2, <3>1, <4>1
      <4>3. /\ n < readAt[a][log[n].room] => n \in seen[a] \cup passed[a]
            /\ Cardinality(Find(a, b)) = 1 => Pending(a, b, n)
        BY <3>1, <4>1 DEF Full, Noticed
      <4>4. Find(a, b)' = Find(a, b)
        BY <1>1 DEF Find, Room
      <4>5. Pending(a, b, n) => Pending(a, b, n)'
        BY <1>1, <2>8, <4>1 DEF Pending, Polled, Told
      <4> QED
        BY <1>1, <4>2, <4>3, <4>4, <4>5
    <3>2. CASE n = Len(log) + 1
      <4>1. log'[n] = m /\ m.from = u /\ m.room = h.room
        BY <2>2, <3>2
      <4>2. Pending(log[n].to, log[n].from, n)'
        BY <2>9, <2>10, <3>2, <4>1 DEF Pending
      <4>3. log'[n].room \in Room
        BY <1>1, <1>2, <4>1 DEF Packet, Room
      <4>4. readAt'[log'[n].to][log'[n].room] \in 0 .. Now
        BY <1>1, <4>3 DEF Full, Typed, TablesTyped
      <4>5. ~ (n < readAt'[log'[n].to][log'[n].room])
        BY <2>1, <2>2, <3>2, <4>4
      <4> QED
        BY <4>2, <4>5
    <3> QED
      BY <2>1, <2>2, <3>1, <3>2
  <2> QED
    BY <2>7, <2>11
<1> QED
  BY <1>3, <1>4 DEF sendPrivateMessage
LEMMA AnnounceTyped ==
  ASSUME Full, NEW u \in Active, NEW i \in DOMAIN handlers[u], Announce(u, i)
  PROVE  Typed' /\ Noticed'
<1> DEFINE h == handlers[u][i]
           event == [event |-> "receiveMessage", room |-> h.room, m |-> h.time]
<1>1. /\ h.op = "send" /\ h.at = "announce" /\ Tell(convs[h.room], event) /\ Done(u, i)
      /\ UNCHANGED <<convs, log, readAt, view, badge, fetches, polls, up, buffer, seen, passed, unheard, budget>>
  BY DEF Announce, Handler, database, ghosts
<1>2. TablesGrow
  BY <1>1, Untouched
<1>3. /\ h.time \in DOMAIN log /\ log[h.time] = [room |-> h.room, from |-> u, to |-> h.peer]
      /\ h.room \in Room /\ h.room \in Nat /\ h.time \in Nat
  BY <1>1, OwnHandler DEF OwnPacket, Packet, PacketOver, Room
<1>4. \A v \in convs[h.room] \cap Active : event \in OwnEvent(v)'
  <2>1. \A v \in convs[h.room] \cap Active : event \in OwnEvent(v)
    BY <1>3 DEF OwnEvent, Event, RoomsOf
  <2> QED
    BY <1>2, <2>1, StillOwn
<1>5. PacketsTyped' /\ EventsTyped'
  BY <1>1, <1>2, <1>4, PacketDone, EventTold
<1>6. FetchesTyped' /\ ViewsTyped' /\ TablesTyped' /\ CountsTyped' /\ BudgetTyped'
  BY <1>1, <1>2, FetchesAsTheyWere, ViewsAsTheyWere, TablesAsTheyWere, CountsAsTheyWere, BudgetAsItWas
<1>7. Noticed'
  <2>1. SUFFICES ASSUME NEW n \in DOMAIN log, log[n].to \in Active, Pending(log[n].to, log[n].from, n)
                 PROVE  Pending(log[n].to, log[n].from, n)'
    BY <1>1, StillNoticed
  <2>2. PICK a, b : a = log[n].to /\ b = log[n].from /\ a \in Active /\ b \in Active
    BY <2>1, Written
  <2>3. Told(a, n) => Told(a, n)'
    BY <1>1, <2>2, ToldStill
  <2>4. Announcing(b, n) => Announcing(b, n)' \/ (n = h.time /\ b = u)
    BY <1>1, <2>2, DoneStill
  <2>5. ASSUME n = h.time, up[a] PROVE Told(a, n)'
    <3>1. a \in convs[h.room] \cap Active
      BY <1>3, <2>2, <2>5, Written
    <3>2. event.event = "receiveMessage" /\ event.m = n
      BY <2>5
    <3> HIDE DEF event
    <3>3. PICK e : e = event
      OBVIOUS
    <3>4. Told(a, e.m)'
      BY <1>1, <2>5, <3>1, <3>2, <3>3, NowTold
    <3> QED
      BY <3>2, <3>3, <3>4
  <2>6. up' = up /\ Pending(a, b, n)
    BY <1>1, <2>1, <2>2
  <2>7. Pending(a, b, n)'
    BY <1>1, <2>3, <2>4, <2>5, <2>6 DEF Pending, Polled
  <2> QED
    BY <1>1, <2>2, <2>7
<1> QED
  BY <1>5, <1>6, <1>7, TypedAgain

LEMMA ReadTyped ==
  ASSUME Full, NEW u \in Active, NEW i \in DOMAIN handlers[u], markAsRead(u, i)
  PROVE  Typed' /\ Noticed'
<1> DEFINE room == handlers[u][i].room
           theirs == {m \in DOMAIN log : log[m].room = room /\ log[m].from # u}
           event == [event |-> "messagesRead", room |-> room, m |-> 0]
<1>1. /\ handlers[u][i].op = "read" /\ handlers[u][i].at = "sent"
      /\ readAt' = [readAt EXCEPT ![u][room] = Now]
      /\ Tell(convs[room] \ {u}, event) /\ Done(u, i)
      /\ passed' = [passed EXCEPT ![u] = @ \cup (theirs \ seen[u])]
      /\ UNCHANGED <<convs, log, view, badge, fetches, polls, up, buffer, seen, unheard, budget>>
  BY DEF markAsRead, Handler
<1>2. room \in Room /\ room \in Nat /\ u \in convs[room]
  BY <1>1, OwnHandler DEF OwnPacket, RoomsOf, Room, Packet, PacketOver
<1>3. Now \in Nat \ {0}
  BY DEF Full, IInv, Now
<1>4. /\ readAt \in [Active -> [Room -> 0 .. Now]]
      /\ seen \in [Active -> SUBSET DOMAIN log] /\ passed \in [Active -> SUBSET DOMAIN log]
      /\ unheard \in [Active -> SUBSET DOMAIN log]
  BY DEF Full, Typed, TablesTyped
<1> HIDE DEF room
<1>5. /\ readAt' \in [Active -> [Room -> 0 .. Now]]
      /\ readAt'[u][room] = Now
      /\ \A v \in Active : \A r \in Room : v # u \/ r # room => readAt'[v][r] = readAt[v][r]
  <2>1. Now \in 0 .. Now
    BY <1>3
  <2>2. readAt' = [readAt EXCEPT ![u] = [readAt[u] EXCEPT ![room] = Now]]
    BY <1>1, <1>4
  <2>3. [readAt[u] EXCEPT ![room] = Now] \in [Room -> 0 .. Now]
    BY <1>2, <1>4, <2>1
  <2> QED
    BY <1>2, <1>4, <2>2, <2>3
<1>6. TablesGrow
  <2>1. \A v \in Active : \A r \in Room : readAt[v][r] > 0 => readAt'[v][r] > 0
    BY <1>3, <1>5
  <2>2. Now' = Now
    BY <1>1 DEF Now
  <2> QED
    BY <1>1, <1>3, <2>1, <2>2 DEF TablesGrow, Room
<1>7. TablesTyped'
  <2>1. passed' \in [Active -> SUBSET DOMAIN log]
    BY <1>1, <1>4
  <2>2. Room' = Room /\ Now' = Now
    BY <1>1 DEF Room, Now
  <2> QED
    BY <1>1, <1>4, <1>5, <2>1, <2>2 DEF TablesTyped
<1>8. ASSUME NEW v \in (convs[room] \ {u}) \cap Active PROVE event \in OwnEvent(v)'
  <2>1. PICK r : r = room
    OBVIOUS
  <2>2. HasRead(u, r)'
    BY <1>1, <1>2, <1>3, <1>5, <2>1 DEF HasRead
  <2>3. r \in RoomsOf(v)' /\ u \in Users \ {v}
    BY <1>1, <1>2, <1>8, <2>1, UsersAssumption DEF RoomsOf, Room
  <2>4. event \in Event(convs') /\ event.event = "messagesRead" /\ event.room = r
    BY <1>2, <2>1 DEF Event
  <2> HIDE DEF event
  <2> QED
    BY <2>2, <2>3, <2>4 DEF OwnEvent
<1>9. PacketsTyped' /\ EventsTyped'
  BY <1>1, <1>6, <1>8, PacketDone, EventTold
<1>10. FetchesTyped' /\ ViewsTyped' /\ CountsTyped' /\ BudgetTyped'
  BY <1>1, <1>6, FetchesAsTheyWere, ViewsAsTheyWere, CountsAsTheyWere, BudgetAsItWas
<1>11. Noticed'
  <2> SUFFICES ASSUME NEW n \in DOMAIN log, log[n].to \in Active
               PROVE  /\ n < readAt'[log[n].to][log[n].room] => n \in seen'[log[n].to] \cup passed'[log[n].to]
                      /\ Cardinality(Find(log[n].to, log[n].from)') = 1
                           => Pending(log[n].to, log[n].from, n)'
    <3>1. log' = log
      BY <1>1
    <3> QED
      BY <3>1 DEF Noticed
  <2>1. PICK a, b : a = log[n].to /\ b = log[n].from /\ a \in Active /\ b \in Active /\ a # b
    BY Written
  <2>2. /\ n < readAt[a][log[n].room] => n \in seen[a] \cup passed[a]
        /\ Cardinality(Find(a, b)) = 1 => Pending(a, b, n)
    BY <2>1 DEF Full, Noticed
  <2>3. \A v \in Active : seen'[v] = seen[v] /\ passed[v] \subseteq passed'[v]
    BY <1>1, <1>4
  <2>4. n < readAt'[a][log[n].room] => n \in seen'[a] \cup passed'[a]
    <3>1. CASE a = u /\ log[n].room = room
      <4>1. n \in theirs
        BY <2>1, <3>1
      <4>2. passed'[u] = passed[u] \cup (theirs \ seen[u])
        BY <1>1, <1>4
      <4> HIDE DEF theirs
      <4> QED
        BY <2>3, <3>1, <4>1, <4>2
    <3>2. CASE ~ (a = u /\ log[n].room = room)
      <4>1. readAt'[a][log[n].room] = readAt[a][log[n].room]
        BY <1>5, <2>1, <3>2, Written
      <4> QED
        BY <2>1, <2>2, <2>3, <4>1
    <3> QED
      BY <3>1, <3>2
  <2>5. Find(a, b)' = Find(a, b)
    BY <1>1 DEF Find, Room
  <2>6. Announcing(b, n) => Announcing(b, n)'
    BY <1>1, <2>1, DoneStill
  <2>7. Told(a, n) => Told(a, n)'
    BY <1>1, <2>1, ToldStill
  <2>8. Pending(a, b, n) => Pending(a, b, n)'
    BY <1>1, <2>3, <2>1, <2>6, <2>7 DEF Pending, Polled
  <2> QED
    BY <1>1, <2>1, <2>2, <2>4, <2>5, <2>8
<1> QED
  BY <1>7, <1>9, <1>10, <1>11, TypedAgain

\* What nobody is told of is not heard of.
LEMMA FailTyped ==
  ASSUME Full, NEW u \in Active, NEW i \in DOMAIN handlers[u], Fail(u, i)
  PROVE  Typed' /\ Noticed'
<1> DEFINE h == handlers[u][i]
<1>1. /\ Spend("faults") /\ Done(u, i)
      /\ unheard' = IF h.at = "announce"
           THEN [v \in Active |-> IF v \in convs[h.room] THEN unheard[v] \cup {h.time} ELSE unheard[v]]
           ELSE unheard
      /\ UNCHANGED <<convs, log, readAt, view, badge, fetches, polls, up, buffer, down, seen, passed>>
  BY DEF Fail, database
<1>2. TablesGrow
  BY <1>1, Untouched
<1>3. h.at = "announce" =>
        h.op = "send" /\ h.time \in DOMAIN log /\ log[h.time] = [room |-> h.room, from |-> u, to |-> h.peer]
  BY OwnHandler DEF OwnPacket
<1> HIDE DEF h
<1>4. unheard \in [Active -> SUBSET DOMAIN log]
  BY DEF Full, Typed, TablesTyped
<1>5. unheard' \in [Active -> SUBSET DOMAIN log] /\ \A v \in Active : unheard[v] \subseteq unheard'[v]
  BY <1>1, <1>3, <1>4
<1>6. TablesTyped'
  BY <1>1, <1>5 DEF Full, Typed, TablesTyped, Room, Now
<1>7. Typed'
  BY <1>1, <1>2, <1>6, PacketDone, EventsAsTheyWere, FetchesAsTheyWere, ViewsAsTheyWere,
     CountsAsTheyWere, BudgetSpent, TypedAgain
<1>8. Noticed'
  <2>1. SUFFICES ASSUME NEW n \in DOMAIN log, log[n].to \in Active, Pending(log[n].to, log[n].from, n)
                 PROVE  Pending(log[n].to, log[n].from, n)'
    BY <1>1, StillNoticed
  <2>2. PICK a, b : a = log[n].to /\ b = log[n].from /\ a \in Active /\ b \in Active
    BY <2>1, Written
  <2>3. Told(a, n) => Told(a, n)'
    BY <1>1 DEF Told
  <2>4. Announcing(b, n) => Announcing(b, n)' \/ (h.at = "announce" /\ n = h.time /\ b = u)
    BY <1>1, <2>2, DoneStill DEF h
  <2>5. ASSUME h.at = "announce", n = h.time PROVE n \in unheard'[a]
    <3>1. a \in convs[h.room]
      BY <1>3, <2>2, <2>5, Written
    <3> QED
      BY <1>1, <2>2, <2>5, <3>1
  <2>6. Pending(a, b, n)'
    BY <1>1, <1>5, <2>1, <2>2, <2>3, <2>4, <2>5 DEF Pending, Polled
  <2> QED
    BY <1>1, <2>2, <2>6
<1> QED
  BY <1>7, <1>8

LEMMA FetchTyped ==
  ASSUME Full, NEW u \in Active, NEW i \in DOMAIN fetches[u], getDirectMessages(u, i)
  PROVE  Typed' /\ Noticed'
<1> DEFINE f == fetches[u][i]
           last == LastRead(f.of, f.room)
           new == [f EXCEPT !.at = Now, !.last = last]
<1>1. /\ fetches' = [fetches EXCEPT ![u][i].at = Now, ![u][i].last = last]
      /\ UNCHANGED <<convs, log, readAt, view, badge, polls, up, buffer, handlers, down, seen, passed, unheard, budget>>
  BY DEF getDirectMessages, database, socket, ghosts
<1>2. TablesGrow
  BY <1>1, Untouched
<1>3. fetches[u] \in Seq(OwnFetch(u)) /\ DOMAIN fetches = Active /\ f \in OwnFetch(u)
  BY Fetch
<1>4. new \in OwnFetch(u)
  <2>1. Now \in Nat /\ f.room \in Room
    BY <1>2, <1>3 DEF TablesGrow, OwnFetch, RoomsOf
  <2>2. last \in 0 .. Now /\ (last > 0 => HasRead(f.of, f.room))
    BY <2>1 DEF LastRead, HasRead, Full, Typed, TablesTyped
  <2> HIDE DEF last
  <2> DEFINE Fetches == [room : RoomsOf(u), of : (Users \cup {None}) \ {u}, at : 0 .. Now, last : 0 .. Now]
  <2>3. PICK g \in Fetches : g = f
    BY <1>3 DEF OwnFetch
  <2> HIDE DEF f
  <2>4. Now \in 0 .. Now
    BY <2>1
  <2>5. [g EXCEPT !.at = Now, !.last = last] \in Fetches
    BY <2>2, <2>3, <2>4
  <2>6. new \in Fetches /\ new.last = last /\ new.of = f.of /\ new.room = f.room
    BY <2>3, <2>5
  <2> HIDE DEF new
  <2> QED
    BY <2>2, <2>6 DEF OwnFetch
<1>5. fetches' = [fetches EXCEPT ![u] = [fetches[u] EXCEPT ![i] = new]]
  BY <1>1, <1>3
<1> HIDE DEF new
<1>6. [fetches[u] EXCEPT ![i] = new] \in Seq(OwnFetch(u)')
  <2>1. i \in 1 .. Len(fetches[u])
    BY <1>3
  <2>2. [fetches[u] EXCEPT ![i] = new] \in Seq(OwnFetch(u))
    BY <1>3, <1>4, <2>1, ExceptSeq
  <2> QED
    BY <1>2, <2>2, StillOwn, MoreIn
<1>7. Typed'
  BY <1>1, <1>2, <1>5, <1>6, PacketsAsTheyWere, EventsAsTheyWere, FetchesOf, ViewsAsTheyWere,
     TablesAsTheyWere, CountsAsTheyWere, BudgetAsItWas, TypedAgain
<1> QED
  BY <1>1, <1>7, SameNotices DEF Announcing, Handler, Told
\* A list of members is a badge for what is unread, and what is not was seen.
LEMMA PollTyped == ASSUME Full, NEW u \in Active, getWorkspaceMembers(u) PROVE Typed' /\ Noticed'
<1>1. PICK counts \in Counts :
        /\ \A p \in Users :
             IF Find(u, p) = {} THEN counts[p] = 0 ELSE \E room \in Find(u, p) : counts[p] = Unread(u, room)
        /\ polls' = [polls EXCEPT ![u] = (@ \ {None}) \cup {counts}]
        /\ unheard' = [unheard EXCEPT ![u] = {}]
        /\ UNCHANGED <<convs, log, readAt, view, badge, fetches, up, buffer, handlers, down, seen, passed, budget>>
  BY DEF getWorkspaceMembers, database, socket
<1>2. TablesGrow
  BY <1>1, Untouched
<1>3. badge \in [Active -> Badges] /\ polls \in [Active -> SUBSET (Counts \cup {None})]
  BY DEF Full, Typed, CountsTyped
<1>4. CountsTyped'
  <2>1. polls' \in [Active -> SUBSET (Counts \cup {None})]
    BY <1>1, <1>3
  <2> QED
    BY <1>1, <1>3, <2>1 DEF CountsTyped
<1>7. unheard \in [Active -> SUBSET DOMAIN log]
  BY DEF Full, Typed, TablesTyped
<1>8. unheard' \in [Active -> SUBSET DOMAIN log] /\ \A v \in Active : v # u => unheard'[v] = unheard[v]
  BY <1>1, <1>7
<1>9. TablesTyped'
  BY <1>1, <1>8 DEF Full, Typed, TablesTyped, Room, Now
<1>5. Typed'
  BY <1>1, <1>2, <1>4, <1>9, PacketsAsTheyWere, EventsAsTheyWere, FetchesAsTheyWere, ViewsAsTheyWere,
     BudgetAsItWas, TypedAgain
<1>6. Noticed'
  <2> SUFFICES ASSUME NEW n \in DOMAIN log, log[n].to \in Active
               PROVE  /\ n < readAt'[log[n].to][log[n].room] => n \in seen'[log[n].to] \cup passed'[log[n].to]
                      /\ Cardinality(Find(log[n].to, log[n].from)') = 1
                           => Pending(log[n].to, log[n].from, n)'
    <3>1. log' = log
      BY <1>1
    <3> QED
      BY <3>1 DEF Noticed
  <2>1. PICK a, b, r : /\ a = log[n].to /\ b = log[n].from /\ r = log[n].room
                       /\ a \in Active /\ b \in Active /\ a # b /\ b \in Users /\ r \in Room /\ convs[r] = {a, b}
    BY Written
  <2>2. /\ n < readAt[a][r] => n \in seen[a] \cup passed[a]
        /\ Cardinality(Find(a, b)) = 1 => Pending(a, b, n)
    BY <2>1 DEF Full, Noticed
  <2>3. Find(a, b)' = Find(a, b)
    BY <1>1 DEF Find, Room
  <2>4. ASSUME Cardinality(Find(a, b)) = 1 PROVE Pending(a, b, n)'
    <3>1. Announcing(b, n) => Announcing(b, n)'
      BY <1>1 DEF Announcing, Handler
    <3>2. Told(a, n) => Told(a, n)'
      BY <1>1 DEF Told
    <3>3. \A c \in polls[a] : c # None => c \in polls'[a]
      BY <1>1, <1>3, <2>1
    <3>4. Polled(a, b) => Polled(a, b)'
      BY <3>3 DEF Polled
    <3>5. CASE a # u
      <4>1. None \in polls[a] => None \in polls'[a]
        BY <1>1, <1>3, <2>1, <3>5
      <4> QED
        BY <1>1, <1>8, <2>1, <2>2, <2>4, <3>1, <3>2, <3>4, <3>5, <4>1 DEF Pending
    <3>6. CASE a = u /\ n < readAt[a][r]
      BY <1>1, <2>2, <3>6 DEF Pending
    <3>7. CASE a = u /\ ~ (n < readAt[a][r])
      <4>1. r \in Find(a, b)
        BY <2>1 DEF Find
      <4>2. Find(a, b) = {r}
        <5>1. IsFiniteSet(Find(a, b))
          BY FoundIsFinite DEF Full, IInv, Find, Room
        <5> QED
          BY <2>4, <4>1, <5>1, OneOf
      <4>3. counts[b] = Unread(a, r)
        BY <1>1, <2>1, <3>7, <4>2
      <4>4. n \in {m \in DOMAIN log : log[m].room = r /\ log[m].from # a /\ m >= readAt[a][r]}
        <5>1. readAt[a][r] \in Nat /\ n \in Nat
          BY <2>1 DEF Full, IInv, Typed, TablesTyped
        <5> QED
          BY <2>1, <3>7, <5>1
      <4>5. Unread(a, r) > 0
        <5> DEFINE S == {m \in DOMAIN log : log[m].room = r /\ log[m].from # a /\ m >= readAt[a][r]}
        <5>1. S \subseteq 1 .. Len(log) /\ IsFiniteSet(1 .. Len(log))
          BY FS_Interval DEF Full, IInv
        <5> HIDE DEF S
        <5>2. IsFiniteSet(S) /\ S # {}
          BY <4>4, <5>1, FS_Subset DEF S
        <5>3. Cardinality(S) \in Nat /\ Cardinality(S) # 0
          BY <5>2, FS_CardinalityType, FS_EmptySet
        <5> QED
          BY <5>3 DEF S, Unread
      <4>6. counts \in polls'[a]
        BY <1>1, <1>3, <3>7
      <4>7. Polled(a, b)' \/ None \in polls'[a]
        BY <4>3, <4>5, <4>6 DEF Polled
      <4> QED
        BY <4>7 DEF Pending
    <3> QED
      BY <3>5, <3>6, <3>7
  <2> QED
    BY <1>1, <2>1, <2>2, <2>3, <2>4
<1> QED
  BY <1>5, <1>6

LEMMA ServerTyped == ASSUME Full, NEW u \in Active, Server(u) PROVE Typed' /\ Noticed'
  BY JoinTyped, CreateTyped, StoreTyped, AnnounceTyped, ReadTyped, FailTyped, FetchTyped, PollTyped DEF Server

----------------------------------------------------------------------------
(* The invariant of both                                                   *)

LEMMA OpenedOwn ==
  ASSUME Init, NEW u \in Active, NEW open PROVE Opened(u, open) \in OwnView(u)
<1>1. /\ convs \in Seq(Pair) /\ Now = 1 /\ seen[u] = {} /\ u \in Users /\ None \notin Users
  <2>1. convs \in Seq(Pair)
    BY SomeConversations DEF Init
  <2>2. log = << >> /\ seen[u] = {}
    BY DEF Init
  <2> QED
    BY <2>1, <2>2, UsersAssumption DEF Now
<1>2. CASE ~ (open /\ \E room \in Room : u \in convs[room])
  BY <1>1, <1>2 DEF Opened, Empty, OwnView
<1>3. CASE open /\ \E room \in Room : u \in convs[room]
  <2> DEFINE room == CHOOSE r \in Room : u \in convs[r]
  <2>1. room \in Room /\ u \in convs[room]
    BY <1>3
  <2>2. convs[room] \in Pair
    <3>1. \A r \in Room : convs[r] \in Pair
      BY <1>1 DEF Room
    <3> QED
      BY <2>1, <3>1
  <2>3. Opened(u, open) = Empty(Other(u, room), room)
    BY <1>3 DEF Opened
  <2> HIDE DEF room
  <2>4. \E p \in convs[room] : p # u
    <3> SUFFICES ASSUME convs[room] = {u} PROVE FALSE
      BY <2>1
    <3>1. Cardinality(convs[room]) = 1 /\ Cardinality(convs[room]) = 2
      BY <2>2, FS_Singleton DEF Pair
    <3> QED
      BY <3>1
  <2>5. Other(u, room) \in convs[room] /\ Other(u, room) # u /\ Other(u, room) \in Users
    BY <2>2, <2>4 DEF Other, Pair
  <2>6. PICK p \in Users \ {u} : p = Other(u, room) /\ p \in convs[room]
    BY <2>5
  <2>7. convs[room] = {u, p}
    BY <2>1, <2>2, <2>6, PairOfTwo
  <2>8. Empty(p, room) \in OwnView(u)
    BY <1>1, <2>1, <2>7 DEF Empty, OwnView, RoomsOf
  <2> QED
    BY <2>3, <2>6, <2>8
<1> QED
  BY <1>2, <1>3

LEMMA InitIsFull == Init => Full
<1> SUFFICES ASSUME Init PROVE Full
  OBVIOUS
<1>1. IInv
  BY InitHolds
<1>2. log = << >> /\ Now = 1 /\ DOMAIN log = {}
  BY DEF Init, Now
<1>3. PacketsTyped /\ EventsTyped /\ FetchesTyped
  BY EmptySeq DEF Init, PacketsTyped, EventsTyped, FetchesTyped
<1>4. ViewsTyped
  <2>1. PICK open \in SUBSET Active : view = [u \in Active |-> Opened(u, u \in open)]
    BY DEF Init
  <2> QED
    BY <2>1, OpenedOwn DEF ViewsTyped
<1>5. TablesTyped /\ CountsTyped
  BY <1>2 DEF Init, TablesTyped, CountsTyped, Badges
<1>6. BudgetTyped
  <2>1. budget \in Bounds /\ budget \in [{"selects", "sends", "faults", "packets", "fetches"} -> Nat]
    BY BoundsAssumption DEF Init
  <2>2. \A what \in DOMAIN budget : budget[what] <= budget[what]
    BY <2>1
  <2> QED
    BY <2>1, <2>2 DEF BudgetTyped
<1>7. Noticed
  BY <1>2 DEF Noticed
<1> QED
  BY <1>1, <1>3, <1>4, <1>5, <1>6, <1>7 DEF Full, Typed

LEMMA NothingMoves == ASSUME Full, UNCHANGED vars PROVE Typed' /\ Noticed'
<1>1. UNCHANGED <<convs, log, readAt, view, badge, fetches, polls, up, buffer, handlers, down,
                 seen, passed, unheard, budget>>
  BY DEF vars, database, socket, ghosts
<1>2. TablesGrow
  BY <1>1, Untouched
<1>3. Typed'
  BY <1>1, <1>2, PacketsAsTheyWere, EventsAsTheyWere, FetchesAsTheyWere, ViewsAsTheyWere,
     TablesAsTheyWere, CountsAsTheyWere, BudgetAsItWas, TypedAgain
<1> QED
  BY <1>1, <1>3, SameNotices DEF Announcing, Handler, Told

LEMMA StepIsFull == Full /\ [Next]_vars => Full'
<1> SUFFICES ASSUME Full, [Next]_vars PROVE Full'
  OBVIOUS
<1>1. IInv'
  BY StepHolds DEF Full
<1>2. Typed' /\ Noticed'
  BY NothingMoves, BrowserTyped, ServerTyped DEF Next
<1> QED
  BY <1>1, <1>2 DEF Full

LEMMA FullInvariant == Spec => []Full
  BY InitIsFull, StepIsFull, PTL DEF Spec
LEMMA SeqRange ==
  ASSUME NEW S, NEW s \in Seq(S) PROVE \A e \in Range(s) : e \in S
  BY ElementOfSeq DEF Range

LEMMA FullIsTyped == Full => TypeOK
<1> SUFFICES ASSUME Full PROVE TypeOK
  OBVIOUS
<1>1. /\ convs \in Seq(Pair) /\ DOMAIN log = 1 .. Len(log) /\ DOMAIN view = Active
      /\ readAt \in [Active -> [Room -> 0 .. Now]]
      /\ badge \in [Active -> Badges] /\ passed \in [Active -> SUBSET DOMAIN log]
      /\ unheard \in [Active -> SUBSET DOMAIN log]
  BY DEF Full, IInv, ViewsAreOfRooms, Typed, TablesTyped, CountsTyped
<1>2. \A m \in DOMAIN log : log[m].room \in Room /\ log[m].from \in Active /\ log[m].to \in Users
  BY Written
<1>3. view \in [Active -> [peer : Users \cup {None}, room : Room \cup {0},
                           list : SUBSET DOMAIN log, tick : 0 .. Now, mixed : BOOLEAN]]
  <2>1. ASSUME NEW u \in Active
        PROVE  view[u] \in [peer : Users \cup {None}, room : Room \cup {0},
                            list : SUBSET DOMAIN log, tick : 0 .. Now, mixed : BOOLEAN]
    <3>1. /\ (Users \cup {None}) \ {u} \subseteq Users \cup {None} /\ RoomsOf(u) \cup {0} \subseteq Room \cup {0}
          /\ SUBSET seen[u] \subseteq SUBSET DOMAIN log
      BY DEF RoomsOf, Full, Typed, TablesTyped
    <3>2. view[u] \in [peer : (Users \cup {None}) \ {u}, room : RoomsOf(u) \cup {0}, list : SUBSET seen[u],
                       tick : 0 .. Now, mixed : BOOLEAN]
      BY OpenRoom DEF OwnView
    <3> QED
      BY <3>1, <3>2
  <2>2. view = [u \in Active |-> view[u]]
    BY DEF Full, Typed, ViewsTyped
  <2> QED
    BY <2>1, <2>2
<1>4. ASSUME NEW u \in Active
      PROVE  /\ \A f \in Range(fetches[u]) : f.room \in Room /\ u \in convs[f.room] /\ f.at \in 0 .. Now
             /\ polls[u] \subseteq Counts \cup {None}
             /\ up[u] => buffer[u] = << >>
             /\ ~ up[u] => down[u] = << >>
             /\ \A h \in Range(handlers[u]) :
                  h.at = "sent" \/ <<h.op, h.at>> \in {<<"join", "create">>, <<"send", "announce">>}
             /\ view[u].list \subseteq seen[u] /\ seen[u] \subseteq DOMAIN log
  <2>1. \A f \in Range(fetches[u]) : f.room \in Room /\ u \in convs[f.room] /\ f.at \in 0 .. Now
    <3>1. \A f \in Range(fetches[u]) : f \in OwnFetch(u)
      BY SeqRange DEF Full, Typed, FetchesTyped
    <3> QED
      BY <3>1 DEF OwnFetch, RoomsOf
  <2>2. \A h \in Range(handlers[u]) :
          h.at = "sent" \/ <<h.op, h.at>> \in {<<"join", "create">>, <<"send", "announce">>}
    <3>1. \A h \in Range(handlers[u]) : h \in OwnPacket(u)
      BY SeqRange DEF Full, Typed, PacketsTyped
    <3> QED
      BY <3>1 DEF OwnPacket
  <2>3. polls[u] \subseteq Counts \cup {None} /\ seen[u] \subseteq DOMAIN log
    BY DEF Full, Typed, CountsTyped, TablesTyped
  <2>4. (up[u] => buffer[u] = << >>) /\ (~ up[u] => down[u] = << >>)
    BY DEF Full, Typed, PacketsTyped, EventsTyped
  <2>5. view[u].list \subseteq seen[u]
    BY OpenRoom DEF OwnView
  <2> QED
    BY <2>1, <2>2, <2>3, <2>4, <2>5
<1>5. \E most \in Bounds : \A what \in DOMAIN most : budget[what] \in 0 .. most[what]
  <2>1. PICK most \in Bounds : \A what \in DOMAIN most : budget[what] <= most[what]
    BY DEF Full, Typed, BudgetTyped
  <2>2. /\ budget \in [{"selects", "sends", "faults", "packets", "fetches"} -> Nat]
        /\ most \in [{"selects", "sends", "faults", "packets", "fetches"} -> Nat]
    BY BoundsAssumption DEF Full, Typed, BudgetTyped
  <2> QED
    BY <2>1, <2>2
<1> QED
  BY <1>1, <1>2, <1>3, <1>4, <1>5 DEF TypeOK

(***************************************************************************)
(* What is selected, listed, asked for, buffered and told is of the        *)
(* conversations and messages there are, and of one's own.                 *)
(***************************************************************************)
THEOREM TypeCorrect == Spec => []TypeOK
  BY FullInvariant, FullIsTyped, PTL

(***************************************************************************)
(* A view that took no answer to an earlier selection for its own shows a  *)
(* message as read only if the addressee opened a conversation with its    *)
(* sender (handleMessagesRead, getDirectMessages, markAsRead).             *)
(***************************************************************************)
THEOREM TicksAreEarned == Spec => []TickIsEarned
<1>1. Full => TickIsEarned
  <2> SUFFICES ASSUME Full, NEW u \in Active, ~ view[u].mixed, NEW m \in view[u].list,
                      log[m].from = u, m < view[u].tick
               PROVE  \E room \in Find(u, log[m].to) : LastRead(log[m].to, room) > 0
    BY DEF TickIsEarned
  <2>1. view[u] \in OwnView(u)
    BY OpenRoom
  <2>2. m \in DOMAIN log /\ m \in Nat /\ view[u].tick \in 0 .. Now /\ Now \in Nat
    BY <2>1 DEF OwnView, Full, Typed, TablesTyped, IInv, Now
  <2>3. view[u].tick > 0
    BY <2>2
  <2>4. PICK room \in Room : convs[room] = {u, view[u].peer} /\ HasRead(view[u].peer, room)
    BY <2>1, <2>3 DEF OwnView
  <2>5. convs[log[m].room] = {u, view[u].peer} /\ view[u].peer # u
    BY <2>1 DEF OwnView
  <2>6. log[m].to = view[u].peer
    BY <2>2, <2>5, Written
  <2> QED
    BY <2>4, <2>6 DEF Find, LastRead, HasRead
<1> QED
  BY <1>1, FullInvariant, PTL

(***************************************************************************)
(* When nothing of a person is under way, every message to them was        *)
(* listed, is marked by a badge, or was passed: what a receipt in their    *)
(* name marked or a selection cleared (handleNewMessage, fetchMembers,     *)
(* handleReconnect).  A lost connection loses none; a handler that failed  *)
(* after it stored one, or a member list that failed, does until the next  *)
(* list is read.                                                           *)
(***************************************************************************)
THEOREM NothingUnnoticed == Spec => []NothingGoesUnnoticed
<1>1. Full => NothingGoesUnnoticed
  <2> SUFFICES ASSUME Full, NEW m \in DOMAIN log, log[m].to \in Active,
                      Cardinality(Find(log[m].to, log[m].from)) = 1, Quiet(log[m].to)
               PROVE  \/ Announcing(log[m].from, m)
                      \/ m \in seen[log[m].to] \cup passed[log[m].to] \cup unheard[log[m].to]
                      \/ badge[log[m].to][log[m].from] > 0
    BY DEF NothingGoesUnnoticed
  <2>1. Pending(log[m].to, log[m].from, m)
    BY DEF Full, Noticed
  <2>2. ~ Told(log[m].to, m) /\ ~ Polled(log[m].to, log[m].from)
    BY DEF Quiet, Told, Polled
  <2> QED
    BY <2>1, <2>2 DEF Pending, Quiet
<1> QED
  BY <1>1, FullInvariant, PTL
=============================================================================
