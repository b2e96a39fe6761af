----------------------------- MODULE RedisProofs -----------------------------
(***************************************************************************)
(* What is promised by the two components that keep keys in Redis, the     *)
(* presence of a user and the limit on socket events, for any connections, *)
(* processes and bounds.                                                   *)
(*                                                                         *)
(* A user one of whose devices stays connected is not taken away.  The     *)
(* steps that could show the opposite are three links long: a timer finds  *)
(* nobody, an event or a snapshot is sent, a page handles it.  The         *)
(* invariant says that none of the links is ever under way: no timer has   *)
(* gone past its look, no snapshot is without the user, and nothing on its *)
(* way to the watcher tells of an absence.  The types rest on an account   *)
(* of the connections there may be: each is still to be made, lives, has   *)
(* armed a timer or is on its way out.                                     *)
(*                                                                         *)
(* The key of the limit is given its time to live once in its life, and no *)
(* span as long as the window lets more than two limits through.           *)
(***************************************************************************)
EXTENDS Presence, SocketLimit, FiniteSetTheorems, SequenceTheorems, WellFoundedInduction, TLAPS

----------------------------------------------------------------------------
(* Presence                                                                *)

\* The connections that stay are through with their handler and in the room
\* of their workspace as long as they live.
SteadyAreSettled ==
    \A c \in Steady : conn[c].at = "idle" /\ conn[c].inRoom = conn[c].alive

Kinds == conn \in [Conns -> [alive : BOOLEAN, inRoom : BOOLEAN, at : Stage]]

Kept == \E c \in Steady : conn[c].alive

\* Nobody is about to say that the user is gone.
NoAbsenceUnderWay ==
    Kept => /\ leaving = << >>
            /\ answers \in Seq({TRUE})
            /\ down \in Seq({"userOnline", "listed"})

KeptInv == Kinds /\ SteadyAreSettled /\ NoAbsenceUnderWay

----------------------------------------------------------------------------
LEMMA AppendType ==
    ASSUME NEW S, NEW s \in Seq(S), NEW e \in S
    PROVE  Append(s, e) \in Seq(S)
OBVIOUS

LEMMA RestType ==
    ASSUME NEW S, NEW s \in Seq(S), s # << >>
    PROVE  Head(s) \in S /\ Tail(s) \in Seq(S)
OBVIOUS

\* The handler of a connection: the steps of those that do not stay.
ConnStep(c) == Connect(c) \/ JoinRooms(c) \/ SetKey(c) \/ AnnounceOnline(c) \/ Disconnect(c)

\* No step of the user's touches a connection that stays.
LEMMA SteadyStay ==
    ASSUME KeptInv, [Next]_vars
    PROVE  /\ Kinds' /\ SteadyAreSettled'
           /\ \A c \in Steady : conn'[c] = conn[c]
<1> USE SteadyAssumption DEF KeptInv, Kinds, SteadyAreSettled, Stage
<1>1. CASE \E c \in Conns : ConnStep(c)
  <2>1. PICK c \in Conns : ConnStep(c)
    BY <1>1
  <2>2. c \notin Steady
    BY <2>1 DEF ConnStep, Connect, JoinRooms, SetKey, AnnounceOnline, Disconnect
  <2>3. Kinds' /\ \A d \in Conns \ {c} : conn'[d] = conn[d]
    <3>1. CASE Connect(c)
      BY <3>1 DEF Connect
    <3>2. CASE JoinRooms(c)
      BY <3>2 DEF JoinRooms
    <3>3. CASE SetKey(c)
      BY <3>3 DEF SetKey
    <3>4. CASE AnnounceOnline(c)
      BY <3>4 DEF AnnounceOnline
    <3>5. CASE Disconnect(c)
      BY <3>5 DEF Disconnect
    <3> QED
      BY <2>1, <3>1, <3>2, <3>3, <3>4, <3>5 DEF ConnStep
  <2> QED
    BY <2>2, <2>3
<1>2. CASE Crash
  BY <1>2 DEF Crash
<1>3. CASE UNCHANGED conn
  BY <1>3
<1> QED
  BY <1>1, <1>2, <1>3
     DEF ConnStep, Next, Greet, Leave, Hydrate, Heartbeat, Expire, Check, DeleteKey,
         AnnounceOffline, WatcherConnect, WatcherDrop, WatcherJoins, WatcherHeard,
         Unheard, ReadSnapshot, SendSnapshot, Handle, vars, user, link

\* With a connection that stays a step puts nothing under way that tells of
\* an absence, and what is handled shows the user online.
LEMMA KeptStep ==
    ASSUME KeptInv, [Next]_vars, Kept
    PROVE  /\ leaving' = << >>
           /\ answers' \in Seq({TRUE})
           /\ down' \in Seq({"userOnline", "listed"})
           /\ shown => shown'
<1> DEFINE Good == {"userOnline", "listed"}
<1> USE SteadyAssumption
<1>1. /\ leaving = << >> /\ answers \in Seq({TRUE}) /\ down \in Seq(Good)
  BY DEF KeptInv, NoAbsenceUnderWay
<1>2. /\ \E c \in Conns : conn[c].alive
      /\ \E c \in Conns : conn[c].inRoom
  BY DEF KeptInv, Kept, SteadyAreSettled
<1>3. ASSUME NEW c \in Conns, AnnounceOnline(c)
      PROVE  down' \in Seq(Good) /\ UNCHANGED <<leaving, answers, shown>>
  BY <1>1, <1>3 DEF AnnounceOnline, Tell, link
<1>4. ASSUME NEW c \in Conns,
             Connect(c) \/ JoinRooms(c) \/ SetKey(c) \/ Heartbeat(c) \/ Disconnect(c)
      PROVE  UNCHANGED <<leaving, answers, down, shown>>
  BY <1>4 DEF Connect, JoinRooms, SetKey, Heartbeat, Disconnect, link
<1>5. CASE Expire
  BY <1>1, <1>5 DEF Expire, link
<1>6. CASE Check
  \* The timer finds the other device.
  BY <1>1, <1>2, <1>6 DEF Check, link
<1>7. ~ Leave
  BY <1>1 DEF Leave
<1>8. CASE Crash
  BY <1>1, <1>8 DEF Crash, link
<1>9. CASE WatcherConnect \/ WatcherJoins \/ WatcherHeard \/ Unheard
  BY <1>1, <1>9 DEF WatcherConnect, WatcherJoins, WatcherHeard, Unheard, user, link
<1>10. CASE WatcherDrop
  BY <1>1, <1>10 DEF WatcherDrop, user
<1>11. CASE ReadSnapshot
  \* The snapshot finds it in the room.
  <2>1. (\E c \in Conns : conn[c].inRoom) = TRUE
    BY <1>2
  <2>2. answers' = Append(answers, TRUE)
    BY <1>11, <2>1, Zenon DEF ReadSnapshot
  <2>3. Append(answers, TRUE) \in Seq({TRUE})
    <3>1. TRUE \in {TRUE}
      OBVIOUS
    <3> QED
      BY <1>1, <3>1, AppendType, Zenon
  <2>4. answers' \in Seq({TRUE})
    BY <2>2, <2>3, Zenon
  <2> QED
    BY <1>1, <1>11, <2>4 DEF ReadSnapshot, user
<1>12. CASE SendSnapshot
  <2>1. answers # << >>
    BY <1>12 DEF SendSnapshot
  <2>2. Head(answers) \in {TRUE} /\ Tail(answers) \in Seq({TRUE})
    BY <1>1, <2>1, RestType, Zenon
  <2>3. down' = Append(down, "listed")
    BY <1>12, <2>2, Zenon DEF SendSnapshot
  <2>4. answers' \in Seq({TRUE})
    BY <1>12, <2>2, Zenon DEF SendSnapshot
  <2>5. down' \in Seq(Good)
    BY <1>1, <2>3
  <2>6. UNCHANGED <<leaving, shown>>
    BY <1>12, Zenon DEF SendSnapshot, user
  <2> HIDE DEF Good
  <2> QED
    BY <1>1, <2>4, <2>5, <2>6, Zenon DEF Good
<1>13. CASE Handle
  <2>1. Head(down) \in Good /\ Tail(down) \in Seq(Good)
    BY <1>1, <1>13 DEF Handle
  <2> QED
    BY <1>1, <1>13, <2>1 DEF Handle, user, link
<1>14. CASE UNCHANGED vars
  BY <1>1, <1>14 DEF vars, user, link
<1> QED
  BY <1>1, <1>3, <1>4, <1>5, <1>6, <1>7, <1>8, <1>9, <1>10, <1>11, <1>12, <1>13, <1>14
     DEF Next, Greet, Hydrate

LEMMA KeptInitially == Init => KeptInv
<1> SUFFICES ASSUME Init PROVE KeptInv
  OBVIOUS
<1>1. Kinds /\ SteadyAreSettled
  BY SteadyAssumption DEF Init, Kinds, SteadyAreSettled, Stage
<1>2. NoAbsenceUnderWay
  BY DEF Init, NoAbsenceUnderWay
<1> QED
  BY <1>1, <1>2 DEF KeptInv

LEMMA KeptInvIsKept == KeptInv /\ [Next]_vars => KeptInv'
<1> SUFFICES ASSUME KeptInv, [Next]_vars PROVE KeptInv'
  OBVIOUS
<1>1. Kinds' /\ SteadyAreSettled' /\ \A c \in Steady : conn'[c] = conn[c]
  BY SteadyStay
<1>2. Kept' = Kept
  BY <1>1 DEF Kept
<1>3. NoAbsenceUnderWay'
  <2> SUFFICES ASSUME Kept' PROVE /\ leaving' = << >>
                                  /\ answers' \in Seq({TRUE})
                                  /\ down' \in Seq({"userOnline", "listed"})
    BY DEF NoAbsenceUnderWay
  <2> QED
    BY <1>2, KeptStep
<1> QED
  BY <1>1, <1>3 DEF KeptInv

\* While a device of the user stays connected, nothing its other devices, its
\* server or the watcher's connection do shows it offline to a watcher who
\* has been shown it online (disconnect 149-159 of sockets/index.ts), for any
\* number of connections, drops and crashes.
THEOREM KeptOnline == Spec => AnotherDeviceKeepsOnline
<1>1. Spec => []KeptInv
  BY KeptInitially, KeptInvIsKept, PTL DEF Spec
<1>2. KeptInv /\ [Next]_vars => [(\E c \in Steady : conn[c].alive) /\ shown => shown']_vars
  <2> SUFFICES ASSUME KeptInv, [Next]_vars, Kept, shown PROVE shown'
    BY DEF Kept
  <2> QED
    BY KeptStep
<1> QED
  BY <1>1, <1>2, PTL DEF Spec, AnotherDeviceKeepsOnline
----------------------------------------------------------------------------
(***************************************************************************)
(* Types.  A timer is armed by a connection that ends, and a departure     *)
(* comes from a timer: the connections that are still to be made, those    *)
(* that live, the timers and the departures are never more than the        *)
(* connections there may be.                                               *)
(***************************************************************************)
Passing == {c \in Conns \ Steady : conn[c].alive}

User ==
    /\ Kinds
    /\ \A c \in Conns : conn[c].inRoom => conn[c].alive
    /\ timers \in Nat /\ leaving \in Seq({"delete", "tell"}) /\ key \in BOOLEAN

Account == Cardinality(Passing) + timers + Len(leaving) + budget.connects <= MaxConnects

Watcher ==
    /\ watcher \in [up : BOOLEAN, inRoom : BOOLEAN, listening : BOOLEAN]
    /\ asks \in Nat /\ answers \in Seq(BOOLEAN) /\ asks + Len(answers) <= 2
    /\ down \in Seq(Event) /\ shown \in BOOLEAN
    /\ ~ watcher.up => /\ ~ watcher.inRoom /\ ~ watcher.listening
                       /\ asks = 0 /\ answers = << >> /\ down = << >>

Mishaps == missed \subseteq {"abrupt", "unheard", "slow", "crash"}

Bounds ==
    budget \in [connects : 0 .. MaxConnects, drops : 0 .. MaxDrops, crashes : 0 .. MaxCrashes]

Typed == User /\ Account /\ Watcher /\ Mishaps /\ Bounds

LEMMA PassingIsFinite == IsFiniteSet(Passing) /\ Cardinality(Passing) \in Nat
<1>1. Passing \in SUBSET Conns
  BY DEF Passing
<1> QED
  BY <1>1, SteadyAssumption, FS_Subset, FS_CardinalityType

LEMMA TypedIsTypeOK == Typed => TypeOK
<1> SUFFICES ASSUME Typed PROVE TypeOK
  OBVIOUS
<1>1. /\ Cardinality(Passing) \in Nat /\ Len(leaving) \in Nat /\ budget.connects \in Nat
      /\ timers \in Nat /\ Len(answers) \in Nat
  BY PassingIsFinite DEF Typed, User, Bounds, Watcher
<1>2. timers \in 0 .. MaxConnects /\ Len(leaving) + timers <= MaxConnects
  BY <1>1, BoundsAssumption DEF Typed, Account
<1>3. asks \in 0 .. 2 /\ asks + Len(answers) <= 2
  BY <1>1 DEF Typed, Watcher
<1> QED
  BY <1>2, <1>3 DEF Typed, User, Watcher, Mishaps, Bounds, TypeOK, Kinds

\* A sequence without one of its entries.
LEMMA WithoutType ==
    ASSUME NEW S, NEW s \in Seq(S), NEW i \in DOMAIN s
    PROVE  LET rest == [j \in 1 .. Len(s) - 1 |-> s[IF j < i THEN j ELSE j + 1]]
           IN  rest \in Seq(S) /\ Len(rest) = Len(s) - 1
<1> DEFINE rest == [j \in 1 .. Len(s) - 1 |-> s[IF j < i THEN j ELSE j + 1]]
<1>1. Len(s) \in Nat /\ i \in 1 .. Len(s)
  BY LenProperties
<1>2. Len(s) - 1 \in Nat
  BY <1>1
<1>3. ASSUME NEW j \in 1 .. Len(s) - 1 PROVE s[IF j < i THEN j ELSE j + 1] \in S
  <2>1. (IF j < i THEN j ELSE j + 1) \in 1 .. Len(s)
    BY <1>1
  <2> QED
    BY <2>1, ElementOfSeq
<1>4. rest \in [1 .. Len(s) - 1 -> S]
  BY <1>3
<1> HIDE DEF rest
<1>5. rest \in Seq(S)
  BY <1>2, <1>4, SeqDef
<1>6. DOMAIN rest = 1 .. Len(s) - 1 /\ DOMAIN rest = 1 .. Len(rest) /\ Len(rest) \in Nat
  BY <1>4, <1>5, LenProperties
<1>7. Len(rest) = Len(s) - 1
  BY <1>2, <1>6
<1> QED
  BY <1>5, <1>7 DEF rest

LEMMA TellType ==
    ASSUME Watcher, NEW event \in Event, Tell(event)
    PROVE  down' \in Seq(Event) /\ (~ watcher.up => down' = << >>)
<1>1. down \in Seq(Event)
  BY DEF Watcher
<1>2. Append(down, event) \in Seq(Event)
  BY <1>1, AppendType
<1> QED
  BY <1>1, <1>2 DEF Tell, Watcher

\* One connection, one loss or one crash less is left.
LEMMA Spend ==
    ASSUME Bounds
    PROVE  /\ budget.connects > 0 /\ budget' = [budget EXCEPT !.connects = @ - 1] =>
                Bounds' /\ budget'.connects = budget.connects - 1
           /\ budget.drops > 0 /\ budget' = [budget EXCEPT !.drops = @ - 1] =>
                Bounds' /\ budget'.connects = budget.connects
           /\ budget.crashes > 0 /\ budget' = [budget EXCEPT !.crashes = @ - 1] =>
                Bounds' /\ budget'.connects = budget.connects
<1> DEFINE R(a, b, c) == [connects |-> a, drops |-> b, crashes |-> c]
<1>1. /\ budget = R(budget.connects, budget.drops, budget.crashes)
      /\ budget.connects \in 0 .. MaxConnects /\ budget.drops \in 0 .. MaxDrops
      /\ budget.crashes \in 0 .. MaxCrashes
  BY DEF Bounds
<1>2. /\ [budget EXCEPT !.connects = @ - 1] = R(budget.connects - 1, budget.drops, budget.crashes)
      /\ [budget EXCEPT !.drops = @ - 1] = R(budget.connects, budget.drops - 1, budget.crashes)
      /\ [budget EXCEPT !.crashes = @ - 1] = R(budget.connects, budget.drops, budget.crashes - 1)
  BY <1>1
<1>3. ASSUME NEW a \in 0 .. MaxConnects, NEW b \in 0 .. MaxDrops, NEW c \in 0 .. MaxCrashes,
             budget' = R(a, b, c)
      PROVE  Bounds' /\ budget'.connects = a
  BY <1>3 DEF Bounds
<1> HIDE DEF R
<1>4. ASSUME budget.connects > 0, budget' = [budget EXCEPT !.connects = @ - 1]
      PROVE  Bounds' /\ budget'.connects = budget.connects - 1
  <2>1. budget.connects - 1 \in 0 .. MaxConnects
    BY <1>1, <1>4, BoundsAssumption
  <2> QED
    BY <1>1, <1>2, <1>3, <1>4, <2>1
<1>5. ASSUME budget.drops > 0, budget' = [budget EXCEPT !.drops = @ - 1]
      PROVE  Bounds' /\ budget'.connects = budget.connects
  <2>1. budget.drops - 1 \in 0 .. MaxDrops
    BY <1>1, <1>5, BoundsAssumption
  <2> QED
    BY <1>1, <1>2, <1>3, <1>5, <2>1
<1>6. ASSUME budget.crashes > 0, budget' = [budget EXCEPT !.crashes = @ - 1]
      PROVE  Bounds' /\ budget'.connects = budget.connects
  <2>1. budget.crashes - 1 \in 0 .. MaxCrashes
    BY <1>1, <1>6, BoundsAssumption
  <2> QED
    BY <1>1, <1>2, <1>3, <1>6, <2>1
<1> QED
  BY <1>4, <1>5, <1>6

LEMMA TypedInit == Init => Typed
<1> SUFFICES ASSUME Init PROVE Typed
  OBVIOUS
<1>1. PICK made \in SUBSET Steady :
        /\ conn = [c \in Conns |-> [alive |-> c \in made, inRoom |-> c \in made, at |-> "idle"]]
        /\ key = (made # {})
  BY DEF Init
<1>2. ASSUME NEW c \in Conns
      PROVE  conn[c].alive = (c \in made) /\ conn[c].inRoom = (c \in made)
  BY <1>1, Zenon
<1>3. Passing = {}
  <2>1. made \subseteq Steady
    OBVIOUS
  <2> QED
    BY <1>2, <2>1, Zenon DEF Passing
<1>4. Kinds
  BY <1>1 DEF Kinds, Stage
<1>5. User
  <2>1. \A c \in Conns : conn[c].inRoom => conn[c].alive
    BY <1>2, Zenon
  <2>2. key \in BOOLEAN
    BY <1>1
  <2> QED
    BY <1>4, <2>1, <2>2 DEF Init, User
<1>6. Account
  BY <1>3, FS_EmptySet, BoundsAssumption DEF Init, Account
<1>7. Watcher
  <2>1. << >> \in Seq(BOOLEAN) /\ << >> \in Seq(Event) /\ Len(<< >>) = 0
    OBVIOUS
  <2>2. /\ watcher \in [up : BOOLEAN, inRoom : BOOLEAN, listening : BOOLEAN]
        /\ ~ watcher.up /\ ~ watcher.inRoom /\ ~ watcher.listening /\ shown \in BOOLEAN
    BY DEF Init
  <2>3. asks = 0 /\ answers = << >> /\ down = << >>
    BY DEF Init
  <2> QED
    BY <2>1, <2>2, <2>3 DEF Watcher
<1>8. Mishaps /\ Bounds
  BY BoundsAssumption DEF Init, Mishaps, Bounds
<1> QED
  BY <1>5, <1>6, <1>7, <1>8 DEF Typed

\* What the watcher has when the step is the user's.
LEMMA WatcherKept ==
    ASSUME Watcher, UNCHANGED <<link, shown>>,
           \/ UNCHANGED down
           \/ \E event \in Event : Tell(event)
    PROVE  Watcher'
<1>1. down' \in Seq(Event) /\ (~ watcher.up => down' = << >>)
  BY TellType DEF Watcher
<1>2. UNCHANGED <<watcher, asks, answers, shown>>
  BY DEF link
<1> QED
  BY <1>1, <1>2 DEF Watcher

\* The steps of a handler.
LEMMA GreetTyped ==
    ASSUME Typed, NEW c \in Conns, JoinRooms(c) \/ SetKey(c) \/ AnnounceOnline(c) \/ Heartbeat(c)
    PROVE  Typed'
<1> USE DEF Typed
<1>1. conn[c] \in [alive : BOOLEAN, inRoom : BOOLEAN, at : Stage]
  BY DEF User, Kinds
<1>2. Kinds' /\ \A d \in Conns : /\ conn'[d].alive = conn[d].alive
                                 /\ conn'[d].inRoom => conn[d].alive
  <2>1. CASE JoinRooms(c)
    <3>1. conn' = [conn EXCEPT ![c] = [@ EXCEPT !.at = "key", !.inRoom = conn[c].alive]]
      BY <2>1 DEF JoinRooms
    <3> DEFINE new == [conn[c] EXCEPT !.at = "key", !.inRoom = conn[c].alive]
    <3>2. /\ new \in [alive : BOOLEAN, inRoom : BOOLEAN, at : Stage]
          /\ new.alive = conn[c].alive /\ new.inRoom = conn[c].alive
      BY <1>1 DEF Stage
    <3>3. conn' = [conn EXCEPT ![c] = new]
      BY <3>1
    <3> HIDE DEF new
    <3>4. conn'[c] = new /\ \A d \in Conns : d # c => conn'[d] = conn[d]
      BY <3>3 DEF User, Kinds
    <3> QED
      BY <3>2, <3>3, <3>4 DEF User, Kinds
  <2>2. CASE SetKey(c)
    BY <1>1, <2>2 DEF SetKey, User, Kinds, Stage
  <2>3. CASE AnnounceOnline(c)
    BY <1>1, <2>3 DEF AnnounceOnline, User, Kinds, Stage
  <2>4. CASE Heartbeat(c)
    BY <2>4 DEF Heartbeat, User, Kinds
  <2> QED
    BY <2>1, <2>2, <2>3, <2>4
<1>3. key' \in BOOLEAN /\ UNCHANGED <<timers, leaving, link, shown, missed, budget>>
  BY DEF JoinRooms, SetKey, AnnounceOnline, Heartbeat, User
<1>4. User'
  BY <1>2, <1>3 DEF User
<1>5. Passing' = Passing
  BY <1>2 DEF Passing
<1>6. Account'
  BY <1>3, <1>5 DEF Account
<1>7. UNCHANGED down \/ \E event \in Event : Tell(event)
  BY DEF JoinRooms, SetKey, AnnounceOnline, Heartbeat, Event
<1>8. Watcher' /\ Mishaps' /\ Bounds'
  BY <1>3, <1>7, WatcherKept DEF Mishaps, Bounds
<1> QED
  BY <1>4, <1>6, <1>8

LEMMA ConnectTyped == ASSUME Typed, NEW c \in Conns, Connect(c) PROVE Typed'
<1> USE DEF Typed
<1> DEFINE new == [alive |-> TRUE, inRoom |-> FALSE, at |-> "rooms"]
<1>1. /\ c \notin Steady /\ ~ conn[c].alive /\ budget.connects > 0
      /\ budget' = [budget EXCEPT !.connects = @ - 1]
      /\ conn' = [conn EXCEPT ![c] = new]
      /\ UNCHANGED <<timers, leaving, key, link, down, shown, missed>>
  BY DEF Connect
<1>2. new \in [alive : BOOLEAN, inRoom : BOOLEAN, at : Stage] /\ new.alive /\ ~ new.inRoom
  BY DEF Stage
<1> HIDE DEF new
<1>3. conn'[c] = new /\ \A d \in Conns : d # c => conn'[d] = conn[d]
  BY <1>1 DEF User, Kinds
<1>4. User'
  BY <1>1, <1>2, <1>3 DEF User, Kinds
<1>5. Passing' = Passing \cup {c} /\ c \notin Passing
  BY <1>1, <1>2, <1>3 DEF Passing
<1>6. Cardinality(Passing') = Cardinality(Passing) + 1 /\ Cardinality(Passing) \in Nat
  BY <1>5, PassingIsFinite, FS_AddElement
<1>7. Bounds' /\ budget'.connects = budget.connects - 1 /\ budget.connects \in Nat
  BY <1>1, Spend DEF Bounds
<1>8. Account'
  <2>1. timers \in Nat /\ Len(leaving) \in Nat
    BY DEF User
  <2> QED
    BY <1>1, <1>6, <1>7, <2>1, BoundsAssumption DEF Account
<1>9. Watcher' /\ Mishaps'
  BY <1>1, WatcherKept DEF Mishaps
<1> QED
  BY <1>4, <1>7, <1>8, <1>9

LEMMA DisconnectTyped == ASSUME Typed, NEW c \in Conns, Disconnect(c) PROVE Typed'
<1> USE DEF Typed
<1>1. conn[c] \in [alive : BOOLEAN, inRoom : BOOLEAN, at : Stage]
  BY DEF User, Kinds
<1> DEFINE new == [conn[c] EXCEPT !.alive = FALSE, !.inRoom = FALSE]
<1>2. new \in [alive : BOOLEAN, inRoom : BOOLEAN, at : Stage] /\ ~ new.alive /\ ~ new.inRoom
  BY <1>1
<1>3. /\ c \notin Steady /\ conn[c].alive
      /\ conn' = [conn EXCEPT ![c] = new]
      /\ timers' \in {timers, timers + 1} /\ Mishaps'
      /\ UNCHANGED <<leaving, key, link, down, shown, budget>>
  BY DEF Disconnect, Mishaps
<1> HIDE DEF new
<1>4. conn'[c] = new /\ \A d \in Conns : d # c => conn'[d] = conn[d]
  BY <1>3 DEF User, Kinds
<1>5. User'
  BY <1>2, <1>3, <1>4 DEF User, Kinds
<1>6. Passing' = Passing \ {c} /\ c \in Passing
  BY <1>2, <1>3, <1>4 DEF Passing
<1>7. Cardinality(Passing') = Cardinality(Passing) - 1 /\ Cardinality(Passing) \in Nat
  BY <1>6, PassingIsFinite, FS_RemoveElement
<1>8. Bounds' /\ budget'.connects = budget.connects /\ budget.connects \in Nat
  BY <1>3 DEF Bounds
<1>9. Account'
  <2>1. timers \in Nat /\ Len(leaving) \in Nat
    BY DEF User
  <2> QED
    BY <1>3, <1>7, <1>8, <2>1, BoundsAssumption DEF Account
<1>10. Watcher'
  BY <1>3, WatcherKept
<1> QED
  BY <1>3, <1>5, <1>8, <1>9, <1>10

\* The timers and what follows from them.
LEMMA LeaveTyped == ASSUME Typed, Check \/ Leave \/ Expire PROVE Typed'
<1> USE DEF Typed
<1>1. UNCHANGED <<conn, link, shown, budget>> /\ Mishaps'
  BY DEF Check, Leave, Expire, DeleteKey, AnnounceOffline, Mishaps
<1>2. timers \in Nat /\ leaving \in Seq({"delete", "tell"}) /\ Len(leaving) \in Nat
  BY DEF User
<1>3. /\ timers' \in Nat /\ leaving' \in Seq({"delete", "tell"}) /\ key' \in BOOLEAN
      /\ timers' + Len(leaving') <= timers + Len(leaving)
      /\ UNCHANGED down \/ \E event \in Event : Tell(event)
  <2>1. CASE Check
    <3>1. timers > 0 /\ timers' = timers - 1 /\ UNCHANGED <<key, down>>
          /\ leaving' \in {leaving, Append(leaving, "delete")}
      BY <2>1 DEF Check
    <3>2. Append(leaving, "delete") \in Seq({"delete", "tell"})
          /\ Len(Append(leaving, "delete")) = Len(leaving) + 1
      BY <1>2
    <3> QED
      BY <1>2, <3>1, <3>2 DEF User
  <2>2. ASSUME NEW i \in DOMAIN leaving, DeleteKey(i)
        PROVE  /\ timers' \in Nat /\ leaving' \in Seq({"delete", "tell"}) /\ key' \in BOOLEAN
               /\ timers' + Len(leaving') <= timers + Len(leaving)
               /\ UNCHANGED down
    <3>1. i \in 1 .. Len(leaving)
      BY <1>2, LenProperties
    <3>2. leaving' \in Seq({"delete", "tell"}) /\ Len(leaving') = Len(leaving)
      BY <1>2, <2>2, <3>1, ExceptSeq DEF DeleteKey
    <3>3. key' \in BOOLEAN
      BY <2>2, Zenon DEF DeleteKey
    <3> QED
      BY <1>2, <2>2, <3>2, <3>3 DEF DeleteKey
  <2>3. ASSUME NEW i \in DOMAIN leaving, AnnounceOffline(i)
        PROVE  /\ timers' \in Nat /\ leaving' \in Seq({"delete", "tell"}) /\ key' \in BOOLEAN
               /\ timers' + Len(leaving') <= timers + Len(leaving)
               /\ \E event \in Event : Tell(event)
    <3>1. leaving' \in Seq({"delete", "tell"}) /\ Len(leaving') = Len(leaving) - 1
      BY <1>2, <2>3, WithoutType DEF AnnounceOffline
    <3> QED
      BY <1>2, <2>3, <3>1 DEF AnnounceOffline, User, Event
  <2>4. CASE Expire
    <3>1. key' \in BOOLEAN
      BY <2>4, Zenon DEF Expire
    <3> QED
      BY <1>2, <2>4, <3>1 DEF Expire
  <2> QED
    BY <2>1, <2>2, <2>3, <2>4 DEF Leave
<1>4. User'
  BY <1>1, <1>3 DEF User, Kinds
<1>5. Account'
  <2>1. Passing' = Passing /\ Cardinality(Passing) \in Nat /\ budget.connects \in Nat
    BY <1>1, PassingIsFinite DEF Passing, Bounds
  <2>2. Len(leaving') \in Nat /\ timers' \in Nat
        /\ timers' + Len(leaving') <= timers + Len(leaving)
    BY <1>3
  <2>3. Cardinality(Passing)' = Cardinality(Passing) /\ budget'.connects = budget.connects
    BY <1>1, <2>1
  <2>4. Cardinality(Passing) + timers + Len(leaving) + budget.connects <= MaxConnects
    BY DEF Account
  <2>5. Cardinality(Passing) + timers' + Len(leaving') + budget.connects <= MaxConnects
    <3>1. ASSUME NEW p \in Nat, NEW b \in Nat, NEW m \in Nat, NEW t \in Nat, NEW l \in Nat,
                 NEW s \in Nat, NEW k \in Nat, s + k <= t + l, p + t + l + b <= m
          PROVE  p + s + k + b <= m
      BY <3>1
    <3> QED
      BY <1>2, <2>1, <2>2, <2>4, <3>1, BoundsAssumption
  <2> QED
    BY <2>3, <2>5 DEF Account
<1>6. Watcher'
  BY <1>1, <1>3, WatcherKept
<1> QED
  BY <1>1, <1>4, <1>5, <1>6 DEF Bounds

LEMMA CrashTyped == ASSUME Typed, Crash PROVE Typed'
<1> USE DEF Typed
<1> DEFINE dead == [alive |-> FALSE, inRoom |-> FALSE, at |-> "idle"]
<1>1. /\ budget.crashes > 0 /\ budget' = [budget EXCEPT !.crashes = @ - 1]
      /\ conn' = [c \in Conns |-> IF c \in Steady THEN conn[c] ELSE dead]
      /\ timers' = 0 /\ leaving' = << >> /\ Mishaps'
      /\ UNCHANGED <<key, link, down, shown>>
  BY DEF Crash, Mishaps
<1>2. dead \in [alive : BOOLEAN, inRoom : BOOLEAN, at : Stage] /\ ~ dead.alive /\ ~ dead.inRoom
  BY DEF Stage
<1> HIDE DEF dead
<1>3. User'
  BY <1>1, <1>2 DEF User, Kinds
<1>4. Passing' = {}
  BY <1>1, <1>2 DEF Passing
<1>5. Bounds' /\ budget'.connects = budget.connects /\ budget.connects \in 0 .. MaxConnects
  BY <1>1, Spend DEF Bounds
<1>6. Account'
  BY <1>1, <1>4, <1>5, FS_EmptySet, BoundsAssumption DEF Account
<1>7. Watcher'
  BY <1>1, WatcherKept
<1> QED
  BY <1>1, <1>3, <1>5, <1>6, <1>7

\* The watcher's steps touch nothing of the user's.
LEMMA WatcherTyped ==
    ASSUME Typed, \/ WatcherConnect \/ WatcherDrop \/ WatcherJoins \/ WatcherHeard
                  \/ Unheard \/ Hydrate \/ Handle
    PROVE  Typed'
<1> USE DEF Typed
<1>1. UNCHANGED user
  BY DEF WatcherConnect, WatcherDrop, WatcherJoins, WatcherHeard, Unheard, Hydrate,
         ReadSnapshot, SendSnapshot, Handle
<1>2. User'
  BY <1>1 DEF user, User, Kinds
<1>3. Bounds' /\ budget'.connects = budget.connects
  <2>1. CASE UNCHANGED budget
    BY <2>1 DEF Bounds
  <2>2. CASE WatcherDrop
    BY <2>2, Spend DEF WatcherDrop
  <2> QED
    BY <2>1, <2>2 DEF WatcherConnect, WatcherJoins, WatcherHeard, Unheard, Hydrate,
                      ReadSnapshot, SendSnapshot, Handle
<1>4. Account'
  BY <1>1, <1>3 DEF Account, Passing, user
<1>5. Mishaps'
  BY DEF WatcherConnect, WatcherDrop, WatcherJoins, WatcherHeard, Unheard, Hydrate,
         ReadSnapshot, SendSnapshot, Handle, Mishaps
<1>6. /\ asks \in Nat /\ answers \in Seq(BOOLEAN) /\ Len(answers) \in Nat
      /\ asks + Len(answers) <= 2 /\ down \in Seq(Event) /\ shown \in BOOLEAN
  BY DEF Watcher
<1>7. Watcher'
  <2>1. CASE WatcherConnect \/ WatcherJoins \/ WatcherHeard
    <3>1. watcher' \in [up : BOOLEAN, inRoom : BOOLEAN, listening : BOOLEAN] /\ watcher'.up
      <4>1. watcher \in [up : BOOLEAN, inRoom : BOOLEAN, listening : BOOLEAN]
            /\ (watcher.inRoom => watcher.up)
        BY DEF Watcher
      <4>2. CASE WatcherConnect
        BY <4>2 DEF WatcherConnect
      <4>3. CASE WatcherJoins
        BY <4>1, <4>3 DEF WatcherJoins
      <4>4. CASE WatcherHeard
        BY <4>1, <4>4 DEF WatcherHeard
      <4> QED
        BY <2>1, <4>2, <4>3, <4>4
    <3>2. UNCHANGED <<answers, down, shown>>
      BY <2>1 DEF WatcherConnect, WatcherJoins, WatcherHeard
    <3>3. asks' \in Nat /\ asks' + Len(answers) <= 2
      BY <1>6, <2>1 DEF WatcherConnect, WatcherJoins, WatcherHeard, Watcher
    <3> QED
      BY <1>6, <3>1, <3>2, <3>3 DEF Watcher
  <2>2. CASE WatcherDrop
    BY <1>6, <2>2 DEF WatcherDrop, Watcher
  <2>3. CASE Unheard
    BY <1>6, <2>3 DEF Unheard, Watcher
  <2>4. CASE ReadSnapshot
    <3>1. PICK read \in BOOLEAN : answers' = Append(answers, read)
      <4>1. (\E c \in Conns : conn[c].inRoom) \in BOOLEAN
        OBVIOUS
      <4> QED
        BY <2>4, <4>1, Zenon DEF ReadSnapshot
    <3>2. answers' \in Seq(BOOLEAN) /\ Len(answers') = Len(answers) + 1
      BY <1>6, <3>1
    <3> QED
      <4>1. /\ asks > 0 /\ asks' = asks - 1
            /\ UNCHANGED <<watcher, down, shown>>
        BY <2>4, Zenon DEF ReadSnapshot
      <4>2. watcher.up
        BY <1>6, <4>1 DEF Watcher
      <4> QED
        BY <1>6, <3>2, <4>1, <4>2 DEF Watcher
  <2>5. CASE SendSnapshot
    <3>1. answers' \in Seq(BOOLEAN) /\ Len(answers') = Len(answers) - 1
      BY <1>6, <2>5, HeadTailProperties DEF SendSnapshot
    <3>2. PICK event \in Event : down' = Append(down, event)
      BY <2>5 DEF SendSnapshot, Event
    <3>3. down' \in Seq(Event)
      BY <1>6, <3>2, AppendType
    <3> QED
      <4>1. answers # << >> /\ UNCHANGED <<watcher, asks, shown>>
        BY <2>5, Zenon DEF SendSnapshot
      <4>2. watcher.up
        BY <4>1 DEF Watcher
      <4> QED
        BY <1>6, <3>1, <3>3, <4>1, <4>2 DEF Watcher
  <2>6. CASE Handle
    <3>1. down' \in Seq(Event) /\ shown' \in BOOLEAN
      BY <1>6, <2>6, RestType DEF Handle
    <3> QED
      BY <1>6, <2>6, <3>1 DEF Handle, link, Watcher
  <2> QED
    BY <2>1, <2>2, <2>3, <2>4, <2>5, <2>6 DEF Hydrate
<1> QED
  BY <1>2, <1>3, <1>4, <1>5, <1>7

LEMMA TypedStep == Typed /\ [Next]_vars => Typed'
<1> SUFFICES ASSUME Typed, [Next]_vars PROVE Typed'
  OBVIOUS
<1>1. CASE UNCHANGED vars
  BY <1>1 DEF vars, user, link, Typed, User, Kinds, Account, Passing, Watcher, Mishaps, Bounds
<1> QED
  BY <1>1, GreetTyped, ConnectTyped, DisconnectTyped, LeaveTyped, CrashTyped, WatcherTyped
     DEF Next, Greet

\* Everything keeps its type for any connections and bounds: a watcher without
\* a connection has nothing on its way to it, only a connection that lives is
\* in the room, and no more departures are under way than connections were made.
THEOREM TypeCorrect == Spec => []TypeOK
  BY TypedInit, TypedStep, TypedIsTypeOK, PTL DEF Spec

----------------------------------------------------------------------------
(* The limit                                                               *)

\* A key that has its expiry has no process at work on it, and one without an
\* expiry may have lost the process that was to give it one.
RateInv == LimitTypeOK /\ OneExpiryALife

LEMMA RateInit == LimitInit => RateInv
<1> SUFFICES ASSUME LimitInit PROVE RateInv
  OBVIOUS
<1> QED
  BY LimitAssumption DEF LimitInit, RateInv, LimitTypeOK, OneExpiryALife, Endless

LEMMA RateStep == RateInv /\ [LimitNext]_limiter => RateInv'
<1> SUFFICES ASSUME RateInv, [LimitNext]_limiter PROVE RateInv'
  OBVIOUS
<1> USE LimitAssumption DEF RateInv, LimitTypeOK, OneExpiryALife, Endless
<1>1. ASSUME NEW s \in Servers, Incr(s) PROVE RateInv'
  <2> DEFINE value == IF count > Limit THEN count ELSE count + 1
  <2>1. value \in 1 .. Limit + 1 /\ (value = 1 <=> count = 0)
    OBVIOUS
  <2>2. /\ count' = value
        /\ ttl' = IF count = 0 THEN Endless ELSE ttl
        /\ setting' = IF count = 0 THEN setting \union {s} ELSE setting
        /\ recent' \in {recent, [recent EXCEPT ![1] = @ + 1]}
        /\ fails' = fails
    BY <1>1, <2>1 DEF Incr, Sets
  <2>3. recent' \in [1 .. Window -> Nat]
    BY <2>2
  <2>4. LimitTypeOK'
    BY <2>1, <2>2, <2>3
  \* The key is made only when there is none, and then nobody is setting it.
  <2>5. OneExpiryALife'
    BY <2>1, <2>2
  <2> QED
    BY <2>4, <2>5
<1>2. ASSUME NEW s \in Servers, PExpire(s) PROVE RateInv'
  BY <1>2 DEF PExpire
<1>3. ASSUME NEW s \in Servers, Fail(s) PROVE RateInv'
  BY <1>3 DEF Fail
<1>4. CASE Tick
  <2>1. recent' \in [1 .. Window -> Nat]
    BY <1>4 DEF Tick
  <2>2. /\ ttl' = IF ttl \in {0, Endless} THEN ttl ELSE ttl - 1
        /\ count' = IF ttl' = 0 THEN 0 ELSE count
        /\ UNCHANGED <<setting, fails>>
    BY <1>4 DEF Tick
  <2> QED
    BY <2>1, <2>2
<1>5. CASE UNCHANGED limiter
  BY <1>5 DEF limiter
<1> QED
  BY <1>1, <1>2, <1>3, <1>4, <1>5 DEF LimitNext

LEMMA RateHolds == LimitSpec => []RateInv
  BY RateInit, RateStep, PTL DEF LimitSpec

\* The counter, its time to live and the processes at it keep their types
\* (consumeSocketRateLimit).
THEOREM LimitTypeCorrect == LimitSpec => []LimitTypeOK
<1>1. RateInv => LimitTypeOK
  BY DEF RateInv
<1> QED
  BY <1>1, RateHolds, PTL

\* However many processes share the key and whatever fails between the two
\* commands, the key is given its time to live by one process at most and only
\* while it has none: no request prolongs or shortens the life of a counter
\* (consumeSocketRateLimit 40).
THEOREM SingleExpiry == LimitSpec => []OneExpiryALife
<1>1. RateInv => OneExpiryALife
  BY DEF RateInv
<1> QED
  BY <1>1, RateHolds, PTL
----------------------------------------------------------------------------
(***************************************************************************)
(* Sums of the counts of the last ticks.                                   *)
(***************************************************************************)
Counts == [1 .. Window -> Nat]

TotalsOf(counts, f) ==
  f = [n \in 0 .. Window |-> IF n = 0 THEN 0 ELSE f[n - 1] + counts[n]]

LEMMA LessIsARelation == \A n, k \in Nat : k < n => <<k, n>> \in OpToRel(<, Nat)
  BY Zenon DEF OpToRel

LEMMA LeastNumber ==
  ASSUME NEW T, T \subseteq Nat, T # {}
  PROVE  \E n \in T : \A k \in T : n <= k
<1>1. IsWellFoundedOn(OpToRel(<, Nat), Nat)
  BY NatLessThanWellFounded
<1>2. PICK n \in T : \A k \in T : ~ (<<k, n>> \in OpToRel(<, Nat))
  BY <1>1, WFMin
<1>3. \A k \in T : ~ (k < n)
  BY <1>2, LessIsARelation, Zenon
<1> QED
  BY <1>3, SMT

\* Zero and successors reach every number up to a bound.
LEMMA Induction ==
  ASSUME NEW T, NEW bound \in Nat, 0 \in T,
         \A n \in 0 .. bound - 1 : n \in T => n + 1 \in T
  PROVE  0 .. bound \subseteq T
<1> SUFFICES ASSUME (0 .. bound) \ T # {} PROVE FALSE
  OBVIOUS
<1>1. PICK n \in (0 .. bound) \ T : \A k \in (0 .. bound) \ T : n <= k
  <2>1. (0 .. bound) \ T \subseteq Nat
    OBVIOUS
  <2> QED
    BY <2>1, LeastNumber
<1>2. n - 1 \in 0 .. bound - 1 /\ n - 1 < n
  BY <1>1
<1>3. n - 1 \in T
  BY <1>1, <1>2
<1> QED
  BY <1>1, <1>2, <1>3

\* There is a function of the sums: one for the first n ticks extends to one
\* for the first n + 1.
LEMMA TotalsExist ==
  ASSUME NEW counts \in Counts
  PROVE  \E f \in [0 .. Window -> Nat] : TotalsOf(counts, f)
<1> USE LimitAssumption DEF Counts
<1> DEFINE Sums(n, f) == \A i \in 0 .. n : f[i] = IF i = 0 THEN 0 ELSE f[i - 1] + counts[i]
           T == {n \in 0 .. Window : \E f \in [0 .. Window -> Nat] : Sums(n, f)}
<1>1. 0 \in T
  <2>1. [i \in 0 .. Window |-> 0] \in [0 .. Window -> Nat]
    OBVIOUS
  <2>2. Sums(0, [i \in 0 .. Window |-> 0])
    OBVIOUS
  <2> HIDE DEF Sums
  <2>3. \E f \in [0 .. Window -> Nat] : Sums(0, f)
    BY <2>1, <2>2, Zenon
  <2> QED
    BY <2>3
<1>2. ASSUME NEW n \in 0 .. Window - 1, n \in T PROVE n + 1 \in T
  <2>1. PICK f \in [0 .. Window -> Nat] : Sums(n, f)
    BY <1>2
  <2> DEFINE g == [f EXCEPT ![n + 1] = f[n] + counts[n + 1]]
  <2>2. f[n] \in Nat /\ counts[n + 1] \in Nat
    OBVIOUS
  <2>3. g \in [0 .. Window -> Nat] /\ g[n + 1] = f[n] + counts[n + 1]
        /\ \A i \in 0 .. n : g[i] = f[i]
    BY <2>2
  <2>4. Sums(n + 1, g)
    <3> HIDE DEF g
    <3> SUFFICES ASSUME NEW i \in 0 .. n + 1
                 PROVE  g[i] = IF i = 0 THEN 0 ELSE g[i - 1] + counts[i]
      OBVIOUS
    <3>1. CASE i = n + 1
      BY <2>3, <3>1
    <3>2. CASE i \in 1 .. n
      BY <2>1, <2>3, <3>2
    <3>3. CASE i = 0
      BY <2>1, <2>3, <3>3
    <3> QED
      BY <3>1, <3>2, <3>3
  <2> HIDE DEF Sums
  <2>5. \E h \in [0 .. Window -> Nat] : Sums(n + 1, h)
    BY <2>3, <2>4, Zenon
  <2>6. n + 1 \in 0 .. Window
    OBVIOUS
  <2> QED
    BY <2>5, <2>6, Zenon
<1> HIDE DEF T
<1>3. 0 .. Window \subseteq T
  BY <1>1, <1>2, Induction
<1>4. PICK f \in [0 .. Window -> Nat] : Sums(Window, f)
  <2>1. Window \in T
    BY <1>3
  <2> QED
    BY <2>1, Zenon DEF T
<1>5. f = [n \in 0 .. Window |-> f[n]]
  BY <1>4
<1>6. TotalsOf(counts, f)
  BY <1>4, <1>5 DEF TotalsOf
<1> QED
  BY <1>4, <1>6

LEMMA TotalsAre ==
  ASSUME NEW counts \in Counts
  PROVE  /\ Totals(counts) \in [0 .. Window -> Nat]
         /\ Totals(counts)[0] = 0
         /\ \A n \in 1 .. Window : Totals(counts)[n] = Totals(counts)[n - 1] + counts[n]
<1> USE LimitAssumption
<1>1. Totals(counts) = CHOOSE f : TotalsOf(counts, f)
  BY DEF Totals, TotalsOf
<1>2. TotalsOf(counts, Totals(counts))
  BY <1>1, TotalsExist
<1> DEFINE f == Totals(counts)
<1>3. f = [n \in 0 .. Window |-> IF n = 0 THEN 0 ELSE f[n - 1] + counts[n]]
  BY <1>2 DEF TotalsOf
<1> HIDE DEF f
<1>4. f[0] = 0 /\ \A n \in 1 .. Window : f[n] = f[n - 1] + counts[n]
  BY <1>3
<1> DEFINE T == {n \in 0 .. Window : f[n] \in Nat}
<1>5. \A n \in 0 .. Window - 1 : n \in T => n + 1 \in T
  <2> SUFFICES ASSUME NEW n \in 0 .. Window - 1, f[n] \in Nat PROVE f[n + 1] \in Nat
    OBVIOUS
  <2>1. f[n + 1] = f[n] + counts[n + 1] /\ counts[n + 1] \in Nat
    BY <1>4 DEF Counts
  <2> QED
    BY <2>1
<1>6. 0 \in T
  BY <1>4
<1> HIDE DEF T
<1>7. 0 .. Window \subseteq T
  BY <1>5, <1>6, Induction
<1>8. f \in [0 .. Window -> Nat]
  BY <1>3, <1>7 DEF T
<1> QED
  BY <1>4, <1>8 DEF f

\* One more event in the newest tick is one more in every span but the empty one.
LEMMA OneMore ==
  ASSUME NEW counts \in Counts, NEW n \in 0 .. Window
  PROVE  Totals([counts EXCEPT ![1] = @ + 1])[n] =
           Totals(counts)[n] + IF n = 0 THEN 0 ELSE 1
<1> USE LimitAssumption
<1> DEFINE more == [counts EXCEPT ![1] = @ + 1]
           f == Totals(counts)  g == Totals(more)
<1>1. /\ more \in Counts /\ more[1] = counts[1] + 1
      /\ \A i \in 2 .. Window : more[i] = counts[i]
      /\ \A i \in 1 .. Window : counts[i] \in Nat
  BY DEF Counts
<1> HIDE DEF more
<1>2. /\ f \in [0 .. Window -> Nat] /\ f[0] = 0
      /\ \A i \in 1 .. Window : f[i] = f[i - 1] + counts[i]
  BY TotalsAre
<1>3. /\ g \in [0 .. Window -> Nat] /\ g[0] = 0
      /\ \A i \in 1 .. Window : g[i] = g[i - 1] + more[i]
  BY <1>1, TotalsAre
<1> HIDE DEF f, g
<1> DEFINE T == {i \in 0 .. Window : g[i] = f[i] + IF i = 0 THEN 0 ELSE 1}
<1>4. ASSUME NEW i \in 0 .. Window - 1, i \in T PROVE i + 1 \in T
  <2>1. f[i + 1] = f[i] + counts[i + 1] /\ g[i + 1] = g[i] + more[i + 1]
        /\ f[i] \in Nat /\ g[i] \in Nat /\ counts[i + 1] \in Nat
    BY <1>1, <1>2, <1>3
  <2>2. CASE i = 0
    BY <1>1, <1>4, <2>1, <2>2
  <2>3. CASE i # 0
    BY <1>1, <1>4, <2>1, <2>3
  <2> QED
    BY <2>2, <2>3
<1>5. 0 \in T
  BY <1>2, <1>3
<1> HIDE DEF T
<1>6. 0 .. Window \subseteq T
  BY <1>4, <1>5, Induction
<1> QED
  BY <1>6 DEF f, g, more, T

Aged(counts) == [age \in 1 .. Window |-> IF age = 1 THEN 0 ELSE counts[age - 1]]

\* When time passes, a span holds what the span one shorter held.
LEMMA Older ==
  ASSUME NEW counts \in Counts, NEW n \in 1 .. Window
  PROVE  Aged(counts) \in Counts /\ Totals(Aged(counts))[n] = Totals(counts)[n - 1]
<1> USE LimitAssumption
<1> DEFINE f == Totals(counts)  g == Totals(Aged(counts))
<1>1. /\ Aged(counts) \in Counts /\ Aged(counts)[1] = 0
      /\ \A i \in 1 .. Window - 1 : Aged(counts)[i + 1] = counts[i]
      /\ \A i \in 1 .. Window : counts[i] \in Nat
  BY DEF Counts, Aged
<1>2. /\ f \in [0 .. Window -> Nat] /\ f[0] = 0
      /\ \A i \in 1 .. Window : f[i] = f[i - 1] + counts[i]
  BY TotalsAre
<1>3. /\ g \in [0 .. Window -> Nat] /\ g[0] = 0
      /\ \A i \in 1 .. Window : g[i] = g[i - 1] + Aged(counts)[i]
  BY <1>1, TotalsAre
<1> HIDE DEF f, g
<1> DEFINE T == {i \in 0 .. Window - 1 : g[i + 1] = f[i]}
<1>4. 0 \in T
  BY <1>1, <1>2, <1>3
<1>5. ASSUME NEW i \in 0 .. (Window - 1) - 1, i \in T PROVE i + 1 \in T
  <2>1. f[i + 1] = f[i] + counts[i + 1]
    BY <1>2
  <2>2. (i + 1) + 1 \in 1 .. Window
    OBVIOUS
  <2>3. g[(i + 1) + 1] = g[i + 1] + Aged(counts)[(i + 1) + 1]
    BY <1>3, <2>2
  <2>4. Aged(counts)[(i + 1) + 1] = counts[i + 1]
    BY <1>1
  <2> QED
    BY <1>5, <2>1, <2>3, <2>4
<1> HIDE DEF T
<1>6. 0 .. Window - 1 \subseteq T
  BY <1>4, <1>5, Induction
<1>7. n - 1 \in T /\ (n - 1) + 1 = n
  BY <1>6
<1> QED
  BY <1>1, <1>7 DEF f, g, T

\* A longer span holds no less.
LEMMA LongerIsMore ==
  ASSUME NEW counts \in Counts, NEW n \in 1 .. Window
  PROVE  Totals(counts)[n - 1] <= Totals(counts)[n]
<1>1. counts[n] \in Nat /\ n - 1 \in 0 .. Window
  BY LimitAssumption DEF Counts
<1>2. Totals(counts)[n] = Totals(counts)[n - 1] + counts[n]
  BY TotalsAre
<1>3. Totals(counts)[n - 1] \in Nat
  BY <1>1, TotalsAre
<1> QED
  BY <1>1, <1>2, <1>3

----------------------------------------------------------------------------
(***************************************************************************)
(* Two limits a window.  The life of a key has let through what its count  *)
(* says, up to the limit; all other recent events are of one life before   *)
(* it, which let one limit through.  What came since the expiry was set is *)
(* of the present life: when the key goes, that is the whole window.       *)
(***************************************************************************)
OfThisLife == IF count > Limit THEN Limit ELSE count

AtMostOneLimitBefore == LetThroughIn(Window) <= Limit + OfThisLife

SinceExpirySet == ttl \in 1 .. Window => LetThroughIn(Window - ttl) <= OfThisLife

WindowInv == RateInv /\ AtMostOneLimitBefore /\ SinceExpirySet

LEMMA WindowInit == LimitInit => WindowInv
<1> SUFFICES ASSUME LimitInit PROVE WindowInv
  OBVIOUS
<1> USE LimitAssumption
<1>1. RateInv
  BY RateInit
<1>2. recent \in Counts /\ \A n \in 1 .. Window : recent[n] = 0
  BY DEF LimitInit, Counts
<1> DEFINE f == Totals(recent)
<1>3. /\ f \in [0 .. Window -> Nat] /\ f[0] = 0
      /\ \A n \in 1 .. Window : f[n] = f[n - 1] + recent[n]
  BY <1>2, TotalsAre
<1> HIDE DEF f
<1> DEFINE T == {n \in 0 .. Window : f[n] = 0}
<1>4. \A n \in 0 .. Window - 1 : n \in T => n + 1 \in T
  BY <1>2, <1>3
<1>5. 0 \in T
  BY <1>3
<1> HIDE DEF T
<1>6. 0 .. Window \subseteq T
  BY <1>4, <1>5, Induction
<1>7. LetThroughIn(Window) = 0
  BY <1>6 DEF f, LetThroughIn, T
<1> QED
  BY <1>1, <1>7 DEF LimitInit, WindowInv, AtMostOneLimitBefore, SinceExpirySet, OfThisLife

LEMMA WindowStep == WindowInv /\ [LimitNext]_limiter => WindowInv'
<1> SUFFICES ASSUME WindowInv, [LimitNext]_limiter PROVE WindowInv'
  OBVIOUS
<1> USE LimitAssumption
<1>1. RateInv' /\ RateInv /\ LimitTypeOK /\ LimitTypeOK'
  BY RateStep DEF WindowInv, RateInv
<1>2. /\ recent \in Counts /\ recent' \in Counts
      /\ count \in 0 .. Limit + 1 /\ ttl \in 0 .. Window + 1 /\ (ttl = 0 <=> count = 0)
  BY <1>1 DEF LimitTypeOK, Counts, Endless
<1>3. /\ Totals(recent) \in [0 .. Window -> Nat] /\ Totals(recent') \in [0 .. Window -> Nat]
      /\ Totals(recent)[0] = 0 /\ Totals(recent')[0] = 0
  BY <1>2, TotalsAre
<1>4. /\ Totals(recent)[Window] <= Limit + OfThisLife
      /\ ttl \in 1 .. Window => Totals(recent)[Window - ttl] <= OfThisLife
  BY DEF WindowInv, AtMostOneLimitBefore, SinceExpirySet, LetThroughIn
<1>5. SUFFICES /\ Totals(recent')[Window] <= Limit + OfThisLife'
               /\ ttl' \in 1 .. Window => Totals(recent')[Window - ttl'] <= OfThisLife'
  BY <1>1 DEF WindowInv, AtMostOneLimitBefore, SinceExpirySet, LetThroughIn
\* An event that is let through is counted in the present life.
<1>6. ASSUME NEW s \in Servers, Incr(s)
      PROVE  /\ Totals(recent')[Window] <= Limit + OfThisLife'
             /\ ttl' \in 1 .. Window => Totals(recent')[Window - ttl'] <= OfThisLife'
  <2> DEFINE value == IF count > Limit THEN count ELSE count + 1
  <2>1. /\ count' = value
        /\ ttl' = IF count = 0 THEN Window + 1 ELSE ttl
        /\ recent' = IF value <= Limit THEN [recent EXCEPT ![1] = @ + 1] ELSE recent
    BY <1>6 DEF Incr, LetsThrough, Endless
  <2>2. ttl' \in 1 .. Window => ttl' = ttl /\ ttl \in 1 .. Window /\ Window - ttl \in 0 .. Window
    BY <1>2, <2>1
  <2>3. CASE value <= Limit
    <3>1. OfThisLife' = OfThisLife + 1
      BY <1>2, <2>1, <2>3 DEF OfThisLife
    <3>2. ASSUME NEW n \in 0 .. Window
          PROVE  Totals(recent')[n] <= Totals(recent)[n] + 1 /\ Totals(recent')[n] \in Nat
      <4>1. recent' = [recent EXCEPT ![1] = @ + 1]
        BY <2>1, <2>3
      <4>2. Totals(recent')[n] = Totals(recent)[n] + IF n = 0 THEN 0 ELSE 1
        BY <1>2, <4>1, OneMore
      <4>3. Totals(recent)[n] \in Nat
        BY <1>3
      <4> QED
        BY <4>2, <4>3
    <3>3. OfThisLife \in Nat
      BY <1>2 DEF OfThisLife
    <3>4. Totals(recent')[Window] <= Limit + OfThisLife'
      BY <1>3, <1>4, <3>1, <3>2, <3>3
    <3>5. ASSUME ttl' \in 1 .. Window
          PROVE  Totals(recent')[Window - ttl'] <= OfThisLife'
      <4>1. Totals(recent)[Window - ttl] <= OfThisLife /\ ttl' = ttl
            /\ Totals(recent)[Window - ttl] \in Nat
        BY <1>3, <1>4, <2>2, <3>5
      <4>2. Totals(recent')[Window - ttl] <= Totals(recent)[Window - ttl] + 1
            /\ Totals(recent')[Window - ttl] \in Nat
        BY <2>2, <3>2, <3>5
      <4> QED
        BY <3>1, <3>3, <4>1, <4>2
    <3> QED
      BY <3>4, <3>5
  <2>4. CASE ~ (value <= Limit)
    <3>1. recent' = recent /\ OfThisLife <= OfThisLife' /\ OfThisLife \in Nat
          /\ OfThisLife' \in Nat
      BY <1>2, <2>1, <2>4 DEF OfThisLife
    <3> QED
      BY <1>3, <1>4, <2>2, <3>1
  <2> QED
    BY <2>3, <2>4
<1>7. ASSUME NEW s \in Servers, PExpire(s) \/ Fail(s)
      PROVE  /\ Totals(recent')[Window] <= Limit + OfThisLife'
             /\ ttl' \in 1 .. Window => Totals(recent')[Window - ttl'] <= OfThisLife'
  <2>1. recent' = recent /\ count' = count /\ ttl' \in {0, Window, ttl}
    BY <1>2, <1>7 DEF PExpire, Fail
  <2>2. recent' = recent /\ OfThisLife' = OfThisLife /\ OfThisLife \in Nat
    BY <1>2, <2>1 DEF OfThisLife
  <2>3. CASE ttl' = ttl
    BY <1>4, <2>2, <2>3
  <2>4. CASE ttl' = Window
    BY <1>3, <1>4, <2>2, <2>4
  <2>5. CASE ttl' = 0
    BY <1>4, <2>2, <2>5
  <2> QED
    BY <2>3, <2>4, <2>5, <2>1
\* The window slides; when the key goes, all that is left in it is of its life.
<1>8. CASE Tick
  <2>1. /\ ttl' = IF ttl \in {0, Window + 1} THEN ttl ELSE ttl - 1
        /\ count' = IF ttl' = 0 THEN 0 ELSE count
        /\ recent' = Aged(recent)
    BY <1>8 DEF Tick, Aged, Endless
  <2>2. \A n \in 1 .. Window : Totals(recent')[n] = Totals(recent)[n - 1]
    BY <1>2, <2>1, Older
  <2>3. Totals(recent')[Window] = Totals(recent)[Window - 1]
        /\ Totals(recent)[Window - 1] <= Totals(recent)[Window]
    BY <1>2, <2>2, LongerIsMore
  <2>4. Window - 1 \in 0 .. Window /\ Totals(recent)[Window - 1] \in Nat
        /\ Totals(recent)[Window] \in Nat
    BY <1>3
  <2>5. OfThisLife \in Nat /\ OfThisLife <= Limit
    BY <1>2 DEF OfThisLife
  <2>6. CASE ttl = 1
    <3>1. ttl' = 0 /\ OfThisLife' = 0
      BY <2>1, <2>6 DEF OfThisLife
    <3>2. Totals(recent)[Window - 1] <= OfThisLife
      BY <1>4, <2>6
    <3> QED
      BY <2>3, <2>4, <2>5, <3>1, <3>2
  <2>7. CASE ttl # 1
    <3>1. OfThisLife' = OfThisLife /\ (ttl' \in 1 .. Window => ttl \in 2 .. Window /\ ttl' = ttl - 1)
      BY <1>2, <2>1, <2>7 DEF OfThisLife
    <3>2. ASSUME ttl' \in 1 .. Window
          PROVE  Totals(recent')[Window - ttl'] <= OfThisLife'
      <4>1. Window - ttl' \in 1 .. Window /\ (Window - ttl') - 1 = Window - ttl
        BY <3>1, <3>2
      <4>2. Totals(recent')[Window - ttl'] = Totals(recent)[Window - ttl]
        BY <2>2, <4>1
      <4> QED
        BY <1>4, <3>1, <3>2, <4>2
    <3> QED
      BY <1>4, <2>3, <2>4, <2>5, <3>1, <3>2
  <2> QED
    BY <2>6, <2>7
<1>9. CASE UNCHANGED limiter
  BY <1>4, <1>9 DEF limiter, OfThisLife
<1> QED
  BY <1>6, <1>7, <1>8, <1>9 DEF LimitNext

\* For any limit, window and number of processes, and whatever fails, no span
\* as long as the window lets more than two limits through
\* (consumeSocketRateLimit 38-41).
THEOREM AtMostTwoLimits == LimitSpec => []TwoLimitsAWindow
<1>1. WindowInv => TwoLimitsAWindow
  <2> SUFFICES ASSUME WindowInv PROVE LetThroughIn(Window) <= 2 * Limit
    BY DEF TwoLimitsAWindow
  <2>1. recent \in Counts /\ count \in 0 .. Limit + 1
    BY DEF WindowInv, RateInv, LimitTypeOK, Counts
  <2>2. LetThroughIn(Window) \in Nat
    BY <2>1, TotalsAre, LimitAssumption DEF LetThroughIn
  <2>3. OfThisLife \in Nat /\ OfThisLife <= Limit
    BY <2>1, LimitAssumption DEF OfThisLife
  <2> QED
    BY <2>2, <2>3, LimitAssumption DEF WindowInv, AtMostOneLimitBefore
<1> QED
  BY <1>1, WindowInit, WindowStep, PTL DEF LimitSpec
=============================================================================
