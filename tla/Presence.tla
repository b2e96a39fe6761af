------------------------------ MODULE Presence ------------------------------
(***************************************************************************)
(* Is a user online?  The connections of one user, what the server makes   *)
(* of their coming and going, and what one member of the same workspace    *)
(* is shown.                                                               *)
(*                                                                         *)
(* The connection handler joins the workspace rooms, sets a key in Redis   *)
(* and announces the user before it listens to anything.  A connection     *)
(* that ends arms a three-second timer, which looks for other connections  *)
(* and then deletes the key and announces that the user is gone.           *)
(***************************************************************************)
EXTENDS Naturals, Sequences, FiniteSets

CONSTANTS
    Conns,         \* connections of the user that may exist together
    Steady,        \* those on another server, made already or never, that do not end
    MaxConnects,   \* bound: connections made
    MaxDrops,      \* bound: connections the watcher loses
    MaxCrashes     \* bound: crashes of the user's server

ASSUME SteadyAssumption == Steady \subseteq Conns /\ IsFiniteSet(Conns)
ASSUME BoundsAssumption == MaxConnects \in Nat /\ MaxDrops \in Nat /\ MaxCrashes \in Nat

VARIABLES
    conn,       \* the user's connections: alive, and where their handler is
    timers,     \* armed three-second timers
    leaving,    \* timers that found nobody: at the key, or at the announcement
    key,        \* syncvela:presence
    watcher,    \* the watcher's connection: up, in the room, listened to
    asks,       \* requests for a snapshot on their way
    answers,    \* snapshots read and not yet sent: is the user in them?
    down,       \* events on their way to the watcher
    shown,      \* the watcher is shown the user online
    missed,     \* what has happened that the code does not make up for: a connection
                \* ended before the server listened to it, a packet came too early,
                \* an answer took longer than the timer, a server crashed
    budget      \* what is left of the bounds

user == <<conn, timers, leaving, key>>
link == <<watcher, asks, answers>>
vars == <<user, link, down, shown, missed, budget>>

\* The handler of a connection: over or not begun, or before one of its awaits.
Stage == {"idle", "rooms", "key", "tell"}
Event == {"userOnline", "userOffline", "listed", "unlisted"}

TypeOK ==
    /\ conn \in [Conns -> [alive : BOOLEAN, inRoom : BOOLEAN, at : Stage]]
    /\ \A c \in Conns : conn[c].inRoom => conn[c].alive
    /\ timers \in 0 .. MaxConnects
    /\ leaving \in Seq({"delete", "tell"}) /\ Len(leaving) + timers <= MaxConnects
    /\ key \in BOOLEAN
    /\ watcher \in [up : BOOLEAN, inRoom : BOOLEAN, listening : BOOLEAN]
    /\ asks \in 0 .. 2
    /\ answers \in Seq(BOOLEAN) /\ asks + Len(answers) <= 2
    /\ down \in Seq(Event)
    /\ ~ watcher.up => ~ watcher.inRoom /\ ~ watcher.listening /\ asks = 0 /\ down = << >>
    /\ shown \in BOOLEAN
    /\ missed \subseteq {"abrupt", "unheard", "slow", "crash"}
    /\ budget \in [connects : 0 .. MaxConnects, drops : 0 .. MaxDrops, crashes : 0 .. MaxCrashes]

Init ==
    /\ \E made \in SUBSET Steady :
         /\ conn = [c \in Conns |-> [alive |-> c \in made, inRoom |-> c \in made, at |-> "idle"]]
         /\ key = (made # {})
    /\ timers = 0 /\ leaving = << >>
    /\ watcher = [up |-> FALSE, inRoom |-> FALSE, listening |-> FALSE]
    /\ asks = 0 /\ answers = << >> /\ down = << >>
    /\ shown = FALSE
    /\ missed = {}
    /\ budget = [connects |-> MaxConnects, drops |-> MaxDrops, crashes |-> MaxCrashes]

\* io.to(workspace).emit
Tell(event) == down' = IF watcher.inRoom THEN Append(down, event) ELSE down

----------------------------------------------------------------------------
(* A connection of the user                                                *)

Connect(c) ==
    /\ c \notin Steady
    /\ ~ conn[c].alive /\ conn[c].at = "idle"
    /\ budget.connects > 0
    /\ budget' = [budget EXCEPT !.connects = @ - 1]
    /\ conn' = [conn EXCEPT ![c] = [alive |-> TRUE, inRoom |-> FALSE, at |-> "rooms"]]
    /\ UNCHANGED <<timers, leaving, key, link, down, shown, missed>>

\* The handler goes on when its connection has ended.
JoinRooms(c) ==
    /\ conn[c].at = "rooms"
    /\ conn' = [conn EXCEPT ![c] = [@ EXCEPT !.at = "key", !.inRoom = conn[c].alive]]
    /\ UNCHANGED <<timers, leaving, key, link, down, shown, missed, budget>>

SetKey(c) ==
    /\ conn[c].at = "key"
    /\ conn' = [conn EXCEPT ![c].at = "tell"]
    /\ key' = TRUE
    /\ UNCHANGED <<timers, leaving, link, down, shown, missed, budget>>

\* From here on the connection is listened to, for its end as well.
AnnounceOnline(c) ==
    /\ conn[c].at = "tell"
    /\ conn' = [conn EXCEPT ![c].at = "idle"]
    /\ Tell("userOnline")
    /\ UNCHANGED <<timers, leaving, key, link, shown, missed, budget>>

Heartbeat(c) ==
    /\ conn[c].alive /\ conn[c].at = "idle"
    /\ key' = TRUE
    /\ UNCHANGED <<conn, timers, leaving, link, down, shown, missed, budget>>

\* Ninety seconds, three heartbeats.
Expire ==
    /\ \A c \in Conns : ~ conn[c].alive
    /\ key' = FALSE
    /\ UNCHANGED <<conn, timers, leaving, link, down, shown, missed, budget>>

Disconnect(c) ==
    /\ conn[c].alive /\ c \notin Steady
    /\ conn' = [conn EXCEPT ![c] = [@ EXCEPT !.alive = FALSE, !.inRoom = FALSE]]
    /\ IF conn[c].at = "idle"
         THEN timers' = timers + 1 /\ UNCHANGED missed
         ELSE missed' = missed \cup {"abrupt"} /\ UNCHANGED timers
    /\ UNCHANGED <<leaving, key, link, down, shown, budget>>

\* Mutant: the other connections are not looked at.
CheckBlind ==
    /\ timers > 0
    /\ timers' = timers - 1
    /\ leaving' = Append(leaving, "delete")
    /\ missed' = IF answers = << >> THEN missed ELSE missed \cup {"slow"}
    /\ UNCHANGED <<conn, key, link, down, shown, budget>>

\* Mutant: the timer fires again and again.
CheckAgain ==
    /\ timers > 0
    /\ UNCHANGED timers
    /\ leaving' = IF \E c \in Conns : conn[c].alive THEN leaving ELSE Append(leaving, "delete")
    /\ missed' = IF answers = << >> THEN missed ELSE missed \cup {"slow"}
    /\ UNCHANGED <<conn, key, link, down, shown, budget>>

\* fetchSockets of the user's room.
Check ==
    /\ timers > 0
    /\ timers' = timers - 1
    /\ leaving' = IF \E c \in Conns : conn[c].alive THEN leaving ELSE Append(leaving, "delete")
    /\ missed' = IF answers = << >> THEN missed ELSE missed \cup {"slow"}
    /\ UNCHANGED <<conn, key, link, down, shown, budget>>

\* Mutant: the key is deleted and nothing is announced.
DeleteKeySilently(i) ==
    /\ leaving[i] = "delete"
    /\ leaving' = [j \in 1 .. Len(leaving) - 1 |-> leaving[IF j < i THEN j ELSE j + 1]]
    /\ key' = FALSE
    /\ UNCHANGED <<conn, timers, link, down, shown, missed, budget>>

DeleteKey(i) ==
    /\ leaving[i] = "delete"
    /\ leaving' = [leaving EXCEPT ![i] = "tell"]
    /\ key' = FALSE
    /\ UNCHANGED <<conn, timers, link, down, shown, missed, budget>>

AnnounceOffline(i) ==
    /\ leaving[i] = "tell"
    /\ leaving' = [j \in 1 .. Len(leaving) - 1 |-> leaving[IF j < i THEN j ELSE j + 1]]
    /\ Tell("userOffline")
    /\ UNCHANGED <<conn, timers, key, link, shown, missed, budget>>

\* The process with the connections, their handlers and the timers.
Crash ==
    /\ budget.crashes > 0
    /\ budget' = [budget EXCEPT !.crashes = @ - 1]
    /\ conn' = [c \in Conns |-> IF c \in Steady THEN conn[c]
                                  ELSE [alive |-> FALSE, inRoom |-> FALSE, at |-> "idle"]]
    /\ timers' = 0 /\ leaving' = << >>
    /\ missed' = missed \cup {"crash"}
    /\ UNCHANGED <<key, link, down, shown>>

----------------------------------------------------------------------------
(* The watcher                                                             *)

\* Two snapshots are asked for: requestOnlineUsers and join_workspace.
WatcherConnect ==
    /\ ~ watcher.up
    /\ watcher' = [up |-> TRUE, inRoom |-> FALSE, listening |-> FALSE]
    /\ asks' = 2
    /\ UNCHANGED <<user, answers, down, shown, missed, budget>>

WatcherDrop ==
    /\ watcher.up /\ budget.drops > 0
    /\ budget' = [budget EXCEPT !.drops = @ - 1]
    /\ watcher' = [up |-> FALSE, inRoom |-> FALSE, listening |-> FALSE]
    /\ asks' = 0 /\ answers' = << >> /\ down' = << >>
    /\ UNCHANGED <<user, shown, missed>>

WatcherJoins ==
    /\ watcher.up /\ ~ watcher.inRoom
    /\ watcher' = [watcher EXCEPT !.inRoom = TRUE]
    /\ UNCHANGED <<user, asks, answers, down, shown, missed, budget>>

WatcherHeard ==
    /\ watcher.inRoom /\ ~ watcher.listening
    /\ watcher' = [watcher EXCEPT !.listening = TRUE]
    /\ UNCHANGED <<user, asks, answers, down, shown, missed, budget>>

\* A packet nobody listens for yet is lost.
Unheard ==
    /\ asks > 0 /\ ~ watcher.listening
    /\ asks' = asks - 1
    /\ missed' = missed \cup {"unheard"}
    /\ UNCHANGED <<user, watcher, answers, down, shown, budget>>

\* getOnlineWorkspaceMemberIds: fetchSockets of the workspace's room.
ReadSnapshot ==
    /\ asks > 0 /\ watcher.listening
    /\ asks' = asks - 1
    /\ answers' = Append(answers, \E c \in Conns : conn[c].inRoom)
    /\ UNCHANGED <<user, watcher, down, shown, missed, budget>>

SendSnapshot ==
    /\ answers # << >>
    /\ answers' = Tail(answers)
    /\ down' = Append(down, IF Head(answers) THEN "listed" ELSE "unlisted")
    /\ UNCHANGED <<user, watcher, asks, shown, missed, budget>>

\* handleUserOnline, handleUserOffline, handleOnlineUsers.
Handle ==
    /\ down # << >>
    /\ down' = Tail(down)
    /\ shown' = (Head(down) \in {"userOnline", "listed"})
    /\ UNCHANGED <<user, link, missed, budget>>

----------------------------------------------------------------------------
Greet(c) == JoinRooms(c) \/ SetKey(c) \/ AnnounceOnline(c)

Leave == \E i \in DOMAIN leaving : DeleteKey(i) \/ AnnounceOffline(i)

Hydrate == ReadSnapshot \/ SendSnapshot

Next ==
    \/ \E c \in Conns : Connect(c) \/ Greet(c) \/ Heartbeat(c) \/ Disconnect(c)
    \/ Expire \/ Check \/ Leave \/ Crash
    \/ WatcherConnect \/ WatcherDrop \/ WatcherJoins \/ WatcherHeard
    \/ Unheard \/ Hydrate \/ Handle

Spec == Init /\ [][Next]_vars

\* Handlers go on, timers fire, keys expire and the watcher's page reconnects.
\* Nothing is owed by the user.
Fairness ==
    /\ \A c \in Conns : WF_vars(Greet(c))
    /\ WF_vars(Expire) /\ WF_vars(Check) /\ WF_vars(Leave)
    /\ WF_vars(WatcherConnect) /\ WF_vars(WatcherJoins) /\ WF_vars(WatcherHeard)
    /\ WF_vars(Hydrate) /\ WF_vars(Handle)

FairSpec == Spec /\ Fairness

----------------------------------------------------------------------------
Away == \A c \in Conns : ~ conn[c].alive

\* While another device of the user stays connected the watcher, once shown
\* the user online, is never shown the opposite: neither a connection that
\* comes and goes at any moment, nor a crash of its server, nor a snapshot of
\* any age takes the user away (disconnect 149-159,
\* getOnlineWorkspaceMemberIds 61-75).
AnotherDeviceKeepsOnline ==
    [][(\E c \in Steady : conn[c].alive) /\ shown => shown']_vars

\* A user who stays away is in the end shown offline to whoever watches, one
\* who missed the event included ("The server sends explicit offline events
\* for real disconnects and a fresh workspace snapshot on reconnect"), unless
\* one of the mishaps has happened that the code does not make up for.
OfflineIsShown == Away ~> ~ shown \/ ~ Away \/ missed # {}
============================================================================
