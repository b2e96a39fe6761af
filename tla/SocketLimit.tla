---------------------------- MODULE SocketLimit ----------------------------
(***************************************************************************)
(* The rate limit of one user's socket events of one kind.  The processes  *)
(* of the backend share a counter in Redis: a request increments it, and   *)
(* the request that made the key gives it its time to live in a second     *)
(* command.                                                                *)
(*                                                                         *)
(* Only production is modelled, where a process whose client is closed     *)
(* refuses every event and touches nothing.                                *)
(***************************************************************************)
EXTENDS Integers

CONSTANTS
    Servers,    \* processes of the backend
    Limit,      \* limit
    Window,     \* windowMs, in ticks of the clock
    MaxFails    \* bound: commands that fail, processes that stop

ASSUME LimitAssumption == Limit \in Nat \ {0} /\ Window \in Nat \ {0} /\ MaxFails \in Nat

VARIABLES
    count,      \* the key's value, 0 when there is no key; Limit + 1 is "more"
    ttl,        \* ticks the key has left; Endless without an expiry
    setting,    \* processes that made the key and have not given it a ttl
    recent,     \* events let through in each of the last Window ticks, newest first
    fails       \* failures so far

limiter == <<count, ttl, setting, recent, fails>>

Endless == Window + 1

LimitTypeOK ==
    /\ count \in 0 .. Limit + 1
    /\ ttl \in 0 .. Endless /\ (ttl = 0 <=> count = 0)
    /\ setting \subseteq Servers
    /\ recent \in [1 .. Window -> Nat]
    /\ fails \in 0 .. MaxFails

LimitInit ==
    /\ count = 0 /\ ttl = 0 /\ setting = {}
    /\ recent = [age \in 1 .. Window |-> 0]
    /\ fails = 0

\* Mutants: every request sets the time to live; one event too many; a window
\* rounded down to nothing.
SetsAlways(value) == value >= 1
LetsOneMore(value) == value <= Limit + 1
PExpireNow(s) ==
    /\ s \in setting /\ setting' = setting \ {s}
    /\ ttl' = 0
    /\ UNCHANGED <<count, recent, fails>>

\* Which replies make the process set the time to live, and which events are
\* let through.
Sets(value) == value = 1
LetsThrough(value) == value <= Limit

\* incr, and what the code makes of its reply.  Above Limit + 1 no comparison
\* tells the values apart.
Incr(s) ==
    LET value == IF count > Limit THEN count ELSE count + 1
    IN  /\ s \notin setting
        /\ count' = value
        /\ ttl' = IF count = 0 THEN Endless ELSE ttl
        /\ setting' = IF Sets(value) THEN setting \union {s} ELSE setting
        /\ recent' = IF LetsThrough(value) THEN [recent EXCEPT ![1] = @ + 1] ELSE recent
        /\ UNCHANGED fails

\* pExpire: does nothing to a key that is gone.
PExpire(s) ==
    /\ s \in setting
    /\ setting' = setting \ {s}
    /\ ttl' = IF count = 0 THEN 0 ELSE Window
    /\ UNCHANGED <<count, recent, fails>>

\* The reply of incr is lost with the connection, the client is closed by
\* disconnectRedis, or the process stops: pExpire is never called.
Fail(s) ==
    /\ s \in setting
    /\ fails < MaxFails /\ fails' = fails + 1
    /\ setting' = setting \ {s}
    /\ UNCHANGED <<count, ttl, recent>>

\* Time passes, and Redis drops the key whose time has come.
Tick ==
    /\ ttl' = IF ttl \in {0, Endless} THEN ttl ELSE ttl - 1
    /\ count' = IF ttl' = 0 THEN 0 ELSE count
    /\ recent' = [age \in 1 .. Window |-> IF age = 1 THEN 0 ELSE recent[age - 1]]
    /\ UNCHANGED <<setting, fails>>

LimitNext ==
    \/ \E s \in Servers : Incr(s) \/ PExpire(s) \/ Fail(s)
    \/ Tick

LimitSpec == LimitInit /\ [][LimitNext]_limiter

\* A process sends its second command and time passes; requests are the user's.
FairLimitSpec == LimitSpec /\ WF_limiter(Tick) /\ \A s \in Servers : WF_limiter(PExpire(s))

----------------------------------------------------------------------------
Totals(counts) ==
    LET total[n \in 0 .. Window] == IF n = 0 THEN 0 ELSE total[n - 1] + counts[n]
    IN  total

LetThroughIn(ticks) == Totals(recent)[ticks]

\* However the processes interleave and whatever fails, no span as long as the
\* window lets more than two limits through: a key's life lets one through,
\* and such a span meets at most two lives (consumeSocketRateLimit 38-41).
TwoLimitsAWindow == LetThroughIn(Window) <= 2 * Limit

\* The key is given its time to live once in its life: while a process is at
\* it nobody else has made the key or shortened its life (line 40).
OneExpiryALife == \A s \in setting : setting = {s} /\ count > 0 /\ ttl = Endless

\* A user who is refused is in the end let through again, even one whose
\* requests never stop: they do not prolong the key's time.  A failure between
\* the two commands leaves a key that never goes, so it is excepted.
Refills == count > Limit /\ fails = 0 ~> count = 0 \/ fails > 0

=============================================================================
