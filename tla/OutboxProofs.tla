---------------------------- MODULE OutboxProofs ----------------------------
(***************************************************************************)
(* Theorems about Outbox, for any messages, bounds and faults: no message  *)
(* is stored more often than it may be tried, no row shows the id of       *)
(* another message, and what leaves the queue is stored or was tried.      *)
(*                                                                         *)
(* The count is an account of tries: every packet, handler and queued      *)
(* message that may still end in a row of the table is counted with the    *)
(* rows there are, and only composing a message adds to the sum.           *)
(***************************************************************************)
EXTENDS Outbox, FiniteSetTheorems, SequenceTheorems, WellFoundedInduction, TLAPS

\* How many entries of a sequence are in a set.
Places(s, W) == {i \in DOMAIN s : s[i] \in W}
Among(s, W) == Cardinality(Places(s, W))

Repeatable == Direct \ Bare

\* What may be in each sequence when c is composed and t the table: what tells
\* of a stored message names a row of its own, and so does every listed row.
PacketOf(c) ==
    {p \in [op : {"join", "dm", "channel", "retry"}, m : c \cup {None}] :
       p.op # "join" => p.m \in c}

Names(x, t) == x.id \in DOMAIN t /\ t[x.id] = x.m

EventOf(t) ==
    {e \in [ev : {"receive", "messageSentAck", "roomJoined", "dm_recipient_unavailable"},
            m : Msgs \cup {None}, id : Nat] :
       e.ev \in {"receive", "messageSentAck"} => e.m \in Msgs /\ Names(e, t)}

HandlerOf(c, t) ==
    {h \in [m : c, pc : {"create", "announce"}, id : Nat, orphan : BOOLEAN] :
       h.pc = "announce" => Names(h, t)}

RowOf(t) ==
    {row \in [id : Msgs \cup DOMAIN t, tempId : Msgs \cup {None}] :
       \/ row.tempId # None /\ row.id = row.tempId
       \/ row.id \in DOMAIN t /\ row.tempId \in {None, t[row.id]}}

FetchOf(t) == [of : {"dm", "channel"}, seen : {None} \cup Seq(DOMAIN t)]

Contents ==
    /\ view \in [peer : BOOLEAN, room : BOOLEAN, channel : BOOLEAN]
    /\ rows \in Seq(RowOf(stored))
    /\ composed \subseteq Msgs /\ queue \in Seq(composed) /\ stored \in Seq(composed)
    /\ fetches \subseteq FetchOf(stored)
    /\ buffer \in Seq(PacketOf(composed)) /\ net \in Seq(PacketOf(composed))
    /\ down \in Seq(EventOf(stored))
    /\ handlers \in Seq(HandlerOf(composed, stored))

\* Nothing waits for a connection there is, nothing is under way without one:
\* the handlers that still run then have lost their socket.
Orphan == [m : Msgs, pc : {"create", "announce"}, id : Nat, orphan : {TRUE}]

Wires ==
    /\ up \in BOOLEAN
    /\ up => buffer = << >>
    /\ ~ up => net = << >> /\ down = << >> /\ ~ server.listening /\ ~ server.inRoom
    /\ ~ up => handlers \in Seq(Orphan)

\* A timer is armed by a connect, and a connect takes a loss before it.
Timers ==
    /\ timers \in [own : Nat, stale : Nat]
    /\ budget \in [losses : Nat, moves : Nat]
    /\ timers.own + timers.stale + budget.losses + (IF up THEN 0 ELSE 1) <= Bound

\* The account of tries.
Creating(m) == [m : {m}, pc : {"create"}, id : Nat, orphan : BOOLEAN]
Attempts(m) == [op : {"dm", "channel"} \cup IF m \in Repeatable THEN {"retry"} ELSE {}, m : {m}]

Outstanding(m) ==
    Among(stored, {m}) + Among(handlers, Creating(m)) + Among(net, Attempts(m))
      + Among(buffer, Attempts(m)) + Among(queue, {m} \cap Repeatable)

Account == \A m \in Msgs : Outstanding(m) <= IF m \in composed THEN Tries[m] ELSE 0

IInv == Contents /\ Wires /\ Timers /\ Account

----------------------------------------------------------------------------
(* Induction over the length of a sequence                                 *)

LEMMA LessIsARelation == \A n, k \in Nat : k < n => <<k, n>> \in OpToRel(<, Nat)
  BY Zenon DEF OpToRel

\* Any set of naturals has a least member: what is false of some length is
\* false of a shortest one.
LEMMA LeastNumber ==
  ASSUME NEW T, T \subseteq Nat, T # {}
  PROVE  \E n \in T : \A k \in T : n <= k
<1>1. IsWellFoundedOn(OpToRel(<, Nat), Nat)
  BY NatLessThanWellFounded
<1>2. PICK n \in T : \A k \in T : ~ (<<k, n>> \in OpToRel(<, Nat))
  BY <1>1, WFMin
<1>3. \A k \in T : ~ (k < n)
  BY <1>2, LessIsARelation, Zenon
<1> QED
  BY <1>3, SMT

\* Zero and successors reach every number.
LEMMA Induction ==
  ASSUME NEW T, NEW bound \in Nat, 0 \in T,
         \A n \in 0 .. bound - 1 : n \in T => n + 1 \in T
  PROVE  0 .. bound \subseteq T
<1> SUFFICES ASSUME (0 .. bound) \ T # {} PROVE FALSE
  OBVIOUS
<1>1. PICK n \in (0 .. bound) \ T : \A k \in (0 .. bound) \ T : n <= k
  <2>1. (0 .. bound) \ T \subseteq Nat
    OBVIOUS
  <2> QED
    BY <2>1, LeastNumber
<1>2. n # 0 /\ n \in Nat
  BY <1>1
<1>3. n - 1 \in 0 .. bound - 1 /\ n - 1 < n
  BY <1>1, <1>2
<1>4. n - 1 \in T
  BY <1>1, <1>3
<1>5. (n - 1) + 1 \in T
  BY <1>3, <1>4
<1> QED
  BY <1>1, <1>2, <1>5

----------------------------------------------------------------------------
(* Counting entries                                                        *)

LEMMA PlacesType ==
  ASSUME NEW S, NEW s \in Seq(S), NEW W
  PROVE  /\ IsFiniteSet(Places(s, W)) /\ Among(s, W) \in Nat
         /\ Places(s, W) \subseteq 1 .. Len(s)
<1>1. Places(s, W) \in SUBSET (1 .. Len(s)) /\ Len(s) \in Nat
  BY LenProperties DEF Places
<1>2. IsFiniteSet(1 .. Len(s))
  BY <1>1, FS_Interval
<1> QED
  BY <1>1, <1>2, FS_Subset, FS_CardinalityType DEF Among

LEMMA AmongNone ==
  ASSUME NEW S, NEW s \in Seq(S), NEW W
  PROVE  /\ Among(<< >>, W) = 0
         /\ Among(s, W) = 0 => \A i \in DOMAIN s : s[i] \notin W
<1>1. Places(<< >>, W) = {}
  BY DEF Places
<1>2. Among(s, W) = 0 => Places(s, W) = {}
  BY PlacesType, FS_EmptySet DEF Among
<1> QED
  BY <1>1, <1>2, FS_EmptySet DEF Among, Places

LEMMA AmongAppend ==
  ASSUME NEW S, NEW s \in Seq(S), NEW x \in S, NEW W
  PROVE  Among(Append(s, x), W) = Among(s, W) + (IF x \in W THEN 1 ELSE 0)
<1> DEFINE t == Append(s, x)
<1>1. /\ Len(s) \in Nat /\ DOMAIN s = 1 .. Len(s) /\ DOMAIN t = 1 .. Len(s) + 1
      /\ \A i \in 1 .. Len(s) : t[i] = s[i]
      /\ t[Len(s) + 1] = x
  BY AppendProperties, LenProperties
<1>2. /\ IsFiniteSet(Places(s, W)) /\ Among(s, W) \in Nat
      /\ Len(s) + 1 \notin Places(s, W)
  BY <1>1, PlacesType
<1> HIDE DEF t
<1>3. CASE x \in W
  <2>1. Places(t, W) = Places(s, W) \cup {Len(s) + 1}
    BY <1>1, <1>3 DEF Places
  <2> QED
    BY <1>2, <1>3, <2>1, FS_AddElement DEF Among, t
<1>4. CASE x \notin W
  <2>1. Places(t, W) = Places(s, W)
    BY <1>1, <1>4 DEF Places
  <2> QED
    BY <1>2, <1>4, <2>1 DEF Among, t
<1> QED
  BY <1>3, <1>4
LEMMA AmongConcat ==
  ASSUME NEW S, NEW s \in Seq(S), NEW t \in Seq(S), NEW W
  PROVE  Among(s \o t, W) = Among(s, W) + Among(t, W)
<1> DEFINE u == s \o t
           B == {i \in Len(s) + 1 .. Len(s) + Len(t) : u[i] \in W}
           f == [i \in Places(t, W) |-> Len(s) + i]
<1>1. /\ Len(s) \in Nat /\ DOMAIN s = 1 .. Len(s)
      /\ Len(t) \in Nat /\ DOMAIN t = 1 .. Len(t)
      /\ u \in Seq(S) /\ Len(u) = Len(s) + Len(t)
      /\ \A i \in 1 .. Len(s) + Len(t) : u[i] = IF i <= Len(s) THEN s[i] ELSE t[i - Len(s)]
  BY ConcatProperties, LenProperties
<1>2. DOMAIN u = 1 .. Len(s) + Len(t)
  BY <1>1, LenProperties
<1>3. /\ IsFiniteSet(Places(s, W)) /\ Among(s, W) \in Nat /\ Places(s, W) \subseteq 1 .. Len(s)
      /\ IsFiniteSet(Places(t, W)) /\ Among(t, W) \in Nat /\ Places(t, W) \subseteq 1 .. Len(t)
  BY PlacesType
<1> HIDE DEF u
<1>4. Places(u, W) = Places(s, W) \cup B
  BY <1>1, <1>2 DEF Places
<1>5. Places(s, W) \cap B = {}
  BY <1>1, <1>3
<1>6. f \in Bijection(Places(t, W), B)
  <2>1. \A i \in Places(t, W) : f[i] \in B
    BY <1>1, <1>3 DEF Places
  <2>2. \A j \in B : \E i \in Places(t, W) : f[i] = j
    <3> SUFFICES ASSUME NEW j \in B PROVE \E i \in Places(t, W) : f[i] = j
      OBVIOUS
    <3>1. j - Len(s) \in 1 .. Len(t) /\ u[j] = t[j - Len(s)] /\ j \in Int
      BY <1>1
    <3>2. j - Len(s) \in Places(t, W)
      BY <1>1, <3>1 DEF Places
    <3> QED
      BY <1>1, <3>1, <3>2
  <2>3. \A i, j \in Places(t, W) : f[i] = f[j] => i = j
    BY <1>1, <1>3
  <2> QED
    BY <2>1, <2>2, <2>3 DEF Bijection, Injection, IsInjective, Surjection
<1>7. IsFiniteSet(B) /\ Cardinality(B) = Among(t, W)
  BY <1>3, <1>6, FS_Bijection DEF ExistsBijection, Among
<1> HIDE DEF B
<1>8. Cardinality(Places(s, W) \cup B)
        = Cardinality(Places(s, W)) + Cardinality(B) - Cardinality(Places(s, W) \cap B)
  BY <1>3, <1>7, FS_Union
<1>9. Cardinality(Places(u, W)) = Cardinality(Places(s, W)) + Cardinality(B)
  <2>1. Cardinality(Places(s, W) \cap B) = 0
    BY <1>5, FS_EmptySet
  <2>2. Cardinality(Places(s, W)) \in Nat /\ Cardinality(B) \in Nat
    BY <1>3, <1>7 DEF Among
  <2> QED
    BY <1>4, <1>8, <2>1, <2>2
<1> QED
  BY <1>7, <1>9 DEF Among, u

LEMMA AmongOne ==
  ASSUME NEW x, NEW W
  PROVE  Among(<<x>>, W) = IF x \in W THEN 1 ELSE 0
<1>1. x \in W => Places(<<x>>, W) = {1}
  BY DEF Places
<1>2. x \notin W => Places(<<x>>, W) = {}
  BY DEF Places
<1> QED
  BY <1>1, <1>2, FS_EmptySet, FS_Singleton DEF Among

LEMMA AmongTail ==
  ASSUME NEW S, NEW s \in Seq(S), s # << >>, NEW W
  PROVE  Among(s, W) = Among(Tail(s), W) + (IF Head(s) \in W THEN 1 ELSE 0)
<1>1. /\ <<Head(s)>> \in Seq(S) /\ Tail(s) \in Seq(S)
      /\ s = <<Head(s)>> \o Tail(s)
  OBVIOUS
<1>2. Among(s, W) = Among(<<Head(s)>>, W) + Among(Tail(s), W)
  <2>1. Among(<<Head(s)>> \o Tail(s), W) = Among(<<Head(s)>>, W) + Among(Tail(s), W)
    BY <1>1, AmongConcat, Zenon
  <2> QED
    BY <1>1, <2>1, Zenon
<1>3. Among(Tail(s), W) \in Nat
  BY <1>1, PlacesType
<1>4. Among(<<Head(s)>>, W) = IF Head(s) \in W THEN 1 ELSE 0
  BY AmongOne
<1> QED
  BY <1>2, <1>3, <1>4

\* Entries of one sequence that are in W just where those of another are in V.
LEMMA AmongSame ==
  ASSUME NEW s, NEW t, NEW W, NEW V, DOMAIN s = DOMAIN t,
         \A i \in DOMAIN s : s[i] \in W <=> t[i] \in V
  PROVE  Among(s, W) = Among(t, V)
BY DEF Among, Places

LEMMA AmongExcept ==
  ASSUME NEW S, NEW s \in Seq(S), NEW i \in DOMAIN s, NEW x \in S, NEW W,
         s[i] \in W, x \notin W
  PROVE  Among([s EXCEPT ![i] = x], W) = Among(s, W) - 1
<1> DEFINE t == [s EXCEPT ![i] = x]
<1>1. Places(t, W) = Places(s, W) \ {i} /\ i \in Places(s, W)
  BY DEF Places
<1>2. IsFiniteSet(Places(s, W))
  BY PlacesType
<1> QED
  BY <1>1, <1>2, FS_RemoveElement DEF Among

\* The sequences before and after the entry that is removed.
Around(s, i, S) ==
    {p \in Seq(S) \X Seq(S) :
       RemoveAt(s, i) = p[1] \o p[2] /\ s = (p[1] \o <<s[i]>>) \o p[2]}

LEMMA RemoveAtSplits ==
  ASSUME NEW S, NEW s \in Seq(S), NEW i \in DOMAIN s
  PROVE  Around(s, i, S) # {}
<1> DEFINE a == SubSeq(s, 1, i - 1)
           b == SubSeq(s, i + 1, Len(s))
<1>1. Len(s) \in Nat /\ DOMAIN s = 1 .. Len(s) /\ i \in 1 .. Len(s)
  BY LenProperties
<1>2. \A j \in 1 .. Len(s) : s[j] \in S
  BY ElementOfSeq
<1>3. /\ a \in Seq(S) /\ Len(a) = i - 1
      /\ \A j \in 1 .. i - 1 : a[j] = s[j]
  <2>1. \A j \in 1 .. i - 1 : s[j] \in S
    BY <1>1, <1>2
  <2> QED
    BY <1>1, <2>1, SubSeqProperties
<1>4. /\ b \in Seq(S) /\ Len(b) = Len(s) - i
      /\ \A j \in 1 .. Len(s) - i : b[j] = s[i + j]
  <2>1. \A j \in i + 1 .. Len(s) : s[j] \in S
    BY <1>1, <1>2
  <2>2. i + 1 \in Int /\ Len(s) \in Int
    BY <1>1
  <2>3. b \in Seq(S) /\ Len(b) = (IF i + 1 <= Len(s) THEN Len(s) - (i + 1) + 1 ELSE 0)
        /\ \A j \in 1 .. Len(s) - (i + 1) + 1 : b[j] = s[(i + 1) + j - 1]
    BY <2>1, <2>2, SubSeqProperties
  <2> HIDE DEF b
  <2>4. Len(b) = Len(s) - i
    BY <1>1, <2>3
  <2>5. ASSUME NEW j \in 1 .. Len(s) - i PROVE b[j] = s[i + j]
    <3>1. j \in 1 .. Len(s) - (i + 1) + 1 /\ (i + 1) + j - 1 = i + j
      BY <1>1
    <3> QED
      BY <2>3, <3>1
  <2> QED
    BY <2>3, <2>4, <2>5
<1> HIDE DEF a, b
<1>5. s = (a \o <<s[i]>>) \o b
  <2>1. <<s[i]>> \in Seq(S) /\ Len(<<s[i]>>) = 1 /\ <<s[i]>>[1] = s[i]
    BY <1>1, <1>2
  <2> DEFINE c == a \o <<s[i]>>
  <2>2. /\ c \in Seq(S) /\ Len(c) = Len(a) + 1
        /\ \A j \in 1 .. Len(a) + 1 : c[j] = IF j <= Len(a) THEN a[j] ELSE <<s[i]>>[j - Len(a)]
    <3>1. PICK t \in Seq(S) : t = <<s[i]>> /\ Len(t) = 1
      BY <2>1
    <3>2. /\ a \o t \in Seq(S) /\ Len(a \o t) = Len(a) + 1
          /\ \A j \in 1 .. Len(a) + 1 : (a \o t)[j] = IF j <= Len(a) THEN a[j] ELSE t[j - Len(a)]
      <4>1. a \in Seq(S)
        BY <1>3
      <4>2. /\ a \o t \in Seq(S) /\ Len(a \o t) = Len(a) + Len(t)
            /\ \A j \in 1 .. Len(a) + Len(t) : (a \o t)[j] = IF j <= Len(a) THEN a[j] ELSE t[j - Len(a)]
        BY <4>1, ConcatProperties
      <4> QED
        BY <3>1, <4>2, Zenon
    <3> QED
      BY <3>1, <3>2, Zenon DEF c
  <2> HIDE DEF c
  <2>3. Len(c) = i /\ \A j \in 1 .. i : c[j] = s[j]
    <3>1. Len(c) = i /\ Len(a) + 1 = i
      BY <1>1, <1>3, <2>2
    <3> SUFFICES ASSUME NEW j \in 1 .. i PROVE c[j] = s[j]
      BY <3>1
    <3>2. c[j] = IF j <= i - 1 THEN a[j] ELSE <<s[i]>>[j - (i - 1)]
      BY <1>3, <2>2, <3>1
    <3>3. CASE j <= i - 1
      BY <1>1, <1>3, <3>2, <3>3
    <3>4. CASE j = i
      BY <1>1, <2>1, <3>2, <3>4
    <3> QED
      BY <1>1, <3>3, <3>4
  <2>4. /\ c \o b \in Seq(S) /\ Len(c \o b) = Len(c) + Len(b)
        /\ \A j \in 1 .. Len(c) + Len(b) : (c \o b)[j] =
             IF j <= Len(c) THEN c[j] ELSE b[j - Len(c)]
    BY <1>4, <2>2, ConcatProperties
  <2> DEFINE d == c \o b
  <2> HIDE DEF d
  <2>5. Len(d) = Len(s) /\ \A j \in 1 .. Len(s) : d[j] = s[j]
    <3>1. Len(d) = Len(s) /\ Len(c) + Len(b) = Len(s)
      BY <1>1, <1>4, <2>3, <2>4 DEF d
    <3> SUFFICES ASSUME NEW j \in 1 .. Len(s) PROVE d[j] = s[j]
      BY <3>1
    <3>2. d[j] = IF j <= i THEN c[j] ELSE b[j - i]
      BY <2>3, <2>4, <3>1 DEF d
    <3>3. CASE j <= i
      BY <2>3, <3>2, <3>3
    <3>4. CASE i < j
      <4>1. j - i \in 1 .. Len(s) - i /\ i + (j - i) = j
        BY <1>1, <3>4
      <4> QED
        BY <1>1, <1>4, <3>2, <3>4, <4>1
    <3> QED
      BY <1>1, <3>3, <3>4
  <2>6. d = s
    BY <2>4, <2>5, SeqEqual DEF d
  <2> QED
    BY <2>6 DEF c, d
<1>6. RemoveAt(s, i) = a \o b
  BY DEF RemoveAt, a, b
<1>7. <<a, b>> \in Around(s, i, S)
  BY <1>3, <1>4, <1>5, <1>6 DEF Around
<1> QED
  BY <1>7

LEMMA RemoveAtType ==
  ASSUME NEW S, NEW s \in Seq(S), NEW i \in DOMAIN s
  PROVE  RemoveAt(s, i) \in Seq(S)
<1>1. PICK a, b \in Seq(S) : RemoveAt(s, i) = a \o b /\ s = (a \o <<s[i]>>) \o b
  <2>1. PICK p : p \in Around(s, i, S)
    BY RemoveAtSplits, Zenon
  <2> QED
    BY <2>1 DEF Around
<1> QED
  BY <1>1, ConcatProperties

LEMMA AmongRemoveAt ==
  ASSUME NEW S, NEW s \in Seq(S), NEW i \in DOMAIN s, NEW W
  PROVE  Among(s, W) = Among(RemoveAt(s, i), W) + (IF s[i] \in W THEN 1 ELSE 0)
<1>1. PICK a, b \in Seq(S) : RemoveAt(s, i) = a \o b /\ s = (a \o <<s[i]>>) \o b
  <2>1. PICK p : p \in Around(s, i, S)
    BY RemoveAtSplits, Zenon
  <2> QED
    BY <2>1 DEF Around
<1>2. <<s[i]>> \in Seq(S) /\ a \o <<s[i]>> \in Seq(S)
  <2>1. s[i] \in S
    BY LenProperties, ElementOfSeq
  <2> QED
    BY <2>1, ConcatProperties
<1>3. Among(a \o b, W) = Among(a, W) + Among(b, W)
  BY AmongConcat
<1>4. Among((a \o <<s[i]>>) \o b, W) = Among(a \o <<s[i]>>, W) + Among(b, W)
  BY <1>2, AmongConcat
<1>5. Among(a \o <<s[i]>>, W) = Among(a, W) + Among(<<s[i]>>, W)
  BY <1>2, AmongConcat
<1>6. Among(a, W) \in Nat /\ Among(b, W) \in Nat
  BY PlacesType
<1>7. Among(s, W) = Among((a \o <<s[i]>>) \o b, W) /\ Among(RemoveAt(s, i), W) = Among(a \o b, W)
  BY <1>1, Zenon
<1> QED
  BY <1>3, <1>4, <1>5, <1>6, <1>7, AmongOne
----------------------------------------------------------------------------
(* The entries that are kept                                               *)

\* What the recursive definition says of the first n entries.
KeptUpTo(s, S, f, n) ==
    IF n = 0 THEN << >>
    ELSE IF s[n] \in S THEN Append(f[n - 1], s[n]) ELSE f[n - 1]

IsKeeping(s, S, f, m) == f = [n \in 0 .. m |-> KeptUpTo(s, S, f, n)]

LEMMA KeepingExists ==
  ASSUME NEW s, NEW S, NEW m \in Nat
  PROVE  \E f : IsKeeping(s, S, f, m)
<1> DEFINE T == {k \in Nat : \E f : IsKeeping(s, S, f, k)}
<1>1. 0 \in T
  <2>1. IsKeeping(s, S, [n \in 0 .. 0 |-> << >>], 0)
    BY DEF IsKeeping, KeptUpTo
  <2> QED
    BY <2>1
<1>2. ASSUME NEW k \in 0 .. m - 1, k \in T
      PROVE  k + 1 \in T
  <2>1. PICK f : IsKeeping(s, S, f, k)
    BY <1>2
  <2>2. k \in Nat
    BY <1>2
  <2> DEFINE g == [n \in 0 .. k + 1 |->
                     IF n = k + 1 THEN KeptUpTo(s, S, f, k + 1) ELSE f[n]]
  <2>3. \A n \in 0 .. k : f[n] = KeptUpTo(s, S, f, n)
    BY <2>1, Zenon DEF IsKeeping
  <2>4. \A n \in 0 .. k : g[n] = f[n]
    BY <2>2
  <2>5. ASSUME NEW n \in 0 .. k + 1
        PROVE  g[n] = KeptUpTo(s, S, g, n)
    <3>1. n # 0 => n - 1 \in 0 .. k
      BY <2>2
    <3>2. n # 0 => g[n - 1] = f[n - 1]
      BY <2>4, <3>1
    <3>3. KeptUpTo(s, S, g, n) = KeptUpTo(s, S, f, n)
      BY <3>2 DEF KeptUpTo
    <3>4. n = k + 1 => g[n] = KeptUpTo(s, S, f, n)
      BY <2>2
    <3>5. n # k + 1 => n \in 0 .. k
      BY <2>2
    <3> QED
      BY <2>3, <2>4, <3>3, <3>4, <3>5
  <2>6. DOMAIN g = 0 .. k + 1 /\ g = [n \in 0 .. k + 1 |-> g[n]]
    OBVIOUS
  <2> HIDE DEF g
  <2>7. IsKeeping(s, S, g, k + 1)
    BY <2>5, <2>6 DEF IsKeeping
  <2> QED
    BY <2>2, <2>7
<1> HIDE DEF T
<1>3. 0 .. m \subseteq T
  BY <1>1, <1>2, Induction
<1>4. m \in T
  BY <1>3
<1> QED
  BY <1>4 DEF T

\* The kept entries are the entries of s in S, as often as they are there.
LEMMA KeptCounts ==
  ASSUME NEW T, NEW s \in Seq(T), NEW S
  PROVE  /\ Kept(s, S) \in Seq(T)
         /\ \A W : Among(Kept(s, S), W) = Among(s, S \cap W)
<1> DEFINE upTo[n \in 0 .. Len(s)] ==
             IF n = 0 THEN << >>
             ELSE IF s[n] \in S THEN Append(upTo[n - 1], s[n]) ELSE upTo[n - 1]
<1>1. Len(s) \in Nat /\ DOMAIN s = 1 .. Len(s) /\ \A n \in 1 .. Len(s) : s[n] \in T
  BY LenProperties, ElementOfSeq
<1>2. upTo = CHOOSE f : IsKeeping(s, S, f, Len(s))
  BY DEF IsKeeping, KeptUpTo
<1>3. Kept(s, S) = upTo[Len(s)]
  BY DEF Kept
<1> HIDE DEF upTo
<1>4. IsKeeping(s, S, upTo, Len(s))
  BY <1>1, <1>2, KeepingExists
<1>5. \A n \in 0 .. Len(s) : upTo[n] = KeptUpTo(s, S, upTo, n)
  BY <1>4, Zenon DEF IsKeeping
<1> DEFINE First(n, W) == {i \in 1 .. n : s[i] \in S \cap W}
           Good == {n \in 0 .. Len(s) :
                      /\ upTo[n] \in Seq(T)
                      /\ \A W : Among(upTo[n], W) = Cardinality(First(n, W))}
<1>6. 0 \in Good
  <2>1. upTo[0] = << >>
    BY <1>1, <1>5 DEF KeptUpTo
  <2>2. \A W : First(0, W) = {}
    OBVIOUS
  <2>3. << >> \in Seq(T)
    OBVIOUS
  <2>4. \A W : Among(<< >>, W) = 0
    BY <2>3, AmongNone
  <2> HIDE DEF First
  <2>5. \A W : Among(<< >>, W) = Cardinality(First(0, W))
    BY <2>2, <2>4, FS_EmptySet
  <2>6. upTo[0] \in Seq(T) /\ \A W : Among(upTo[0], W) = Cardinality(First(0, W))
    BY <2>1, <2>3, <2>5, Zenon
  <2>7. 0 \in 0 .. Len(s)
    BY <1>1
  <2> QED
    BY <2>6, <2>7, Zenon
<1>7. ASSUME NEW n \in 0 .. Len(s) - 1, n \in Good
      PROVE  n + 1 \in Good
  <2>1. n + 1 \in 1 .. Len(s) /\ n + 1 \in 0 .. Len(s) /\ n + 1 # 0 /\ n \in Nat
        /\ (n + 1) - 1 = n
    BY <1>1
  <2>2. upTo[n + 1] = IF s[n + 1] \in S THEN Append(upTo[n], s[n + 1]) ELSE upTo[n]
    BY <1>5, <2>1 DEF KeptUpTo
  <2>3. upTo[n] \in Seq(T) /\ s[n + 1] \in T
    BY <1>1, <1>7, <2>1
  <2>4. upTo[n + 1] \in Seq(T)
    BY <2>2, <2>3
  <2>5. ASSUME NEW W
        PROVE  Among(upTo[n + 1], W) = Cardinality(First(n + 1, W))
    <3>1. Among(upTo[n], W) = Cardinality(First(n, W))
      BY <1>7
    <3>2. IsFiniteSet(First(n, W)) /\ Cardinality(First(n, W)) \in Nat
      <4>1. IsFiniteSet(1 .. n) /\ First(n, W) \in SUBSET (1 .. n)
        BY <2>1, FS_Interval
      <4> QED
        BY <4>1, FS_Subset, FS_CardinalityType
    <3>3. CASE s[n + 1] \in S \cap W
      <4>1. First(n + 1, W) = First(n, W) \cup {n + 1} /\ n + 1 \notin First(n, W)
        BY <2>1, <3>3
      <4> HIDE DEF First
      <4>2. Cardinality(First(n + 1, W)) = Cardinality(First(n, W)) + 1
        BY <3>2, <4>1, FS_AddElement
      <4>3. Among(Append(upTo[n], s[n + 1]), W) = Among(upTo[n], W) + 1
        BY <2>3, <3>3, AmongAppend
      <4> QED
        BY <2>2, <3>1, <3>3, <4>2, <4>3
    <3>4. CASE s[n + 1] \notin S \cap W
      <4>1. First(n + 1, W) = First(n, W)
        BY <2>1, <3>4
      <4> HIDE DEF First
      <4>2. s[n + 1] \in S =>
              Among(Append(upTo[n], s[n + 1]), W) = Among(upTo[n], W) + 0
        BY <2>3, <3>4, AmongAppend
      <4>3. s[n + 1] \in S => Among(upTo[n + 1], W) = Among(upTo[n], W)
        BY <2>2, <3>1, <3>2, <4>2
      <4> QED
        BY <2>2, <3>1, <4>1, <4>3
    <3> QED
      BY <3>3, <3>4
  <2> HIDE DEF First
  <2> QED
    BY <2>1, <2>4, <2>5
<1> HIDE DEF Good
<1>8. 0 .. Len(s) \subseteq Good
  BY <1>1, <1>6, <1>7, Induction
<1>9. Len(s) \in Good
  BY <1>1, <1>8
<1>10. \A W : First(Len(s), W) = Places(s, S \cap W)
  BY <1>1 DEF Places
<1> HIDE DEF First
<1> QED
  BY <1>3, <1>9, <1>10 DEF Good, Among
----------------------------------------------------------------------------
(* Parts of the steps                                                      *)

\* More is composed and the table grows: what was in place stays in place.
LEMMA Grows ==
  ASSUME NEW c, NEW d, c \subseteq d, NEW t, NEW u, DOMAIN t \subseteq DOMAIN u,
         \A n \in DOMAIN t : u[n] = t[n]
  PROVE  /\ PacketOf(c) \subseteq PacketOf(d) /\ EventOf(t) \subseteq EventOf(u)
         /\ HandlerOf(c, t) \subseteq HandlerOf(d, u) /\ RowOf(t) \subseteq RowOf(u)
         /\ FetchOf(t) \subseteq FetchOf(u)
<1>1. PacketOf(c) \subseteq PacketOf(d)
  BY DEF PacketOf
<1>2. EventOf(t) \subseteq EventOf(u)
  BY DEF EventOf, Names
<1>3. HandlerOf(c, t) \subseteq HandlerOf(d, u)
  BY DEF HandlerOf, Names
<1>4. RowOf(t) \subseteq RowOf(u)
  BY DEF RowOf
<1>5. FetchOf(t) \subseteq FetchOf(u)
  <2>1. Seq(DOMAIN t) \subseteq Seq(DOMAIN u)
    BY SeqMonotonic
  <2> QED
    BY <2>1 DEF FetchOf
<1> QED
  BY <1>1, <1>2, <1>3, <1>4, <1>5

LEMMA WiderType ==
  ASSUME NEW S, NEW T, S \subseteq T, NEW s \in Seq(S)
  PROVE  s \in Seq(T)
BY SeqMonotonic

\* The account is never overdrawn by a step that composes nothing and takes
\* from one place what it adds to another.
LEMMA AccountKept ==
  ASSUME Account, UNCHANGED composed,
         \A m \in Msgs : Outstanding(m) \in Nat /\ Outstanding(m)' \in Nat
                         /\ Outstanding(m)' <= Outstanding(m)
  PROVE  Account'
<1> SUFFICES ASSUME NEW m \in Msgs
             PROVE  Outstanding(m)' <= (IF m \in composed THEN Tries[m] ELSE 0)'
  BY Zenon DEF Account
<1>1. Outstanding(m) <= IF m \in composed THEN Tries[m] ELSE 0
  BY DEF Account
<1>2. (IF m \in composed THEN Tries[m] ELSE 0) \in Nat
  BY DEF Tries
<1>3. (IF m \in composed THEN Tries[m] ELSE 0)' = IF m \in composed THEN Tries[m] ELSE 0
  BY DEF Tries
<1> QED
  BY <1>1, <1>2, <1>3

LEMMA SentIsAnAttempt ==
  ASSUME NEW op \in {"dm", "channel"}, NEW m, NEW n
  PROVE  Packet(op, m) \in Attempts(n) <=> m = n
<1> DEFINE ops == {"dm", "channel"} \cup IF n \in Repeatable THEN {"retry"} ELSE {}
<1>1. op \in ops
  OBVIOUS
<1>2. Attempts(n) = [op : ops, m : {n}]
  BY DEF Attempts
<1> HIDE DEF ops
<1> QED
  BY <1>1, <1>2 DEF Packet

LEMMA SumsAreNat == \A a, b, c \in Nat : a + b \in Nat /\ a + b + c \in Nat
OBVIOUS

LEMMA BoundType == Bound \in Nat
BY BoundsAssumption DEF Bound

\* The five numbers of the account.
LEMMA Numbers ==
  ASSUME Contents, NEW m
  PROVE  /\ Among(stored, {m}) \in Nat /\ Among(handlers, Creating(m)) \in Nat
         /\ Among(net, Attempts(m)) \in Nat /\ Among(buffer, Attempts(m)) \in Nat
         /\ Among(queue, {m} \cap Repeatable) \in Nat
BY PlacesType DEF Contents

\* What is emitted goes to the server or is kept, once.
LEMMA EmitCounts ==
  ASSUME Contents, NEW c, composed \subseteq c, NEW packets \in Seq(PacketOf(c)), Emit(packets)
  PROVE  /\ net' \in Seq(PacketOf(c)) /\ buffer' \in Seq(PacketOf(c))
         /\ up => buffer' = buffer
         /\ ~ up => net' = net
         /\ \A W : Among(net', W) + Among(buffer', W)
                     = Among(net, W) + Among(buffer, W) + Among(packets, W)
<1>1. net \in Seq(PacketOf(c)) /\ buffer \in Seq(PacketOf(c))
  <2>1. PacketOf(composed) \subseteq PacketOf(c)
    BY DEF PacketOf
  <2> QED
    BY <2>1, WiderType DEF Contents
<1>2. \A W : /\ Among(net, W) \in Nat /\ Among(buffer, W) \in Nat /\ Among(packets, W) \in Nat
             /\ Among(net \o packets, W) = Among(net, W) + Among(packets, W)
             /\ Among(buffer \o packets, W) = Among(buffer, W) + Among(packets, W)
  BY <1>1, PlacesType, AmongConcat
<1>3. CASE up
  <2>1. net' = net \o packets /\ buffer' = buffer
    BY <1>3 DEF Emit
  <2> QED
    BY <1>1, <1>2, <1>3, <2>1, ConcatProperties
<1>4. CASE ~ up
  <2>1. buffer' = buffer \o packets /\ net' = net
    BY <1>4 DEF Emit
  <2> QED
    BY <1>1, <1>2, <1>4, <2>1, ConcatProperties
<1> QED
  BY <1>3, <1>4

\* Joining a room is no attempt to store anything.
LEMMA Joining ==
  ASSUME NEW c
  PROVE  /\ <<Packet("join", None)>> \in Seq(PacketOf(c))
         /\ \A m : Among(<<Packet("join", None)>>, Attempts(m)) = 0
<1>1. Packet("join", None) \in PacketOf(c)
  BY DEF Packet, PacketOf
<1>2. \A m : Packet("join", None) \notin Attempts(m)
  BY DEF Packet, Attempts
<1> QED
  BY <1>1, <1>2, AmongOne

LEMMA Asking ==
  ASSUME fetches \subseteq FetchOf(stored), NEW k \in {"dm", "channel"}, Ask(k)
  PROVE  fetches' \subseteq FetchOf(stored)
BY DEF Ask, FetchOf

\* A lost connection takes what was on it; the handlers go on.
LEMMA Severed ==
  ASSUME Contents, Sever
  PROVE  /\ handlers' \in Seq(HandlerOf(composed, stored))
         /\ \A m : Among(handlers', Creating(m)) = Among(handlers, Creating(m))
         /\ net' = << >> /\ down' = << >> /\ up' = FALSE
         /\ ~ server.listening' /\ ~ server.inRoom'
         /\ handlers' \in Seq(Orphan)
<1>1. handlers \in Seq(HandlerOf(composed, stored)) /\ Len(handlers) \in Nat
      /\ composed \subseteq Msgs
      /\ DOMAIN handlers = 1 .. Len(handlers)
      /\ \A i \in DOMAIN handlers : handlers[i] \in HandlerOf(composed, stored)
  BY LenProperties, ElementOfSeq DEF Contents
<1> DEFINE left(i) == [handlers[i] EXCEPT !.orphan = TRUE]
<1>2. \A i \in DOMAIN handlers : /\ left(i) \in HandlerOf(composed, stored)
                                 /\ \A m : left(i) \in Creating(m) <=> handlers[i] \in Creating(m)
                                 /\ left(i) \in Orphan
  BY <1>1 DEF HandlerOf, Creating, Names, Orphan
<1>3. handlers' = [i \in 1 .. Len(handlers) |-> left(i)]
  BY <1>1 DEF Sever
<1> HIDE DEF left
<1>4. handlers' \in Seq(HandlerOf(composed, stored)) /\ handlers' \in Seq(Orphan)
  BY <1>1, <1>2, <1>3
<1>5. ASSUME NEW m PROVE Among(handlers', Creating(m)) = Among(handlers, Creating(m))
  <2>1. DOMAIN handlers' = DOMAIN handlers
        /\ \A i \in DOMAIN handlers' : handlers'[i] \in Creating(m) <=> handlers[i] \in Creating(m)
    BY <1>1, <1>2, <1>3
  <2> QED
    BY <2>1, AmongSame
<1> QED
  BY <1>4, <1>5 DEF Sever
LEMMA LeastIsThere ==
  ASSUME NEW T, T \subseteq Nat, T # {}
  PROVE  Min(T) \in T
BY LeastNumber DEF Min

\* An incoming row of the table stays true of the list, and the queue loses
\* nothing but what it names.
LEMMA AddedMessage ==
  ASSUME Contents, NEW new \in RowOf(stored),
         new.id \in DOMAIN stored, new.tempId \in Msgs, stored[new.id] = new.tempId,
         addMessage(new)
  PROVE  /\ rows' \in Seq(RowOf(stored)) /\ queue' \in Seq(composed)
         /\ \A W : Among(queue', W) <= Among(queue, W)
         /\ \A m \in Msgs \ {new.tempId} : Among(queue', {m}) = Among(queue, {m})
<1> DEFINE found == {i \in DOMAIN rows : Matches(rows[i], new)}
           i == Min(found)
           gone == {rows[i].id, new.id, new.tempId}
<1>1. /\ rows \in Seq(RowOf(stored)) /\ DOMAIN rows = 1 .. Len(rows) /\ Len(rows) \in Nat
      /\ \A j \in DOMAIN rows : rows[j] \in RowOf(stored)
      /\ queue \in Seq(composed) /\ stored \in Seq(composed) /\ composed \subseteq Msgs
  BY LenProperties, ElementOfSeq DEF Contents
<1>2. \A W : Among(queue, W) \in Nat
  BY <1>1, PlacesType
<1>3. CASE found = {}
  <2>1. rows' = Append(rows, new) /\ queue' = queue
    BY <1>3 DEF addMessage
  <2> QED
    BY <1>1, <1>2, <2>1, AppendProperties
<1>4. CASE found # {}
  <2>1. i \in found
    <3>1. found \subseteq Nat
      BY <1>1
    <3> QED
      BY <1>4, <3>1, LeastIsThere
  <2> HIDE DEF i
  <2>2. i \in DOMAIN rows /\ Matches(rows[i], new) /\ rows[i] \in RowOf(stored)
    BY <1>1, <2>1
  <2> DEFINE row == [id |-> new.id,
                     tempId |-> IF new.tempId = None THEN rows[i].tempId ELSE new.tempId]
  <2>3. row \in RowOf(stored)
    BY <2>2, MsgsAssumption DEF RowOf
  <2>4. rows' = [rows EXCEPT ![i] = row] /\ queue' = Kept(queue, Msgs \ gone)
    BY <1>4 DEF addMessage, i
  <2> HIDE DEF row
  <2>5. rows' \in Seq(RowOf(stored))
    BY <1>1, <2>2, <2>3, <2>4, ExceptSeq
  <2>6. queue' \in Seq(composed)
        /\ \A W : Among(queue', W) = Among(queue, (Msgs \ gone) \cap W)
    BY <1>1, <2>4, KeptCounts
  <2>7. ASSUME NEW W PROVE Among(queue', W) <= Among(queue, W)
    <3>1. Places(queue, (Msgs \ gone) \cap W) \in SUBSET Places(queue, W)
      BY DEF Places
    <3>2. IsFiniteSet(Places(queue, W))
      BY <1>1, PlacesType
    <3> QED
      BY <2>6, <3>1, <3>2, FS_Subset DEF Among
  <2>8. ASSUME NEW m \in Msgs \ {new.tempId}
        PROVE  Among(queue', {m}) = Among(queue, {m})
    <3>1. stored[new.id] \in Msgs /\ new.id \in Nat
      BY <1>1, LenProperties
    <3>2. rows[i].id = m => FALSE
      <4> SUFFICES ASSUME rows[i].id = m PROVE FALSE
        OBVIOUS
      <4>1. m \notin Nat /\ m # None /\ m \notin DOMAIN stored
        BY <1>1, LenProperties, MsgsAssumption
      <4>2. rows[i].tempId = m
        BY <2>2, <4>1 DEF RowOf
      <4> QED
        BY <2>2, <3>1, <4>1, <4>2, MsgsAssumption DEF Matches
    <3>3. m \in Msgs \ gone
      BY <3>1, <3>2, MsgsAssumption
    <3>4. (Msgs \ gone) \cap {m} = {m}
      BY <3>3
    <3> QED
      BY <2>6, <3>4
  <2> QED
    BY <2>5, <2>6, <2>7, <2>8
<1> QED
  BY <1>3, <1>4

\* The acknowledgement gives a row the id of its own message.
LEMMA UpdatedId ==
  ASSUME Contents, NEW m \in Msgs, NEW n \in DOMAIN stored, stored[n] = m,
         updateRealMessageId(m, n)
  PROVE  rows' \in Seq(RowOf(stored))
<1> DEFINE new(i) == IF m \in {rows[i].tempId, rows[i].id}
                       THEN [rows[i] EXCEPT !.id = n] ELSE rows[i]
<1>1. /\ rows \in Seq(RowOf(stored)) /\ DOMAIN rows = 1 .. Len(rows) /\ Len(rows) \in Nat
      /\ \A i \in DOMAIN rows : rows[i] \in RowOf(stored)
      /\ DOMAIN stored \subseteq Nat
  BY LenProperties, ElementOfSeq DEF Contents
<1>2. ASSUME NEW i \in DOMAIN rows PROVE new(i) \in RowOf(stored)
  <2>1. rows[i] \in RowOf(stored)
    BY <1>1
  <2>2. rows[i].id = m => rows[i].tempId = m
    BY <1>1, <2>1, MsgsAssumption DEF RowOf
  <2>3. CASE m \in {rows[i].tempId, rows[i].id}
    BY <2>1, <2>2, <2>3 DEF RowOf
  <2> QED
    BY <2>1, <2>3
<1>3. rows' = [i \in 1 .. Len(rows) |-> new(i)]
  BY <1>1 DEF updateRealMessageId
<1> HIDE DEF new
<1> QED
  BY <1>1, <1>2, <1>3
----------------------------------------------------------------------------
(* The steps                                                               *)

\* Arming a timer and losing a connection, in the units of Bound.
LEMMA ConnectKeeps ==
  ASSUME IInv, Connect
  PROVE  IInv'
<1> DEFINE joins == IF view.peer THEN <<Packet("join", None)>> ELSE << >>
<1>1. /\ ~ up /\ up' = TRUE /\ buffer' = << >> /\ net = << >> /\ net' = buffer \o joins
      /\ timers' = [timers EXCEPT !.own = @ + 1]
      /\ UNCHANGED <<view, rows, queue, composed, down, handlers, stored, budget>>
  BY DEF Connect, IInv, Wires
<1>2. fetches' \subseteq FetchOf(stored)
  <2>1. fetches \subseteq FetchOf(stored)
    BY DEF IInv, Contents
  <2> QED
    BY <2>1, Asking DEF Connect
<1>3. joins \in Seq(PacketOf(composed)) /\ \A m : Among(joins, Attempts(m)) = 0
  <2>1. << >> \in Seq(PacketOf(composed))
    OBVIOUS
  <2> QED
    BY <2>1, Joining, AmongNone
<1> HIDE DEF joins
<1>4. Contents'
  BY <1>1, <1>2, <1>3, ConcatProperties DEF IInv, Contents
<1>5. Wires'
  BY <1>1 DEF IInv, Wires, Connect
<1>6. Timers'
  <2>1. /\ timers' = [timers EXCEPT !.own = @ + 1] /\ UNCHANGED budget /\ up' /\ ~ up
    BY <1>1
  <2> QED
    BY <2>1, BoundType DEF IInv, Timers
<1>7. Account'
  <2>1. ASSUME NEW m \in Msgs
        PROVE  /\ Outstanding(m) \in Nat /\ Outstanding(m)' \in Nat
               /\ Outstanding(m)' <= Outstanding(m)
    <3>1. Among(net', Attempts(m)) = Among(buffer, Attempts(m)) + 0
      BY <1>1, <1>3, AmongConcat DEF IInv, Contents
    <3>2. Among(net, Attempts(m)) = 0 /\ Among(buffer', Attempts(m)) = 0
      BY <1>1, AmongNone DEF IInv, Contents
    <3>3. Outstanding(m)' = Among(stored', {m}) + Among(handlers', Creating(m))
            + Among(net', Attempts(m)) + Among(buffer', Attempts(m))
            + Among(queue', {m} \cap Repeatable)
      BY DEF Outstanding
    <3>4. Contents
      BY DEF IInv
    <3>5. UNCHANGED <<stored, handlers, queue>>
      BY <1>1
    <3> QED
      BY <3>1, <3>2, <3>3, <3>4, <3>5, Numbers DEF Outstanding
  <2> QED
    BY <1>1, <2>1, AccountKept DEF IInv
<1> QED
  BY <1>4, <1>5, <1>6, <1>7 DEF IInv

\* The socket, the page or both are lost: whatever goes, nothing is added.
LEMMA LossKeeps ==
  ASSUME IInv, Sever, UNCHANGED <<composed, stored, queue>>,
         view' \in [peer : BOOLEAN, room : BOOLEAN, channel : BOOLEAN],
         rows' \in Seq(RowOf(stored)), fetches' \subseteq FetchOf(stored),
         buffer' \in {buffer, << >>}, up => buffer' = << >>, Timers'
  PROVE  IInv'
<1>1. /\ handlers' \in Seq(HandlerOf(composed, stored))
      /\ \A m : Among(handlers', Creating(m)) = Among(handlers, Creating(m))
      /\ net' = << >> /\ down' = << >> /\ up' = FALSE
      /\ ~ server.listening' /\ ~ server.inRoom'
      /\ handlers' \in Seq(Orphan)
  BY Severed DEF IInv
<1>2. << >> \in Seq(PacketOf(composed)) /\ << >> \in Seq(EventOf(stored))
  OBVIOUS
<1>3. Contents'
  BY <1>1, <1>2 DEF IInv, Contents
<1>4. Wires'
  BY <1>1 DEF IInv, Wires
<1>5. Account'
  <2>1. ASSUME NEW m \in Msgs
        PROVE  /\ Outstanding(m) \in Nat /\ Outstanding(m)' \in Nat
               /\ Outstanding(m)' <= Outstanding(m)
    <3>1. Among(net', Attempts(m)) = 0 /\ Among(<< >>, Attempts(m)) = 0
      BY <1>1, <1>2, AmongNone
    <3>2. buffer' = buffer \/ Among(buffer', Attempts(m)) = 0
      BY <3>1
    <3>3. /\ Among(stored, {m}) \in Nat /\ Among(handlers, Creating(m)) \in Nat
          /\ Among(net, Attempts(m)) \in Nat /\ Among(buffer, Attempts(m)) \in Nat
          /\ Among(queue, {m} \cap Repeatable) \in Nat
      BY Numbers DEF IInv
    <3>4. /\ UNCHANGED <<stored, queue>> /\ Among(handlers', Creating(m)) = Among(handlers, Creating(m))
          /\ Among(net', Attempts(m)) = 0
      BY <1>1, <3>1
    <3>5. PICK o, h, n, b, q \in Nat :
            /\ o = Among(stored, {m}) /\ h = Among(handlers, Creating(m))
            /\ n = Among(net, Attempts(m)) /\ b = Among(buffer, Attempts(m))
            /\ q = Among(queue, {m} \cap Repeatable)
      BY <3>3
    <3>6. Outstanding(m) = o + h + n + b + q
      BY <3>5 DEF Outstanding
    <3>7. Outstanding(m)' = o + h + 0 + b + q \/ Outstanding(m)' = o + h + 0 + 0 + q
      BY <3>2, <3>4, <3>5 DEF Outstanding
    <3> QED
      BY <3>6, <3>7
  <2> QED
    BY <2>1, AccountKept DEF IInv
<1> QED
  BY <1>3, <1>4, <1>5 DEF IInv

LEMMA DropKeeps ==
  ASSUME IInv, Drop
  PROVE  IInv'
<1>1. /\ up /\ budget.losses > 0 /\ budget' = [budget EXCEPT !.losses = @ - 1] /\ Sever
      /\ UNCHANGED <<view, rows, queue, composed, fetches, buffer, timers, stored>>
  BY DEF Drop, client
<1>2. Timers'
  <2>1. /\ timers \in [own : Nat, stale : Nat] /\ budget.losses \in Nat /\ budget.moves \in Nat
        /\ timers.own + timers.stale + budget.losses <= Bound
    BY <1>1, BoundType DEF IInv, Timers
  <2>2. budget' \in [losses : Nat, moves : Nat] /\ budget'.losses = budget.losses - 1
    BY <1>1, <2>1 DEF IInv, Timers
  <2>3. ~ up'
    BY <1>1 DEF Sever
  <2> QED
    BY <1>1, <2>1, <2>2, <2>3, BoundType DEF Timers
<1> QED
  BY <1>1, <1>2, LossKeeps DEF IInv, Contents, Wires

LEMMA RenewKeeps ==
  ASSUME IInv, Renew
  PROVE  IInv'
<1>1. /\ budget.losses > 0 /\ budget' = [budget EXCEPT !.losses = @ - 1] /\ Sever
      /\ buffer' = << >> /\ timers' = [own |-> 0, stale |-> timers.own + timers.stale]
      /\ UNCHANGED <<view, rows, queue, composed, stored>>
  BY DEF Renew
<1>2. Timers'
  <2>1. /\ timers.own \in Nat /\ timers.stale \in Nat /\ budget.losses \in Nat /\ budget.moves \in Nat
        /\ timers.own + timers.stale + budget.losses <= Bound
    BY BoundType DEF IInv, Timers
  <2>2. budget' \in [losses : Nat, moves : Nat] /\ budget'.losses = budget.losses - 1
    BY <1>1, <2>1 DEF IInv, Timers
  <2>3. /\ timers' \in [own : Nat, stale : Nat] /\ ~ up'
        /\ timers'.own = 0 /\ timers'.stale = timers.own + timers.stale
    BY <1>1, <2>1 DEF Sever
  <2> QED
    BY <2>1, <2>2, <2>3, BoundType DEF Timers
<1>3. fetches' \subseteq FetchOf(stored)
  <2>1. fetches \subseteq FetchOf(stored)
    BY DEF IInv, Contents
  <2> QED
    BY <2>1, Asking DEF Renew
<1> QED
  BY <1>1, <1>2, <1>3, LossKeeps DEF IInv, Contents

LEMMA ReloadKeeps ==
  ASSUME IInv, Reload
  PROVE  IInv'
<1>1. /\ budget.losses > 0 /\ budget' = [budget EXCEPT !.losses = @ - 1] /\ Sever
      /\ view' = [peer |-> FALSE, room |-> FALSE, channel |-> FALSE]
      /\ rows' = << >> /\ fetches' = {}
      /\ buffer' = << >> /\ timers' = [own |-> 0, stale |-> 0]
      /\ UNCHANGED <<queue, composed, stored>>
  BY DEF Reload
<1>2. Timers'
  BY <1>1, BoundType DEF IInv, Timers, Sever
<1>3. << >> \in Seq(RowOf(stored))
  OBVIOUS
<1> QED
  BY <1>1, <1>2, <1>3, LossKeeps

LEMMA ServerReadyKeeps ==
  ASSUME IInv, Listen \/ RejoinChannels
  PROVE  IInv'
<1>1. /\ UNCHANGED <<view, rows, queue, composed, fetches, up, buffer, net, timers, down,
                     handlers, stored, budget>>
      /\ up
  BY DEF Listen, RejoinChannels, client, link, IInv, Wires
<1>2. Contents' /\ Wires' /\ Timers'
  BY <1>1 DEF IInv, Contents, Wires, Timers
<1>3. Account'
  BY <1>1 DEF IInv, Account, Outstanding, Among, Places, Tries
<1> QED
  BY <1>2, <1>3 DEF IInv
\* The account when nothing under way has changed.
LEMMA AccountIdle ==
  ASSUME Account, UNCHANGED <<composed, stored, handlers, net, buffer, queue>>
  PROVE  Account'
BY DEF Account, Outstanding, Among, Places, Tries

LEMMA MoveKeeps ==
  ASSUME IInv, SelectUser \/ SelectChannel
  PROVE  IInv'
<1>1. /\ budget.moves > 0 /\ budget' = [budget EXCEPT !.moves = @ - 1]
      /\ rows' = << >> /\ UNCHANGED server
      /\ UNCHANGED <<queue, composed, up, timers, down, handlers, stored>>
  BY DEF SelectUser, SelectChannel, Move
<1>2. view' \in [peer : BOOLEAN, room : BOOLEAN, channel : BOOLEAN]
  <2>1. \/ view' = [peer |-> TRUE, room |-> FALSE, channel |-> FALSE]
        \/ view' = [peer |-> FALSE, room |-> FALSE, channel |-> TRUE]
    BY Zenon DEF SelectUser, SelectChannel
  <2> DEFINE View == [peer : BOOLEAN, room : BOOLEAN, channel : BOOLEAN]
  <2>2. /\ [peer |-> TRUE, room |-> FALSE, channel |-> FALSE] \in View
        /\ [peer |-> FALSE, room |-> FALSE, channel |-> TRUE] \in View
    OBVIOUS
  <2> HIDE DEF View
  <2>3. view' \in View
    BY <2>1, <2>2, Zenon
  <2> QED
    BY <2>3 DEF View
<1>3. fetches' \subseteq FetchOf(stored)
  <2>1. fetches \subseteq FetchOf(stored)
    BY DEF IInv, Contents
  <2> QED
    BY <2>1, Asking DEF SelectUser, SelectChannel
<1>4. Timers'
  <2>1. UNCHANGED <<up, timers>> /\ budget.moves > 0 /\ budget' = [budget EXCEPT !.moves = @ - 1]
    BY <1>1
  <2> QED
    BY <2>1 DEF IInv, Timers
<1>5. << >> \in Seq(RowOf(stored))
  OBVIOUS
<1>6. CASE SelectUser
  <2>1. Emit(<<Packet("join", None)>>)
    BY <1>6 DEF SelectUser
  <2>2. /\ net' \in Seq(PacketOf(composed)) /\ buffer' \in Seq(PacketOf(composed))
        /\ up => buffer' = buffer
        /\ ~ up => net' = net
        /\ \A W : Among(net', W) + Among(buffer', W)
                    = Among(net, W) + Among(buffer, W) + Among(<<Packet("join", None)>>, W)
    BY <2>1, Joining, EmitCounts DEF IInv
  <2>3. Contents'
    BY <1>1, <1>2, <1>3, <1>5, <2>2 DEF IInv, Contents
  <2>4. Wires'
    BY <1>1, <2>2 DEF IInv, Wires
  <2>5. Account'
    <3>1. ASSUME NEW m \in Msgs
          PROVE  /\ Outstanding(m) \in Nat /\ Outstanding(m)' \in Nat
                 /\ Outstanding(m)' <= Outstanding(m)
      <4>1. Among(net', Attempts(m)) + Among(buffer', Attempts(m))
              = Among(net, Attempts(m)) + Among(buffer, Attempts(m)) + 0
        BY <2>2, Joining
      <4>2. Among(net', Attempts(m)) \in Nat /\ Among(buffer', Attempts(m)) \in Nat
        BY <2>2, PlacesType
      <4>3. UNCHANGED <<stored, handlers, queue>>
        BY <1>1
      <4>4. Contents
        BY DEF IInv
      <4> QED
        BY <4>1, <4>2, <4>3, <4>4, Numbers DEF Outstanding
    <3> QED
      BY <1>1, <3>1, AccountKept DEF IInv
  <2> QED
    BY <1>4, <2>3, <2>4, <2>5 DEF IInv
<1>7. CASE SelectChannel
  <2>1. UNCHANGED <<buffer, net>>
    BY <1>7 DEF SelectChannel
  <2>2. Contents'
    BY <1>1, <1>2, <1>3, <1>5, <2>1 DEF IInv, Contents
  <2>3. Wires'
    BY <1>1, <2>1 DEF IInv, Wires
  <2>4. Account'
    BY <1>1, <2>1, AccountIdle DEF IInv
  <2> QED
    BY <1>4, <2>2, <2>3, <2>4 DEF IInv
<1> QED
  BY <1>6, <1>7

\* A message is tried at once, and if it can be retried queued for one more try.
LEMMA SendKeeps ==
  ASSUME IInv, NEW m \in Msgs, sendMessage(m)
  PROVE  IInv'
<1> DEFINE c == composed \cup {m}
<1>1. /\ m \notin composed /\ composed' = c
      /\ rows' = Append(rows, [id |-> m, tempId |-> m]) /\ queue' = Append(queue, m)
      /\ UNCHANGED <<view, fetches, up, timers, down, server, handlers, stored, budget>>
  BY DEF sendMessage, addPendingMessage
<1>2. PICK op \in {"dm", "channel"} : Emit(<<Packet(op, m)>>)
  BY DEF sendMessage
<1>3. /\ rows \in Seq(RowOf(stored)) /\ queue \in Seq(composed) /\ stored \in Seq(composed)
      /\ handlers \in Seq(HandlerOf(composed, stored)) /\ composed \subseteq Msgs
  BY DEF IInv, Contents
<1>4. /\ composed \subseteq c /\ c \subseteq Msgs
      /\ PacketOf(composed) \subseteq PacketOf(c)
      /\ HandlerOf(composed, stored) \subseteq HandlerOf(c, stored)
  BY <1>3 DEF PacketOf, HandlerOf
<1>5. Packet(op, m) \in PacketOf(c) /\ [id |-> m, tempId |-> m] \in RowOf(stored)
  BY MsgsAssumption DEF Packet, PacketOf, RowOf
<1>6. <<Packet(op, m)>> \in Seq(PacketOf(c))
  BY <1>5
<1>7. /\ net' \in Seq(PacketOf(c)) /\ buffer' \in Seq(PacketOf(c))
      /\ up => buffer' = buffer
      /\ ~ up => net' = net
      /\ \A W : Among(net', W) + Among(buffer', W)
                  = Among(net, W) + Among(buffer, W) + Among(<<Packet(op, m)>>, W)
  BY <1>2, <1>4, <1>6, EmitCounts DEF IInv
<1>8. /\ queue \in Seq(c) /\ stored \in Seq(c) /\ handlers \in Seq(HandlerOf(c, stored))
      /\ Append(queue, m) \in Seq(c)
      /\ Append(rows, [id |-> m, tempId |-> m]) \in Seq(RowOf(stored))
  <2>1. queue \in Seq(c) /\ stored \in Seq(c) /\ handlers \in Seq(HandlerOf(c, stored))
    BY <1>3, <1>4, WiderType
  <2> QED
    BY <1>3, <1>5, <2>1, AppendProperties
<1>9. Contents'
  BY <1>1, <1>4, <1>7, <1>8 DEF IInv, Contents
<1>10. Wires'
  BY <1>1, <1>7 DEF IInv, Wires
<1>11. Timers'
  <2>1. UNCHANGED <<up, timers, budget>>
    BY <1>1
  <2> QED
    BY <2>1 DEF IInv, Timers
<1>12. Account'
  <2> SUFFICES ASSUME NEW n \in Msgs
               PROVE  Outstanding(n)' <= (IF n \in composed THEN Tries[n] ELSE 0)'
    BY Zenon DEF Account
  <2> DEFINE before == IF n \in composed THEN Tries[n] ELSE 0
             A == Attempts(n)
             Q == {n} \cap Repeatable
  <2>1. Outstanding(n) <= before /\ before \in Nat
    BY DEF IInv, Account, Tries
  <2>2. Among(net', A) + Among(buffer', A)
          = Among(net, A) + Among(buffer, A) + Among(<<Packet(op, m)>>, A)
    BY <1>7
  <2>3. Among(<<Packet(op, m)>>, A) = IF m = n THEN 1 ELSE 0
    <3>1. Packet(op, m) \in A <=> m = n
      BY SentIsAnAttempt
    <3> QED
      BY <3>1, AmongOne
  <2>4. Among(queue', Q) = Among(queue, Q) + (IF m = n /\ n \in Repeatable THEN 1 ELSE 0)
    <3>1. Among(Append(queue, m), Q) = Among(queue, Q) + (IF m \in Q THEN 1 ELSE 0)
      <4>1. PICK W : W = Q
        OBVIOUS
      <4>2. Among(Append(queue, m), W) = Among(queue, W) + (IF m \in W THEN 1 ELSE 0)
        BY <1>8, AmongAppend
      <4> QED
        BY <4>1, <4>2
    <3>2. m \in Q <=> m = n /\ n \in Repeatable
      OBVIOUS
    <3> HIDE DEF Q
    <3> QED
      BY <1>1, <3>1, <3>2
  <2>5. Among(net', A) \in Nat /\ Among(buffer', A) \in Nat
    BY <1>7, PlacesType
  <2>6. UNCHANGED <<stored, handlers>>
    BY <1>1
  <2>7. /\ Among(stored, {n}) \in Nat /\ Among(handlers, Creating(n)) \in Nat
        /\ Among(net, A) \in Nat /\ Among(buffer, A) \in Nat /\ Among(queue, Q) \in Nat
    BY Numbers DEF IInv
  <2>8. Outstanding(n) = Among(stored, {n}) + Among(handlers, Creating(n))
                           + Among(net, A) + Among(buffer, A) + Among(queue, Q)
    BY DEF Outstanding
  <2>9. Outstanding(n)' = Among(stored, {n}) + Among(handlers, Creating(n))
                            + Among(net', A) + Among(buffer', A) + Among(queue', Q)
    BY <2>6 DEF Outstanding
  <2> HIDE DEF A, Q
  <2>10. CASE n # m
    <3>1. (IF n \in composed THEN Tries[n] ELSE 0)' = before
      BY <1>1, <2>10 DEF Tries
    <3> HIDE DEF before
    <3> QED
      BY <2>1, <2>2, <2>3, <2>4, <2>5, <2>7, <2>8, <2>9, <2>10, <3>1
  <2>11. CASE n = m
    <3>1. before = 0
      BY <1>1, <2>11
    <3>2. (IF n \in composed THEN Tries[n] ELSE 0)' = IF n \in Repeatable THEN 2 ELSE 1
      BY <1>1, <2>11 DEF Tries, Repeatable
    <3> HIDE DEF before
    <3> QED
      BY <2>1, <2>2, <2>3, <2>4, <2>5, <2>7, <2>8, <2>9, <2>11, <3>1, <3>2
  <2> QED
    BY <2>10, <2>11
<1> QED
  BY <1>9, <1>10, <1>11, <1>12 DEF IInv
LEMMA FlushKeeps ==
  ASSUME IInv, Flush
  PROVE  IInv'
<1> DEFINE packets == [i \in DOMAIN queue |-> Packet("retry", queue[i])]
<1>1. /\ timers.own > 0 /\ timers' = [timers EXCEPT !.own = @ - 1]
      /\ Emit(packets) /\ queue' = << >>
      /\ UNCHANGED <<view, rows, composed, fetches, up, down, server, handlers, stored, budget>>
  BY DEF Flush
<1>2. /\ queue \in Seq(composed) /\ Len(queue) \in Nat /\ DOMAIN queue = 1 .. Len(queue)
      /\ \A i \in DOMAIN queue : queue[i] \in composed
  BY LenProperties, ElementOfSeq DEF IInv, Contents
<1>3. packets \in Seq(PacketOf(composed)) /\ DOMAIN packets = DOMAIN queue
  <2>1. \A i \in DOMAIN queue : Packet("retry", queue[i]) \in PacketOf(composed)
    BY <1>2 DEF Packet, PacketOf
  <2> QED
    BY <1>2, <2>1
<1>4. ASSUME NEW m PROVE Among(packets, Attempts(m)) = Among(queue, {m} \cap Repeatable)
  <2>1. \A i \in DOMAIN packets : packets[i] \in Attempts(m) <=> queue[i] \in {m} \cap Repeatable
    BY <1>3 DEF Packet, Attempts
  <2> QED
    BY <1>3, <2>1, AmongSame
<1> HIDE DEF packets
<1>5. /\ net' \in Seq(PacketOf(composed)) /\ buffer' \in Seq(PacketOf(composed))
      /\ up => buffer' = buffer
      /\ ~ up => net' = net
      /\ \A W : Among(net', W) + Among(buffer', W)
                  = Among(net, W) + Among(buffer, W) + Among(packets, W)
  BY <1>1, <1>3, EmitCounts DEF IInv
<1>6. << >> \in Seq(composed)
  OBVIOUS
<1>7. Contents'
  BY <1>1, <1>5, <1>6 DEF IInv, Contents
<1>8. Wires'
  BY <1>1, <1>5 DEF IInv, Wires
<1>9. Timers'
  <2>1. /\ timers.own > 0 /\ timers' = [timers EXCEPT !.own = @ - 1]
        /\ UNCHANGED <<up, budget>>
    BY <1>1
  <2> QED
    BY <2>1, BoundType DEF IInv, Timers
<1>10. Account'
  <2>1. ASSUME NEW m \in Msgs
        PROVE  /\ Outstanding(m) \in Nat /\ Outstanding(m)' \in Nat
               /\ Outstanding(m)' <= Outstanding(m)
    <3>1. Among(net', Attempts(m)) + Among(buffer', Attempts(m))
            = Among(net, Attempts(m)) + Among(buffer, Attempts(m))
              + Among(queue, {m} \cap Repeatable)
      BY <1>4, <1>5
    <3>2. Among(net', Attempts(m)) \in Nat /\ Among(buffer', Attempts(m)) \in Nat
      BY <1>5, PlacesType
    <3>3. UNCHANGED <<stored, handlers>> /\ Among(queue', {m} \cap Repeatable) = 0
      BY <1>1, <1>2, AmongNone
    <3>4. Contents
      BY DEF IInv
    <3> QED
      BY <3>1, <3>2, <3>3, <3>4, Numbers DEF Outstanding
  <2> QED
    BY <1>1, <2>1, AccountKept DEF IInv
<1> QED
  BY <1>7, <1>8, <1>9, <1>10 DEF IInv

LEMMA FlushStaleKeeps ==
  ASSUME IInv, FlushStale
  PROVE  IInv'
<1>1. /\ timers.stale > 0 /\ timers' = [timers EXCEPT !.stale = @ - 1] /\ queue' = << >>
      /\ UNCHANGED <<view, rows, composed, fetches, up, buffer, net, down, server, handlers,
                     stored, budget>>
  BY DEF FlushStale
<1>2. << >> \in Seq(composed)
  OBVIOUS
<1>3. Contents'
  BY <1>1, <1>2 DEF IInv, Contents
<1>4. Wires'
  BY <1>1 DEF IInv, Wires
<1>5. Timers'
  <2>1. /\ timers.own \in Nat /\ timers.stale \in Nat /\ budget \in [losses : Nat, moves : Nat]
        /\ timers.own + timers.stale + budget.losses + (IF up THEN 0 ELSE 1) <= Bound
    BY DEF IInv, Timers
  <2>2. timers' \in [own : Nat, stale : Nat] /\ timers'.own = timers.own /\ timers'.stale = timers.stale - 1
    BY <1>1, <2>1 DEF IInv, Timers
  <2> QED
    <3>1. PICK w \in {0, 1} : w = (IF up THEN 0 ELSE 1) /\ w = (IF up' THEN 0 ELSE 1)
      BY <1>1
    <3>2. timers'.own + timers'.stale + budget.losses + w <= Bound
      BY <2>1, <2>2, <3>1, BoundType
    <3> QED
      BY <1>1, <2>1, <2>2, <3>1, <3>2 DEF Timers
<1>6. Account'
  <2>1. ASSUME NEW m \in Msgs
        PROVE  /\ Outstanding(m) \in Nat /\ Outstanding(m)' \in Nat
               /\ Outstanding(m)' <= Outstanding(m)
    <3>1. UNCHANGED <<stored, handlers, net, buffer>> /\ Among(queue', {m} \cap Repeatable) = 0
      BY <1>1, <1>2, AmongNone
    <3>2. Contents
      BY DEF IInv
    <3> QED
      BY <3>1, <3>2, Numbers DEF Outstanding
  <2> QED
    BY <1>1, <2>1, AccountKept DEF IInv
<1> QED
  BY <1>3, <1>4, <1>5, <1>6 DEF IInv

\* A step of the tab that reconciles, or replaces, what it shows.
LEMMA TabKeeps ==
  ASSUME IInv, UNCHANGED <<composed, link, server, handlers, stored, budget>>,
         view' \in [peer : BOOLEAN, room : BOOLEAN, channel : BOOLEAN],
         rows' \in Seq(RowOf(stored)), queue' \in Seq(composed),
         \A W : Among(queue', W) <= Among(queue, W),
         fetches' \subseteq FetchOf(stored),
         down' \in Seq(EventOf(stored)), ~ up => down' = << >>
  PROVE  IInv'
<1>1. UNCHANGED <<up, buffer, net, timers>>
  BY DEF link
<1>2. Contents'
  BY <1>1 DEF IInv, Contents
<1>3. Wires'
  BY <1>1 DEF IInv, Wires
<1>4. Timers'
  BY <1>1 DEF IInv, Timers
<1>5. Account'
  <2>1. ASSUME NEW m \in Msgs
        PROVE  /\ Outstanding(m) \in Nat /\ Outstanding(m)' \in Nat
               /\ Outstanding(m)' <= Outstanding(m)
    <3>1. UNCHANGED <<stored, handlers, net, buffer>>
      BY <1>1
    <3>2. /\ Among(queue', {m} \cap Repeatable) <= Among(queue, {m} \cap Repeatable)
          /\ Among(queue', {m} \cap Repeatable) \in Nat
      BY PlacesType
    <3>3. /\ Among(stored, {m}) \in Nat /\ Among(handlers, Creating(m)) \in Nat
          /\ Among(net, Attempts(m)) \in Nat /\ Among(buffer, Attempts(m)) \in Nat
          /\ Among(queue, {m} \cap Repeatable) \in Nat
      BY Numbers DEF IInv
    <3>4. /\ Outstanding(m) = Among(stored, {m}) + Among(handlers, Creating(m))
            + Among(net, Attempts(m)) + Among(buffer, Attempts(m))
            + Among(queue, {m} \cap Repeatable)
          /\ Outstanding(m)' = Among(stored, {m}) + Among(handlers, Creating(m))
            + Among(net, Attempts(m)) + Among(buffer, Attempts(m))
            + Among(queue', {m} \cap Repeatable)
      BY <3>1 DEF Outstanding
    <3>5. PICK kept, q, r \in Nat :
            /\ kept = Among(stored, {m}) + Among(handlers, Creating(m))
                       + Among(net, Attempts(m)) + Among(buffer, Attempts(m))
            /\ q = Among(queue, {m} \cap Repeatable) /\ r = Among(queue', {m} \cap Repeatable)
      BY <3>2, <3>3
    <3>6. Outstanding(m) = kept + q /\ Outstanding(m)' = kept + r /\ r <= q
      BY <3>2, <3>4, <3>5
    <3> QED
      BY <3>6
  <2> QED
    BY <2>1, AccountKept DEF IInv
<1> QED
  BY <1>2, <1>3, <1>4, <1>5 DEF IInv
\* The event at the head of down, by listener.
LEMMA HandleKeeps ==
  ASSUME IInv, Handle
  PROVE  IInv'
<1> DEFINE e == Head(down)
<1>1. /\ down # << >> /\ down' = Tail(down)
      /\ UNCHANGED <<composed, link, server, handlers, stored, budget>>
  BY DEF Handle
<1>2. e \in EventOf(stored) /\ down' \in Seq(EventOf(stored)) /\ up
  BY <1>1, HeadTailProperties DEF IInv, Contents, Wires
<1>3. /\ Contents /\ rows \in Seq(RowOf(stored)) /\ queue \in Seq(composed)
      /\ fetches \subseteq FetchOf(stored)
      /\ view \in [peer : BOOLEAN, room : BOOLEAN, channel : BOOLEAN]
      /\ \A W : Among(queue, W) <= Among(queue, W)
  <2>1. queue \in Seq(composed)
    BY DEF IInv, Contents
  <2>2. \A W : Among(queue, W) \in Nat
    BY <2>1, PlacesType
  <2> QED
    BY <2>2 DEF IInv, Contents
<1>4. CASE /\ e.ev = "receive" /\ UNCHANGED <<view, fetches>>
           /\ \/ addMessage([id |-> e.id, tempId |-> e.m])
              \/ UNCHANGED <<rows, queue>>
  <2> DEFINE new == [id |-> e.id, tempId |-> e.m]
  <2>1. e.m \in Msgs /\ e.id \in DOMAIN stored /\ stored[e.id] = e.m
    BY <1>2, <1>4 DEF EventOf, Names
  <2>2. new \in RowOf(stored) /\ new.id = e.id /\ new.tempId = e.m
    BY <2>1 DEF RowOf
  <2> HIDE DEF new
  <2>3. addMessage(new) \/ UNCHANGED <<rows, queue>>
    BY <1>4 DEF new
  <2>4. /\ rows' \in Seq(RowOf(stored)) /\ queue' \in Seq(composed)
        /\ \A W : Among(queue', W) <= Among(queue, W)
    BY <1>3, <2>1, <2>2, <2>3, AddedMessage
  <2> QED
    BY <1>1, <1>2, <1>3, <1>4, <2>4, TabKeeps
<1>5. CASE /\ e.ev = "messageSentAck" /\ updateRealMessageId(e.m, e.id)
           /\ UNCHANGED <<view, queue, fetches>>
  <2>1. e.m \in Msgs /\ e.id \in DOMAIN stored /\ stored[e.id] = e.m
    BY <1>2, <1>5 DEF EventOf, Names
  <2>2. rows' \in Seq(RowOf(stored))
    BY <1>3, <1>5, <2>1, UpdatedId
  <2> QED
    BY <1>1, <1>2, <1>3, <1>5, <2>2, TabKeeps
<1>6. CASE view' = [view EXCEPT !.room = TRUE] /\ Ask("dm") /\ UNCHANGED <<rows, queue>>
  <2>1. fetches' \subseteq FetchOf(stored)
    BY <1>3, <1>6, Asking
  <2>2. view' \in [peer : BOOLEAN, room : BOOLEAN, channel : BOOLEAN]
    BY <1>3, <1>6
  <2> QED
    BY <1>1, <1>2, <1>3, <1>6, <2>1, <2>2, TabKeeps
<1>7. CASE UNCHANGED <<view, rows, queue, fetches>>
  BY <1>1, <1>2, <1>3, <1>7, TabKeeps
<1> QED
  BY <1>4, <1>5, <1>6, <1>7 DEF Handle

LEMMA FetchKeeps ==
  ASSUME IInv, NEW f \in fetches, AnswerFetch(f) \/ ApplyFetch(f) \/ FailFetch(f)
  PROVE  IInv'
<1>1. /\ UNCHANGED <<view, queue, composed, link, down, server, handlers, stored, budget>>
      /\ f \in FetchOf(stored) /\ fetches \subseteq FetchOf(stored)
      /\ rows \in Seq(RowOf(stored)) /\ queue \in Seq(composed) /\ stored \in Seq(composed)
      /\ view \in [peer : BOOLEAN, room : BOOLEAN, channel : BOOLEAN]
      /\ down \in Seq(EventOf(stored)) /\ (~ up => down = << >>)
  BY DEF AnswerFetch, ApplyFetch, FailFetch, IInv, Contents, Wires
<1>2. \A W : Among(queue', W) <= Among(queue, W)
  <2>1. \A W : Among(queue, W) \in Nat
    BY <1>1, PlacesType
  <2> QED
    BY <1>1, <2>1
<1>3. rows' \in Seq(RowOf(stored)) /\ fetches' \subseteq FetchOf(stored)
  <2>1. CASE AnswerFetch(f)
    <3> DEFINE ids == [n \in DOMAIN stored |-> n]
               mine == {n \in DOMAIN stored : stored[n] \in Conversation(f.of)}
    <3>1. ids \in Seq(DOMAIN stored)
      <4>1. DOMAIN stored = 1 .. Len(stored) /\ Len(stored) \in Nat
        BY <1>1, LenProperties
      <4> QED
        BY <4>1
    <3> HIDE DEF ids, mine
    <3>2. Kept(ids, mine) \in Seq(DOMAIN stored)
      BY <3>1, KeptCounts
    <3> DEFINE kept == Kept(ids, mine)
    <3>3. rows' = rows /\ fetches' = (fetches \ {f}) \cup {[of |-> f.of, seen |-> kept]}
      BY <2>1 DEF AnswerFetch, ids, mine
    <3> HIDE DEF kept
    <3>4. [of |-> f.of, seen |-> kept] \in FetchOf(stored)
      BY <1>1, <3>2 DEF FetchOf, kept
    <3> QED
      BY <1>1, <3>3, <3>4
  <2>2. CASE ApplyFetch(f)
    <3>1. /\ f.seen \in Seq(DOMAIN stored) /\ fetches' = fetches \ {f}
          /\ rows' = [i \in DOMAIN f.seen |-> [id |-> f.seen[i], tempId |-> None]]
      BY <1>1, <2>2 DEF ApplyFetch, FetchOf
    <3>2. /\ DOMAIN f.seen = 1 .. Len(f.seen) /\ Len(f.seen) \in Nat
          /\ \A i \in DOMAIN f.seen : f.seen[i] \in DOMAIN stored
      BY <3>1, LenProperties, ElementOfSeq
    <3>3. \A i \in DOMAIN f.seen : [id |-> f.seen[i], tempId |-> None] \in RowOf(stored)
      BY <3>2 DEF RowOf
    <3>4. rows' \in Seq(RowOf(stored))
      BY <3>1, <3>2, <3>3
    <3> QED
      BY <1>1, <3>1, <3>4
  <2>3. CASE FailFetch(f)
    BY <1>1, <2>3 DEF FailFetch
  <2> QED
    BY <2>1, <2>2, <2>3
<1> QED
  BY <1>1, <1>2, <1>3, TabKeeps
\* A step of the server that takes from its packets or handlers what it adds.
LEMMA ServerKeeps ==
  ASSUME IInv, UNCHANGED <<client, up, buffer, timers, server, budget>>, NEW s,
         net' \in Seq(PacketOf(composed)),
         down' \in Seq(EventOf(stored)'), ~ up => net' = << >> /\ down' = << >>,
         ~ up => handlers' \in Seq(Orphan),
         handlers' \in Seq(HandlerOf(composed, stored)'),
         stored' \in Seq(composed), stored' \in {stored, Append(stored, s)},
         \A m \in Msgs :
           Among(stored', {m}) + Among(handlers', Creating(m)) + Among(net', Attempts(m))
             <= Among(stored, {m}) + Among(handlers, Creating(m)) + Among(net, Attempts(m))
  PROVE  IInv'
<1>1. UNCHANGED <<view, rows, queue, composed, fetches>>
  BY DEF client
<1>2. /\ stored \in Seq(composed) /\ Len(stored) \in Nat /\ DOMAIN stored = 1 .. Len(stored)
      /\ DOMAIN stored' = 1 .. Len(stored')
  BY LenProperties DEF IInv, Contents
<1>3. DOMAIN stored \subseteq DOMAIN stored' /\ \A n \in DOMAIN stored : stored'[n] = stored[n]
  <2>1. CASE stored' = stored
    BY <2>1
  <2>2. CASE stored' = Append(stored, s)
    BY <1>2, <2>2
  <2> QED
    BY <2>1, <2>2
<1>4. RowOf(stored) \subseteq RowOf(stored') /\ FetchOf(stored) \subseteq FetchOf(stored')
  BY <1>3, Grows
<1>5. rows \in Seq(RowOf(stored')) /\ fetches \subseteq FetchOf(stored')
  BY <1>4, WiderType DEF IInv, Contents
<1>6. Contents'
  BY <1>1, <1>5 DEF IInv, Contents
<1>7. Wires'
  BY DEF IInv, Wires
<1>8. Timers'
  BY DEF IInv, Timers
<1>9. Account'
  <2>1. ASSUME NEW m \in Msgs
        PROVE  /\ Outstanding(m) \in Nat /\ Outstanding(m)' \in Nat
               /\ Outstanding(m)' <= Outstanding(m)
    <3>1. /\ Among(stored', {m}) \in Nat /\ Among(handlers', Creating(m)) \in Nat
          /\ Among(net', Attempts(m)) \in Nat
      BY PlacesType
    <3>2. /\ Among(stored, {m}) \in Nat /\ Among(handlers, Creating(m)) \in Nat
          /\ Among(net, Attempts(m)) \in Nat /\ Among(buffer, Attempts(m)) \in Nat
          /\ Among(queue, {m} \cap Repeatable) \in Nat
      BY Numbers DEF IInv
    <3>3. UNCHANGED <<buffer, queue>>
      BY <1>1
    <3>4. Outstanding(m)' = Among(stored', {m}) + Among(handlers', Creating(m))
            + Among(net', Attempts(m)) + Among(buffer, Attempts(m))
            + Among(queue, {m} \cap Repeatable)
      BY <3>3 DEF Outstanding
    <3>5. Among(stored', {m}) + Among(handlers', Creating(m)) + Among(net', Attempts(m))
            <= Among(stored, {m}) + Among(handlers, Creating(m)) + Among(net, Attempts(m))
      OBVIOUS
    <3>6. Outstanding(m) = Among(stored, {m}) + Among(handlers, Creating(m))
            + Among(net, Attempts(m)) + Among(buffer, Attempts(m))
            + Among(queue, {m} \cap Repeatable)
      BY DEF Outstanding
    <3> DEFINE old == Among(stored, {m}) + Among(handlers, Creating(m))
                        + Among(net, Attempts(m))
               new == Among(stored', {m}) + Among(handlers', Creating(m))
                        + Among(net', Attempts(m))
               rest == Among(buffer, Attempts(m)) + Among(queue, {m} \cap Repeatable)
    <3>7. old \in Nat /\ new \in Nat /\ rest \in Nat
      BY <3>1, <3>2, SumsAreNat, Zenon
    <3>10. new <= old
      BY <3>5, Zenon
    <3>8. Outstanding(m) = old + rest
      BY <3>2, <3>6
    <3>9. Outstanding(m)' = new + rest
      <4>1. PICK t, h, n, b, q \in Nat :
              /\ t = Among(stored', {m}) /\ h = Among(handlers', Creating(m))
              /\ n = Among(net', Attempts(m)) /\ b = Among(buffer, Attempts(m))
              /\ q = Among(queue, {m} \cap Repeatable)
        BY <3>1, <3>2
      <4>2. Outstanding(m)' = t + h + n + b + q
        BY <3>4, <4>1
      <4>3. new = t + h + n /\ rest = b + q
        BY <4>1
      <4> HIDE DEF old, new, rest
      <4> QED
        BY <4>1, <4>2, <4>3
    <3> HIDE DEF old, new, rest
    <3> QED
      BY <3>7, <3>8, <3>9, <3>10
  <2> QED
    BY <1>1, <2>1, AccountKept DEF IInv
<1> QED
  BY <1>6, <1>7, <1>8, <1>9 DEF IInv

LEMMA ReceiveKeeps ==
  ASSUME IInv, Unheard \/ Receive
  PROVE  IInv'
<1> DEFINE p == Head(net)
           h == [m |-> p.m, pc |-> "create", id |-> 0, orphan |-> FALSE]
<1>1. /\ net # << >> /\ net' = Tail(net)
      /\ UNCHANGED <<client, up, buffer, timers, server, stored, budget>>
  BY DEF Unheard, Receive
<1>2. /\ net \in Seq(PacketOf(composed)) /\ stored \in Seq(composed)
      /\ down \in Seq(EventOf(stored)) /\ composed \subseteq Msgs
      /\ handlers \in Seq(HandlerOf(composed, stored)) /\ up
  BY <1>1 DEF IInv, Contents, Wires
<1>3. p \in PacketOf(composed) /\ net' \in Seq(PacketOf(composed))
  BY <1>1, <1>2, HeadTailProperties
<1> HIDE DEF p
<1>4. ASSUME NEW m
      PROVE  /\ Among(net, Attempts(m)) = Among(net', Attempts(m))
                                            + (IF p \in Attempts(m) THEN 1 ELSE 0)
             /\ Among(stored, {m}) \in Nat /\ Among(handlers, Creating(m)) \in Nat
             /\ Among(net', Attempts(m)) \in Nat
  BY <1>1, <1>2, <1>3, AmongTail, PlacesType DEF p
<1>5. EventOf(stored)' = EventOf(stored) /\ HandlerOf(composed, stored)' = HandlerOf(composed, stored)
  BY <1>1 DEF client, EventOf, HandlerOf, Names
<1>6. CASE UNCHANGED handlers /\ UNCHANGED down
  <2>1. \A m \in Msgs :
          Among(stored', {m}) + Among(handlers', Creating(m)) + Among(net', Attempts(m))
            <= Among(stored, {m}) + Among(handlers, Creating(m)) + Among(net, Attempts(m))
    BY <1>1, <1>4, <1>6
  <2> QED
    BY <1>1, <1>2, <1>3, <1>5, <1>6, <2>1, ServerKeeps
<1>7. ASSUME NEW e, UNCHANGED handlers, Reach(<<e>>), e.ev = "roomJoined" \/ e.ev = "dm_recipient_unavailable",
             e \in EventOf(stored)
      PROVE  IInv'
  <2>1. <<e>> \in Seq(EventOf(stored))
    BY <1>7
  <2>2. down' \in Seq(EventOf(stored))
    BY <1>2, <1>7, <2>1, ConcatProperties DEF Reach
  <2>3. \A m \in Msgs :
          Among(stored', {m}) + Among(handlers', Creating(m)) + Among(net', Attempts(m))
            <= Among(stored, {m}) + Among(handlers, Creating(m)) + Among(net, Attempts(m))
    BY <1>1, <1>4, <1>7
  <2>4. /\ down' \in Seq(EventOf(stored)') /\ handlers' \in Seq(HandlerOf(composed, stored)')
        /\ stored' \in Seq(composed) /\ stored' \in {stored, Append(stored, e)} /\ up
    BY <1>1, <1>2, <1>5, <1>7, <2>2
  <2> QED
    BY <1>1, <1>3, <2>3, <2>4, ServerKeeps
<1>8. CASE /\ p.op \in {"dm", "channel"} \/ (p.op = "retry" /\ p.m \in Direct \ Bare)
           /\ handlers' = Append(handlers, h) /\ UNCHANGED down
  <2>1. h \in HandlerOf(composed, stored)
    BY <1>3, <1>8 DEF PacketOf, HandlerOf
  <2>2. ASSUME NEW m \in Msgs
        PROVE  Among(handlers', Creating(m)) + Among(net', Attempts(m))
                 = Among(handlers, Creating(m)) + Among(net, Attempts(m))
    <3>1. h \in Creating(m) <=> p \in Attempts(m)
      BY <1>3, <1>8 DEF Creating, Attempts, PacketOf, Repeatable
    <3> HIDE DEF h
    <3>2. Among(Append(handlers, h), Creating(m))
            = Among(handlers, Creating(m)) + (IF h \in Creating(m) THEN 1 ELSE 0)
      BY <1>2, <2>1, AmongAppend
    <3>3. Among(net, Attempts(m)) = Among(net', Attempts(m))
                                      + (IF p \in Attempts(m) THEN 1 ELSE 0)
          /\ Among(handlers, Creating(m)) \in Nat /\ Among(net', Attempts(m)) \in Nat
      BY <1>4
    <3>4. Among(handlers', Creating(m))
            = Among(handlers, Creating(m)) + (IF h \in Creating(m) THEN 1 ELSE 0)
      BY <1>8, <3>2 DEF h
    <3> QED
      BY <3>1, <3>3, <3>4
  <2> HIDE DEF h
  <2>3. handlers' \in Seq(HandlerOf(composed, stored))
    BY <1>2, <1>8, <2>1, AppendProperties
  <2>4. \A m \in Msgs :
          Among(stored', {m}) + Among(handlers', Creating(m)) + Among(net', Attempts(m))
            <= Among(stored, {m}) + Among(handlers, Creating(m)) + Among(net, Attempts(m))
    <3> SUFFICES ASSUME NEW m \in Msgs
          PROVE  Among(stored', {m}) + Among(handlers', Creating(m)) + Among(net', Attempts(m))
            <= Among(stored, {m}) + Among(handlers, Creating(m)) + Among(net, Attempts(m))
      OBVIOUS
    <3>1. Among(handlers', Creating(m)) \in Nat
      BY <2>3, PlacesType
    <3>2. UNCHANGED stored
      BY <1>1
    <3> QED
      BY <1>4, <2>2, <3>1, <3>2
  <2> QED
    BY <1>1, <1>2, <1>3, <1>5, <1>8, <2>3, <2>4, ServerKeeps
<1>9. CASE Unheard
  BY <1>6, <1>9 DEF Unheard
<1>10. CASE Receive
  <2>1. CASE p.op = "join" /\ UNCHANGED handlers
             /\ Reach(<<[ev |-> "roomJoined", m |-> None, id |-> 0]>>)
    <3>1. [ev |-> "roomJoined", m |-> None, id |-> 0] \in EventOf(stored)
      BY DEF EventOf
    <3> QED
      BY <1>7, <2>1, <3>1
  <2>2. CASE p.op = "retry" /\ p.m \in InChannel \ Bare /\ UNCHANGED handlers
             /\ Reach(<<[ev |-> "dm_recipient_unavailable", m |-> p.m, id |-> 0]>>)
    <3>1. [ev |-> "dm_recipient_unavailable", m |-> p.m, id |-> 0] \in EventOf(stored)
      BY <2>2 DEF EventOf, Msgs
    <3> QED
      BY <1>7, <2>2, <3>1
  <2> QED
    BY <1>6, <1>8, <1>10, <2>1, <2>2 DEF Receive, p
<1> QED
  BY <1>9, <1>10

\* A handler becomes a row: what it counted for, the row now counts for.
LEMMA CreateKeeps ==
  ASSUME IInv, NEW i \in DOMAIN handlers, Create(i)
  PROVE  IInv'
<1> DEFINE a == handlers[i]
           b == [m |-> a.m, pc |-> "announce", id |-> Len(stored) + 1, orphan |-> a.orphan]
<1>1. /\ a.pc = "create" /\ stored' = Append(stored, a.m)
      /\ UNCHANGED <<client, up, buffer, net, timers, down, server, budget>>
      /\ handlers' = [handlers EXCEPT ![i] =
                        [a EXCEPT !.pc = "announce", !.id = Len(stored) + 1]]
  BY DEF Create, link
<1>2. /\ stored \in Seq(composed) /\ composed \subseteq Msgs /\ Len(stored) \in Nat
      /\ DOMAIN stored = 1 .. Len(stored)
      /\ handlers \in Seq(HandlerOf(composed, stored))
      /\ net \in Seq(PacketOf(composed)) /\ down \in Seq(EventOf(stored))
      /\ ~ up => net = << >> /\ down = << >> /\ handlers \in Seq(Orphan)
  BY LenProperties DEF IInv, Contents, Wires
<1>3. a \in HandlerOf(composed, stored)
  BY <1>2, LenProperties, ElementOfSeq
<1>4. /\ a.m \in composed /\ a \in [m : composed, pc : {"create", "announce"}, id : Nat, orphan : BOOLEAN]
  BY <1>3 DEF HandlerOf
<1> HIDE DEF a
<1>15. [a EXCEPT !.pc = "announce", !.id = Len(stored) + 1] = b
  <2> DEFINE c == [a EXCEPT !.pc = "announce", !.id = Len(stored) + 1]
  <2>1. Len(stored) + 1 \in Nat
    BY <1>2
  <2>2. c \in [m : composed, pc : {"create", "announce"}, id : Nat, orphan : BOOLEAN]
    BY <1>4, <2>1
  <2>3. /\ c.m = a.m /\ c.pc = "announce" /\ c.id = Len(stored) + 1
        /\ c.orphan = a.orphan
    BY <1>4
  <2> HIDE DEF c
  <2>4. c = [m |-> c.m, pc |-> c.pc, id |-> c.id, orphan |-> c.orphan]
    BY <2>2
  <2> QED
    BY <2>3, <2>4, Zenon DEF c
<1>16. handlers' = [handlers EXCEPT ![i] = b]
  BY <1>1, <1>15, Zenon
<1>5. /\ stored' \in Seq(composed) /\ DOMAIN stored' = 1 .. Len(stored) + 1
      /\ stored'[Len(stored) + 1] = a.m
      /\ \A n \in DOMAIN stored : stored'[n] = stored[n]
  BY <1>1, <1>2, <1>4, AppendProperties, LenProperties
<1>6. /\ EventOf(stored) \subseteq EventOf(stored')
      /\ HandlerOf(composed, stored) \subseteq HandlerOf(composed, stored')
  <2>1. DOMAIN stored \subseteq DOMAIN stored'
    BY <1>2, <1>5
  <2> QED
    BY <1>5, <2>1, Grows
<1>7. /\ b \in HandlerOf(composed, stored') /\ \A m : b \notin Creating(m)
  <2>1. /\ b.m = a.m /\ b.id = Len(stored) + 1 /\ b.pc = "announce"
        /\ b \in [m : composed, pc : {"create", "announce"}, id : Nat, orphan : BOOLEAN]
    BY <1>2, <1>4
  <2> HIDE DEF b
  <2>2. Names(b, stored')
    BY <1>2, <1>5, <2>1 DEF Names
  <2> QED
    BY <2>1, <2>2 DEF HandlerOf, Creating
<1>13. ~ up => b \in Orphan
  <2> SUFFICES ASSUME ~ up PROVE b \in Orphan
    OBVIOUS
  <2>1. a \in Orphan
    BY <1>2, LenProperties, ElementOfSeq DEF a
  <2>2. a.m \in Msgs /\ a.orphan = TRUE
    BY <2>1 DEF Orphan
  <2>3. Len(stored) + 1 \in Nat
    BY <1>2
  <2> QED
    BY <2>2, <2>3 DEF Orphan
<1> HIDE DEF b
<1>14. ~ up => handlers' \in Seq(Orphan)
  BY <1>2, <1>13, <1>16, ExceptSeq
<1>8. handlers \in Seq(HandlerOf(composed, stored'))
  BY <1>2, <1>6, WiderType
<1>9. handlers' \in Seq(HandlerOf(composed, stored'))
  BY <1>7, <1>8, <1>16, ExceptSeq
<1>10. down' \in Seq(EventOf(stored'))
  BY <1>1, <1>2, <1>6, WiderType
<1>11. ASSUME NEW m \in Msgs
       PROVE  Among(stored', {m}) + Among(handlers', Creating(m)) + Among(net', Attempts(m))
                <= Among(stored, {m}) + Among(handlers, Creating(m)) + Among(net, Attempts(m))
  <2>1. Among(stored', {m}) = Among(stored, {m}) + (IF a.m = m THEN 1 ELSE 0)
    <3>1. Among(Append(stored, a.m), {m})
            = Among(stored, {m}) + (IF a.m \in {m} THEN 1 ELSE 0)
      BY <1>2, <1>4, AmongAppend
    <3> QED
      BY <1>1, <3>1
  <2>2. /\ Among(stored, {m}) \in Nat /\ Among(handlers, Creating(m)) \in Nat
        /\ Among(net, Attempts(m)) \in Nat
    BY Numbers DEF IInv
  <2>3. net' = net
    BY <1>1
  <2>4. CASE a.m = m
    <3>1. handlers[i] \in Creating(m)
      BY <1>1, <1>4, <2>4 DEF Creating, a
    <3>2. Among([handlers EXCEPT ![i] = b], Creating(m)) = Among(handlers, Creating(m)) - 1
      BY <1>7, <1>8, <3>1, AmongExcept
    <3> QED
      BY <1>16, <2>1, <2>2, <2>3, <2>4, <3>2
  <2>5. CASE a.m # m
    <3>1. handlers[i] \notin Creating(m)
      BY <2>5 DEF Creating, a
    <3>2. \A j \in DOMAIN handlers' : handlers'[j] \in Creating(m) <=> handlers[j] \in Creating(m)
      BY <1>7, <1>16, <3>1
    <3>3. Among(handlers', Creating(m)) = Among(handlers, Creating(m))
      <4>1. DOMAIN handlers' = DOMAIN handlers
        BY <1>16
      <4> QED
        BY <3>2, <4>1, AmongSame
    <3> QED
      BY <2>1, <2>2, <2>3, <2>5, <3>3
  <2> QED
    BY <2>4, <2>5
<1>12. UNCHANGED composed
  BY <1>1 DEF client
<1> QED
  BY <1>1, <1>2, <1>5, <1>9, <1>10, <1>11, <1>12, <1>14, ServerKeeps

\* A handler goes, and may tell of its row first.
LEMMA LastKeeps ==
  ASSUME IInv, NEW i \in DOMAIN handlers, handlers' = RemoveAt(handlers, i),
         UNCHANGED <<client, link, server, stored, budget>>,
         down' \in Seq(EventOf(stored)), ~ up => down' = << >>
  PROVE  IInv'
<1>1. /\ stored \in Seq(composed) /\ handlers \in Seq(HandlerOf(composed, stored))
      /\ net \in Seq(PacketOf(composed)) /\ (~ up => net = << >> /\ handlers \in Seq(Orphan))
  BY DEF IInv, Contents, Wires
<1>2. UNCHANGED <<up, buffer, net, timers, composed>>
  BY DEF link, client
<1>3. handlers' \in Seq(HandlerOf(composed, stored)) /\ (~ up => handlers' \in Seq(Orphan))
  BY <1>1, RemoveAtType
<1>4. ASSUME NEW m \in Msgs
      PROVE  Among(stored', {m}) + Among(handlers', Creating(m)) + Among(net', Attempts(m))
               <= Among(stored, {m}) + Among(handlers, Creating(m)) + Among(net, Attempts(m))
  <2>1. /\ Among(stored, {m}) \in Nat /\ Among(net, Attempts(m)) \in Nat
    BY Numbers DEF IInv
  <2>2. Among(handlers, Creating(m))
          = Among(RemoveAt(handlers, i), Creating(m)) + (IF handlers[i] \in Creating(m) THEN 1 ELSE 0)
    BY <1>1, AmongRemoveAt
  <2>3. Among(handlers', Creating(m)) \in Nat
    BY <1>3, PlacesType
  <2> QED
    BY <1>2, <2>1, <2>2, <2>3
<1>5. EventOf(stored)' = EventOf(stored) /\ HandlerOf(composed, stored)' = HandlerOf(composed, stored)
  BY <1>2 DEF EventOf, HandlerOf, Names
<1> QED
  BY <1>1, <1>2, <1>3, <1>4, <1>5, ServerKeeps

LEMMA ServingKeeps ==
  ASSUME IInv, Serving
  PROVE  IInv'
<1>1. PICK i \in DOMAIN handlers : Create(i) \/ Announce(i) \/ Fail(i)
  BY DEF Serving
<1>2. /\ handlers \in Seq(HandlerOf(composed, stored)) /\ down \in Seq(EventOf(stored))
      /\ composed \subseteq Msgs /\ up \in BOOLEAN
      /\ (~ up => down = << >> /\ handlers \in Seq(Orphan))
  BY DEF IInv, Contents, Wires
<1>3. CASE Announce(i)
  <2> DEFINE h == handlers[i]
             told == IF up /\ (h.m \in InChannel => server.inRoom)
                       THEN <<[ev |-> "receive", m |-> h.m, id |-> h.id]>> ELSE << >>
             acked == IF h.orphan THEN << >>
                        ELSE <<[ev |-> "messageSentAck", m |-> h.m, id |-> h.id]>>
  <2>1. /\ h.pc = "announce" /\ down' = down \o (told \o acked)
        /\ handlers' = RemoveAt(handlers, i)
        /\ UNCHANGED <<client, link, server, stored, budget>>
    BY <1>3 DEF Announce, Reach
  <2>2. h \in HandlerOf(composed, stored)
    BY <1>2, LenProperties, ElementOfSeq
  <2>3. h.m \in Msgs /\ h.id \in Nat /\ Names(h, stored) /\ h.orphan \in BOOLEAN
    BY <1>2, <2>1, <2>2 DEF HandlerOf
  <2> HIDE DEF h
  <2>4. ASSUME NEW ev \in {"receive", "messageSentAck"}
        PROVE  [ev |-> ev, m |-> h.m, id |-> h.id] \in EventOf(stored)
    BY <2>3 DEF EventOf, Names
  <2>5. told \in Seq(EventOf(stored)) /\ acked \in Seq(EventOf(stored))
    BY <2>4
  <2>6. down' \in Seq(EventOf(stored))
    BY <1>2, <2>1, <2>5, ConcatProperties
  <2>7. ~ up => down' = << >>
    <3> SUFFICES ASSUME ~ up PROVE down' = << >>
      OBVIOUS
    <3>1. h \in Orphan
      BY <1>2, LenProperties, ElementOfSeq DEF h
    <3>2. told = << >> /\ acked = << >>
      BY <3>1 DEF Orphan
    <3> QED
      BY <1>2, <2>1, <3>2
  <2> QED
    BY <2>1, <2>6, <2>7, LastKeeps
<1>4. CASE Create(i)
  BY <1>4, CreateKeeps
<1>5. CASE Fail(i)
  BY <1>2, <1>5, LastKeeps DEF Fail
<1> QED
  BY <1>1, <1>3, <1>4, <1>5
----------------------------------------------------------------------------
(* The invariant                                                           *)

LEMMA InitInvariant ==
  ASSUME Init
  PROVE  IInv
<1>1. Contents
  <2>1. /\ << >> \in Seq(RowOf(stored)) /\ << >> \in Seq(composed) /\ {} \subseteq FetchOf(stored)
        /\ << >> \in Seq(PacketOf(composed)) /\ << >> \in Seq(EventOf(stored))
        /\ << >> \in Seq(HandlerOf(composed, stored))
    OBVIOUS
  <2> QED
    BY <2>1 DEF Init, Contents
<1>2. Wires
  <2>1. << >> \in Seq(Orphan)
    OBVIOUS
  <2> QED
    BY <2>1 DEF Init, Wires
<1>3. Timers
  BY BoundsAssumption DEF Init, Timers, Bound
<1>4. Account
  <2> SUFFICES ASSUME NEW m \in Msgs
               PROVE  Outstanding(m) <= IF m \in composed THEN Tries[m] ELSE 0
    BY Zenon DEF Account
  <2>1. /\ stored = << >> /\ handlers = << >> /\ net = << >> /\ buffer = << >> /\ queue = << >>
        /\ composed = {}
    BY DEF Init
  <2>2. << >> \in Seq({})
    OBVIOUS
  <2>3. \A W : Among(<< >>, W) = 0
    BY <2>2, AmongNone
  <2> QED
    BY <2>1, <2>3 DEF Outstanding
<1> QED
  BY <1>1, <1>2, <1>3, <1>4 DEF IInv

LEMMA StepInvariant == IInv /\ [Next]_vars => IInv'
<1> SUFFICES ASSUME IInv, [Next]_vars PROVE IInv'
  OBVIOUS
<1>1. CASE Next
  <2>1. CASE \E m \in Msgs : sendMessage(m)
    BY <2>1, SendKeeps
  <2>2. CASE Fetching
    BY <2>2, FetchKeeps DEF Fetching
  <2> QED
    BY <1>1, <2>1, <2>2, ConnectKeeps, ServerReadyKeeps, DropKeeps, RenewKeeps, ReloadKeeps,
       MoveKeeps, FlushKeeps, FlushStaleKeeps, HandleKeeps, ReceiveKeeps, ServingKeeps DEF Next
<1>2. CASE UNCHANGED vars
  <2>1. UNCHANGED <<view, rows, queue, composed, fetches, up, buffer, net, timers, down, server,
                    handlers, stored, budget>>
    BY <1>2 DEF vars, client, link
  <2>2. Contents'
    BY <2>1 DEF IInv, Contents
  <2>3. Wires'
    BY <2>1 DEF IInv, Wires
  <2>4. Timers'
    BY <2>1 DEF IInv, Timers
  <2>5. Account'
    BY <2>1 DEF IInv, Account, Outstanding
  <2> QED
    BY <2>2, <2>3, <2>4, <2>5 DEF IInv
<1> QED
  BY <1>1, <1>2

LEMMA InductiveInvariant == Spec => []IInv
<1>1. Init => IInv
  BY InitInvariant
<1>2. QED
  BY <1>1, StepInvariant, PTL DEF Spec

\* The tab, its socket and the two handlers never hold what no code path puts
\* there: nothing is buffered on a live connection, nothing waits on a dead
\* one, and there are never more armed timers than connections.
THEOREM TypeCorrect == Spec => []TypeOK
<1>1. IInv => TypeOK
  <2> SUFFICES ASSUME IInv PROVE TypeOK
    OBVIOUS
  <2>1. \A i \in DOMAIN rows : rows[i].id \in Id /\ rows[i].tempId \in Msgs \cup {None}
    <3>1. \A i \in DOMAIN rows : rows[i] \in RowOf(stored)
      BY LenProperties, ElementOfSeq DEF IInv, Contents
    <3> QED
      BY <3>1 DEF RowOf, Id
  <2>2. Range(queue) \subseteq composed /\ Range(stored) \subseteq composed
    BY LenProperties, ElementOfSeq DEF IInv, Contents, Range
  <2>3. \A i \in DOMAIN handlers : handlers[i].pc \in {"create", "announce"}
    <3>1. \A i \in DOMAIN handlers : handlers[i] \in HandlerOf(composed, stored)
      BY LenProperties, ElementOfSeq DEF IInv, Contents
    <3> QED
      BY <3>1 DEF HandlerOf
  <2>4. timers \in [own : 0 .. Bound, stale : 0 .. Bound]
    BY BoundType DEF IInv, Timers
  <2>5. \A f \in fetches : f.of \in {"dm", "channel"}
    BY DEF IInv, Contents, FetchOf
  <2> QED
    BY <2>1, <2>2, <2>3, <2>4, <2>5 DEF TypeOK, IInv, Contents, Wires
<1>2. QED
  BY <1>1, InductiveInvariant, PTL

\* However echoes, acknowledgements, retries and histories interleave, no row
\* of the list shows the id of another message's row: the reconciliation of
\* addMessage and of updateRealMessageId never joins two messages.
THEOREM RowsFaithful == Spec => []RowsAreFaithful
<1>1. IInv => RowsAreFaithful
  <2> SUFFICES ASSUME IInv PROVE RowsAreFaithful
    OBVIOUS
  <2>1. \A i \in DOMAIN rows : rows[i] \in RowOf(stored)
    BY LenProperties, ElementOfSeq DEF IInv, Contents
  <2> QED
    BY <2>1 DEF RowOf, RowsAreFaithful
<1>2. QED
  BY <1>1, InductiveInvariant, PTL
----------------------------------------------------------------------------
(* What the steps do to the queue and to the table                         *)

LEMMA AmongRange ==
  ASSUME NEW S, NEW s \in Seq(S), NEW x
  PROVE  x \in Range(s) <=> Among(s, {x}) > 0
<1>1. IsFiniteSet(Places(s, {x})) /\ Among(s, {x}) \in Nat
  BY PlacesType
<1>2. Among(s, {x}) = 0 <=> Places(s, {x}) = {}
  BY <1>1, FS_EmptySet DEF Among
<1>3. x \in Range(s) <=> Places(s, {x}) # {}
  BY DEF Range, Places
<1> QED
  BY <1>1, <1>2, <1>3

LEMMA CopiesAmong ==
  ASSUME NEW m
  PROVE  Copies(m) = Among(stored, {m})
<1>1. {n \in DOMAIN stored : stored[n] = m} = Places(stored, {m})
  BY DEF Places
<1> QED
  BY <1>1 DEF Copies, Among

\* What is announced is stored: taken off the queue for it, nothing is lost.
LEMMA HandlePrunes ==
  ASSUME IInv, Handle, NEW m \in Range(queue), m \notin Range(queue')
  PROVE  Copies(m) > 0
<1> DEFINE e == Head(down)
           new == [id |-> e.id, tempId |-> e.m]
<1>1. queue' # queue
  OBVIOUS
<1>2. e.ev = "receive" /\ addMessage(new) /\ down # << >>
  BY <1>1 DEF Handle
<1>3. e \in EventOf(stored)
  BY <1>2, HeadTailProperties DEF IInv, Contents
<1>4. e.m \in Msgs /\ e.id \in DOMAIN stored /\ stored[e.id] = e.m
  BY <1>2, <1>3 DEF EventOf, Names
<1> HIDE DEF e
<1>5. new \in RowOf(stored) /\ new.id = e.id /\ new.tempId = e.m
  BY <1>4 DEF RowOf
<1> HIDE DEF new
<1>6. /\ queue \in Seq(composed) /\ composed \subseteq Msgs /\ stored \in Seq(composed)
      /\ Contents
  BY DEF IInv, Contents
<1>7. /\ queue' \in Seq(composed)
      /\ \A k \in Msgs \ {e.m} : Among(queue', {k}) = Among(queue, {k})
  BY <1>2, <1>4, <1>5, <1>6, AddedMessage
<1>8. m \in Msgs
  BY <1>6, LenProperties, ElementOfSeq DEF Range
<1>9. Among(queue, {m}) > 0 /\ ~ (Among(queue', {m}) > 0)
  BY <1>6, <1>7, AmongRange
<1>10. m = e.m
  BY <1>7, <1>8, <1>9
<1>11. m \in Range(stored)
  BY <1>4, <1>10 DEF Range
<1> QED
  BY <1>6, <1>11, AmongRange, CopiesAmong

\* A message leaves the queue only because its own row is in the table, or in
\* a step that takes a timer: the retry, or the timer of a replaced socket.
THEOREM Pruned == Spec => PrunedOnlyWhenStored
<1> DEFINE Pruning == \A m \in Range(queue) :
                        m \notin Range(queue') => timers' # timers \/ Copies(m) > 0
<1>1. IInv /\ [Next]_vars => [Pruning]_vars
  <2> SUFFICES ASSUME IInv, Next, NEW m \in Range(queue), m \notin Range(queue')
               PROVE  timers' # timers \/ Copies(m) > 0
    BY Zenon
  <2>1. timers \in [own : Nat, stale : Nat] /\ queue \in Seq(composed)
    BY DEF IInv, Timers, Contents
  <2>2. queue' # queue
    OBVIOUS
  <2>3. CASE Flush \/ FlushStale
    <3>1. \/ timers.own > 0 /\ timers' = [timers EXCEPT !.own = @ - 1]
          \/ timers.stale > 0 /\ timers' = [timers EXCEPT !.stale = @ - 1]
      BY <2>3 DEF Flush, FlushStale
    <3> QED
      BY <2>1, <3>1
  <2>4. CASE Handle
    BY <2>4, HandlePrunes
  <2>5. ASSUME NEW n \in Msgs, sendMessage(n)
        PROVE  FALSE
    <3>1. queue' = Append(queue, n)
      BY <2>5 DEF sendMessage, addPendingMessage
    <3>2. queue \in Seq(Msgs)
      BY <2>1, WiderType DEF IInv, Contents
    <3>3. DOMAIN queue \subseteq DOMAIN queue' /\ \A i \in DOMAIN queue : queue'[i] = queue[i]
      BY <3>1, <3>2, AppendProperties, LenProperties
    <3> QED
      BY <3>3 DEF Range
  <2>6. ~ (Connect \/ Listen \/ RejoinChannels \/ Drop \/ Renew \/ Reload)
    BY <2>2 DEF Connect, Listen, RejoinChannels, Drop, Renew, Reload, client
  <2>7. ~ (SelectUser \/ SelectChannel \/ Fetching)
    BY <2>2 DEF SelectUser, SelectChannel, Move, Fetching, AnswerFetch, ApplyFetch, FailFetch
  <2>8. ~ (Unheard \/ Receive \/ Serving)
    BY <2>2 DEF Unheard, Receive, Serving, Create, Announce, Fail, client
  <2> QED
    BY <2>3, <2>4, <2>5, <2>6, <2>7, <2>8 DEF Next
<1>2. QED
  BY <1>1, InductiveInvariant, PTL DEF Spec, PrunedOnlyWhenStored

----------------------------------------------------------------------------
(* The abstract specification                                              *)

\* A row is added for what was composed, and while the account allows it.
LEMMA CreateStores ==
  ASSUME IInv, NEW i \in DOMAIN handlers, Create(i)
  PROVE  D!Store(handlers[i].m) /\ handlers[i].m \in Msgs
<1> DEFINE k == handlers[i].m
           counts == [m \in Msgs |-> Copies(m)]
<1>1. handlers[i].pc = "create" /\ stored' = Append(stored, k) /\ UNCHANGED composed
  BY DEF Create, client
<1>2. /\ stored \in Seq(composed) /\ composed \subseteq Msgs
      /\ handlers \in Seq(HandlerOf(composed, stored))
  BY DEF IInv, Contents
<1>3. handlers[i] \in HandlerOf(composed, stored)
  BY <1>2, LenProperties, ElementOfSeq
<1>4. k \in composed /\ k \in Msgs /\ handlers[i] \in Creating(k)
  BY <1>1, <1>2, <1>3 DEF HandlerOf, Creating
<1> HIDE DEF k
<1>5. Among(handlers, Creating(k)) > 0
  <2>1. ~ (Among(handlers, Creating(k)) = 0)
    BY <1>2, <1>4, AmongNone
  <2> QED
    BY <1>2, <2>1, PlacesType
<1>6. Outstanding(k) <= Tries[k]
  BY <1>4 DEF IInv, Account
<1>7. Among(stored, {k}) < Tries[k]
  <2>1. Tries[k] \in Nat
    BY <1>4 DEF Tries
  <2> QED
    BY <1>5, <1>6, <2>1, Numbers DEF IInv, Outstanding
<1>8. \A m \in Msgs : Among(stored', {m}) = Among(stored, {m}) + (IF m = k THEN 1 ELSE 0)
  <2> SUFFICES ASSUME NEW m \in Msgs
               PROVE  Among(stored', {m}) = Among(stored, {m}) + (IF m = k THEN 1 ELSE 0)
    OBVIOUS
  <2>1. Among(Append(stored, k), {m}) = Among(stored, {m}) + (IF k \in {m} THEN 1 ELSE 0)
    BY <1>2, <1>4, AmongAppend
  <2> QED
    BY <1>1, <2>1
<1>9. \A m \in Msgs : Among(stored, {m}) \in Nat
  BY <1>2, PlacesType
<1>10. \A m : Copies(m) = Among(stored, {m}) /\ Copies(m)' = Among(stored', {m})
  <2>1. \A m : Copies(m) = Among(stored, {m})
    BY CopiesAmong
  <2>2. \A m : Copies(m)' = Among(stored', {m})
    <3> SUFFICES ASSUME NEW m PROVE Copies(m)' = Among(stored', {m})
      OBVIOUS
    <3>1. {n \in DOMAIN stored' : stored'[n] = m} = Places(stored', {m})
      BY DEF Places
    <3> QED
      BY <3>1 DEF Copies, Among
  <2> QED
    BY <2>1, <2>2
<1>11. counts' = [counts EXCEPT ![k] = @ + 1]
  <2>1. \A m \in Msgs : Copies(m)' = IF m = k THEN Copies(k) + 1 ELSE Copies(m)
    <3> SUFFICES ASSUME NEW m \in Msgs
                 PROVE  Copies(m)' = IF m = k THEN Copies(k) + 1 ELSE Copies(m)
      OBVIOUS
    <3>1. Copies(m)' = Among(stored', {m}) /\ Copies(m) = Among(stored, {m})
      BY <1>10
    <3>2. Among(stored, {m}) \in Nat
          /\ Among(stored', {m}) = Among(stored, {m}) + (IF m = k THEN 1 ELSE 0)
      BY <1>8, <1>9
    <3>3. CASE m = k
      <4>1. Among(stored', {m}) = Among(stored, {m}) + 1
        BY <3>2, <3>3
      <4> QED
        BY <3>1, <3>3, <4>1, Zenon
    <3>4. CASE m # k
      <4>1. Among(stored', {m}) = Among(stored, {m})
        BY <3>2, <3>4
      <4> QED
        BY <3>1, <3>4, <4>1, Zenon
    <3> QED
      BY <3>3, <3>4, Zenon
  <2>2. counts' = [m \in Msgs |-> Copies(m)']
    OBVIOUS
  <2>3. counts' = [m \in Msgs |-> IF m = k THEN Copies(k) + 1 ELSE Copies(m)]
    BY <2>1, <2>2, Zenon
  <2> QED
    BY <1>4, <2>3, Zenon
<1>12. counts[k] < Tries[k]
  BY <1>4, <1>7, <1>10
<1> QED
  BY <1>1, <1>4, <1>11, <1>12 DEF D!Store, k

\* The sending tab and its server keep the composer's promise: a row appears
\* only for a message the user sent off, and never more rows than its tries,
\* the composer's own emit and, for text to a person, one retry, whatever is
\* lost, reloaded, renewed or refused in between.
THEOREM ImplementsDelivery == Spec => DeliverySpec
<1>1. Init => D!Init
  <2> SUFFICES ASSUME Init PROVE D!Init
    OBVIOUS
  <2>1. stored = << >> /\ composed = {}
    BY DEF Init
  <2>2. \A m : Copies(m) = 0
    <3>1. << >> \in Seq({})
      OBVIOUS
    <3>2. \A m : Among(<< >>, {m}) = 0
      BY <3>1, AmongNone
    <3> QED
      BY <2>1, <3>2, CopiesAmong
  <2> QED
    BY <2>1, <2>2 DEF D!Init
<1>2. IInv /\ [Next]_vars => [D!Next]_(D!vars)
  <2> SUFFICES ASSUME IInv, [Next]_vars PROVE [D!Next]_(D!vars)
    OBVIOUS
  <2>1. ASSUME UNCHANGED <<composed, stored>>
        PROVE  UNCHANGED D!vars
    BY <2>1 DEF D!vars, Copies
  <2>2. ASSUME NEW m \in Msgs, sendMessage(m)
        PROVE  D!Compose(m)
    BY <2>2 DEF sendMessage, D!Compose, Copies
  <2>3. ASSUME NEW i \in DOMAIN handlers, Create(i)
        PROVE  \E m \in Msgs : D!Store(m)
    BY <2>3, CreateStores
  <2>4. ASSUME NEW i \in DOMAIN handlers, Announce(i) \/ Fail(i)
        PROVE  UNCHANGED <<composed, stored>>
    BY <2>4 DEF Announce, Fail, client
  <2>5. ASSUME Connect \/ Listen \/ RejoinChannels \/ Drop \/ Renew \/ Reload
        PROVE  UNCHANGED <<composed, stored>>
    BY <2>5 DEF Connect, Listen, RejoinChannels, Drop, Renew, Reload, client
  <2>6. ASSUME SelectUser \/ SelectChannel \/ Flush \/ FlushStale \/ Handle
        PROVE  UNCHANGED <<composed, stored>>
    BY <2>6 DEF SelectUser, SelectChannel, Move, Flush, FlushStale, Handle
  <2>7. ASSUME Fetching \/ Unheard \/ Receive
        PROVE  UNCHANGED <<composed, stored>>
    BY <2>7 DEF Fetching, AnswerFetch, ApplyFetch, FailFetch, Unheard, Receive, client
  <2>8. ASSUME UNCHANGED vars
        PROVE  UNCHANGED <<composed, stored>>
    BY <2>8 DEF vars, client
  <2> QED
    BY <2>1, <2>2, <2>3, <2>4, <2>5, <2>6, <2>7, <2>8 DEF Next, Serving, D!Next
<1>3. QED
  BY <1>1, <1>2, InductiveInvariant, PTL DEF Spec, DeliverySpec, D!Spec
=============================================================================
