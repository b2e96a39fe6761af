-------------------------- MODULE MessageLogProofs --------------------------
(***************************************************************************)
(* Theorems about MessageLog, for any users, bounds and failures: every    *)
(* number is bounded, and when nothing is under way the list, the head of  *)
(* the drawer and the drawer show what is in the database.                 *)
(*                                                                         *)
(* The last two rest on what is due: whatever a copy shows wrongly, a      *)
(* handler or an event that will put it right is still under way, and the  *)
(* last one told of each kind tells the truth.                             *)
(***************************************************************************)
EXTENDS MessageLog, FiniteSetTheorems, SequenceTheorems, TLAPS

\* How many entries of a sequence are in a set.
Places(s, W) == {i \in DOMAIN s : s[i] \in W}
Among(s, W) == Cardinality(Places(s, W))

\* The last entry of s that is in A is in B.
Ends(s, A, B) ==
    \A i \in DOMAIN s :
      s[i] \in A /\ (\A j \in DOMAIN s : j > i => s[j] \notin A) => s[i] \in B

\* The replies there have been.
Known == 1 .. spent.replies

Call ==
    [op : {"reply", "delete", "toggle", "edit"}, by : Users \cup {None},
     x : Nat \cup BOOLEAN \cup SUBSET Users,
     pc : {"look", "write", "announce", "count", "tellCount", "list", "tellReactions", "tellText"}]

Event ==
    [ev : {"receive_channel_message", "message_deleted", "thread_parent_updated",
           "message_reactions_updated", "message_edited"},
     x : Nat \cup SUBSET Users]

\* Where a handler may be, and what it may carry there.
CallRight(c) ==
    \/ c.op = "reply" /\ c.pc \in {"write", "announce", "count"} /\ c.x \in Known
    \/ c.op = "delete" /\ c.pc \in {"write", "announce"} /\ c.x \in Known \cup {Whole}
    \/ c.op = "delete" /\ c.pc = "count" /\ c.x \in Known
    \/ c.op \in {"reply", "delete"} /\ c.pc = "tellCount" /\ c.x \in Known \cup {0}
    \/ c.op = "toggle" /\ c.by \in Users /\ c.pc \in {"look", "write", "list"}
    \/ c.op = "toggle" /\ c.pc = "tellReactions" /\ c.x \in SUBSET Users
    \/ c.op = "edit" /\ c.pc \in {"write", "tellText"} /\ c.x \in 1 .. MaxEdits

EventRight(e) ==
    \/ e.ev = "receive_channel_message" /\ e.x \in Known
    \/ e.ev \in {"message_deleted", "thread_parent_updated"} /\ e.x \in Known \cup {0}
    \/ e.ev = "message_reactions_updated" /\ e.x \in SUBSET Users
    \/ e.ev = "message_edited" /\ e.x \in 1 .. MaxEdits

Picture == [replies : Nat, reacts : SUBSET Users, text : 0 .. MaxEdits]
Store ==
    [away : BOOLEAN, row : Picture \cup {None}, head : Picture \cup {None},
     real : SUBSET Nat, temp : SUBSET Nat, twin : BOOLEAN, changed : BOOLEAN]

\* What a fetch of the drawer may hold.
Answers == (SUBSET Nat) \cup {None}

Tables ==
    /\ spent \in [replies : 0 .. MaxReplies, edits : 0 .. MaxEdits, ops : Nat, moves : Nat]
    /\ table \in [exists : BOOLEAN, replies : SUBSET Known, reacts : SUBSET Users,
                  text : 0 .. MaxEdits]
    /\ ~ table.exists => table.replies = {} /\ table.reacts = {}

Wires ==
    /\ calls \in Seq(Call) /\ \A c \in Range(calls) : CallRight(c)
    /\ down \in Seq(Event) /\ \A e \in Range(down) : EventRight(e)

Views ==
    /\ tab \in Store /\ tab.real \subseteq Known /\ tab.temp \subseteq Known \ tab.real
    /\ tab.changed \/ tab.twin => tab.head # None
    /\ tab.head = None => tab.temp = {}
    /\ behind \in BOOLEAN

\* Nothing of the message is shown before its history is.
Fetches ==
    /\ drawer \in Seq(Answers) /\ Len(drawer) <= MaxFetches
    /\ \A d \in Range(drawer) : d # None => d \in SUBSET Known
    /\ history \in [is : {"none", "asked", "read"}, row : Picture \cup {None}, late : BOOLEAN]
    /\ history.is # "none" => tab.row = None /\ tab.head = None
    /\ history.is # "read" => history.row = None

\* A reply is counted when it is made and when it arrives, so those that have
\* not arrived may each be counted once more.
Announcing == {c \in Call : c.op = "reply" /\ c.pc \in {"write", "announce"}}
Arriving == {e \in Event : e.ev = "receive_channel_message"}
Uncounted == Among(calls, Announcing) + Among(down, Arriving)

Within(f) == f # None => f.replies + Uncounted <= 2 * spent.replies

Bounded ==
    /\ Uncounted <= spent.replies
    /\ Within(tab.row) /\ Within(tab.head) /\ Within(history.row)

TInv == Tables /\ Wires /\ Views /\ Fetches /\ Bounded

\* What is remembered of what was read and told.
Notes == [count : 0 .. MaxReplies, reactions : SUBSET Users, text : 0 .. MaxEdits, replies : SUBSET Reply]
Remembered == read \in Notes /\ told \in Notes

----------------------------------------------------------------------------
(* Sequences                                                               *)

LEMMA CountTo ==
  ASSUME NEW n \in Nat
  PROVE  IsFiniteSet(1 .. n) /\ Cardinality(1 .. n) = n
<1>1. /\ IsFiniteSet(1 .. n)
      /\ Cardinality(1 .. n) = IF 1 > n THEN 0 ELSE n - 1 + 1
  <2>1. 1 \in Int /\ n \in Int
    OBVIOUS
  <2> QED
    BY <2>1, FS_Interval, Zenon
<1>2. (IF 1 > n THEN 0 ELSE n - 1 + 1) = n
  OBVIOUS
<1> QED
  BY <1>1, <1>2

LEMMA PlacesType ==
  ASSUME NEW S, NEW s \in Seq(S), NEW W
  PROVE  /\ IsFiniteSet(Places(s, W)) /\ Among(s, W) \in Nat
         /\ Places(s, W) \subseteq 1 .. Len(s)
<1>1. Places(s, W) \in SUBSET (1 .. Len(s)) /\ Len(s) \in Nat
  BY LenProperties DEF Places
<1>2. IsFiniteSet(1 .. Len(s))
  BY <1>1, CountTo
<1> QED
  BY <1>1, <1>2, FS_Subset, FS_CardinalityType DEF Among

LEMMA AmongNone ==
  ASSUME NEW S, NEW s \in Seq(S), NEW W
  PROVE  /\ Among(<< >>, W) = 0
         /\ Among(s, W) = 0 => \A i \in DOMAIN s : s[i] \notin W
<1>1. Places(<< >>, W) = {}
  BY DEF Places
<1>2. Among(s, W) = 0 => Places(s, W) = {}
  BY PlacesType, FS_EmptySet DEF Among
<1> QED
  BY <1>1, <1>2, FS_EmptySet DEF Among, Places

LEMMA AmongAppend ==
  ASSUME NEW S, NEW s \in Seq(S), NEW x \in S, NEW W
  PROVE  Among(Append(s, x), W) = Among(s, W) + (IF x \in W THEN 1 ELSE 0)
<1> DEFINE t == Append(s, x)
<1>1. /\ Len(s) \in Nat /\ DOMAIN s = 1 .. Len(s) /\ DOMAIN t = 1 .. Len(s) + 1
      /\ \A i \in 1 .. Len(s) : t[i] = s[i]
      /\ t[Len(s) + 1] = x
  BY AppendProperties, LenProperties
<1>2. /\ IsFiniteSet(Places(s, W)) /\ Among(s, W) \in Nat
      /\ Len(s) + 1 \notin Places(s, W)
  BY <1>1, PlacesType
<1> HIDE DEF t
<1>3. CASE x \in W
  <2>1. Places(t, W) = Places(s, W) \cup {Len(s) + 1}
    BY <1>1, <1>3 DEF Places
  <2> QED
    BY <1>2, <1>3, <2>1, FS_AddElement DEF Among, t
<1>4. CASE x \notin W
  <2>1. Places(t, W) = Places(s, W)
    BY <1>1, <1>4 DEF Places
  <2> QED
    BY <1>2, <1>4, <2>1 DEF Among, t
<1> QED
  BY <1>3, <1>4

LEMMA AmongConcat ==
  ASSUME NEW S, NEW s \in Seq(S), NEW t \in Seq(S), NEW W
  PROVE  Among(s \o t, W) = Among(s, W) + Among(t, W)
<1> DEFINE u == s \o t
           B == {i \in Len(s) + 1 .. Len(s) + Len(t) : u[i] \in W}
           f == [i \in Places(t, W) |-> Len(s) + i]
<1>1. /\ Len(s) \in Nat /\ DOMAIN s = 1 .. Len(s)
      /\ Len(t) \in Nat /\ DOMAIN t = 1 .. Len(t)
      /\ u \in Seq(S) /\ Len(u) = Len(s) + Len(t)
      /\ \A i \in 1 .. Len(s) + Len(t) : u[i] = IF i <= Len(s) THEN s[i] ELSE t[i - Len(s)]
  BY ConcatProperties, LenProperties
<1>2. DOMAIN u = 1 .. Len(s) + Len(t)
  BY <1>1, LenProperties
<1>3. /\ IsFiniteSet(Places(s, W)) /\ Among(s, W) \in Nat /\ Places(s, W) \subseteq 1 .. Len(s)
      /\ IsFiniteSet(Places(t, W)) /\ Among(t, W) \in Nat /\ Places(t, W) \subseteq 1 .. Len(t)
  BY PlacesType
<1> HIDE DEF u
<1>4. Places(u, W) = Places(s, W) \cup B
  BY <1>1, <1>2 DEF Places
<1>5. Places(s, W) \cap B = {}
  BY <1>1, <1>3
<1>6. f \in Bijection(Places(t, W), B)
  <2>1. \A i \in Places(t, W) : f[i] \in B
    BY <1>1, <1>3 DEF Places
  <2>2. \A j \in B : \E i \in Places(t, W) : f[i] = j
    <3> SUFFICES ASSUME NEW j \in B PROVE \E i \in Places(t, W) : f[i] = j
      OBVIOUS
    <3>1. j - Len(s) \in 1 .. Len(t) /\ u[j] = t[j - Len(s)] /\ j \in Int
      BY <1>1
    <3>2. j - Len(s) \in Places(t, W)
      BY <1>1, <3>1 DEF Places
    <3> QED
      BY <1>1, <3>1, <3>2
  <2>3. \A i, j \in Places(t, W) : f[i] = f[j] => i = j
    BY <1>1, <1>3
  <2> QED
    BY <2>1, <2>2, <2>3 DEF Bijection, Injection, IsInjective, Surjection
<1>7. IsFiniteSet(B) /\ Cardinality(B) = Among(t, W)
  BY <1>3, <1>6, FS_Bijection DEF ExistsBijection, Among
<1> HIDE DEF B
<1>8. Cardinality(Places(s, W) \cup B)
        = Cardinality(Places(s, W)) + Cardinality(B) - Cardinality(Places(s, W) \cap B)
  BY <1>3, <1>7, FS_Union
<1>9. Cardinality(Places(u, W)) = Cardinality(Places(s, W)) + Cardinality(B)
  <2>1. Cardinality(Places(s, W) \cap B) = 0
    BY <1>5, FS_EmptySet
  <2>2. Cardinality(Places(s, W)) \in Nat /\ Cardinality(B) \in Nat
    BY <1>3, <1>7 DEF Among
  <2> QED
    BY <1>4, <1>8, <2>1, <2>2
<1> QED
  BY <1>7, <1>9 DEF Among, u

LEMMA AmongOne ==
  ASSUME NEW x, NEW W
  PROVE  Among(<<x>>, W) = IF x \in W THEN 1 ELSE 0
<1>1. x \in W => Places(<<x>>, W) = {1}
  BY DEF Places
<1>2. x \notin W => Places(<<x>>, W) = {}
  BY DEF Places
<1> QED
  BY <1>1, <1>2, FS_EmptySet, FS_Singleton DEF Among

LEMMA AmongTail ==
  ASSUME NEW S, NEW s \in Seq(S), s # << >>, NEW W
  PROVE  Among(s, W) = Among(Tail(s), W) + (IF Head(s) \in W THEN 1 ELSE 0)
<1>1. /\ <<Head(s)>> \in Seq(S) /\ Tail(s) \in Seq(S)
      /\ s = <<Head(s)>> \o Tail(s)
  OBVIOUS
<1>2. Among(s, W) = Among(<<Head(s)>>, W) + Among(Tail(s), W)
  <2>1. Among(<<Head(s)>> \o Tail(s), W) = Among(<<Head(s)>>, W) + Among(Tail(s), W)
    BY <1>1, AmongConcat, Zenon
  <2> QED
    BY <1>1, <2>1, Zenon
<1>3. Among(Tail(s), W) \in Nat
  BY <1>1, PlacesType
<1>4. Among(<<Head(s)>>, W) = IF Head(s) \in W THEN 1 ELSE 0
  BY AmongOne
<1> QED
  BY <1>2, <1>3, <1>4

\* Entries of one sequence that are in W just where those of another are in V.
LEMMA AmongSame ==
  ASSUME NEW s, NEW t, NEW W, NEW V, DOMAIN s = DOMAIN t,
         \A i \in DOMAIN s : s[i] \in W <=> t[i] \in V
  PROVE  Among(s, W) = Among(t, V)
BY DEF Among, Places

LEMMA AmongExcept ==
  ASSUME NEW S, NEW s \in Seq(S), NEW i \in DOMAIN s, NEW x \in S, NEW W,
         s[i] \in W, x \notin W
  PROVE  Among([s EXCEPT ![i] = x], W) = Among(s, W) - 1
<1> DEFINE t == [s EXCEPT ![i] = x]
<1>1. Places(t, W) = Places(s, W) \ {i} /\ i \in Places(s, W)
  BY DEF Places
<1>2. IsFiniteSet(Places(s, W))
  BY PlacesType
<1> QED
  BY <1>1, <1>2, FS_RemoveElement DEF Among

\* The sequences before and after the entry that is removed.
Around(s, i, S) ==
    {p \in Seq(S) \X Seq(S) :
       /\ RemoveAt(s, i) = p[1] \o p[2] /\ s = (p[1] \o <<s[i]>>) \o p[2]
       /\ Len(p[1]) = i - 1}

LEMMA RemoveAtSplits ==
  ASSUME NEW S, NEW s \in Seq(S), NEW i \in DOMAIN s
  PROVE  Around(s, i, S) # {}
<1> DEFINE a == SubSeq(s, 1, i - 1)
           b == SubSeq(s, i + 1, Len(s))
<1>1. Len(s) \in Nat /\ DOMAIN s = 1 .. Len(s) /\ i \in 1 .. Len(s)
  BY LenProperties
<1>2. \A j \in 1 .. Len(s) : s[j] \in S
  BY ElementOfSeq
<1>3. /\ a \in Seq(S) /\ Len(a) = i - 1
      /\ \A j \in 1 .. i - 1 : a[j] = s[j]
  <2>1. \A j \in 1 .. i - 1 : s[j] \in S
    BY <1>1, <1>2
  <2> QED
    BY <1>1, <2>1, SubSeqProperties
<1>4. /\ b \in Seq(S) /\ Len(b) = Len(s) - i
      /\ \A j \in 1 .. Len(s) - i : b[j] = s[i + j]
  <2>1. \A j \in i + 1 .. Len(s) : s[j] \in S
    BY <1>1, <1>2
  <2>2. i + 1 \in Int /\ Len(s) \in Int
    BY <1>1
  <2>3. b \in Seq(S) /\ Len(b) = (IF i + 1 <= Len(s) THEN Len(s) - (i + 1) + 1 ELSE 0)
        /\ \A j \in 1 .. Len(s) - (i + 1) + 1 : b[j] = s[(i + 1) + j - 1]
    BY <2>1, <2>2, SubSeqProperties
  <2> HIDE DEF b
  <2>4. Len(b) = Len(s) - i
    BY <1>1, <2>3
  <2>5. ASSUME NEW j \in 1 .. Len(s) - i PROVE b[j] = s[i + j]
    <3>1. j \in 1 .. Len(s) - (i + 1) + 1 /\ (i + 1) + j - 1 = i + j
      BY <1>1
    <3> QED
      BY <2>3, <3>1
  <2> QED
    BY <2>3, <2>4, <2>5
<1> HIDE DEF a, b
<1>5. s = (a \o <<s[i]>>) \o b
  <2>1. <<s[i]>> \in Seq(S) /\ Len(<<s[i]>>) = 1 /\ <<s[i]>>[1] = s[i]
    BY <1>1, <1>2
  <2> DEFINE c == a \o <<s[i]>>
  <2>2. /\ c \in Seq(S) /\ Len(c) = Len(a) + 1
        /\ \A j \in 1 .. Len(a) + 1 : c[j] = IF j <= Len(a) THEN a[j] ELSE <<s[i]>>[j - Len(a)]
    <3>1. PICK t \in Seq(S) : t = <<s[i]>> /\ Len(t) = 1
      BY <2>1
    <3>2. /\ a \o t \in Seq(S) /\ Len(a \o t) = Len(a) + 1
          /\ \A j \in 1 .. Len(a) + 1 : (a \o t)[j] = IF j <= Len(a) THEN a[j] ELSE t[j - Len(a)]
      <4>1. a \in Seq(S)
        BY <1>3
      <4>2. /\ a \o t \in Seq(S) /\ Len(a \o t) = Len(a) + Len(t)
            /\ \A j \in 1 .. Len(a) + Len(t) : (a \o t)[j] = IF j <= Len(a) THEN a[j] ELSE t[j - Len(a)]
        BY <4>1, ConcatProperties
      <4> QED
        BY <3>1, <4>2, Zenon
    <3> QED
      BY <3>1, <3>2, Zenon DEF c
  <2> HIDE DEF c
  <2>3. Len(c) = i /\ \A j \in 1 .. i : c[j] = s[j]
    <3>1. Len(c) = i /\ Len(a) + 1 = i
      BY <1>1, <1>3, <2>2
    <3> SUFFICES ASSUME NEW j \in 1 .. i PROVE c[j] = s[j]
      BY <3>1
    <3>2. c[j] = IF j <= i - 1 THEN a[j] ELSE <<s[i]>>[j - (i - 1)]
      BY <1>3, <2>2, <3>1
    <3>3. CASE j <= i - 1
      BY <1>1, <1>3, <3>2, <3>3
    <3>4. CASE j = i
      BY <1>1, <2>1, <3>2, <3>4
    <3> QED
      BY <1>1, <3>3, <3>4
  <2>4. /\ c \o b \in Seq(S) /\ Len(c \o b) = Len(c) + Len(b)
        /\ \A j \in 1 .. Len(c) + Len(b) : (c \o b)[j] =
             IF j <= Len(c) THEN c[j] ELSE b[j - Len(c)]
    BY <1>4, <2>2, ConcatProperties
  <2> DEFINE d == c \o b
  <2> HIDE DEF d
  <2>5. Len(d) = Len(s) /\ \A j \in 1 .. Len(s) : d[j] = s[j]
    <3>1. Len(d) = Len(s) /\ Len(c) + Len(b) = Len(s)
      BY <1>1, <1>4, <2>3, <2>4 DEF d
    <3> SUFFICES ASSUME NEW j \in 1 .. Len(s) PROVE d[j] = s[j]
      BY <3>1
    <3>2. d[j] = IF j <= i THEN c[j] ELSE b[j - i]
      BY <2>3, <2>4, <3>1 DEF d
    <3>3. CASE j <= i
      BY <2>3, <3>2, <3>3
    <3>4. CASE i < j
      <4>1. j - i \in 1 .. Len(s) - i /\ i + (j - i) = j
        BY <1>1, <3>4
      <4> QED
        BY <1>1, <1>4, <3>2, <3>4, <4>1
    <3> QED
      BY <1>1, <3>3, <3>4
  <2>6. d = s
    BY <2>4, <2>5, SeqEqual DEF d
  <2> QED
    BY <2>6 DEF c, d
<1>6. RemoveAt(s, i) = a \o b
  BY DEF RemoveAt, a, b
<1>7. <<a, b>> \in Around(s, i, S)
  BY <1>3, <1>4, <1>5, <1>6 DEF Around
<1> QED
  BY <1>7

LEMMA RemoveAtType ==
  ASSUME NEW S, NEW s \in Seq(S), NEW i \in DOMAIN s
  PROVE  RemoveAt(s, i) \in Seq(S)
<1>1. PICK a, b \in Seq(S) : RemoveAt(s, i) = a \o b /\ s = (a \o <<s[i]>>) \o b
  <2>1. PICK p : p \in Around(s, i, S)
    BY RemoveAtSplits, Zenon
  <2> QED
    BY <2>1 DEF Around
<1> QED
  BY <1>1, ConcatProperties

LEMMA AmongRemoveAt ==
  ASSUME NEW S, NEW s \in Seq(S), NEW i \in DOMAIN s, NEW W
  PROVE  Among(s, W) = Among(RemoveAt(s, i), W) + (IF s[i] \in W THEN 1 ELSE 0)
<1>1. PICK a, b \in Seq(S) : RemoveAt(s, i) = a \o b /\ s = (a \o <<s[i]>>) \o b
  <2>1. PICK p : p \in Around(s, i, S)
    BY RemoveAtSplits, Zenon
  <2> QED
    BY <2>1 DEF Around
<1>2. <<s[i]>> \in Seq(S) /\ a \o <<s[i]>> \in Seq(S)
  <2>1. s[i] \in S
    BY LenProperties, ElementOfSeq
  <2> QED
    BY <2>1, ConcatProperties
<1>3. Among(a \o b, W) = Among(a, W) + Among(b, W)
  BY AmongConcat
<1>4. Among((a \o <<s[i]>>) \o b, W) = Among(a \o <<s[i]>>, W) + Among(b, W)
  BY <1>2, AmongConcat
<1>5. Among(a \o <<s[i]>>, W) = Among(a, W) + Among(<<s[i]>>, W)
  BY <1>2, AmongConcat
<1>6. Among(a, W) \in Nat /\ Among(b, W) \in Nat
  BY PlacesType
<1>7. Among(s, W) = Among((a \o <<s[i]>>) \o b, W) /\ Among(RemoveAt(s, i), W) = Among(a \o b, W)
  BY <1>1, Zenon
<1> QED
  BY <1>3, <1>4, <1>5, <1>6, <1>7, AmongOne

LEMMA TailIs ==
  ASSUME NEW S, NEW s \in Seq(S), s # << >>
  PROVE  /\ Len(s) \in Nat /\ DOMAIN s = 1 .. Len(s) /\ 1 \in DOMAIN s
         /\ DOMAIN Tail(s) = 1 .. Len(s) - 1
         /\ \A i \in 1 .. Len(s) - 1 : Tail(s)[i] = s[i + 1]
         /\ Head(s) = s[1] /\ Tail(s) \in Seq(S) /\ Head(s) \in S
<1>1. Len(s) \in Nat /\ DOMAIN s = 1 .. Len(s) /\ Len(s) # 0
  BY LenProperties, EmptySeq
<1>2. Tail(s) \in Seq(S) /\ Len(Tail(s)) = Len(s) - 1 /\ \A i \in 1 .. Len(Tail(s)) : Tail(s)[i] = s[i + 1]
  BY HeadTailProperties
<1>3. DOMAIN Tail(s) = 1 .. Len(Tail(s))
  BY <1>2, LenProperties
<1> QED
  BY <1>1, <1>2, <1>3, HeadTailProperties

LEMMA EndsAppend ==
  ASSUME NEW S, NEW s \in Seq(S), NEW e \in S, NEW A, NEW B,
           IF e \in A THEN e \in B ELSE Ends(s, A, B)
  PROVE  Ends(Append(s, e), A, B)
<1> DEFINE t == Append(s, e)
<1>1. /\ DOMAIN t = 1 .. Len(s) + 1 /\ DOMAIN s = 1 .. Len(s) /\ Len(s) \in Nat
      /\ t[Len(s) + 1] = e /\ \A i \in 1 .. Len(s) : t[i] = s[i]
  BY AppendProperties, LenProperties
<1> HIDE DEF t
<1> SUFFICES ASSUME NEW i \in DOMAIN t, t[i] \in A, \A j \in DOMAIN t : j > i => t[j] \notin A
             PROVE  t[i] \in B
  BY DEF Ends, t
<1>2. CASE e \in A
  BY <1>1, <1>2
<1>3. CASE e \notin A
  <2>1. i \in DOMAIN s /\ s[i] \in A
    BY <1>1, <1>3
  <2>2. \A j \in DOMAIN s : j > i => s[j] \notin A
    BY <1>1
  <2> QED
    BY <1>1, <1>3, <2>1, <2>2 DEF Ends
<1> QED
  BY <1>2, <1>3

LEMMA EndsTail ==
  ASSUME NEW S, NEW s \in Seq(S), s # << >>, NEW A, NEW B, Ends(s, A, B)
  PROVE  /\ Ends(Tail(s), A, B)
         /\ Range(Tail(s)) \cap A = {} /\ Head(s) \in A => Head(s) \in B
<1>1. ASSUME NEW i \in DOMAIN Tail(s), Tail(s)[i] \in A,
             \A j \in DOMAIN Tail(s) : j > i => Tail(s)[j] \notin A
      PROVE  Tail(s)[i] \in B
  <2>1. i \in Int /\ i >= 1 /\ i + 1 \in DOMAIN s /\ s[i + 1] = Tail(s)[i]
    BY TailIs
  <2>2. ASSUME NEW j \in DOMAIN s, j > i + 1
        PROVE  s[j] \notin A
    <3>1. j - 1 \in DOMAIN Tail(s) /\ Tail(s)[j - 1] = s[j] /\ j - 1 > i
      BY <2>1, <2>2, TailIs
    <3> QED
      BY <1>1, <3>1
  <2> QED
    BY <1>1, <2>1, <2>2 DEF Ends
<1>2. ASSUME Range(Tail(s)) \cap A = {}, Head(s) \in A
      PROVE  Head(s) \in B
  <2>1. ASSUME NEW j \in DOMAIN s, j > 1
        PROVE  s[j] \notin A
    <3>1. j - 1 \in DOMAIN Tail(s) /\ Tail(s)[j - 1] = s[j]
      BY <2>1, TailIs
    <3> QED
      BY <1>2, <3>1 DEF Range
  <2> QED
    BY <1>2, <2>1, TailIs DEF Ends
<1> QED
  BY <1>1, <1>2 DEF Ends

LEMMA ConcatIs ==
  ASSUME NEW S, NEW s \in Seq(S), NEW t \in Seq(S)
  PROVE  /\ Len(s) \in Nat /\ DOMAIN s = 1 .. Len(s)
         /\ Len(t) \in Nat /\ DOMAIN t = 1 .. Len(t)
         /\ DOMAIN (s \o t) = 1 .. Len(s) + Len(t)
         /\ \A i \in 1 .. Len(s) : (s \o t)[i] = s[i]
         /\ \A i \in 1 .. Len(t) : (s \o t)[Len(s) + i] = t[i]
<1>1. /\ Len(s) \in Nat /\ DOMAIN s = 1 .. Len(s)
      /\ Len(t) \in Nat /\ DOMAIN t = 1 .. Len(t)
  BY LenProperties
<1>2. /\ s \o t \in Seq(S) /\ Len(s \o t) = Len(s) + Len(t)
      /\ \A i \in 1 .. Len(s) + Len(t) : (s \o t)[i] = IF i <= Len(s) THEN s[i] ELSE t[i - Len(s)]
  BY ConcatProperties
<1>3. DOMAIN (s \o t) = 1 .. Len(s) + Len(t)
  BY <1>2, LenProperties
<1>4. ASSUME NEW i \in 1 .. Len(t)
      PROVE  (s \o t)[Len(s) + i] = t[i]
  <2>1. Len(s) + i \in 1 .. Len(s) + Len(t) /\ ~ (Len(s) + i <= Len(s)) /\ (Len(s) + i) - Len(s) = i
    BY <1>1
  <2> QED
    BY <1>2, <2>1
<1>5. ASSUME NEW i \in 1 .. Len(s)
      PROVE  (s \o t)[i] = s[i]
  BY <1>1, <1>2
<1> QED
  BY <1>1, <1>3, <1>4, <1>5

LEMMA RangeAppend ==
  ASSUME NEW S, NEW s \in Seq(S), NEW e \in S
  PROVE  Range(Append(s, e)) = Range(s) \cup {e}
<1> DEFINE t == Append(s, e)
<1>1. /\ DOMAIN t = 1 .. Len(s) + 1 /\ DOMAIN s = 1 .. Len(s) /\ Len(s) \in Nat
      /\ t[Len(s) + 1] = e /\ \A i \in 1 .. Len(s) : t[i] = s[i]
  BY AppendProperties, LenProperties
<1> HIDE DEF t
<1> QED
  BY <1>1 DEF Range, t

LEMMA RangeConcat ==
  ASSUME NEW S, NEW s \in Seq(S), NEW t \in Seq(S)
  PROVE  Range(s \o t) = Range(s) \cup Range(t)
<1> DEFINE st == s \o t
<1>1. /\ Len(s) \in Nat /\ DOMAIN s = 1 .. Len(s)
      /\ Len(t) \in Nat /\ DOMAIN t = 1 .. Len(t)
      /\ DOMAIN st = 1 .. Len(s) + Len(t)
      /\ \A i \in 1 .. Len(s) : st[i] = s[i]
      /\ \A i \in 1 .. Len(t) : st[Len(s) + i] = t[i]
  BY ConcatIs
<1> HIDE DEF st
<1>2. ASSUME NEW i \in DOMAIN st
      PROVE  st[i] \in Range(s) \cup Range(t)
  <2>1. CASE i <= Len(s)
    BY <1>1, <1>2, <2>1 DEF Range
  <2>2. CASE ~ (i <= Len(s))
    <3>1. i - Len(s) \in DOMAIN t /\ Len(s) + (i - Len(s)) = i
      BY <1>1, <2>2
    <3>2. st[i] = t[i - Len(s)]
      BY <1>1, <3>1
    <3> QED
      BY <3>1, <3>2 DEF Range
  <2> QED
    BY <2>1, <2>2
<1>3. ASSUME NEW i \in DOMAIN s
      PROVE  s[i] \in Range(st)
  BY <1>1, <1>3 DEF Range
<1>4. ASSUME NEW i \in DOMAIN t
      PROVE  t[i] \in Range(st)
  <2>1. Len(s) + i \in DOMAIN st
    BY <1>1
  <2> QED
    BY <1>1, <1>4, <2>1 DEF Range
<1>5. Range(st) \subseteq Range(s) \cup Range(t)
  BY <1>2, Zenon DEF Range
<1>6. Range(s) \subseteq Range(st) /\ Range(t) \subseteq Range(st)
  BY <1>3, <1>4 DEF Range
<1> QED
  BY <1>5, <1>6 DEF st

LEMMA RangeOne == \A e : Range(<<e>>) = {e}
  BY DEF Range

LEMMA RangeRemoveAt ==
  ASSUME NEW S, NEW s \in Seq(S), NEW i \in DOMAIN s
  PROVE  /\ Range(s) = Range(RemoveAt(s, i)) \cup {s[i]}
         /\ Len(RemoveAt(s, i)) = Len(s) - 1 /\ RemoveAt(s, i) \in Seq(S)
<1>1. PICK a, b \in Seq(S) : RemoveAt(s, i) = a \o b /\ s = (a \o <<s[i]>>) \o b
  <2>1. PICK p : p \in Around(s, i, S)
    BY RemoveAtSplits, Zenon
  <2> QED
    BY <2>1 DEF Around
<1>2. <<s[i]>> \in Seq(S) /\ a \o <<s[i]>> \in Seq(S) /\ Len(<<s[i]>>) = 1
  <2>1. s[i] \in S
    BY LenProperties, ElementOfSeq
  <2> QED
    BY <2>1, ConcatProperties
<1> DEFINE c == <<s[i]>>
<1>3. Range(c) = {s[i]}
  BY RangeOne, Zenon
<1>4. c \in Seq(S) /\ a \o c \in Seq(S) /\ Len(c) = 1
  BY <1>2
<1> HIDE DEF c
<1>5. Range(a \o b) = Range(a) \cup Range(b)
  BY RangeConcat
<1>6. Range((a \o c) \o b) = Range(a \o c) \cup Range(b) /\ Range(a \o c) = Range(a) \cup Range(c)
  <2>1. PICK t, u \in Seq(S) : t = c /\ u = a \o c
    BY <1>4
  <2>2. Range(u \o b) = Range(u) \cup Range(b)
    BY RangeConcat
  <2>3. Range(a \o t) = Range(a) \cup Range(t)
    BY RangeConcat
  <2> QED
    BY <2>1, <2>2, <2>3, Zenon
<1>7. Range(s) = Range((a \o c) \o b) /\ Range(RemoveAt(s, i)) = Range(a \o b)
  BY <1>1, Zenon DEF c
<1>8. Len(a) \in Nat /\ Len(b) \in Nat /\ Len(a \o b) = Len(a) + Len(b)
      /\ Len((a \o c) \o b) = Len(a) + Len(c) + Len(b)
  <2>1. Len(a \o c) = Len(a) + Len(c) /\ Len((a \o c) \o b) = Len(a \o c) + Len(b)
    BY <1>4, ConcatProperties
  <2>2. Len(a) \in Nat /\ Len(b) \in Nat /\ Len(a \o b) = Len(a) + Len(b)
    BY ConcatProperties, LenProperties
  <2> QED
    BY <1>4, <2>1, <2>2
<1>9. Len(s) = Len((a \o c) \o b) /\ Len(RemoveAt(s, i)) = Len(a \o b)
  BY <1>1, Zenon DEF c
<1>10. Len(RemoveAt(s, i)) = Len(s) - 1
  BY <1>4, <1>8, <1>9
<1>11. Range(s) = Range(RemoveAt(s, i)) \cup {s[i]}
  BY <1>3, <1>5, <1>6, <1>7
<1> QED
  BY <1>10, <1>11, RemoveAtType

LEMMA RangeExcept ==
  ASSUME NEW S, NEW s \in Seq(S), NEW i \in DOMAIN s, NEW e \in S
  PROVE  LET t == [s EXCEPT ![i] = e]
         IN  /\ t \in Seq(S) /\ Len(t) = Len(s) /\ DOMAIN t = DOMAIN s
             /\ Range(t) \subseteq Range(s) \cup {e}
             /\ Range(s) \subseteq Range(t) \cup {s[i]}
             /\ e \in Range(t)
<1> DEFINE t == [s EXCEPT ![i] = e]
<1>1. DOMAIN t = DOMAIN s /\ t[i] = e /\ \A j \in DOMAIN s : j # i => t[j] = s[j]
  OBVIOUS
<1>2. t \in Seq(S) /\ Len(t) = Len(s)
  BY ExceptSeq
<1> HIDE DEF t
<1>3. Range(t) \subseteq Range(s) \cup {e} /\ Range(s) \subseteq Range(t) \cup {s[i]} /\ e \in Range(t)
  BY <1>1 DEF Range
<1> QED
  BY <1>1, <1>2, <1>3 DEF t

LEMMA RangeTail ==
  ASSUME NEW S, NEW s \in Seq(S), s # << >>
  PROVE  /\ Range(s) = {Head(s)} \cup Range(Tail(s))
         /\ Head(s) \in Range(s) /\ Tail(s) \in Seq(S) /\ Head(s) \in S
<1>1. ASSUME NEW i \in DOMAIN s
      PROVE  s[i] \in {Head(s)} \cup Range(Tail(s))
  <2>1. CASE i = 1
    BY <2>1, TailIs
  <2>2. CASE i # 1
    <3>1. i - 1 \in DOMAIN Tail(s) /\ Tail(s)[i - 1] = s[i]
      BY <2>2, TailIs
    <3> QED
      BY <3>1 DEF Range
  <2> QED
    BY <2>1, <2>2
<1>2. ASSUME NEW i \in DOMAIN Tail(s)
      PROVE  Tail(s)[i] \in Range(s)
  <2>1. i + 1 \in DOMAIN s /\ s[i + 1] = Tail(s)[i]
    BY TailIs
  <2> QED
    BY <2>1 DEF Range
<1>3. Head(s) \in Range(s)
  BY TailIs DEF Range
<1>4. Range(s) \subseteq {Head(s)} \cup Range(Tail(s))
  BY <1>1, Zenon DEF Range
<1>5. Range(Tail(s)) \subseteq Range(s)
  BY <1>2, Zenon DEF Range
<1> QED
  BY <1>3, <1>4, <1>5, TailIs

LEMMA RangeOfAll ==
  ASSUME NEW S, NEW s \in Seq(S)
  PROVE  /\ Range(s) \subseteq S
         /\ \A i \in DOMAIN s : s[i] \in Range(s) /\ s[i] \in S
         /\ \A e \in Range(s) : \E i \in DOMAIN s : s[i] = e
         /\ s = << >> => Range(s) = {}
<1>1. \A i \in DOMAIN s : s[i] \in S
  BY LenProperties, ElementOfSeq
<1> QED
  BY <1>1 DEF Range

----------------------------------------------------------------------------
(* The store                                                               *)

\* The copy f of the message, if it is one, has become g.
Painted(f, g, n, r, x) ==
    /\ g \in Picture \cup {None} /\ (g = None <=> f = None)
    /\ f # None => g.replies = n /\ g.reacts = r /\ g.text = x

LEMMA PictureIsOne ==
  /\ None \notin Picture
  /\ \A n \in Nat, r \in SUBSET Users, x \in 0 .. MaxEdits :
       [replies |-> n, reacts |-> r, text |-> x] \in Picture
  BY NoneAssumption, BoundsAssumption DEF Picture

LEMMA LessOne == \A n \in Nat : Max({n - 1, 0}) = IF n = 0 THEN 0 ELSE n - 1
<1> SUFFICES ASSUME NEW n \in Nat PROVE Max({n - 1, 0}) = IF n = 0 THEN 0 ELSE n - 1
  OBVIOUS
<1> DEFINE m == IF n = 0 THEN 0 ELSE n - 1
<1>1. m \in {n - 1, 0} /\ \A y \in {n - 1, 0} : m >= y
  OBVIOUS
<1>2. \A x \in {n - 1, 0} : (\A y \in {n - 1, 0} : x >= y) => x = m
  OBVIOUS
<1> QED
  BY <1>1, <1>2 DEF Max

\* What a repainting leaves alone.
Kept(t, u) ==
    /\ u \in Store
    /\ u.away = t.away /\ u.real = t.real /\ u.temp = t.temp /\ u.twin = FALSE
    /\ u.changed = (t.changed \/ t.head # None)

LEMMA MoreIs ==
  ASSUME NEW t \in Store
  PROVE  /\ Kept(t, More(t))
         /\ Painted(t.row, More(t).row, t.row.replies + 1, t.row.reacts, t.row.text)
         /\ Painted(t.head, More(t).head, t.head.replies + 1, t.head.reacts, t.head.text)
<1>1. /\ More(t).away = t.away /\ More(t).real = t.real /\ More(t).temp = t.temp
      /\ More(t).twin = FALSE /\ More(t).changed = (t.changed \/ t.head # None)
  BY DEF More, Repaint, On, Store
<1>2. /\ Painted(t.row, More(t).row, t.row.replies + 1, t.row.reacts, t.row.text)
      /\ Painted(t.head, More(t).head, t.head.replies + 1, t.head.reacts, t.head.text)
  BY PictureIsOne DEF More, Repaint, On, Store, Painted, Picture
<1>3. More(t) = [t EXCEPT !.row = More(t).row, !.head = More(t).head, !.twin = FALSE,
                   !.changed = t.changed \/ t.head # None]
  BY DEF More, Repaint, Store
<1>4. More(t).row \in Picture \cup {None} /\ More(t).head \in Picture \cup {None}
  BY <1>2, PictureIsOne DEF Painted, Store, Picture
<1>5. More(t) \in Store
  BY <1>3, <1>4 DEF Store
<1> QED
  BY <1>1, <1>2, <1>5 DEF Kept

LEMMA FewerIs ==
  ASSUME NEW t \in Store
  PROVE  /\ Kept(t, Fewer(t))
         /\ Painted(t.row, Fewer(t).row, Max({t.row.replies - 1, 0}), t.row.reacts, t.row.text)
         /\ Painted(t.head, Fewer(t).head, Max({t.head.replies - 1, 0}), t.head.reacts, t.head.text)
<1>1. /\ Fewer(t).away = t.away /\ Fewer(t).real = t.real /\ Fewer(t).temp = t.temp
      /\ Fewer(t).twin = FALSE /\ Fewer(t).changed = (t.changed \/ t.head # None)
  BY DEF Fewer, Repaint, On, Store
<1>2. /\ Painted(t.row, Fewer(t).row, Max({t.row.replies - 1, 0}), t.row.reacts, t.row.text)
      /\ Painted(t.head, Fewer(t).head, Max({t.head.replies - 1, 0}), t.head.reacts, t.head.text)
  BY PictureIsOne, LessOne DEF Fewer, Repaint, On, Store, Painted, Picture
<1>3. Fewer(t) = [t EXCEPT !.row = Fewer(t).row, !.head = Fewer(t).head, !.twin = FALSE,
                   !.changed = t.changed \/ t.head # None]
  BY DEF Fewer, Repaint, Store
<1>4. Fewer(t).row \in Picture \cup {None} /\ Fewer(t).head \in Picture \cup {None}
  BY <1>2, PictureIsOne, LessOne DEF Painted, Store, Picture
<1>5. Fewer(t) \in Store
  BY <1>3, <1>4 DEF Store
<1> QED
  BY <1>1, <1>2, <1>5 DEF Kept

LEMMA CountIs ==
  ASSUME NEW t \in Store, NEW n \in Nat, NEW u, u = setThreadReplyCount(t, n)
  PROVE  /\ Kept(t, u)
         /\ Painted(t.row, u.row, n, t.row.reacts, t.row.text)
         /\ Painted(t.head, u.head, n, t.head.reacts, t.head.text)
<1> DEFINE w == setThreadReplyCount(t, n)
<1>1. /\ w.away = t.away /\ w.real = t.real /\ w.temp = t.temp
      /\ w.twin = FALSE /\ w.changed = (t.changed \/ t.head # None)
  BY DEF setThreadReplyCount, Repaint, On, Store
<1>2. /\ Painted(t.row, w.row, n, t.row.reacts, t.row.text)
      /\ Painted(t.head, w.head, n, t.head.reacts, t.head.text)
  BY PictureIsOne DEF setThreadReplyCount, Repaint, On, Store, Painted, Picture
<1>3. w \in Store
  <2>1. w = [t EXCEPT !.row = w.row, !.head = w.head, !.twin = FALSE,
                      !.changed = t.changed \/ t.head # None]
    BY DEF setThreadReplyCount, Repaint, Store
  <2>2. w.row \in Picture \cup {None} /\ w.head \in Picture \cup {None}
    BY <1>2 DEF Painted
  <2> HIDE DEF w
  <2> QED
    BY <2>1, <2>2 DEF Store
<1> HIDE DEF w
<1>4. w = u
  BY DEF w
<1> QED
  BY <1>1, <1>2, <1>3, <1>4 DEF Kept

LEMMA ReactionsAre ==
  ASSUME NEW t \in Store, NEW r \in SUBSET Users, NEW u, u = updateMessageReactions(t, r)
  PROVE  /\ Kept(t, u)
         /\ Painted(t.row, u.row, t.row.replies, r, t.row.text)
         /\ Painted(t.head, u.head, t.head.replies, r, t.head.text)
<1> DEFINE w == updateMessageReactions(t, r)
<1>1. /\ w.away = t.away /\ w.real = t.real /\ w.temp = t.temp
      /\ w.twin = FALSE /\ w.changed = (t.changed \/ t.head # None)
  BY DEF updateMessageReactions, Repaint, On, Store
<1>2. /\ Painted(t.row, w.row, t.row.replies, r, t.row.text)
      /\ Painted(t.head, w.head, t.head.replies, r, t.head.text)
  BY PictureIsOne DEF updateMessageReactions, Repaint, On, Store, Painted, Picture
<1>3. w \in Store
  <2>1. w = [t EXCEPT !.row = w.row, !.head = w.head, !.twin = FALSE,
                      !.changed = t.changed \/ t.head # None]
    BY DEF updateMessageReactions, Repaint, Store
  <2>2. w.row \in Picture \cup {None} /\ w.head \in Picture \cup {None}
    BY <1>2 DEF Painted
  <2> HIDE DEF w
  <2> QED
    BY <2>1, <2>2 DEF Store
<1> HIDE DEF w
<1>4. w = u
  BY DEF w
<1> QED
  BY <1>1, <1>2, <1>3, <1>4 DEF Kept

LEMMA EditIs ==
  ASSUME NEW t \in Store, NEW x \in 0 .. MaxEdits, NEW u, u = editMessage(t, x)
  PROVE  /\ u \in Store
         /\ u.away = t.away /\ u.real = t.real /\ u.temp = t.temp /\ u.changed = t.changed
         /\ u.head = t.head /\ u.twin = (t.twin /\ t.row = None)
         /\ Painted(t.row, u.row, t.row.replies, t.row.reacts, x)
<1> DEFINE w == editMessage(t, x)
<1>1. /\ w.away = t.away /\ w.real = t.real /\ w.temp = t.temp
      /\ w.changed = t.changed /\ w.head = t.head /\ w.twin = (t.twin /\ t.row = None)
  BY DEF editMessage, On, Store
<1>2. Painted(t.row, w.row, t.row.replies, t.row.reacts, x)
  BY PictureIsOne DEF editMessage, On, Store, Painted, Picture
<1>3. w \in Store
  BY PictureIsOne DEF editMessage, On, Store, Picture
<1> HIDE DEF w
<1>4. w = u
  BY DEF w
<1> QED
  BY <1>1, <1>2, <1>3, <1>4

LEMMA CloseIs ==
  ASSUME NEW t \in Store
  PROVE  LET u == closeThread(t)
         IN  /\ u \in Store
             /\ u.away = t.away /\ u.row = t.row /\ u.head = None /\ u.real = {} /\ u.temp = {}
             /\ u.twin = FALSE /\ u.changed = FALSE
  BY DEF closeThread, Store

\* The same but for fewer replies.
Lessened(f, g) ==
    /\ g \in Picture \cup {None} /\ (g = None <=> f = None)
    /\ f # None => g.replies <= f.replies /\ g.reacts = f.reacts /\ g.text = f.text

LEMMA LessenedTwice ==
  ASSUME NEW f \in Picture \cup {None}, NEW g, NEW h, Lessened(f, g), Lessened(g, h)
  PROVE  Lessened(f, h)
<1>1. f # None => f.replies \in Nat /\ g.replies \in Nat /\ h.replies \in Nat
  BY DEF Lessened, Picture
<1> QED
  BY <1>1 DEF Lessened

\* What the deletion of a reply does to a store.
Pruned(t, u, x) ==
    /\ u \in Store /\ Lessened(t.row, u.row) /\ Lessened(t.head, u.head)
    /\ u.away = t.away /\ u.real = t.real \ {x} /\ u.temp = t.temp /\ u.twin = FALSE
    /\ u.changed = (t.changed \/ t.head # None)

\* And that of the message.
Cleared(t, u) ==
    /\ u \in Store /\ u.away = t.away /\ u.row = None /\ u.head = None
    /\ u.real \subseteq t.real
    /\ t.head = None => u.temp = t.temp /\ u.changed = t.changed /\ u.twin = t.twin
    /\ t.head # None => u.temp = {} /\ ~ u.changed /\ ~ u.twin

LEMMA DeleteIs ==
  ASSUME NEW t \in Store, NEW x
  PROVE  /\ x = Whole => Cleared(t, deleteMessage(t, x))
         /\ x # Whole => Pruned(t, deleteMessage(t, x), x)
<1>1. CASE x = Whole
  BY <1>1, CloseIs DEF deleteMessage, Cleared, Store
<1>2. CASE x # Whole
  <2> DEFINE v == Fewer(t)
             u == [v EXCEPT !.real = @ \ {x}]
  <2>1. /\ Kept(t, v)
        /\ Painted(t.row, v.row, Max({t.row.replies - 1, 0}), t.row.reacts, t.row.text)
        /\ Painted(t.head, v.head, Max({t.head.replies - 1, 0}), t.head.reacts, t.head.text)
    BY FewerIs
  <2>2. deleteMessage(t, x) = u
    BY <1>2 DEF deleteMessage
  <2>3. Lessened(t.row, v.row) /\ Lessened(t.head, v.head)
    BY <2>1, PictureIsOne, LessOne DEF Lessened, Painted, Store, Picture
  <2> HIDE DEF v
  <2>4. Pruned(t, u, x)
    BY <2>1, <2>3 DEF Kept, Pruned, Store
  <2> QED
    BY <1>2, <2>2, <2>4
<1> QED
  BY <1>1, <1>2

LEMMA DeleteTwiceIs ==
  ASSUME NEW t \in Store, NEW x, NEW u, u = deleteMessage(deleteMessage(t, x), x)
  PROVE  /\ x = Whole => Cleared(t, u)
         /\ x # Whole => Pruned(t, u, x)
<1> DEFINE v == deleteMessage(t, x)
           w == deleteMessage(v, x)
<1>1. (x = Whole => Cleared(t, v)) /\ (x # Whole => Pruned(t, v, x))
  BY DeleteIs
<1>2. v \in Store
  BY <1>1 DEF Cleared, Pruned
<1> HIDE DEF v
<1>3. (x = Whole => Cleared(v, w)) /\ (x # Whole => Pruned(v, w, x))
  BY <1>2, DeleteIs
<1> HIDE DEF w
<1>4. x = Whole => Cleared(t, w)
  BY <1>1, <1>3 DEF Cleared
<1>5. ASSUME x # Whole PROVE Pruned(t, w, x)
  <2>1. t.row \in Picture \cup {None} /\ t.head \in Picture \cup {None}
    BY DEF Store
  <2>2. Lessened(t.row, w.row) /\ Lessened(t.head, w.head)
    BY <1>1, <1>3, <1>5, <2>1, LessenedTwice DEF Pruned
  <2> QED
    BY <1>1, <1>3, <1>5, <2>2 DEF Pruned, Lessened
<1> QED
  BY <1>4, <1>5 DEF w, v

\* The reply is new to what the tab shows, and counted.
Novel(t, r) == ~ t.away /\ (t.head = None \/ r \notin t.real \cup t.temp)

\* What the arrival of a reply does to a store.
Received(t, u, r) ==
    /\ u \in Store /\ u.away = t.away /\ u.temp \subseteq t.temp
    /\ IF Novel(t, r)
         THEN /\ Painted(t.row, u.row, t.row.replies + 1, t.row.reacts, t.row.text)
              /\ Painted(t.head, u.head, t.head.replies + 1, t.head.reacts, t.head.text)
              /\ ~ u.twin /\ u.changed = (t.changed \/ t.head # None)
         ELSE u.row = t.row /\ u.head = t.head /\ u.twin = t.twin /\ u.changed = t.changed
    /\ IF t.away \/ t.head = None
         THEN u.real = t.real /\ u.temp = t.temp
         ELSE u.real = t.real \cup {r} /\ u.temp = t.temp \ {r}

LEMMA ReceiveIs ==
  ASSUME NEW t \in Store, NEW r \in Nat, NEW u, u = receive(t, r)
  PROVE  Received(t, u, r)
<1> DEFINE v == More(t)
           w == receive(t, r)
<1>1. /\ Kept(t, v)
      /\ Painted(t.row, v.row, t.row.replies + 1, t.row.reacts, t.row.text)
      /\ Painted(t.head, v.head, t.head.replies + 1, t.head.reacts, t.head.text)
  BY MoreIs
<1>2. CASE t.away
  BY <1>2 DEF receive, Novel, Received, Store
<1>3. CASE ~ t.away /\ t.head = None
  <2>1. w = v
    BY <1>3 DEF receive
  <2> HIDE DEF w, v
  <2> QED
    BY <1>1, <1>3, <2>1 DEF Novel, Received, Kept, w
<1>4. CASE ~ t.away /\ t.head # None /\ r \in t.real \cup t.temp
  BY <1>4 DEF receive, Novel, Received, Store
<1>5. CASE ~ t.away /\ t.head # None /\ r \notin t.real \cup t.temp
  <2>1. w = [v EXCEPT !.real = @ \cup {r}]
    BY <1>5 DEF receive
  <2> HIDE DEF w, v
  <2>2. /\ w \in Store /\ w.away = v.away /\ w.row = v.row /\ w.head = v.head
        /\ w.real = v.real \cup {r} /\ w.temp = v.temp /\ w.twin = v.twin /\ w.changed = v.changed
    BY <1>1, <2>1 DEF Kept, Store
  <2> QED
    BY <1>1, <1>5, <2>2 DEF Novel, Received, Kept, w
<1> QED
  BY <1>2, <1>3, <1>4, <1>5

----------------------------------------------------------------------------
(* Handlers and events                                                     *)

LEMMA AmongChange ==
  ASSUME NEW S, NEW s \in Seq(S), NEW i \in DOMAIN s, NEW x \in S, NEW W
  PROVE  /\ Among([s EXCEPT ![i] = x], W) \in Nat
         /\ Among([s EXCEPT ![i] = x], W) + (IF s[i] \in W THEN 1 ELSE 0)
              = Among(s, W) + (IF x \in W THEN 1 ELSE 0)
<1> DEFINE t == [s EXCEPT ![i] = x]
<1>1. t \in Seq(S) /\ DOMAIN t = DOMAIN s /\ t[i] = x /\ \A j \in DOMAIN s : j # i => t[j] = s[j]
  BY ExceptSeq
<1>2. Among(t, W) \in Nat /\ Among(s, W) \in Nat
  BY <1>1, PlacesType
<1>3. CASE s[i] \in W <=> x \in W
  <2>1. Among(s, W) = Among(t, W)
    BY <1>1, <1>3, AmongSame
  <2> QED
    BY <1>2, <1>3, <2>1
<1>4. CASE s[i] \in W /\ x \notin W
  <2>1. Among(t, W) = Among(s, W) - 1
    BY <1>4, AmongExcept
  <2> QED
    BY <1>2, <1>4, <2>1
<1>5. CASE s[i] \notin W /\ x \in W
  <2>1. [t EXCEPT ![i] = s[i]] = s /\ s[i] \in S
    <3> DEFINE w == [t EXCEPT ![i] = s[i]]
    <3>1. s[i] \in S
      BY LenProperties, ElementOfSeq
    <3> HIDE DEF t
    <3>2. w \in Seq(S) /\ Len(w) = Len(t)
      BY <1>1, <3>1, ExceptSeq
    <3>3. \A j \in DOMAIN s : w[j] = s[j]
      BY <1>1
    <3>4. Len(t) = Len(s) /\ DOMAIN s = 1 .. Len(s)
      BY <1>1, ExceptSeq, LenProperties DEF t
    <3> HIDE DEF w
    <3>5. w = s
      BY <3>2, <3>3, <3>4, SeqEqual
    <3> QED
      BY <3>1, <3>5 DEF w
  <2>2. Among([t EXCEPT ![i] = s[i]], W) = Among(t, W) - 1
    BY <1>1, <1>5, <2>1, AmongExcept
  <2> QED
    BY <1>2, <1>5, <2>1, <2>2
<1> QED
  BY <1>3, <1>4, <1>5

At(c, pc, x) == [op |-> c.op, by |-> c.by, x |-> x, pc |-> pc]

\* The handler c goes on as one of D, or ends.
Replaced(c, D) ==
    /\ calls' \in Seq(Call) /\ c \in Range(calls) /\ c \in Call
    /\ Range(calls') \subseteq Range(calls) \cup D
    /\ Range(calls) \subseteq Range(calls') \cup {c}
    /\ D \subseteq Range(calls')
    /\ Among(calls', Announcing) + (IF c \in Announcing THEN 1 ELSE 0)
         = Among(calls, Announcing) + (IF D \cap Announcing = {} THEN 0 ELSE 1)

LEMMA AtIs ==
  ASSUME NEW c \in Call, NEW pc, NEW x
  PROVE  /\ [c EXCEPT !.pc = pc] = At(c, pc, c.x)
         /\ [At(c, pc, c.x) EXCEPT !.x = x] = At(c, pc, x)
<1>1. c = [op |-> c.op, by |-> c.by, x |-> c.x, pc |-> c.pc]
  BY DEF Call
<1>2. [[op |-> c.op, by |-> c.by, x |-> c.x, pc |-> c.pc] EXCEPT !.pc = pc] = At(c, pc, c.x)
  BY DEF At
<1>3. [At(c, pc, c.x) EXCEPT !.x = x] = At(c, pc, x)
  BY DEF At
<1> QED
  BY <1>1, <1>2, <1>3, Zenon

LEMMA ThenWithMoves ==
  ASSUME calls \in Seq(Call), NEW i \in DOMAIN calls, NEW pc, NEW x, ThenWith(i, pc, x),
         At(calls[i], pc, x) \in Call
  PROVE  Replaced(calls[i], {At(calls[i], pc, x)})
<1> DEFINE c == calls[i]
           d == At(c, pc, x)
<1>1. c \in Call /\ c \in Range(calls) /\ d \in Call
  BY RangeOfAll
<1>2. calls' = [calls EXCEPT ![i] = d]
  <2> DEFINE b == At(c, pc, c.x)
             first == [calls EXCEPT ![i] = b]
  <2>1. [c EXCEPT !.pc = pc] = b /\ [b EXCEPT !.x = x] = d
    <3>1. PICK k \in Call : k = c
      BY <1>1
    <3>2. [k EXCEPT !.pc = pc] = At(k, pc, k.x) /\ [At(k, pc, k.x) EXCEPT !.x = x] = At(k, pc, x)
      BY AtIs
    <3> QED
      BY <3>1, <3>2
  <2>2. first = [calls EXCEPT ![i].pc = pc]
    BY <2>1
  <2>3. calls' = [first EXCEPT ![i].x = x]
    BY <2>2 DEF ThenWith
  <2>4. first[i] = b
    OBVIOUS
  <2> HIDE DEF b, d
  <2>5. calls' = [first EXCEPT ![i] = d]
    BY <2>1, <2>3, <2>4
  <2> QED
    BY <2>5
<1> HIDE DEF d
<1>3. /\ calls' \in Seq(Call) /\ d \in Range(calls')
      /\ Range(calls') \subseteq Range(calls) \cup {d} /\ Range(calls) \subseteq Range(calls') \cup {c}
  BY <1>1, <1>2, RangeExcept
<1>4. Among(calls', Announcing) + (IF c \in Announcing THEN 1 ELSE 0)
        = Among(calls, Announcing) + (IF d \in Announcing THEN 1 ELSE 0)
  BY <1>1, <1>2, AmongChange
<1> QED
  BY <1>1, <1>3, <1>4 DEF Replaced, d

LEMMA ThenMoves ==
  ASSUME calls \in Seq(Call), NEW i \in DOMAIN calls, NEW pc, Then(i, pc),
         At(calls[i], pc, calls[i].x) \in Call
  PROVE  Replaced(calls[i], {At(calls[i], pc, calls[i].x)})
<1> DEFINE c == calls[i]
           d == At(c, pc, c.x)
<1>1. c \in Call /\ c \in Range(calls) /\ d \in Call
  BY RangeOfAll
<1>2. calls' = [calls EXCEPT ![i] = d]
  <2>1. [c EXCEPT !.pc = pc] = d
    BY <1>1, AtIs
  <2> QED
    BY <2>1 DEF Then
<1> HIDE DEF d
<1>3. /\ calls' \in Seq(Call) /\ d \in Range(calls')
      /\ Range(calls') \subseteq Range(calls) \cup {d} /\ Range(calls) \subseteq Range(calls') \cup {c}
  BY <1>1, <1>2, RangeExcept
<1>4. Among(calls', Announcing) + (IF c \in Announcing THEN 1 ELSE 0)
        = Among(calls, Announcing) + (IF d \in Announcing THEN 1 ELSE 0)
  BY <1>1, <1>2, AmongChange
<1> QED
  BY <1>1, <1>3, <1>4 DEF Replaced, d

LEMMA FinishMoves ==
  ASSUME calls \in Seq(Call), NEW i \in DOMAIN calls, Finish(i)
  PROVE  Replaced(calls[i], {})
<1>1. calls' = RemoveAt(calls, i) /\ calls[i] \in Call /\ calls[i] \in Range(calls)
  BY RangeOfAll DEF Finish
<1>2. calls' \in Seq(Call) /\ Range(calls) = Range(calls') \cup {calls[i]}
  BY <1>1, RangeRemoveAt
<1>3. Among(calls, Announcing) = Among(calls', Announcing) + (IF calls[i] \in Announcing THEN 1 ELSE 0)
  BY <1>1, AmongRemoveAt
<1>4. Among(calls', Announcing) \in Nat
  BY <1>2, PlacesType
<1> QED
  BY <1>1, <1>2, <1>3, <1>4 DEF Replaced

\* One more event is on its way, behind the others.
Told(e) ==
    /\ down' \in Seq(Event) /\ Range(down') = Range(down) \cup {e}
    /\ Among(down', Arriving) = Among(down, Arriving) + (IF e \in Arriving THEN 1 ELSE 0)
    /\ \A A, B : (IF e \in A THEN e \in B ELSE Ends(down, A, B)) => Ends(down', A, B)

LEMMA TellMoves ==
  ASSUME down \in Seq(Event), NEW ev, NEW x, Tell(ev, x), [ev |-> ev, x |-> x] \in Event
  PROVE  Told([ev |-> ev, x |-> x])
<1> DEFINE e == [ev |-> ev, x |-> x]
<1>1. down' = Append(down, e) /\ e \in Event
  BY DEF Tell
<1> HIDE DEF e
<1>2. down' \in Seq(Event)
  BY <1>1, AppendProperties
<1> QED
  BY <1>1, <1>2, RangeAppend, AmongAppend, EndsAppend DEF Told, e

----------------------------------------------------------------------------
(* The types                                                               *)

\* What a handler does to tables and wires, none of it seen by the tab.
ServesWell ==
    /\ Tables' /\ Wires'
    /\ Uncounted' <= Uncounted
    /\ UNCHANGED <<tab, drawer, history, behind, spent>>

LEMMA Counts ==
  ASSUME Wires
  PROVE  Among(calls, Announcing) \in Nat /\ Among(down, Arriving) \in Nat /\ Uncounted \in Nat
<1>1. Among(calls, Announcing) \in Nat /\ Among(down, Arriving) \in Nat
  BY PlacesType DEF Wires
<1> QED
  BY <1>1 DEF Uncounted

\* Of every reply there is a number.
LEMMA FewReplies ==
  ASSUME Tables
  PROVE  /\ IsFiniteSet(table.replies) /\ Cardinality(table.replies) \in Nat
         /\ Cardinality(table.replies) <= spent.replies
         /\ spent.replies \in 0 .. MaxReplies /\ MaxReplies \in Nat
<1>1. table.replies \subseteq 1 .. spent.replies /\ spent.replies \in 0 .. MaxReplies /\ MaxReplies \in Nat
  BY BoundsAssumption DEF Tables, Known
<1>2. spent.replies \in Nat
  BY <1>1
<1>3. IsFiniteSet(1 .. spent.replies) /\ Cardinality(1 .. spent.replies) = spent.replies
  BY <1>2, CountTo, Zenon
<1>4. /\ IsFiniteSet(table.replies)
      /\ Cardinality(table.replies) <= Cardinality(1 .. spent.replies)
      /\ Cardinality(table.replies) \in Nat
  BY <1>1, <1>3, FS_Subset, FS_CardinalityType
<1> QED
  BY <1>1, <1>3, <1>4

LEMMA WiresAfter ==
  ASSUME Wires, NEW c, NEW D, Replaced(c, D), \A d \in D : CallRight(d), spent' = spent,
         \/ UNCHANGED down
         \/ \E e : Told(e) /\ EventRight(e)
  PROVE  Wires'
<1>1. \A d : (CallRight(d) <=> CallRight(d)') /\ (EventRight(d) <=> EventRight(d)')
  BY DEF CallRight, EventRight, Known
<1>2. calls' \in Seq(Call) /\ \A d \in Range(calls') : CallRight(d)'
  BY <1>1 DEF Wires, Replaced
<1>3. down' \in Seq(Event) /\ \A e \in Range(down') : EventRight(e)'
  <2>1. CASE UNCHANGED down
    BY <1>1, <2>1 DEF Wires
  <2>2. ASSUME NEW e, Told(e), EventRight(e)
        PROVE  down' \in Seq(Event) /\ \A f \in Range(down') : EventRight(f)'
    BY <1>1, <2>2 DEF Wires, Told
  <2> QED
    BY <2>1, <2>2
<1> QED
  BY <1>2, <1>3 DEF Wires

\* A handler that tells nothing leaves no reply to be counted that was not.
LEMMA SilentAfter ==
  ASSUME Wires, NEW c, NEW D, Replaced(c, D), UNCHANGED down,
         c \in Announcing \/ D \cap Announcing = {}
  PROVE  Uncounted' <= Uncounted
<1>1. /\ Among(calls, Announcing) \in Nat /\ Among(down, Arriving) \in Nat
      /\ Among(calls', Announcing) \in Nat
  BY Counts, PlacesType DEF Replaced
<1>2. Among(calls', Announcing) <= Among(calls, Announcing)
  BY <1>1 DEF Replaced
<1> QED
  BY <1>1, <1>2 DEF Uncounted

\* What a handler may be at each point, by the types.
LEMMA CallFacts ==
  ASSUME Wires, NEW i \in DOMAIN calls
  PROVE  /\ calls[i] \in Call /\ calls[i] \in Range(calls) /\ CallRight(calls[i])
         /\ calls \in Seq(Call)
  BY RangeOfAll DEF Wires

LEMMA AtFacts ==
  ASSUME NEW c \in Call, NEW pc, NEW x
  PROVE  /\ At(c, pc, x).op = c.op /\ At(c, pc, x).by = c.by
         /\ At(c, pc, x).pc = pc /\ At(c, pc, x).x = x
         /\ pc \in {"look", "write", "announce", "count", "tellCount", "list", "tellReactions", "tellText"}
              /\ x \in Nat \cup BOOLEAN \cup SUBSET Users => At(c, pc, x) \in Call
         /\ c.x \in Nat \cup BOOLEAN \cup SUBSET Users
  BY DEF At, Call

LEMMA WriteReplyTypes ==
  ASSUME TInv, NEW i \in DOMAIN calls, WriteReply(i)
  PROVE  ServesWell
<1> DEFINE c == calls[i]
           d == At(c, "announce", c.x)
<1>1. c \in Call /\ CallRight(c) /\ calls \in Seq(Call) /\ c.op = "reply" /\ c.pc = "write" /\ c.x \in Known
  BY CallFacts DEF WriteReply, CallRight, TInv
<1>2. /\ d.op = "reply" /\ d.pc = "announce" /\ d.x = c.x /\ d \in Call
  BY <1>1, AtFacts
<1>3. c \in Announcing /\ CallRight(d)
  BY <1>1, <1>2 DEF Announcing, CallRight
<1>4. Replaced(c, {d}) \/ Replaced(c, {})
  BY <1>1, <1>2, ThenMoves, FinishMoves DEF WriteReply
<1>5. UNCHANGED <<down, tab, drawer, history, behind, lost, spent>>
  BY DEF WriteReply, Tabs
<1> HIDE DEF c, d
<1>6. Wires' /\ Uncounted' <= Uncounted
  BY <1>3, <1>4, <1>5, WiresAfter, SilentAfter DEF TInv
<1>7. Tables'
  BY <1>1, <1>5 DEF WriteReply, TInv, Tables, Known, c
<1> QED
  BY <1>5, <1>6, <1>7 DEF ServesWell

LEMMA WriteDeleteTypes ==
  ASSUME TInv, NEW i \in DOMAIN calls, WriteDelete(i)
  PROVE  ServesWell
<1> DEFINE c == calls[i]
           d == At(c, "announce", c.x)
<1>1. /\ c \in Call /\ CallRight(c) /\ calls \in Seq(Call) /\ c.op = "delete" /\ c.pc = "write"
      /\ c.x \in Known \cup {Whole}
  BY CallFacts DEF WriteDelete, CallRight, TInv
<1>2. /\ d.op = "delete" /\ d.pc = "announce" /\ d.x = c.x /\ d \in Call
  BY <1>1, AtFacts
<1>3. d \notin Announcing /\ CallRight(d)
  BY <1>1, <1>2 DEF Announcing, CallRight
<1>4. Replaced(c, {d}) \/ Replaced(c, {})
  BY <1>1, <1>2, ThenMoves, FinishMoves DEF WriteDelete
<1>5. UNCHANGED <<down, tab, drawer, history, behind, lost, spent>>
  BY DEF WriteDelete, Tabs
<1> HIDE DEF c, d
<1>6. Wires' /\ Uncounted' <= Uncounted
  BY <1>3, <1>4, <1>5, WiresAfter, SilentAfter DEF TInv
<1>7. Tables'
  <2>1. Tables /\ UNCHANGED spent
    BY <1>5 DEF TInv
  <2>2. \/ table' = table
        \/ table' = [table EXCEPT !.exists = FALSE, !.replies = {}, !.reacts = {}]
        \/ \E x : table' = [table EXCEPT !.replies = @ \ {x}]
    BY DEF WriteDelete
  <2>3. CASE table' = table
    BY <2>1, <2>3 DEF Tables, Known
  <2>4. CASE table' = [table EXCEPT !.exists = FALSE, !.replies = {}, !.reacts = {}]
    BY <2>1, <2>4 DEF Tables, Known
  <2>5. ASSUME NEW x, table' = [table EXCEPT !.replies = @ \ {x}] PROVE Tables'
    BY <2>1, <2>5 DEF Tables, Known
  <2> QED
    BY <2>2, <2>3, <2>4, <2>5
<1> QED
  BY <1>5, <1>6, <1>7 DEF ServesWell

LEMMA AnnounceTypes ==
  ASSUME TInv, NEW i \in DOMAIN calls, Announce(i)
  PROVE  ServesWell
<1> DEFINE c == calls[i]
           d == At(c, "count", c.x)
           e == [ev |-> IF c.op = "reply" THEN "receive_channel_message" ELSE "message_deleted",
                 x |-> c.x]
<1>1. /\ c \in Call /\ CallRight(c) /\ calls \in Seq(Call) /\ c.pc = "announce"
      /\ (c.op = "reply" /\ c.x \in Known) \/ (c.op = "delete" /\ c.x \in Known \cup {Whole})
  BY CallFacts DEF Announce, CallRight, TInv
<1>2. /\ d.op = c.op /\ d.pc = "count" /\ d.x = c.x /\ d \in Call
  BY <1>1, AtFacts
<1>3. /\ d \notin Announcing /\ (c.x # Whole => CallRight(d))
      /\ e \in Event /\ EventRight(e) /\ (e \in Arriving => c \in Announcing)
  BY <1>1, <1>2 DEF Announcing, Arriving, CallRight, EventRight, Event, Known, Whole
<1>4. (c.x # Whole /\ Replaced(c, {d})) \/ Replaced(c, {})
  BY <1>1, <1>2, ThenMoves, FinishMoves DEF Announce
<1>5. UNCHANGED <<table, tab, drawer, history, behind, lost, spent>>
  BY DEF Announce, Tabs
<1>6. Told(e)
  BY <1>3, TellMoves DEF Announce, TInv, Wires
<1> HIDE DEF c, d, e
<1>7. Wires'
  BY <1>3, <1>4, <1>5, <1>6, WiresAfter DEF TInv
<1>8. Uncounted' <= Uncounted
  <2>1. /\ Among(calls, Announcing) \in Nat /\ Among(down, Arriving) \in Nat
        /\ Among(calls', Announcing) \in Nat
    BY <1>4, Counts, PlacesType DEF Replaced, TInv
  <2>2. Among(calls', Announcing) + (IF c \in Announcing THEN 1 ELSE 0) = Among(calls, Announcing)
    BY <1>3, <1>4, <2>1 DEF Replaced
  <2>3. Among(down', Arriving) = Among(down, Arriving) + (IF e \in Arriving THEN 1 ELSE 0)
    BY <1>6 DEF Told
  <2> QED
    BY <1>3, <2>1, <2>2, <2>3 DEF Uncounted
<1>9. Tables'
  BY <1>5 DEF TInv, Tables, Known
<1> QED
  BY <1>5, <1>7, <1>8, <1>9 DEF ServesWell

LEMMA CountRepliesTypes ==
  ASSUME TInv, NEW i \in DOMAIN calls, CountReplies(i)
  PROVE  ServesWell
<1> DEFINE c == calls[i]
           n == Cardinality(table.replies)
           d == At(c, "tellCount", n)
<1>1. /\ c \in Call /\ CallRight(c) /\ calls \in Seq(Call) /\ c.pc = "count"
      /\ c.op \in {"reply", "delete"}
  BY CallFacts DEF CountReplies, CallRight, TInv
<1>2. n \in Nat /\ n <= spent.replies
  BY FewReplies DEF TInv
<1> HIDE DEF n
<1>3. d.op = c.op /\ d.pc = "tellCount" /\ d.x = n /\ d \in Call
  BY <1>1, <1>2, AtFacts
<1>4. d \notin Announcing /\ CallRight(d)
  <2>1. n \in Known \cup {0}
    BY <1>2, FewReplies DEF Known, TInv
  <2> QED
    BY <1>1, <1>3, <2>1 DEF Announcing, CallRight
<1>5. Replaced(c, {d})
  BY <1>1, <1>3, ThenWithMoves DEF CountReplies, n
<1>6. UNCHANGED <<table, down, tab, drawer, history, behind, lost, spent>>
  BY DEF CountReplies, Tabs
<1> HIDE DEF c, d
<1>7. Wires' /\ Uncounted' <= Uncounted
  BY <1>4, <1>5, <1>6, WiresAfter, SilentAfter DEF TInv
<1>8. Tables'
  BY <1>6 DEF TInv, Tables, Known
<1> QED
  BY <1>6, <1>7, <1>8 DEF ServesWell

LEMMA LookReactionTypes ==
  ASSUME TInv, NEW i \in DOMAIN calls, LookReaction(i)
  PROVE  ServesWell
<1> DEFINE c == calls[i]
           seen == c.by \in table.reacts
           d == At(c, "write", seen)
<1>1. /\ c \in Call /\ CallRight(c) /\ calls \in Seq(Call) /\ c.pc = "look"
      /\ c.op = "toggle" /\ c.by \in Users
  BY CallFacts DEF LookReaction, CallRight, TInv
<1>2. seen \in BOOLEAN
  OBVIOUS
<1> HIDE DEF seen
<1>3. d.op = c.op /\ d.by = c.by /\ d.pc = "write" /\ d.x = seen /\ d \in Call
  BY <1>1, <1>2, AtFacts
<1>4. d \notin Announcing /\ CallRight(d)
  BY <1>1, <1>3 DEF Announcing, CallRight
<1>5. Replaced(c, {d}) \/ Replaced(c, {})
  BY <1>1, <1>3, ThenWithMoves, FinishMoves DEF LookReaction, seen
<1>6. UNCHANGED <<table, down, tab, drawer, history, behind, lost, spent>>
  BY DEF LookReaction, Tabs
<1> HIDE DEF c, d
<1>7. Wires' /\ Uncounted' <= Uncounted
  BY <1>4, <1>5, <1>6, WiresAfter, SilentAfter DEF TInv
<1>8. Tables'
  BY <1>6 DEF TInv, Tables, Known
<1> QED
  BY <1>6, <1>7, <1>8 DEF ServesWell

LEMMA WriteReactionTypes ==
  ASSUME TInv, NEW i \in DOMAIN calls, WriteReaction(i)
  PROVE  ServesWell
<1> DEFINE c == calls[i]
           d == At(c, "list", c.x)
<1>1. /\ c \in Call /\ CallRight(c) /\ calls \in Seq(Call) /\ c.op = "toggle" /\ c.pc = "write"
      /\ c.by \in Users
  BY CallFacts DEF WriteReaction, CallRight, TInv
<1>2. d.op = "toggle" /\ d.by = c.by /\ d.pc = "list" /\ d \in Call
  BY <1>1, AtFacts
<1>3. d \notin Announcing /\ CallRight(d)
  BY <1>1, <1>2 DEF Announcing, CallRight
<1>4. Replaced(c, {d}) \/ Replaced(c, {})
  BY <1>1, <1>2, ThenMoves, FinishMoves DEF WriteReaction
<1>5. UNCHANGED <<down, tab, drawer, history, behind, lost, spent>>
  BY DEF WriteReaction, Tabs
<1> HIDE DEF c, d
<1>6. Wires' /\ Uncounted' <= Uncounted
  BY <1>3, <1>4, <1>5, WiresAfter, SilentAfter DEF TInv
<1>7. \/ UNCHANGED table
      \/ table.exists /\ \E r \in SUBSET Users : table' = [table EXCEPT !.reacts = r]
  <2>1. table.reacts \in SUBSET Users
    BY DEF TInv, Tables
  <2>2. table.reacts \ {c.by} \in SUBSET Users /\ table.reacts \cup {c.by} \in SUBSET Users
    BY <1>1, <2>1
  <2> QED
    BY <2>2 DEF WriteReaction, c
<1>8. Tables'
  BY <1>5, <1>7 DEF TInv, Tables, Known
<1> QED
  BY <1>5, <1>6, <1>8 DEF ServesWell

LEMMA ListReactionsTypes ==
  ASSUME TInv, NEW i \in DOMAIN calls, ListReactions(i)
  PROVE  ServesWell
<1> DEFINE c == calls[i]
           d == At(c, "tellReactions", table.reacts)
<1>1. /\ c \in Call /\ CallRight(c) /\ calls \in Seq(Call) /\ c.op = "toggle" /\ c.pc = "list"
      /\ table.reacts \in SUBSET Users
  BY CallFacts DEF ListReactions, CallRight, TInv, Tables
<1>2. d.op = "toggle" /\ d.x = table.reacts /\ d.pc = "tellReactions" /\ d \in Call
  BY <1>1, AtFacts
<1>3. d \notin Announcing /\ CallRight(d)
  BY <1>1, <1>2 DEF Announcing, CallRight
<1>4. Replaced(c, {d})
  BY <1>1, <1>2, ThenWithMoves DEF ListReactions
<1>5. UNCHANGED <<table, down, tab, drawer, history, behind, lost, spent>>
  BY DEF ListReactions, Tabs
<1> HIDE DEF c, d
<1>6. Wires' /\ Uncounted' <= Uncounted
  BY <1>3, <1>4, <1>5, WiresAfter, SilentAfter DEF TInv
<1>7. Tables'
  BY <1>5 DEF TInv, Tables, Known
<1> QED
  BY <1>5, <1>6, <1>7 DEF ServesWell

LEMMA WriteTextTypes ==
  ASSUME TInv, NEW i \in DOMAIN calls, WriteText(i)
  PROVE  ServesWell
<1> DEFINE c == calls[i]
           d == At(c, "tellText", c.x)
<1>1. /\ c \in Call /\ CallRight(c) /\ calls \in Seq(Call) /\ c.op = "edit" /\ c.pc = "write"
      /\ c.x \in 1 .. MaxEdits
  BY CallFacts DEF WriteText, CallRight, TInv
<1>2. d.op = "edit" /\ d.x = c.x /\ d.pc = "tellText" /\ d \in Call
  BY <1>1, AtFacts
<1>3. d \notin Announcing /\ CallRight(d)
  BY <1>1, <1>2 DEF Announcing, CallRight
<1>4. Replaced(c, {d}) \/ Replaced(c, {})
  BY <1>1, <1>2, ThenMoves, FinishMoves DEF WriteText
<1>5. UNCHANGED <<down, tab, drawer, history, behind, lost, spent>>
  BY DEF WriteText, Tabs
<1> HIDE DEF c, d
<1>6. Wires' /\ Uncounted' <= Uncounted
  BY <1>3, <1>4, <1>5, WiresAfter, SilentAfter DEF TInv
<1>7. Tables'
  <2>1. Tables /\ UNCHANGED spent /\ table.exists \in BOOLEAN /\ MaxEdits \in Nat
    BY <1>5, BoundsAssumption DEF TInv, Tables
  <2>2. table' = table \/ (table.exists /\ \E x \in 0 .. MaxEdits : table' = [table EXCEPT !.text = x])
    <3>1. calls[i].x \in 0 .. MaxEdits
      BY <1>1, <2>1 DEF c
    <3> QED
      BY <3>1 DEF WriteText
  <2>3. CASE table' = table
    BY <2>1, <2>3 DEF Tables, Known
  <2>4. ASSUME NEW x \in 0 .. MaxEdits, table.exists, table' = [table EXCEPT !.text = x] PROVE Tables'
    BY <2>1, <2>4 DEF Tables, Known
  <2> QED
    BY <2>2, <2>3, <2>4
<1> QED
  BY <1>5, <1>6, <1>7 DEF ServesWell

\* The event that tells what c has read or written.
ReportOf(c) ==
    [ev |-> CASE c.pc = "tellCount" -> "thread_parent_updated"
              [] c.pc = "tellReactions" -> "message_reactions_updated"
              [] c.pc = "tellText" -> "message_edited",
     x |-> c.x]

LEMMA ReportIs ==
  ASSUME TInv, NEW i \in DOMAIN calls, Report(i)
  PROVE  /\ Replaced(calls[i], {}) /\ Told(ReportOf(calls[i]))
         /\ EventRight(ReportOf(calls[i])) /\ ReportOf(calls[i]) \in Event \ Arriving
         /\ ReportOf(calls[i]).x = calls[i].x
         /\ calls[i].pc = "tellCount" => ReportOf(calls[i]).ev = "thread_parent_updated"
         /\ calls[i].pc = "tellReactions" => ReportOf(calls[i]).ev = "message_reactions_updated"
         /\ calls[i].pc = "tellText" => ReportOf(calls[i]).ev = "message_edited"
         /\ calls[i].pc \in {"tellCount", "tellReactions", "tellText"}
         /\ UNCHANGED <<table, tab, drawer, history, behind, lost, spent>>
<1> DEFINE c == calls[i]
           e == ReportOf(c)
<1>1. /\ c \in Call /\ CallRight(c) /\ calls \in Seq(Call)
      /\ c.pc \in {"tellCount", "tellReactions", "tellText"}
  BY CallFacts DEF Report, TInv
<1>2. /\ e.x = c.x
      /\ c.pc = "tellCount" => e = [ev |-> "thread_parent_updated", x |-> c.x]
      /\ c.pc = "tellReactions" => e = [ev |-> "message_reactions_updated", x |-> c.x]
      /\ c.pc = "tellText" => e = [ev |-> "message_edited", x |-> c.x]
  BY DEF ReportOf
<1>3. e \in Event \ Arriving /\ EventRight(e)
  BY <1>1, <1>2 DEF CallRight, EventRight, Event, Arriving, Known
<1>4. Told(e)
  <2>1. Tell(e.ev, c.x) /\ e = [ev |-> e.ev, x |-> c.x]
    BY <1>2 DEF Report
  <2> HIDE DEF c, e
  <2> QED
    BY <1>3, <2>1, TellMoves DEF TInv, Wires
<1>5. Replaced(c, {})
  BY <1>1, FinishMoves DEF Report
<1> QED
  BY <1>1, <1>2, <1>3, <1>4, <1>5 DEF Report, Tabs

LEMMA ReportTypes ==
  ASSUME TInv, NEW i \in DOMAIN calls, Report(i)
  PROVE  ServesWell
<1> DEFINE c == calls[i]
           e == ReportOf(c)
<1>1. /\ Replaced(c, {}) /\ Told(e) /\ EventRight(e) /\ e \notin Arriving
      /\ UNCHANGED <<table, tab, drawer, history, behind, lost, spent>>
  BY ReportIs
<1> HIDE DEF c, e
<1>2. Wires'
  BY <1>1, WiresAfter DEF TInv
<1>3. Uncounted' <= Uncounted
  <2>1. /\ Among(calls, Announcing) \in Nat /\ Among(down, Arriving) \in Nat
        /\ Among(calls', Announcing) \in Nat
    BY <1>1, Counts, PlacesType DEF Replaced, TInv
  <2>2. Among(calls', Announcing) <= Among(calls, Announcing)
    BY <1>1, <2>1 DEF Replaced
  <2>3. Among(down', Arriving) = Among(down, Arriving)
    BY <1>1, <2>1 DEF Told
  <2> QED
    BY <2>1, <2>2, <2>3 DEF Uncounted
<1>4. Tables'
  BY <1>1 DEF TInv, Tables, Known
<1> QED
  BY <1>1, <1>2, <1>3, <1>4 DEF ServesWell

LEMMA FailTypes ==
  ASSUME TInv, NEW i \in DOMAIN calls, Fail(i)
  PROVE  ServesWell
<1> DEFINE c == calls[i]
<1>1. Replaced(c, {}) /\ UNCHANGED <<table, down, tab, drawer, history, behind, spent>>
  BY CallFacts, FinishMoves DEF Fail, TInv
<1> HIDE DEF c
<1>2. Wires' /\ Uncounted' <= Uncounted
  BY <1>1, WiresAfter, SilentAfter DEF TInv
<1>3. Tables'
  BY <1>1 DEF TInv, Tables, Known
<1> QED
  BY <1>1, <1>2, <1>3 DEF ServesWell

LEMMA ServingTypes ==
  ASSUME TInv, NEW i \in DOMAIN calls, Serving(i)
  PROVE  TInv'
<1>1. ServesWell
  BY WriteReplyTypes, WriteDeleteTypes, AnnounceTypes, CountRepliesTypes, LookReactionTypes,
     WriteReactionTypes, ListReactionsTypes, WriteTextTypes, ReportTypes, FailTypes DEF Serving
<1>2. Views' /\ Fetches'
  BY <1>1 DEF ServesWell, TInv, Views, Fetches, Known
<1>3. Bounded'
  <2>1. Uncounted \in Nat /\ spent.replies \in Nat
    BY Counts, FewReplies DEF TInv
  <2>2. Uncounted' \in Nat
    <3>1. Among(calls', Announcing) \in Nat /\ Among(down', Arriving) \in Nat
      BY <1>1, PlacesType DEF ServesWell, Wires
    <3> QED
      BY <3>1 DEF Uncounted
  <2>3. \A f \in {tab.row, tab.head, history.row} : f # None => f.replies \in Nat
    BY DEF TInv, Views, Fetches, Store, Picture
  <2> QED
    BY <1>1, <2>1, <2>2, <2>3 DEF ServesWell, TInv, Bounded, Within
<1> QED
  BY <1>1, <1>2, <1>3 DEF ServesWell, TInv

\* One more handler, behind the others.
Joined(d) ==
    /\ calls' \in Seq(Call) /\ Range(calls') = Range(calls) \cup {d}
    /\ Among(calls', Announcing) = Among(calls, Announcing) + (IF d \in Announcing THEN 1 ELSE 0)

LEMMA AppendJoins ==
  ASSUME calls \in Seq(Call), NEW d \in Call, calls' = Append(calls, d)
  PROVE  Joined(d)
<1>1. calls' \in Seq(Call)
  BY AppendProperties
<1> QED
  BY <1>1, RangeAppend, AmongAppend DEF Joined

Asked(op, x) == [op |-> op, by |-> None, x |-> x, pc |-> "write"]

LEMMA RequestJoins ==
  ASSUME calls \in Seq(Call), NEW op \in {"reply", "delete", "edit"}, NEW x \in Nat,
         Request(op, x, "write")
  PROVE  /\ Joined(Asked(op, x)) /\ Asked(op, x) \in Call
         /\ Asked(op, x).op = op /\ Asked(op, x).x = x /\ Asked(op, x).pc = "write"
         /\ Asked(op, x) \in Announcing <=> op = "reply"
<1> DEFINE d == Asked(op, x)
<1>1. d \in Call /\ d.op = op /\ d.x = x /\ d.pc = "write"
  BY DEF Asked, Call
<1>2. calls' = Append(calls, d)
  BY DEF Request, Asked
<1> HIDE DEF d
<1>3. Joined(d)
  BY <1>1, <1>2, AppendJoins
<1> QED
  BY <1>1, <1>3 DEF Announcing, d

LEMMA SpendIs ==
  ASSUME Tables, NEW what \in {"replies", "edits", "ops"}, Spend(what),
         what = "replies" => spent.replies < MaxReplies,
         what = "edits" => spent.edits < MaxEdits
  PROVE  /\ spent' \in [replies : 0 .. MaxReplies, edits : 0 .. MaxEdits, ops : Nat, moves : Nat]
         /\ spent'.replies = spent.replies + (IF what = "replies" THEN 1 ELSE 0)
         /\ spent'.edits = spent.edits + (IF what = "edits" THEN 1 ELSE 0)
         /\ spent.replies \in Nat /\ spent.edits \in Nat
<1>1. /\ spent \in [replies : 0 .. MaxReplies, edits : 0 .. MaxEdits, ops : Nat, moves : Nat]
      /\ DOMAIN spent = {"replies", "edits", "ops", "moves"}
      /\ MaxReplies \in Nat /\ MaxEdits \in Nat
  BY BoundsAssumption DEF Tables
<1> DEFINE n(f) == spent[f] + (IF f \in {"ops", what} THEN 1 ELSE 0)
<1>2. spent' = [f \in {"replies", "edits", "ops", "moves"} |-> n(f)]
  BY <1>1 DEF Spend
<1>3. spent' = [replies |-> n("replies"), edits |-> n("edits"), ops |-> n("ops"), moves |-> n("moves")]
  BY <1>2
<1>4. n("replies") \in 0 .. MaxReplies /\ n("edits") \in 0 .. MaxEdits /\ n("ops") \in Nat /\ n("moves") \in Nat
  BY <1>1
<1>5. n("replies") = spent.replies + (IF what = "replies" THEN 1 ELSE 0)
      /\ n("edits") = spent.edits + (IF what = "edits" THEN 1 ELSE 0)
  OBVIOUS
<1> HIDE DEF n
<1> QED
  BY <1>1, <1>3, <1>4, <1>5

\* A request is added and something is spent.
LEMMA AskedTypes ==
  ASSUME TInv, NEW d, Joined(d), CallRight(d)', UNCHANGED <<table, down>>,
         spent' \in [replies : 0 .. MaxReplies, edits : 0 .. MaxEdits, ops : Nat, moves : Nat],
         spent'.replies = spent.replies + (IF d \in Announcing THEN 1 ELSE 0)
  PROVE  /\ Tables' /\ Wires' /\ Known \subseteq Known'
         /\ Uncounted' = Uncounted + (IF d \in Announcing THEN 1 ELSE 0)
         /\ Uncounted' \in Nat /\ Uncounted \in Nat /\ spent.replies \in Nat
         /\ Uncounted' <= spent'.replies
<1>1. spent.replies \in Nat /\ Uncounted \in Nat
      /\ Among(calls, Announcing) \in Nat /\ Among(down, Arriving) \in Nat
  BY FewReplies, Counts DEF TInv
<1>2. Known \subseteq Known'
  BY <1>1 DEF Known
<1>3. Tables'
  BY <1>2 DEF TInv, Tables
<1>4. \A c : (CallRight(c) => CallRight(c)') /\ (EventRight(c) => EventRight(c)')
  BY <1>2 DEF CallRight, EventRight
<1>5. Wires'
  BY <1>4 DEF TInv, Wires, Joined
<1>6. Uncounted' = Uncounted + (IF d \in Announcing THEN 1 ELSE 0)
  BY <1>1 DEF Joined, Uncounted
<1>7. Uncounted <= spent.replies
  BY DEF TInv, Bounded
<1> QED
  BY <1>1, <1>2, <1>3, <1>5, <1>6, <1>7

\* How a copy stays within its bound.
LEMMA StaysWithin ==
  ASSUME TInv, NEW f \in {tab.row, tab.head, history.row}, NEW g,
         f = None => g = None,
         g # None => g.replies \in Nat,
         Uncounted' \in Nat, spent'.replies \in Nat,
         f # None /\ g # None =>
           g.replies + Uncounted' + 2 * spent.replies <= f.replies + Uncounted + 2 * spent'.replies
  PROVE  g # None => g.replies + Uncounted' <= 2 * spent'.replies
<1> SUFFICES ASSUME g # None PROVE g.replies + Uncounted' <= 2 * spent'.replies
  OBVIOUS
<1>1. f # None /\ f.replies \in Nat
  BY DEF TInv, Views, Fetches, Store, Picture
<1>2. Uncounted \in Nat /\ spent.replies \in Nat
  BY Counts, FewReplies DEF TInv
<1>3. f.replies + Uncounted <= 2 * spent.replies
  BY <1>1 DEF TInv, Bounded, Within
<1> QED
  BY <1>1, <1>2, <1>3

LEMMA SendReplyTypes ==
  ASSUME TInv, handleSendReply
  PROVE  TInv'
<1>0. PICK r : r = spent.replies + 1
  OBVIOUS
<1> DEFINE d == Asked("reply", r)
           u == More(tab)
<1>1. /\ spent.replies \in Nat /\ r \in Nat /\ r <= MaxReplies /\ tab.head # None
      /\ UNCHANGED <<table, down, drawer, history, behind, lost>>
      /\ calls \in Seq(Call) /\ tab \in Store /\ MaxReplies \in Nat
  BY <1>0, FewReplies DEF handleSendReply, TInv, Wires, Views
<1>2. /\ Joined(d) /\ d.op = "reply" /\ d.x = r /\ d.pc = "write" /\ d \in Announcing
  BY <1>0, <1>1, RequestJoins DEF handleSendReply
<1>3. /\ spent' \in [replies : 0 .. MaxReplies, edits : 0 .. MaxEdits, ops : Nat, moves : Nat]
      /\ spent'.replies = spent.replies + 1
  <2>1. Spend("replies") /\ spent.replies < MaxReplies
    BY <1>0, <1>1 DEF handleSendReply
  <2> QED
    BY <2>1, SpendIs DEF TInv
<1>4. r \in Known' /\ r \notin Known /\ Known \subseteq Known'
  BY <1>0, <1>1, <1>3 DEF Known
<1>5. CallRight(d)'
  BY <1>2, <1>4 DEF CallRight
<1> HIDE DEF d
<1>6. /\ Tables' /\ Wires' /\ Uncounted' = Uncounted + 1
      /\ Uncounted' \in Nat /\ Uncounted \in Nat /\ Uncounted' <= spent'.replies
  BY <1>1, <1>2, <1>3, <1>5, AskedTypes
<1>7. /\ Kept(tab, u)
      /\ Painted(tab.row, u.row, tab.row.replies + 1, tab.row.reacts, tab.row.text)
      /\ Painted(tab.head, u.head, tab.head.replies + 1, tab.head.reacts, tab.head.text)
  BY <1>1, MoreIs
<1>8. tab' = [u EXCEPT !.temp = @ \cup {r}]
  BY <1>0 DEF handleSendReply
<1> HIDE DEF u
<1>9. /\ tab' \in Store /\ tab'.row = u.row /\ tab'.head = u.head /\ tab'.real = tab.real
      /\ tab'.temp = tab.temp \cup {r} /\ tab'.twin = FALSE /\ tab'.changed = TRUE
  BY <1>1, <1>7, <1>8 DEF Kept, Store
<1>10. tab'.head # None /\ (tab'.row = None <=> tab.row = None)
  BY <1>1, <1>7, <1>9 DEF Painted
<1>11. Views'
  BY <1>1, <1>4, <1>9, <1>10 DEF TInv, Views
<1>12. Fetches'
  BY <1>1, <1>4 DEF TInv, Fetches
<1>13. Bounded'
  <2>1. /\ tab.row # None => tab.row.replies \in Nat
        /\ tab.head # None => tab.head.replies \in Nat
        /\ history.row # None => history.row.replies \in Nat
    BY DEF TInv, Views, Fetches, Store, Picture
  <2>2. /\ tab'.row # None => tab'.row.replies = tab.row.replies + 1 /\ tab.row # None
        /\ tab'.head # None => tab'.head.replies = tab.head.replies + 1 /\ tab.head # None
    BY <1>7, <1>9 DEF Painted
  <2>3. /\ tab.row # None => tab.row.replies + Uncounted <= 2 * spent.replies
        /\ tab.head # None => tab.head.replies + Uncounted <= 2 * spent.replies
        /\ history.row # None => history.row.replies + Uncounted <= 2 * spent.replies
    BY DEF TInv, Bounded, Within
  <2>4. history' = history
    BY <1>1
  <2>5. spent'.replies = spent.replies + 1 /\ spent.replies \in Nat /\ Uncounted' = Uncounted + 1
    BY <1>1, <1>3, <1>6
  <2>6. tab'.row # None => tab'.row.replies + Uncounted' <= 2 * spent'.replies
    BY <1>6, <2>1, <2>2, <2>5, <2>3
  <2>7. tab'.head # None => tab'.head.replies + Uncounted' <= 2 * spent'.replies
    BY <1>6, <2>1, <2>2, <2>5, <2>3
  <2>8. history'.row # None => history'.row.replies + Uncounted' <= 2 * spent'.replies
    BY <1>6, <2>1, <2>5, <2>3, <2>4
  <2> QED
    BY <1>6, <2>6, <2>7, <2>8 DEF Bounded, Within
<1> QED
  BY <1>6, <1>11, <1>12, <1>13 DEF TInv

\* No copy counts more than one did, and no more is to be counted.
Modest ==
    /\ Uncounted' \in Nat /\ Uncounted' <= Uncounted /\ spent'.replies = spent.replies
    /\ \A g \in {tab'.row, tab'.head, history'.row} :
         g # None => /\ g.replies \in Nat
                     /\ \E f \in {tab.row, tab.head, history.row} : f # None /\ g.replies <= f.replies

LEMMA ModestIsBounded ==
  ASSUME TInv, Modest
  PROVE  Bounded'
<1>1. Uncounted \in Nat /\ spent.replies \in Nat
  BY Counts, FewReplies DEF TInv
<1>2. Uncounted <= spent.replies
  BY DEF TInv, Bounded
<1>3. ASSUME NEW g \in {tab'.row, tab'.head, history'.row}, g # None
      PROVE  g.replies + Uncounted' <= 2 * spent'.replies
  <2>1. PICK f \in {tab.row, tab.head, history.row} : f # None /\ g.replies <= f.replies
    BY <1>3 DEF Modest
  <2>2. g.replies \in Nat /\ f.replies \in Nat
    BY <1>3, <2>1 DEF Modest, TInv, Views, Fetches, Store, Picture
  <2> QED
    BY <1>1, <1>3, <2>1, <2>2, StaysWithin DEF Modest
<1> QED
  BY <1>1, <1>2, <1>3 DEF Bounded, Within, Modest

LEMMA FacesAre ==
  ASSUME TInv
  PROVE  /\ tab.row \in Picture \cup {None} /\ tab.head \in Picture \cup {None}
         /\ history.row \in Picture \cup {None} /\ tab \in Store
         /\ tab.real \subseteq Known /\ tab.temp \subseteq Known \ tab.real
         /\ \A f \in Picture : f.replies \in Nat /\ f.reacts \in SUBSET Users /\ f.text \in 0 .. MaxEdits
  BY DEF TInv, Views, Fetches, Store, Picture

LEMMA DeleteTypes ==
  ASSUME TInv, NEW x \in Reply \cup {Whole}, handleDelete(x)
  PROVE  TInv'
<1> DEFINE d == Asked("delete", x)
           u == deleteMessage(tab, x)
<1>1. /\ x \in Nat /\ calls \in Seq(Call) /\ tab \in Store
      /\ UNCHANGED <<table, down, drawer, history, behind>>
      /\ tab' = [u EXCEPT !.temp = @ \ {x}]
  BY BoundsAssumption DEF handleDelete, TInv, Wires, Views, Reply, Whole
<1>2. (x = Whole => Cleared(tab, u)) /\ (x # Whole => Pruned(tab, u, x))
  BY <1>1, DeleteIs
<1>3. \/ UNCHANGED calls
      \/ Joined(d) /\ d \notin Announcing /\ d.op = "delete" /\ d.x = x /\ d.pc = "write"
  BY <1>1, RequestJoins DEF handleDelete
<1>4. x \in Known \cup {Whole}
  BY FacesAre DEF handleDelete
<1>5. /\ spent' \in [replies : 0 .. MaxReplies, edits : 0 .. MaxEdits, ops : Nat, moves : Nat]
      /\ spent'.replies = spent.replies
  <2>1. Spend("ops")
    BY DEF handleDelete
  <2> QED
    BY <2>1, SpendIs DEF TInv
<1>6. \A c : (CallRight(c) <=> CallRight(c)') /\ (EventRight(c) <=> EventRight(c)')
  BY <1>5 DEF CallRight, EventRight, Known
<1>7. /\ Tables' /\ Wires' /\ Uncounted' = Uncounted /\ Uncounted \in Nat
  <2>1. CASE UNCHANGED calls
    <3>1. Tables' /\ Wires'
      BY <1>1, <1>5, <1>6, <2>1 DEF TInv, Tables, Wires, Known
    <3> QED
      BY <1>1, <2>1, <3>1, Counts DEF Uncounted, TInv
  <2>2. CASE ~ UNCHANGED calls
    <3>1. CallRight(d)
      BY <1>3, <1>4, <2>2 DEF CallRight
    <3> HIDE DEF d
    <3>2. CallRight(d)'
      BY <1>6, <3>1
    <3> QED
      BY <1>1, <1>3, <1>5, <2>2, <3>2, AskedTypes
  <2> QED
    BY <2>1, <2>2
<1> HIDE DEF d, u
<1>8. /\ tab' \in Store /\ tab'.away = tab.away /\ tab'.row = u.row /\ tab'.head = u.head
      /\ tab'.real = u.real /\ tab'.temp = u.temp \ {x} /\ tab'.twin = u.twin /\ tab'.changed = u.changed
  BY <1>1, <1>2 DEF Cleared, Pruned, Store
<1>9. Views'
  BY <1>1, <1>2, <1>5, <1>8 DEF TInv, Views, Cleared, Pruned, Lessened, Known
<1>10. Fetches'
  BY <1>1, <1>2, <1>5, <1>8 DEF TInv, Fetches, Cleared, Pruned, Lessened, Known
<1>11. Modest
  <2>1. \A f \in Picture : f.replies \in Nat /\ f.replies <= f.replies
    BY DEF Picture
  <2>2. \A g \in {tab'.row, tab'.head, history'.row} : g \in Picture \cup {None}
    BY <1>9, <1>10 DEF Views, Fetches, Store
  <2>3. CASE x = Whole
    BY <1>1, <1>2, <1>5, <1>7, <1>8, <2>1, <2>2, <2>3 DEF Modest, Cleared
  <2>4. CASE x # Whole
    <3>1. \A g \in {tab'.row, tab'.head, history'.row} : g # None =>
            \E f \in {tab.row, tab.head, history.row} : f # None /\ g.replies <= f.replies
      BY <1>1, <1>2, <1>8, <2>1, <2>2, <2>4 DEF Pruned, Lessened
    <3> QED
      BY <1>5, <1>7, <2>1, <2>2, <3>1 DEF Modest
  <2> QED
    BY <2>3, <2>4
<1> QED
  BY <1>7, <1>9, <1>10, <1>11, ModestIsBounded DEF TInv

LEMMA EditTypes ==
  ASSUME TInv, handleEditSubmit
  PROVE  TInv'
<1>0. PICK n : n = spent.edits + 1
  OBVIOUS
<1> DEFINE d == Asked("edit", n)
           u == editMessage(tab, n)
<1>1. /\ n \in 1 .. MaxEdits /\ n \in Nat /\ MaxEdits \in Nat
      /\ UNCHANGED <<table, down, drawer, history, behind, lost>>
      /\ calls \in Seq(Call) /\ tab \in Store /\ tab' = u
  BY <1>0, BoundsAssumption DEF handleEditSubmit, TInv, Tables, Wires, Views
<1>2. Joined(d) /\ d.op = "edit" /\ d.x = n /\ d.pc = "write" /\ d \notin Announcing
  BY <1>0, <1>1, RequestJoins DEF handleEditSubmit
<1>3. /\ spent' \in [replies : 0 .. MaxReplies, edits : 0 .. MaxEdits, ops : Nat, moves : Nat]
      /\ spent'.replies = spent.replies
  <2>1. Spend("edits") /\ spent.edits < MaxEdits
    BY <1>0, <1>1 DEF handleEditSubmit, TInv, Tables
  <2> QED
    BY <2>1, SpendIs DEF TInv
<1>4. CallRight(d)'
  BY <1>1, <1>2 DEF CallRight
<1> HIDE DEF d
<1>5. Tables' /\ Wires' /\ Uncounted' = Uncounted /\ Uncounted \in Nat
  BY <1>1, <1>2, <1>3, <1>4, AskedTypes
<1>6. /\ u \in Store
      /\ u.away = tab.away /\ u.real = tab.real /\ u.temp = tab.temp /\ u.changed = tab.changed
      /\ u.head = tab.head /\ u.twin = (tab.twin /\ tab.row = None)
      /\ Painted(tab.row, u.row, tab.row.replies, tab.row.reacts, n)
  BY <1>1, EditIs
<1> HIDE DEF u
<1>7. Views'
  BY <1>1, <1>3, <1>6 DEF TInv, Views, Known
<1>8. Fetches'
  BY <1>1, <1>3, <1>6 DEF TInv, Fetches, Known, Painted
<1>9. Modest
  <2>1. \A f \in Picture : f.replies \in Nat /\ f.replies <= f.replies
    BY DEF Picture
  <2>2. \A g \in {tab'.row, tab'.head, history'.row} : g \in Picture \cup {None}
    BY <1>7, <1>8 DEF Views, Fetches, Store
  <2> QED
    BY <1>1, <1>3, <1>5, <1>6, <2>1, <2>2 DEF Modest, Painted
<1> QED
  BY <1>5, <1>7, <1>8, <1>9, ModestIsBounded DEF TInv

\* A request that the tab does not show.
LEMMA UnseenTypes ==
  ASSUME TInv, NEW d, Joined(d), CallRight(d)', UNCHANGED <<table, down, tab, drawer, history, behind>>,
         spent' \in [replies : 0 .. MaxReplies, edits : 0 .. MaxEdits, ops : Nat, moves : Nat],
         spent'.replies = spent.replies + (IF d \in Announcing THEN 1 ELSE 0)
  PROVE  TInv'
<1>1. /\ Tables' /\ Wires' /\ Known \subseteq Known'
      /\ Uncounted' = Uncounted + (IF d \in Announcing THEN 1 ELSE 0)
      /\ Uncounted' \in Nat /\ Uncounted \in Nat /\ spent.replies \in Nat
      /\ Uncounted' <= spent'.replies
  BY AskedTypes
<1>2. Views'
  <2>1. tab.temp \subseteq Known' \ tab.real
    BY <1>1 DEF TInv, Views
  <2> QED
    BY <1>1, <2>1 DEF TInv, Views
<1>3. Fetches'
  BY <1>1 DEF TInv, Fetches
<1>4. Bounded'
  <2>1. ASSUME NEW f \in {tab.row, tab.head, history.row}, f # None
        PROVE  f.replies + Uncounted' <= 2 * spent'.replies
    <3>1. f.replies \in Nat
      BY <2>1, FacesAre
    <3> QED
      BY <1>1, <2>1, <3>1, StaysWithin
  <2> QED
    BY <1>1, <2>1 DEF Bounded, Within
<1> QED
  BY <1>1, <1>2, <1>3, <1>4 DEF TInv

LEMMA ToggleTypes ==
  ASSUME TInv, NEW u \in Users, handleReactionToggle(u)
  PROVE  TInv'
<1> DEFINE d == [op |-> "toggle", by |-> u, x |-> Whole, pc |-> "look"]
<1>1. d \in Call /\ CallRight(d)' /\ d \notin Announcing
  BY DEF Call, CallRight, Announcing, Whole
<1>2. calls' = Append(calls, d) /\ calls \in Seq(Call) /\ Spend("ops")
      /\ UNCHANGED <<table, down, tab, drawer, history, behind>>
  BY DEF handleReactionToggle, TInv, Wires
<1> HIDE DEF d
<1>3. Joined(d)
  BY <1>1, <1>2, AppendJoins
<1>4. /\ spent' \in [replies : 0 .. MaxReplies, edits : 0 .. MaxEdits, ops : Nat, moves : Nat]
      /\ spent'.replies = spent.replies
  BY <1>2, SpendIs DEF TInv
<1> QED
  BY <1>1, <1>2, <1>3, <1>4, UnseenTypes

\* What is asked elsewhere.
LEMMA ElsewhereIs ==
  ASSUME TInv, Elsewhere
  PROVE  \E d \in Call :
           /\ Joined(d) /\ CallRight(d)' /\ d.pc = "write" /\ d.op \in {"reply", "delete", "edit"}
           /\ UNCHANGED <<table, down, tab, drawer, history, behind, lost>>
           /\ spent' \in [replies : 0 .. MaxReplies, edits : 0 .. MaxEdits, ops : Nat, moves : Nat]
           /\ spent'.replies = spent.replies + (IF d \in Announcing THEN 1 ELSE 0)
<1>1. /\ calls \in Seq(Call) /\ UNCHANGED <<table, down, tab, drawer, history, behind, lost>>
      /\ spent.replies \in Nat /\ spent.edits \in Nat /\ MaxEdits \in Nat
  BY FewReplies, BoundsAssumption DEF Elsewhere, TInv, Wires, Tables
<1>2. CASE /\ spent.replies < MaxReplies
           /\ Spend("replies") /\ Request("reply", spent.replies + 1, "write")
  <2>1. PICK r : r = spent.replies + 1
    OBVIOUS
  <2> DEFINE d == Asked("reply", r)
  <2>2. Joined(d) /\ d \in Call /\ d.op = "reply" /\ d.x = r /\ d.pc = "write" /\ d \in Announcing
    BY <1>1, <1>2, <2>1, RequestJoins
  <2>3. /\ spent' \in [replies : 0 .. MaxReplies, edits : 0 .. MaxEdits, ops : Nat, moves : Nat]
        /\ spent'.replies = spent.replies + 1
    BY <1>2, SpendIs DEF TInv
  <2> HIDE DEF d
  <2>4. CallRight(d)'
    <3>1. r \in Known'
      BY <1>1, <2>1, <2>3 DEF Known
    <3> QED
      BY <2>2, <3>1 DEF CallRight
  <2> QED
    BY <1>1, <2>2, <2>3, <2>4
<1>3. CASE /\ spent.edits < MaxEdits
           /\ Spend("edits") /\ Request("edit", spent.edits + 1, "write")
  <2>1. PICK n : n = spent.edits + 1
    OBVIOUS
  <2> DEFINE d == Asked("edit", n)
  <2>2. Joined(d) /\ d \in Call /\ d.op = "edit" /\ d.x = n /\ d.pc = "write" /\ d \notin Announcing
    BY <1>1, <1>3, <2>1, RequestJoins
  <2>3. /\ spent' \in [replies : 0 .. MaxReplies, edits : 0 .. MaxEdits, ops : Nat, moves : Nat]
        /\ spent'.replies = spent.replies
    BY <1>3, SpendIs DEF TInv
  <2> HIDE DEF d
  <2>4. CallRight(d)'
    <3>1. n \in 1 .. MaxEdits
      BY <1>1, <1>3, <2>1
    <3> QED
      BY <2>2, <3>1 DEF CallRight
  <2> QED
    BY <1>1, <2>2, <2>3, <2>4
<1>4. CASE \E x \in table.replies \cup {Whole} : Spend("ops") /\ Request("delete", x, "write")
  <2>1. PICK x \in table.replies \cup {Whole} : Spend("ops") /\ Request("delete", x, "write")
    BY <1>4
  <2>2. x \in Known \cup {Whole} /\ x \in Nat
    BY <1>1 DEF TInv, Tables, Known, Whole
  <2> DEFINE d == Asked("delete", x)
  <2>3. Joined(d) /\ d \in Call /\ d.op = "delete" /\ d.x = x /\ d.pc = "write" /\ d \notin Announcing
    BY <1>1, <2>1, <2>2, RequestJoins
  <2>4. /\ spent' \in [replies : 0 .. MaxReplies, edits : 0 .. MaxEdits, ops : Nat, moves : Nat]
        /\ spent'.replies = spent.replies
    BY <2>1, SpendIs DEF TInv
  <2> HIDE DEF d
  <2>5. CallRight(d)'
    BY <2>2, <2>3, <2>4 DEF CallRight, Known
  <2> QED
    BY <1>1, <2>3, <2>4, <2>5
<1> QED
  BY <1>2, <1>3, <1>4 DEF Elsewhere

LEMMA AskingTypes ==
  ASSUME TInv, Asking
  PROVE  TInv'
<1>1. Elsewhere => TInv'
  BY ElsewhereIs, UnseenTypes
<1> QED
  BY <1>1, SendReplyTypes, EditTypes, DeleteTypes, ToggleTypes DEF Asking

\* Views leave tables and wires alone.
LEMMA ViewsOnly ==
  ASSUME TInv, UNCHANGED <<table, calls, down>>, spent'.replies = spent.replies,
         spent' \in [replies : 0 .. MaxReplies, edits : 0 .. MaxEdits, ops : Nat, moves : Nat]
  PROVE  /\ Tables' /\ Wires' /\ Known' = Known
         /\ Uncounted' = Uncounted /\ Uncounted \in Nat
<1>1. Known' = Known
  BY DEF Known
<1>2. Tables'
  BY <1>1 DEF TInv, Tables
<1>3. Wires'
  BY <1>1 DEF TInv, Wires, CallRight, EventRight
<1> QED
  BY <1>1, <1>2, <1>3, Counts DEF TInv, Uncounted

\* Every copy is a copy there was, or none.
LEMMA CopiedIsModest ==
  ASSUME TInv, Uncounted' = Uncounted, spent'.replies = spent.replies,
         {tab'.row, tab'.head, history'.row} \subseteq {tab.row, tab.head, history.row, None}
  PROVE  Modest
<1>1. Uncounted \in Nat
  BY Counts DEF TInv
<1>2. \A f \in {tab.row, tab.head, history.row} : f # None => f.replies \in Nat /\ f.replies <= f.replies
  BY FacesAre
<1> QED
  BY <1>1, <1>2 DEF Modest

LEMMA OpenTypes ==
  ASSUME TInv, openThread
  PROVE  TInv'
<1>1. /\ tab.row # None /\ tab \in Store
      /\ tab' = [tab EXCEPT !.head = tab.row, !.real = {}, !.temp = {}, !.twin = TRUE,
                            !.changed = @ \/ ~ tab.twin]
      /\ UNCHANGED <<table, calls, down, drawer, history, behind, spent>>
  BY DEF openThread, TInv, Views
<1>2. /\ tab' \in Store /\ tab'.row = tab.row /\ tab'.head = tab.row /\ tab'.real = {} /\ tab'.temp = {}
  BY <1>1 DEF Store
<1>3. Tables' /\ Wires' /\ Uncounted' = Uncounted
  BY <1>1, ViewsOnly DEF TInv, Tables
<1>4. Views'
  BY <1>1, <1>2 DEF TInv, Views
<1>5. Fetches'
  BY <1>1, <1>2 DEF TInv, Fetches, Known
<1>6. Modest
  BY <1>1, <1>2, <1>3, CopiedIsModest
<1> QED
  BY <1>3, <1>4, <1>5, <1>6, ModestIsBounded DEF TInv

LEMMA CloseTypes ==
  ASSUME TInv, Close
  PROVE  TInv'
<1>1. /\ tab' = closeThread(tab) /\ tab \in Store
      /\ UNCHANGED <<table, calls, down, drawer, history, behind, spent>>
  BY DEF Close, TInv, Views
<1>2. /\ tab' \in Store /\ tab'.row = tab.row /\ tab'.head = None /\ tab'.real = {} /\ tab'.temp = {}
      /\ ~ tab'.changed /\ ~ tab'.twin
  BY <1>1, CloseIs
<1>3. Tables' /\ Wires' /\ Uncounted' = Uncounted
  BY <1>1, ViewsOnly DEF TInv, Tables
<1>4. Views'
  BY <1>1, <1>2 DEF TInv, Views
<1>5. Fetches'
  BY <1>1, <1>2 DEF TInv, Fetches, Known
<1>6. Modest
  BY <1>1, <1>2, <1>3, CopiedIsModest
<1> QED
  BY <1>3, <1>4, <1>5, <1>6, ModestIsBounded DEF TInv

LEMMA LeaveTypes ==
  ASSUME TInv, Leave
  PROVE  TInv'
<1> DEFINE u == closeThread(tab)
<1>1. /\ tab' = [u EXCEPT !.away = TRUE, !.row = None] /\ tab \in Store
      /\ UNCHANGED <<table, calls, down, drawer, history, behind>>
      /\ spent' = [spent EXCEPT !.moves = @ + 1]
  BY DEF Leave, TInv, Views
<1>2. u \in Store /\ u.row = tab.row /\ u.head = None /\ u.real = {} /\ u.temp = {}
      /\ ~ u.changed /\ ~ u.twin
  BY <1>1, CloseIs
<1> HIDE DEF u
<1>3. /\ tab' \in Store /\ tab'.row = None /\ tab'.head = None /\ tab'.real = {} /\ tab'.temp = {}
      /\ ~ tab'.changed /\ ~ tab'.twin
  BY <1>1, <1>2 DEF Store
<1>4. /\ spent' \in [replies : 0 .. MaxReplies, edits : 0 .. MaxEdits, ops : Nat, moves : Nat]
      /\ spent'.replies = spent.replies
  BY <1>1 DEF TInv, Tables
<1>5. Tables' /\ Wires' /\ Uncounted' = Uncounted /\ Known' = Known
  BY <1>1, <1>4, ViewsOnly
<1>6. Views'
  BY <1>1, <1>3 DEF TInv, Views
<1>7. Fetches'
  BY <1>1, <1>3, <1>5 DEF TInv, Fetches
<1>8. Modest
  BY <1>1, <1>3, <1>4, <1>5, CopiedIsModest
<1> QED
  BY <1>5, <1>6, <1>7, <1>8, ModestIsBounded DEF TInv

LEMMA ReturnTypes ==
  ASSUME TInv, Return
  PROVE  TInv'
<1> DEFINE u == closeThread(tab)
<1>1. /\ tab' = [u EXCEPT !.away = FALSE, !.row = None] /\ tab \in Store
      /\ UNCHANGED <<table, calls, down, drawer, behind, spent>>
      /\ history = Idle /\ history' = [history EXCEPT !.is = "asked"]
  BY DEF Return, TInv, Views
<1>2. u \in Store /\ u.row = tab.row /\ u.head = None /\ u.real = {} /\ u.temp = {}
      /\ ~ u.changed /\ ~ u.twin
  BY <1>1, CloseIs
<1> HIDE DEF u
<1>3. /\ tab' \in Store /\ tab'.row = None /\ tab'.head = None /\ tab'.real = {} /\ tab'.temp = {}
      /\ ~ tab'.changed /\ ~ tab'.twin
  BY <1>1, <1>2 DEF Store
<1>4. /\ history' \in [is : {"none", "asked", "read"}, row : Picture \cup {None}, late : BOOLEAN]
      /\ history'.row = None
  BY <1>1 DEF Idle
<1>5. Tables' /\ Wires' /\ Uncounted' = Uncounted /\ Known' = Known
  BY <1>1, ViewsOnly DEF TInv, Tables
<1>6. Views'
  BY <1>1, <1>3 DEF TInv, Views
<1>7. Fetches'
  BY <1>1, <1>3, <1>4, <1>5 DEF TInv, Fetches
<1>8. Modest
  BY <1>1, <1>3, <1>4, <1>5, CopiedIsModest
<1> QED
  BY <1>5, <1>6, <1>7, <1>8, ModestIsBounded DEF TInv

LEMMA FetchTypes ==
  ASSUME TInv, fetchReplies
  PROVE  TInv'
<1>1. /\ tab' = [tab EXCEPT !.changed = FALSE] /\ tab \in Store
      /\ UNCHANGED <<table, calls, down, history, behind, spent>>
      /\ drawer' = Append(drawer, None) /\ Len(drawer) < MaxFetches
      /\ drawer \in Seq(Answers) /\ MaxFetches \in Nat
  BY BoundsAssumption DEF fetchReplies, TInv, Views, Fetches
<1>2. /\ tab' \in Store /\ tab'.row = tab.row /\ tab'.head = tab.head
      /\ tab'.real = tab.real /\ tab'.temp = tab.temp /\ ~ tab'.changed /\ tab'.twin = tab.twin
  BY <1>1 DEF Store
<1>3. Tables' /\ Wires' /\ Uncounted' = Uncounted /\ Known' = Known
  BY <1>1, ViewsOnly DEF TInv, Tables
<1>4. Views'
  BY <1>1, <1>2, <1>3 DEF TInv, Views
<1>5. /\ drawer' \in Seq(Answers) /\ Range(drawer') = Range(drawer) \cup {None}
      /\ Len(drawer') = Len(drawer) + 1 /\ Len(drawer) \in Nat
  <2>1. None \in Answers
    BY DEF Answers
  <2> QED
    BY <1>1, <2>1, AppendProperties, RangeAppend, LenProperties
<1>6. Fetches'
  BY <1>1, <1>2, <1>3, <1>5 DEF TInv, Fetches
<1>7. Modest
  BY <1>1, <1>2, <1>3, CopiedIsModest
<1> QED
  BY <1>3, <1>4, <1>6, <1>7, ModestIsBounded DEF TInv

LEMMA AnswerRepliesTypes ==
  ASSUME TInv, NEW k \in DOMAIN drawer, AnswerReplies(k)
  PROVE  TInv'
<1>1. /\ UNCHANGED <<table, calls, down, tab, history, behind, spent>>
      /\ drawer \in Seq(Answers) /\ table.replies \in SUBSET Known
      /\ drawer' = IF table.exists THEN [drawer EXCEPT ![k] = table.replies] ELSE RemoveAt(drawer, k)
  BY DEF AnswerReplies, TInv, Tables, Fetches
<1>2. Tables' /\ Wires' /\ Uncounted' = Uncounted /\ Known' = Known
  BY <1>1, ViewsOnly DEF TInv, Tables
<1>3. Views'
  BY <1>1, <1>2 DEF TInv, Views
<1>4. /\ drawer' \in Seq(Answers) /\ Len(drawer') <= Len(drawer) /\ Len(drawer') \in Nat
      /\ Range(drawer') \subseteq Range(drawer) \cup {table.replies}
  <2>1. table.replies \in Answers
    BY <1>1 DEF Known, Answers
  <2>2. CASE table.exists
    <3> DEFINE t == [drawer EXCEPT ![k] = table.replies]
    <3>1. t \in Seq(Answers) /\ Len(t) = Len(drawer) /\ Range(t) \subseteq Range(drawer) \cup {table.replies}
      BY <1>1, <2>1, RangeExcept
    <3>2. drawer' = t
      BY <1>1, <2>2
    <3> HIDE DEF t
    <3>3. Len(drawer) \in Nat
      BY <1>1, LenProperties
    <3> QED
      BY <3>1, <3>2, <3>3
  <2>3. CASE ~ table.exists
    BY <1>1, <2>3, RangeRemoveAt, LenProperties
  <2> QED
    BY <2>2, <2>3
<1>5. MaxFetches \in Nat /\ Len(drawer) \in Nat /\ Len(drawer) <= MaxFetches
  BY <1>1, LenProperties, BoundsAssumption DEF TInv, Fetches
<1>6. Fetches'
  <2>1. \A d \in Range(drawer') : d # None => d \in SUBSET Known'
    BY <1>1, <1>2, <1>4 DEF TInv, Fetches
  <2>2. Len(drawer') <= MaxFetches
    BY <1>4, <1>5
  <2>3. tab' = tab /\ history' = history
    BY <1>1
  <2> QED
    BY <1>4, <2>1, <2>2, <2>3 DEF TInv, Fetches
<1>7. Modest
  BY <1>1, <1>2, CopiedIsModest
<1> QED
  BY <1>2, <1>3, <1>6, <1>7, ModestIsBounded DEF TInv

LEMMA SetThreadTypes ==
  ASSUME TInv, NEW k \in DOMAIN drawer, setThreadMessages(k)
  PROVE  TInv'
<1>1. /\ UNCHANGED <<table, calls, down, history, behind, spent>> /\ tab \in Store
      /\ drawer \in Seq(Answers) /\ drawer[k] # None
      /\ drawer' = RemoveAt(drawer, k)
      /\ tab' = [tab EXCEPT !.real = drawer[k], !.temp = {}]
  BY DEF setThreadMessages, TInv, Views, Fetches
<1>2. drawer[k] \in SUBSET Known /\ drawer[k] \in SUBSET Nat
  BY <1>1, RangeOfAll DEF TInv, Fetches, Known
<1>3. /\ tab' \in Store /\ tab'.row = tab.row /\ tab'.head = tab.head
      /\ tab'.real = drawer[k] /\ tab'.temp = {} /\ tab'.changed = tab.changed /\ tab'.twin = tab.twin
  BY <1>1, <1>2 DEF Store
<1>4. Tables' /\ Wires' /\ Uncounted' = Uncounted /\ Known' = Known
  BY <1>1, ViewsOnly DEF TInv, Tables
<1>5. Views'
  BY <1>1, <1>2, <1>3, <1>4 DEF TInv, Views
<1>6. /\ drawer' \in Seq(Answers) /\ Len(drawer') = Len(drawer) - 1 /\ Len(drawer) \in Nat
      /\ Range(drawer') \subseteq Range(drawer) /\ MaxFetches \in Nat
  BY <1>1, RangeRemoveAt, LenProperties, BoundsAssumption
<1>7. Fetches'
  BY <1>1, <1>3, <1>4, <1>6 DEF TInv, Fetches
<1>8. Modest
  BY <1>1, <1>3, <1>4, CopiedIsModest
<1> QED
  BY <1>4, <1>5, <1>7, <1>8, ModestIsBounded DEF TInv

LEMMA TheFaceIs ==
  ASSUME TInv
  PROVE  /\ TheFace \in Picture /\ TheFace # None
         /\ TheFace.replies = Cardinality(table.replies)
         /\ TheFace.reacts = table.reacts /\ TheFace.text = table.text
  BY FewReplies, PictureIsOne DEF TInv, Tables, TheFace, Picture

LEMMA AnswerHistoryTypes ==
  ASSUME TInv, AnswerHistory
  PROVE  TInv'
<1>1. /\ UNCHANGED <<table, calls, down, tab, drawer, behind, spent>> /\ history.is = "asked"
      /\ history' = [is |-> "read", row |-> IF table.exists THEN TheFace ELSE None, late |-> FALSE]
  BY DEF AnswerHistory
<1>2. /\ history' \in [is : {"none", "asked", "read"}, row : Picture \cup {None}, late : BOOLEAN]
      /\ history'.is = "read" /\ history'.row \in {TheFace, None}
  BY <1>1, TheFaceIs
<1>3. Tables' /\ Wires' /\ Uncounted' = Uncounted /\ Known' = Known /\ Uncounted \in Nat
  BY <1>1, ViewsOnly DEF TInv, Tables
<1>4. Views' /\ Fetches'
  BY <1>1, <1>2, <1>3 DEF TInv, Views, Fetches
<1>5. Bounded'
  <2>1. Cardinality(table.replies) <= spent.replies /\ Cardinality(table.replies) \in Nat /\ spent.replies \in Nat
    BY FewReplies DEF TInv
  <2>2. history'.row # None => history'.row.replies = Cardinality(table.replies)
    BY <1>2, TheFaceIs
  <2>3. Uncounted <= spent.replies
    BY DEF TInv, Bounded
  <2>4. history'.row # None => history'.row.replies + Uncounted <= 2 * spent.replies
    BY <1>3, <2>1, <2>2, <2>3
  <2> QED
    BY <1>1, <1>3, <2>4 DEF TInv, Bounded, Within
<1> QED
  BY <1>3, <1>4, <1>5 DEF TInv

LEMMA SetMessagesTypes ==
  ASSUME TInv, setMessages
  PROVE  TInv'
<1>1. /\ UNCHANGED <<table, calls, down, drawer, spent>> /\ tab \in Store
      /\ history.is = "read" /\ history \in [is : {"none", "asked", "read"}, row : Picture \cup {None}, late : BOOLEAN]
      /\ tab' = [tab EXCEPT !.row = history.row, !.twin = FALSE]
      /\ history' = Idle /\ behind' = history.late
  BY DEF setMessages, TInv, Views, Fetches
<1>2. /\ tab' \in Store /\ tab'.row = history.row /\ tab'.head = tab.head
      /\ tab'.real = tab.real /\ tab'.temp = tab.temp /\ tab'.changed = tab.changed /\ ~ tab'.twin
  BY <1>1 DEF Store
<1>3. /\ history' \in [is : {"none", "asked", "read"}, row : Picture \cup {None}, late : BOOLEAN]
      /\ history'.is = "none" /\ history'.row = None /\ behind' \in BOOLEAN
  BY <1>1 DEF Idle
<1>4. Tables' /\ Wires' /\ Uncounted' = Uncounted /\ Known' = Known
  BY <1>1, ViewsOnly DEF TInv, Tables
<1>5. Views'
  BY <1>2, <1>3, <1>4 DEF TInv, Views
<1>6. Fetches'
  BY <1>1, <1>3, <1>4 DEF TInv, Fetches
<1>7. Modest
  BY <1>1, <1>2, <1>3, <1>4, CopiedIsModest
<1> QED
  BY <1>4, <1>5, <1>6, <1>7, ModestIsBounded DEF TInv

LEMMA HearIs ==
  ASSUME TInv, Hear
  PROVE  LET e == Head(down)
         IN  /\ e \in Range(down) /\ e \in Event /\ EventRight(e) /\ down \in Seq(Event) /\ down # << >>
             /\ down' = Tail(down) /\ down' \in Seq(Event) /\ Range(down) = Range(down') \cup {e}
             /\ Uncounted = Uncounted' + (IF e \in Arriving THEN 1 ELSE 0)
             /\ Uncounted' \in Nat /\ Uncounted \in Nat
             /\ tab' = Heard(tab, e)
             /\ UNCHANGED <<table, calls, drawer, behind, lost, spent>>
             /\ history' \in [is : {"none", "asked", "read"}, row : Picture \cup {None}, late : BOOLEAN]
             /\ history'.is = history.is /\ history'.row = history.row
             /\ history.is = "read" => history'.late
<1> DEFINE e == Head(down)
<1>1. /\ down # << >> /\ down \in Seq(Event) /\ down' = Tail(down) /\ tab' = Heard(tab, e)
      /\ UNCHANGED <<table, calls, drawer, behind, lost, spent>>
      /\ history' = [history EXCEPT !.late = history.is = "read"]
      /\ history \in [is : {"none", "asked", "read"}, row : Picture \cup {None}, late : BOOLEAN]
  BY DEF Hear, TInv, Wires, Fetches
<1>2. /\ Range(down) = {e} \cup Range(down') /\ e \in Range(down) /\ down' \in Seq(Event) /\ e \in Event
  BY <1>1, RangeTail
<1>3. Among(down, Arriving) = Among(down', Arriving) + (IF e \in Arriving THEN 1 ELSE 0)
  BY <1>1, AmongTail
<1> HIDE DEF e
<1>4. EventRight(e)
  BY <1>2 DEF TInv, Wires
<1>5. /\ Among(calls, Announcing) \in Nat /\ Among(down, Arriving) \in Nat /\ Among(down', Arriving) \in Nat
  BY <1>2, Counts, PlacesType DEF TInv
<1>6. Uncounted = Uncounted' + (IF e \in Arriving THEN 1 ELSE 0) /\ Uncounted' \in Nat /\ Uncounted \in Nat
  <2>1. Among(calls', Announcing) = Among(calls, Announcing)
    BY <1>1
  <2>2. /\ Uncounted = Among(calls, Announcing) + Among(down, Arriving)
        /\ Uncounted' = Among(calls, Announcing) + Among(down', Arriving)
    BY <2>1 DEF Uncounted
  <2> QED
    BY <1>3, <1>5, <2>2
<1>7. /\ history' \in [is : {"none", "asked", "read"}, row : Picture \cup {None}, late : BOOLEAN]
      /\ history'.is = history.is /\ history'.row = history.row
      /\ history.is = "read" => history'.late
  BY <1>1
<1> QED
  BY <1>1, <1>2, <1>4, <1>6, <1>7 DEF e

LEMMA HeardIs ==
  ASSUME NEW t, NEW e
  PROVE  /\ e.ev = "receive_channel_message" => Heard(t, e) = receive(t, e.x)
         /\ e.ev = "message_deleted" => Heard(t, e) = deleteMessage(deleteMessage(t, e.x), e.x)
         /\ e.ev = "thread_parent_updated" => Heard(t, e) = setThreadReplyCount(t, e.x)
         /\ e.ev = "message_reactions_updated" => Heard(t, e) = updateMessageReactions(t, e.x)
         /\ e.ev = "message_edited" => Heard(t, e) = editMessage(t, e.x)
  BY DEF Heard

\* What an event of each kind does to the tab.
HeardReply(e) ==
    /\ e.ev = "receive_channel_message" /\ e.x \in Known
    /\ Received(tab, tab', e.x)

HeardGone(e) ==
    /\ e.ev = "message_deleted"
    /\ e.x = Whole => Cleared(tab, tab')
    /\ e.x # Whole => Pruned(tab, tab', e.x)

HeardCount(e) ==
    /\ e.ev = "thread_parent_updated" /\ e.x \in Known \cup {0} /\ Kept(tab, tab')
    /\ Painted(tab.row, tab'.row, e.x, tab.row.reacts, tab.row.text)
    /\ Painted(tab.head, tab'.head, e.x, tab.head.reacts, tab.head.text)

HeardReactions(e) ==
    /\ e.ev = "message_reactions_updated" /\ Kept(tab, tab')
    /\ Painted(tab.row, tab'.row, tab.row.replies, e.x, tab.row.text)
    /\ Painted(tab.head, tab'.head, tab.head.replies, e.x, tab.head.text)

HeardText(e) ==
    /\ e.ev = "message_edited"
    /\ tab'.away = tab.away /\ tab'.real = tab.real /\ tab'.temp = tab.temp /\ tab'.changed = tab.changed
    /\ tab'.head = tab.head /\ tab'.twin = (tab.twin /\ tab.row = None)
    /\ Painted(tab.row, tab'.row, tab.row.replies, tab.row.reacts, e.x)

LEMMA HeardKinds ==
  ASSUME TInv, NEW e, EventRight(e), tab' = Heard(tab, e)
  PROVE  /\ tab' \in Store
         /\ HeardReply(e) \/ HeardGone(e) \/ HeardCount(e) \/ HeardReactions(e) \/ HeardText(e)
<1>1. tab \in Store /\ spent.replies \in Nat /\ MaxEdits \in Nat
  BY FewReplies, BoundsAssumption DEF TInv, Views
<1>2. CASE e.ev = "receive_channel_message" /\ e.x \in Known
  <2>1. e.x \in Nat /\ tab' = receive(tab, e.x)
    BY <1>1, <1>2, HeardIs DEF Known
  <2>2. Received(tab, tab', e.x)
    BY <1>1, <2>1, ReceiveIs
  <2>3. tab' \in Store
    BY <2>2 DEF Received
  <2> QED
    BY <1>2, <2>2, <2>3 DEF HeardReply
<1>3. CASE e.ev = "message_deleted"
  <2>1. tab' = deleteMessage(deleteMessage(tab, e.x), e.x)
    BY <1>3, HeardIs
  <2>2. (e.x = Whole => Cleared(tab, tab')) /\ (e.x # Whole => Pruned(tab, tab', e.x))
    BY <1>1, <2>1, DeleteTwiceIs
  <2> QED
    BY <1>3, <2>2 DEF HeardGone, Cleared, Pruned
<1>4. CASE e.ev = "thread_parent_updated" /\ e.x \in Known \cup {0}
  <2>1. e.x \in Nat /\ tab' = setThreadReplyCount(tab, e.x)
    BY <1>1, <1>4, HeardIs DEF Known
  <2> QED
    <3>1. /\ Kept(tab, tab')
          /\ Painted(tab.row, tab'.row, e.x, tab.row.reacts, tab.row.text)
          /\ Painted(tab.head, tab'.head, e.x, tab.head.reacts, tab.head.text)
      BY <1>1, <2>1, CountIs, Zenon
    <3>2. HeardCount(e)
      BY <1>4, <3>1 DEF HeardCount
    <3> QED
      BY <3>1, <3>2 DEF Kept
<1>5. CASE e.ev = "message_reactions_updated" /\ e.x \in SUBSET Users
  <2>1. tab' = updateMessageReactions(tab, e.x)
    BY <1>5, HeardIs
  <2> QED
    BY <1>1, <1>5, <2>1, ReactionsAre DEF HeardReactions, Kept
<1>6. CASE e.ev = "message_edited" /\ e.x \in 1 .. MaxEdits
  <2>1. e.x \in 0 .. MaxEdits /\ tab' = editMessage(tab, e.x)
    BY <1>1, <1>6, HeardIs
  <2> QED
    <3>1. /\ tab' \in Store
          /\ tab'.away = tab.away /\ tab'.real = tab.real /\ tab'.temp = tab.temp /\ tab'.changed = tab.changed
          /\ tab'.head = tab.head /\ tab'.twin = (tab.twin /\ tab.row = None)
          /\ Painted(tab.row, tab'.row, tab.row.replies, tab.row.reacts, e.x)
      BY <1>1, <2>1, EditIs
    <3>2. HeardText(e)
      BY <1>6, <3>1 DEF HeardText
    <3> QED
      BY <3>1, <3>2
<1> QED
  BY <1>2, <1>3, <1>4, <1>5, <1>6 DEF EventRight

\* Of what is shown, events only bring what is known, and no copy back.
LEMMA HeardViews ==
  ASSUME TInv, NEW e, EventRight(e), tab' = Heard(tab, e)
  PROVE  /\ tab' \in Store /\ tab'.away = tab.away
         /\ tab'.real \subseteq Known /\ tab'.temp \subseteq Known \ tab'.real
         /\ tab'.changed \/ tab'.twin => tab'.head # None
         /\ tab'.head = None => tab'.temp = {}
         /\ tab.row = None => tab'.row = None
         /\ tab.head = None => tab'.head = None
<1>1. /\ tab' \in Store
      /\ HeardReply(e) \/ HeardGone(e) \/ HeardCount(e) \/ HeardReactions(e) \/ HeardText(e)
  BY HeardKinds
<1>2. /\ tab.real \subseteq Known /\ tab.temp \subseteq Known \ tab.real
      /\ tab.changed \/ tab.twin => tab.head # None
      /\ tab.head = None => tab.temp = {}
  BY DEF TInv, Views
<1>3. CASE HeardReply(e)
  BY <1>1, <1>2, <1>3 DEF HeardReply, Received, Painted
<1>4. CASE HeardGone(e)
  BY <1>1, <1>2, <1>4 DEF HeardGone, Cleared, Pruned, Lessened
<1>5. CASE HeardCount(e)
  BY <1>1, <1>2, <1>5 DEF HeardCount, Kept, Painted
<1>6. CASE HeardReactions(e)
  BY <1>1, <1>2, <1>6 DEF HeardReactions, Kept, Painted
<1>7. CASE HeardText(e)
  BY <1>1, <1>2, <1>7 DEF HeardText, Painted
<1> QED
  BY <1>1, <1>3, <1>4, <1>5, <1>6, <1>7

\* A reply that arrives may add one, and then waits to be counted no more.
LEMMA HeardNumbers ==
  ASSUME TInv, NEW e \in Event, EventRight(e), tab' = Heard(tab, e), spent' = spent,
         Uncounted = Uncounted' + (IF e \in Arriving THEN 1 ELSE 0), Uncounted' \in Nat,
         history'.row = history.row
  PROVE  Bounded'
<1>1. spent.replies \in Nat /\ Uncounted \in Nat /\ Uncounted <= spent.replies
  <2>1. spent.replies \in Nat
    BY FewReplies DEF TInv
  <2>2. Uncounted \in Nat
    BY Counts DEF TInv
  <2> QED
    BY <2>1, <2>2 DEF TInv, Bounded
<1>2. /\ tab' \in Store
      /\ HeardReply(e) \/ HeardGone(e) \/ HeardCount(e) \/ HeardReactions(e) \/ HeardText(e)
  BY HeardKinds
<1>3. /\ tab.row # None => tab.row.replies \in Nat
      /\ tab.head # None => tab.head.replies \in Nat
      /\ history.row # None => history.row.replies \in Nat
      /\ tab'.row # None => tab'.row.replies \in Nat
      /\ tab'.head # None => tab'.head.replies \in Nat
  BY <1>2 DEF TInv, Views, Fetches, Store, Picture
<1>4. Within(history.row)'
  BY <1>1, <1>3, StaysWithin DEF Within
<1>5. CASE HeardReply(e)
  <2>1. Uncounted = Uncounted' + 1
    BY <1>5 DEF HeardReply, Arriving
  <2>2. /\ tab'.row # None => tab.row # None /\ tab'.row.replies <= tab.row.replies + 1
        /\ tab'.head # None => tab.head # None /\ tab'.head.replies <= tab.head.replies + 1
    BY <1>3, <1>5 DEF HeardReply, Received, Painted
  <2>3. Within(tab.row)'
    BY <1>1, <1>3, <2>1, <2>2, StaysWithin DEF Within
  <2>4. Within(tab.head)'
    BY <1>1, <1>3, <2>1, <2>2, StaysWithin DEF Within
  <2> QED
    BY <1>1, <1>4, <2>1, <2>3, <2>4 DEF Bounded
<1>6. CASE HeardCount(e)
  <2>1. e.x \in Nat /\ e.x <= spent.replies /\ Uncounted' <= spent.replies
    BY <1>1, <1>6 DEF HeardCount, Known
  <2>2. /\ tab'.row # None => tab'.row.replies = e.x
        /\ tab'.head # None => tab'.head.replies = e.x
    BY <1>6 DEF HeardCount, Painted
  <2>3. e.x + Uncounted' <= 2 * spent.replies
    BY <1>1, <2>1
  <2> QED
    BY <1>4, <2>1, <2>2, <2>3 DEF Bounded, Within
<1>7. CASE HeardGone(e) \/ HeardReactions(e) \/ HeardText(e)
  <2>1. /\ tab'.row # None => tab.row # None /\ tab'.row.replies <= tab.row.replies
        /\ tab'.head # None => tab.head # None /\ tab'.head.replies <= tab.head.replies
    BY <1>3, <1>7 DEF HeardGone, Cleared, Pruned, Lessened, HeardReactions, HeardText, Painted
  <2>2. Within(tab.row)'
    BY <1>1, <1>3, <2>1, StaysWithin DEF Within
  <2>3. Within(tab.head)'
    BY <1>1, <1>3, <2>1, StaysWithin DEF Within
  <2> QED
    BY <1>1, <1>4, <2>2, <2>3 DEF Bounded
<1> QED
  BY <1>2, <1>5, <1>6, <1>7

LEMMA HearTypes ==
  ASSUME TInv, Hear
  PROVE  TInv'
<1> DEFINE e == Head(down)
<1>1. /\ e \in Event /\ EventRight(e)
      /\ down' \in Seq(Event) /\ Range(down) = Range(down') \cup {e}
      /\ Uncounted = Uncounted' + (IF e \in Arriving THEN 1 ELSE 0)
      /\ Uncounted' \in Nat
      /\ tab' = Heard(tab, e)
      /\ UNCHANGED <<table, calls, drawer, behind, lost, spent>>
      /\ history' \in [is : {"none", "asked", "read"}, row : Picture \cup {None}, late : BOOLEAN]
      /\ history'.is = history.is /\ history'.row = history.row
  BY HearIs
<1> HIDE DEF e
<1>2. Known' = Known
  BY <1>1 DEF Known
<1>3. Tables' /\ Wires'
  BY <1>1, <1>2 DEF TInv, Tables, Wires, CallRight, EventRight
<1>4. /\ tab' \in Store
      /\ tab'.real \subseteq Known /\ tab'.temp \subseteq Known \ tab'.real
      /\ tab'.changed \/ tab'.twin => tab'.head # None
      /\ tab'.head = None => tab'.temp = {}
      /\ tab.row = None => tab'.row = None
      /\ tab.head = None => tab'.head = None
  BY <1>1, HeardViews
<1>5. Views'
  BY <1>1, <1>2, <1>4 DEF TInv, Views
<1>6. Fetches'
  BY <1>1, <1>2, <1>4 DEF TInv, Fetches
<1>7. Bounded'
  BY <1>1, HeardNumbers
<1> QED
  BY <1>3, <1>5, <1>6, <1>7 DEF TInv

LEMMA ViewingTypes ==
  ASSUME TInv, Viewing
  PROVE  TInv'
  BY OpenTypes, CloseTypes, LeaveTypes, ReturnTypes, FetchTypes, AnswerRepliesTypes, SetThreadTypes,
     AnswerHistoryTypes, SetMessagesTypes, HearTypes DEF Viewing

LEMMA TypesStart == Init => TInv
<1> SUFFICES ASSUME Init PROVE TInv
  OBVIOUS
<1>1. Earlier \in Nat /\ MaxReplies \in Nat /\ MaxEdits \in Nat /\ MaxFetches \in Nat /\ Earlier <= MaxReplies
  BY BoundsAssumption
<1>2. /\ spent.replies = Earlier /\ table.replies = 1 .. Earlier /\ table.exists /\ table.reacts = {}
      /\ table.text = 0 /\ calls = << >> /\ down = << >> /\ drawer = << >>
  BY DEF Init
<1>3. Tables
  BY <1>1 DEF Init, Tables, Known
<1>4. Range(<< >>) = {}
  BY DEF Range
<1>5. Wires
  BY <1>2, <1>4 DEF Wires
<1>6. Uncounted = 0
  <2>1. << >> \in Seq(Call) /\ << >> \in Seq(Event)
    BY EmptySeq
  <2>2. Among(<< >>, Announcing) = 0 /\ Among(<< >>, Arriving) = 0
    BY <2>1, AmongNone
  <2> QED
    BY <1>2, <2>2 DEF Uncounted
<1>7. TheFace.replies = Earlier /\ TheFace \in Picture /\ TheFace # None
  <2>1. Cardinality(1 .. Earlier) = Earlier
    BY <1>1, CountTo
  <2>2. TheFace = [replies |-> Earlier, reacts |-> {}, text |-> 0]
    BY <1>2, <2>1 DEF TheFace
  <2> QED
    BY <1>1, <2>2, PictureIsOne
<1>8. Views /\ tab.row = TheFace /\ tab.head = None
  BY <1>7 DEF Init, Views, Store
<1>9. Fetches /\ history.row = None
  BY <1>1, <1>2, <1>4 DEF Init, Fetches, Idle
<1>10. Bounded
  BY <1>1, <1>2, <1>6, <1>7, <1>8, <1>9 DEF Bounded, Within
<1> QED
  BY <1>3, <1>5, <1>8, <1>9, <1>10 DEF TInv

LEMMA TypesStay == TInv /\ [Next]_vars => TInv'
<1> SUFFICES ASSUME TInv, [Next]_vars PROVE TInv'
  OBVIOUS
<1>1. CASE Next
  BY <1>1, AskingTypes, ViewingTypes, ServingTypes DEF Next
<1>2. CASE UNCHANGED vars
  <2>1. UNCHANGED <<table, calls, down, tab, drawer, history, behind, lost, spent>>
    BY <1>2 DEF vars, Tabs
  <2>2. Tables' /\ Views'
    BY <2>1 DEF TInv, Tables, Views, Known
  <2>3. Wires'
    BY <2>1 DEF TInv, Wires, Known, CallRight, EventRight
  <2>4. Fetches'
    BY <2>1 DEF TInv, Fetches, Known
  <2>5. Bounded'
    BY <2>1 DEF TInv, Bounded, Within, Uncounted
  <2> QED
    BY <2>2, <2>3, <2>4, <2>5 DEF TInv
<1> QED
  BY <1>1, <1>2

Size == Cardinality(table.replies)

LEMMA NotesStart == Init => Remembered
<1> SUFFICES ASSUME Init PROVE Remembered
  OBVIOUS
<1>1. Earlier \in 0 .. MaxReplies /\ 1 .. Earlier \subseteq Reply /\ 0 \in 0 .. MaxEdits
  BY BoundsAssumption DEF Reply
<1> QED
  BY <1>1 DEF Init, Remembered, Notes

\* What a step reads or tells.
LEMMA KnownReplies ==
  ASSUME TInv
  PROVE  /\ Known \subseteq Reply /\ table.replies \subseteq Reply
         /\ Size \in 0 .. MaxReplies
         /\ table.reacts \subseteq Users
<1>1. spent.replies \in Nat /\ MaxReplies \in Nat /\ spent.replies <= MaxReplies
      /\ Size \in Nat /\ Size <= spent.replies
  BY FewReplies DEF TInv, Size
<1>2. Known \subseteq Reply
  BY <1>1 DEF Known, Reply
<1> QED
  BY <1>1, <1>2 DEF TInv, Tables

LEMMA CountNews ==
  ASSUME Remembered, NEW i \in DOMAIN calls, CountReplies(i)
  PROVE  /\ read'.count = Size /\ read'.reactions = read.reactions /\ read'.text = read.text
         /\ read'.replies = read.replies /\ told' = told
         /\ Size \in 0 .. MaxReplies => Remembered'
  BY DEF CountReplies, Size, Remembered, Notes

LEMMA ListNews ==
  ASSUME Remembered, NEW i \in DOMAIN calls, ListReactions(i)
  PROVE  /\ read'.reactions = table.reacts /\ read'.count = read.count /\ read'.text = read.text
         /\ read'.replies = read.replies /\ told' = told
         /\ table.reacts \subseteq Users => Remembered'
  BY DEF ListReactions, Remembered, Notes

LEMMA TextNews ==
  ASSUME Remembered, NEW i \in DOMAIN calls, WriteText(i)
  PROVE  /\ read'.text = IF table.exists THEN calls[i].x ELSE read.text
         /\ read'.count = read.count /\ read'.reactions = read.reactions
         /\ read'.replies = read.replies /\ told' = told
         /\ calls[i].x \in 0 .. MaxEdits => Remembered'
  BY DEF WriteText, Remembered, Notes

LEMMA ReportNews ==
  ASSUME Remembered, NEW i \in DOMAIN calls, Report(i)
  PROVE  /\ told'.count = IF calls[i].pc = "tellCount" THEN calls[i].x ELSE told.count
         /\ told'.reactions = IF calls[i].pc = "tellReactions" THEN calls[i].x ELSE told.reactions
         /\ told'.text = IF calls[i].pc = "tellText" THEN calls[i].x ELSE told.text
         /\ told'.replies = told.replies /\ read' = read
         /\ /\ calls[i].pc = "tellCount" => calls[i].x \in 0 .. MaxReplies
            /\ calls[i].pc = "tellReactions" => calls[i].x \in SUBSET Users
            /\ calls[i].pc = "tellText" => calls[i].x \in 0 .. MaxEdits
            => Remembered'
<1>1. CASE calls[i].pc = "tellCount"
  BY <1>1 DEF Report, Remembered, Notes
<1>2. CASE calls[i].pc = "tellReactions"
  BY <1>2 DEF Report, Remembered, Notes
<1>3. CASE calls[i].pc = "tellText"
  BY <1>3 DEF Report, Remembered, Notes
<1> QED
  BY <1>1, <1>2, <1>3 DEF Report

\* The drawer's answers.
LEMMA AnswerNews ==
  ASSUME Remembered, NEW k \in DOMAIN drawer, AnswerReplies(k)
  PROVE  /\ read'.replies = IF table.exists THEN table.replies ELSE read.replies
         /\ read'.count = read.count /\ read'.reactions = read.reactions /\ read'.text = read.text
         /\ told' = told
         /\ table.replies \subseteq Reply => Remembered'
  BY DEF AnswerReplies, Remembered, Notes

LEMMA ShownNews ==
  ASSUME Remembered, NEW k \in DOMAIN drawer, setThreadMessages(k)
  PROVE  /\ told'.replies = drawer[k]
         /\ told'.count = told.count /\ told'.reactions = told.reactions /\ told'.text = told.text
         /\ read' = read
         /\ drawer[k] \in SUBSET Reply => Remembered'
  BY DEF setThreadMessages, Remembered, Notes

LEMMA NotesStay == TInv /\ Remembered /\ [Next]_vars => Remembered'
<1> SUFFICES ASSUME TInv, Remembered, [Next]_vars PROVE Remembered'
  OBVIOUS
<1>1. ASSUME UNCHANGED News PROVE Remembered'
  BY <1>1 DEF News, Remembered
<1>2. CASE Asking
  <2>1. UNCHANGED News
    BY <1>2 DEF Asking, handleSendReply, handleEditSubmit, Elsewhere, handleDelete, handleReactionToggle
  <2> QED
    BY <1>1, <2>1
<1>3. CASE Viewing
  <2>1. ASSUME NEW k \in DOMAIN drawer, AnswerReplies(k) PROVE Remembered'
    BY <2>1, AnswerNews, KnownReplies
  <2>2. ASSUME NEW k \in DOMAIN drawer, setThreadMessages(k) PROVE Remembered'
    <3>1. drawer[k] \in Range(drawer) /\ drawer[k] # None
      BY <2>2, RangeOfAll DEF setThreadMessages, TInv, Fetches
    <3>2. drawer[k] \in SUBSET Reply
      BY <3>1, KnownReplies DEF TInv, Fetches
    <3> QED
      BY <2>2, <3>2, ShownNews
  <2>3. openThread \/ Close \/ Leave \/ Return \/ fetchReplies \/ AnswerHistory \/ setMessages \/ Hear
          => UNCHANGED News
    BY DEF openThread, Close, Leave, Return, fetchReplies, AnswerHistory, setMessages, Hear
  <2> QED
    BY <1>1, <1>3, <2>1, <2>2, <2>3 DEF Viewing
<1>4. ASSUME NEW i \in DOMAIN calls, Serving(i) PROVE Remembered'
  <2>0. CallRight(calls[i]) /\ MaxEdits \in Nat /\ MaxReplies \in Nat
    BY CallFacts, BoundsAssumption DEF TInv
  <2>1. CASE CountReplies(i)
    BY <2>1, CountNews, KnownReplies
  <2>2. CASE ListReactions(i)
    BY <2>2, ListNews, KnownReplies
  <2>3. CASE WriteText(i)
    <3>1. calls[i].x \in 0 .. MaxEdits
      BY <2>0, <2>3 DEF CallRight, WriteText
    <3> QED
      BY <2>3, <3>1, TextNews
  <2>4. CASE Report(i)
    <3>1. /\ calls[i].pc = "tellCount" => calls[i].x \in Known \cup {0}
          /\ calls[i].pc = "tellReactions" => calls[i].x \in SUBSET Users
          /\ calls[i].pc = "tellText" => calls[i].x \in 0 .. MaxEdits
      BY <2>0 DEF CallRight
    <3>2. Known \cup {0} \subseteq 0 .. MaxReplies
      BY <2>0, KnownReplies DEF Reply
    <3> QED
      BY <2>4, <3>1, <3>2, ReportNews
  <2>5. WriteReply(i) \/ WriteDelete(i) \/ Announce(i) \/ LookReaction(i) \/ WriteReaction(i) \/ Fail(i)
          => UNCHANGED News
    BY DEF WriteReply, WriteDelete, Announce, LookReaction, WriteReaction, Fail
  <2> QED
    BY <1>1, <1>4, <2>1, <2>2, <2>3, <2>4, <2>5 DEF Serving
<1> QED
  BY <1>1, <1>2, <1>3, <1>4 DEF Next, vars

LEMMA TypesFollow == TInv /\ Remembered => TypeOK
<1> SUFFICES ASSUME TInv, Remembered PROVE TypeOK
  OBVIOUS
<1>1. spent.replies \in Nat /\ MaxReplies \in Nat /\ spent.replies <= MaxReplies /\ Uncounted \in Nat
  BY FewReplies, Counts DEF TInv
<1>2. Known \subseteq Reply
  BY <1>1 DEF Known, Reply
<1>3. \A i \in DOMAIN calls : calls[i].pc \in {"look", "write", "announce", "count", "tellCount",
                                               "list", "tellReactions", "tellText"}
  BY CallFacts DEF TInv, Call
<1>4. ASSUME NEW f \in {tab.row, tab.head}
      PROVE  f \in Face \cup {None}
  <2>1. f \in Picture \cup {None} /\ Within(f)
    BY FacesAre DEF TInv, Bounded
  <2> SUFFICES ASSUME f # None PROVE f \in Face
    OBVIOUS
  <2>2. f.replies \in Nat /\ f.replies + Uncounted <= 2 * spent.replies
    BY <2>1 DEF Within, Picture
  <2>3. f.replies \in 0 .. 2 * MaxReplies
    BY <1>1, <2>2
  <2> QED
    BY <2>1, <2>3 DEF Picture, Face
<1>5. table \in [exists : BOOLEAN, replies : SUBSET Reply, reacts : SUBSET Users, text : 0 .. MaxEdits]
  BY <1>2 DEF TInv, Tables
<1> QED
  BY <1>2, <1>3, <1>4, <1>5 DEF TInv, Tables, Views, Fetches, TypeOK, Remembered, Notes

\* However requests, events and failures mix, every count, text and list stays
\* among those there can be: no copy counts a reply more than twice, and no
\* reply is in the drawer under both its ids (messageSlice 60-118).
THEOREM TypeCorrect == Spec => []TypeOK
<1>1. Init => TInv /\ Remembered
  BY TypesStart, NotesStart
<1>2. TInv /\ Remembered /\ [Next]_vars => (TInv /\ Remembered)'
  BY TypesStay, NotesStay
<1> QED
  BY <1>1, <1>2, TypesFollow, PTL DEF Spec

----------------------------------------------------------------------------
(* What is due                                                             *)

CallsAt(pcs) == \E c \in Range(calls) : c.pc \in pcs
InProgress(op, x, pcs) == \E c \in Range(calls) : c.op = op /\ c.x = x /\ c.pc \in pcs
Said(A) == \E e \in Range(down) : e \in A
Tells(ev, x) == \E e \in Range(down) : e.ev = ev /\ e.x = x

OfKinds(evs) == {e \in Event : e.ev \in evs}
Saying(ev, x) == {e \in Event : e.ev = ev /\ e.x = x}
Numbers == OfKinds({"receive_channel_message", "message_deleted", "thread_parent_updated"})
Reactions == OfKinds({"message_reactions_updated"})
Texts == OfKinds({"message_edited"})

\* What was last read of each kind is the truth, unless a handler is on its way
\* from its write to its reading, and so is what was last told, unless it was
\* read before or is yet to be told.
CountTrue ==
    \/ CallsAt({"announce", "count"})
    \/ /\ read.count = Size
       /\ \/ CallsAt({"tellCount"}) \/ told.count # Size
          \/ Ends(down, Numbers, Saying("thread_parent_updated", Size))

ReactionsTrue ==
    \/ CallsAt({"list"})
    \/ /\ read.reactions = table.reacts
       /\ \/ CallsAt({"tellReactions"}) \/ told.reactions # table.reacts
          \/ Ends(down, Reactions, Saying("message_reactions_updated", table.reacts))

TextTrue ==
    /\ read.text = table.text
    /\ \/ CallsAt({"tellText"}) \/ told.text # table.text
       \/ Ends(down, Texts, Saying("message_edited", table.text))

InOrder ==
    lost \subseteq {"emptied", "ghost"} /\ table.exists => CountTrue /\ ReactionsTrue /\ TextTrue

\* Something that will correct the number, the reactions or the text is under
\* way, or what was told last was not what had been read last.
CountDue ==
    \/ told.count # read.count
    \/ CallsAt({"announce", "count", "tellCount"}) \/ Said(Numbers)
    \/ \E c \in Range(calls) :
         c.pc = "write" /\ (c.op = "reply" \/ (c.op = "delete" /\ c.x \in table.replies))

ReactionsDue ==
    told.reactions # read.reactions \/ CallsAt({"list", "tellReactions"}) \/ Said(Reactions)

TextDue ==
    told.text # read.text \/ (\E c \in Range(calls) : c.op = "edit") \/ Said(Texts)

NumberOwed == CallsAt({"announce", "count", "tellCount"}) \/ Said(OfKinds({"thread_parent_updated"}))

GoneDue == InProgress("delete", Whole, {"announce"}) \/ Tells("message_deleted", Whole)
WholeAsked == InProgress("delete", Whole, {"write"})
ReplyDue(x) == InProgress("reply", x, {"write", "announce"}) \/ Tells("receive_channel_message", x)
Alive(x) == x \in table.replies \/ InProgress("delete", x, {"announce"}) \/ Tells("message_deleted", x)

HeadRight(f) ==
    f # None => /\ CountDue \/ f.replies = Size
                /\ ReactionsDue \/ f.reacts = table.reacts

RowRight(f) == HeadRight(f) /\ (f # None => TextDue \/ f.text = table.text)

\* What the tab shows is right or will be corrected.
FacesRight ==
    lost \subseteq {"emptied"} /\ table.exists =>
      /\ ~ behind /\ ~ tab.away => HeadRight(tab.head) /\ RowRight(tab.row)
      /\ history.is = "read" /\ ~ history.late => RowRight(history.row)

\* Of a deletion of the message all are told, and only of one that happened.
GoneTrue == GoneDue => ~ table.exists

Spared == lost \subseteq {"count", "emptied", "ghost"}

GoneNoted ==
    Spared /\ ~ table.exists /\ ~ GoneDue =>
      /\ ~ behind => tab.row = None /\ tab.head = None
      /\ history.is = "read" /\ ~ history.late => history.row = None

\* A message that exists is shown, unless its deletion has been asked for.
Shown ==
    lost \subseteq {"emptied"} /\ table.exists =>
      /\ ~ tab.away /\ history.is = "none" /\ tab.row = None => WholeAsked
      /\ history.is = "read" => history.row # None

\* A reply known by its tempId only has yet to arrive.
TempDue ==
    lost \subseteq {"emptied"} /\ table.exists /\ ~ tab.away => \A x \in tab.temp : ReplyDue(x)

\* What the drawer read last is the replies there are, unless it is to be
\* fetched again, an answer is to come, or the number is and then makes it
\* fetch; and it is shown, unless an answer is to be shown or another was shown
\* after it.
Asks == None \in Range(drawer)
Showing == drawer # << >> \/ told.replies # read.replies

DrawerRight ==
    lost \subseteq {"ghost"} /\ table.exists /\ tab.head # None =>
      \/ tab.changed \/ NumberOwed \/ Asks
      \/ /\ read.replies = table.replies
         /\ Showing \/ (tab.real = table.replies /\ tab.temp = {})

NoneLeft ==
    Spared /\ table.exists /\ tab.head # None =>
      \/ tab.changed \/ Asks
      \/ /\ \A x \in read.replies : Alive(x)
         /\ Showing \/ ((\A x \in tab.real : Alive(x)) /\ tab.temp = {})

SInv == InOrder /\ FacesRight /\ GoneTrue /\ GoneNoted /\ Shown /\ TempDue /\ DrawerRight /\ NoneLeft

\* Nothing is read, and nothing told or shown.
NewsKept ==
    /\ read'.count = read.count /\ told'.count = told.count
    /\ read'.reactions = read.reactions /\ told'.reactions = told.reactions
    /\ read'.text = read.text /\ told'.text = told.text

LEMMA NewsStay == UNCHANGED News => NewsKept /\ read' = read /\ told' = told
  BY DEF News, NewsKept

LEMMA NumberOwedIs ==
  ASSUME TInv
  PROVE  CountOwed <=> NumberOwed
<1>1. (\E i \in DOMAIN calls : calls[i].pc \in {"announce", "count", "tellCount"})
        <=> CallsAt({"announce", "count", "tellCount"})
  BY RangeOfAll DEF CallsAt, TInv, Wires
<1>2. (\E i \in DOMAIN down : down[i].ev = "thread_parent_updated")
        <=> Said(OfKinds({"thread_parent_updated"}))
  <2>1. \A e \in Range(down) : e \in Event
    BY RangeOfAll DEF TInv, Wires
  <2>2. /\ \A i \in DOMAIN down : down[i] \in Range(down)
        /\ \A e \in Range(down) : \E i \in DOMAIN down : down[i] = e
    BY RangeOfAll DEF TInv, Wires
  <2> QED
    BY <2>1, <2>2 DEF Said, OfKinds
<1> QED
  BY <1>1, <1>2 DEF CountOwed, NumberOwed

----------------------------------------------------------------------------
(* The order of what is told                                               *)

\* Handlers and events that have nothing to do with the number.
LEMMA CountKept ==
  ASSUME CountTrue, NEW c, NEW D, Replaced(c, D), table'.replies = table.replies,
         c.pc \notin {"announce", "count", "tellCount"}, \A d \in D : d.pc # "tellCount",
         read'.count = read.count, told'.count = told.count,
         \/ UNCHANGED down
         \/ \E e : Told(e) /\ e \notin Numbers
  PROVE  CountTrue'
<1>1. CallsAt({"announce", "count"}) => CallsAt({"announce", "count"})'
  BY DEF CallsAt, Replaced
<1>2. CallsAt({"tellCount"}) => CallsAt({"tellCount"})'
  BY DEF CallsAt, Replaced
<1>3. Size' = Size
  BY DEF Size
<1>4. \A B : Ends(down, Numbers, B) => Ends(down', Numbers, B)
  BY DEF Told
<1> QED
  BY <1>1, <1>2, <1>3, <1>4 DEF CountTrue, Numbers, Saying, OfKinds, Size

LEMMA ReactionsKept ==
  ASSUME ReactionsTrue, NEW c, NEW D, Replaced(c, D), table'.reacts = table.reacts,
         c.pc \notin {"list", "tellReactions"}, \A d \in D : d.pc # "tellReactions",
         read'.reactions = read.reactions, told'.reactions = told.reactions,
         \/ UNCHANGED down
         \/ \E e : Told(e) /\ e \notin Reactions
  PROVE  ReactionsTrue'
<1>1. CallsAt({"list"}) => CallsAt({"list"})'
  BY DEF CallsAt, Replaced
<1>2. CallsAt({"tellReactions"}) => CallsAt({"tellReactions"})'
  BY DEF CallsAt, Replaced
<1>3. \A B : Ends(down, Reactions, B) => Ends(down', Reactions, B)
  BY DEF Told
<1> QED
  BY <1>1, <1>2, <1>3 DEF ReactionsTrue, Reactions, Saying, OfKinds

LEMMA TextKept ==
  ASSUME TextTrue, NEW c, NEW D, Replaced(c, D), table'.text = table.text,
         c.pc # "tellText", \A d \in D : d.pc # "tellText",
         read'.text = read.text, told'.text = told.text,
         \/ UNCHANGED down
         \/ \E e : Told(e) /\ e \notin Texts
  PROVE  TextTrue'
<1>1. CallsAt({"tellText"}) => CallsAt({"tellText"})'
  BY DEF CallsAt, Replaced
<1>2. \A B : Ends(down, Texts, B) => Ends(down', Texts, B)
  BY DEF Told
<1> QED
  BY <1>1, <1>2 DEF TextTrue, Texts, Saying, OfKinds

\* A handler goes on to another point.
Goes(c, pc, x) ==
    \E d \in Call : d.op = c.op /\ d.by = c.by /\ d.pc = pc /\ d.x = x /\ Replaced(c, {d})

LEMMA ThenGoes ==
  ASSUME Wires, NEW i \in DOMAIN calls, NEW pc \in {"write", "announce", "count", "list", "tellText"},
         Then(i, pc)
  PROVE  Goes(calls[i], pc, calls[i].x)
<1> DEFINE d == At(calls[i], pc, calls[i].x)
<1>1. calls[i] \in Call /\ calls \in Seq(Call)
  BY CallFacts
<1>2. d \in Call /\ d.op = calls[i].op /\ d.by = calls[i].by /\ d.pc = pc /\ d.x = calls[i].x
  BY <1>1, AtFacts
<1>3. Replaced(calls[i], {d})
  BY <1>1, <1>2, ThenMoves
<1> QED
  BY <1>2, <1>3 DEF Goes

LEMMA ThenWithGoes ==
  ASSUME Wires, NEW i \in DOMAIN calls, NEW pc \in {"write", "tellCount", "tellReactions"},
         NEW x \in Nat \cup BOOLEAN \cup SUBSET Users, ThenWith(i, pc, x)
  PROVE  Goes(calls[i], pc, x)
<1> DEFINE d == At(calls[i], pc, x)
<1>1. calls[i] \in Call /\ calls \in Seq(Call)
  BY CallFacts
<1>2. d \in Call /\ d.op = calls[i].op /\ d.by = calls[i].by /\ d.pc = pc /\ d.x = x
  BY <1>1, AtFacts
<1>3. Replaced(calls[i], {d})
  BY <1>1, <1>2, ThenWithMoves
<1> QED
  BY <1>2, <1>3 DEF Goes

LEMMA WriteReplyOrder ==
  ASSUME TInv, NEW i \in DOMAIN calls, WriteReply(i), CountTrue, ReactionsTrue, TextTrue, table'.exists
  PROVE  CountTrue' /\ ReactionsTrue' /\ TextTrue'
<1>1. PICK d \in Call : d.pc = "announce" /\ Replaced(calls[i], {d})
  <2>1. Then(i, "announce")
    BY DEF WriteReply
  <2> QED
    BY <2>1, ThenGoes DEF TInv, Goes
<1>2. /\ calls[i].pc = "write" /\ UNCHANGED down /\ NewsKept
      /\ table'.reacts = table.reacts /\ table'.text = table.text
  BY NewsStay DEF WriteReply, TInv, Tables
<1>3. CallsAt({"announce", "count"})'
  BY <1>1 DEF CallsAt, Replaced
<1> QED
  BY <1>1, <1>2, <1>3, ReactionsKept, TextKept DEF CountTrue, NewsKept

LEMMA WriteDeleteOrder ==
  ASSUME TInv, NEW i \in DOMAIN calls, WriteDelete(i), CountTrue, ReactionsTrue, TextTrue, table'.exists
  PROVE  CountTrue' /\ ReactionsTrue' /\ TextTrue'
<1>1. /\ calls[i].pc = "write" /\ UNCHANGED down /\ NewsKept
      /\ table'.reacts = table.reacts /\ table'.text = table.text
  BY NewsStay DEF WriteDelete, TInv, Tables
<1>2. CASE Then(i, "announce")
  <2>1. PICK d \in Call : d.pc = "announce" /\ Replaced(calls[i], {d})
    BY <1>2, ThenGoes DEF TInv, Goes
  <2>2. CallsAt({"announce", "count"})'
    BY <2>1 DEF CallsAt, Replaced
  <2> QED
    BY <1>1, <2>1, <2>2, ReactionsKept, TextKept DEF CountTrue, NewsKept
<1>3. CASE Finish(i) /\ UNCHANGED table
  <2>1. Replaced(calls[i], {})
    BY <1>3, CallFacts, FinishMoves DEF TInv
  <2> QED
    BY <1>1, <1>3, <2>1, CountKept, ReactionsKept, TextKept DEF NewsKept
<1> QED
  BY <1>2, <1>3 DEF WriteDelete

LEMMA AnnounceOrder ==
  ASSUME TInv, NEW i \in DOMAIN calls, Announce(i), CountTrue, ReactionsTrue, TextTrue, table.exists,
         GoneTrue
  PROVE  CountTrue' /\ ReactionsTrue' /\ TextTrue'
<1> DEFINE c == calls[i]
           e == [ev |-> IF c.op = "reply" THEN "receive_channel_message" ELSE "message_deleted",
                 x |-> c.x]
<1>1. /\ c \in Range(calls) /\ CallRight(c) /\ c.pc = "announce"
      /\ (c.op = "reply" /\ c.x \in Known) \/ (c.op = "delete" /\ c.x \in Known \cup {Whole})
      /\ table' = table /\ NewsKept
  BY CallFacts, NewsStay DEF Announce, CallRight, TInv
<1>2. c.x # Whole
  BY <1>1 DEF GoneTrue, GoneDue, InProgress, Known, Whole
<1>3. PICK d \in Call : d.pc = "count" /\ Replaced(c, {d})
  <2>1. Then(i, "count")
    BY <1>2 DEF Announce
  <2> QED
    BY <2>1, ThenGoes DEF TInv, Goes
<1>4. CallsAt({"announce", "count"})'
  BY <1>3 DEF CallsAt, Replaced
<1>5. Told(e) /\ e \notin Reactions /\ e \notin Texts
  <2>1. e \in Event /\ e.ev \in {"receive_channel_message", "message_deleted"}
    BY <1>1 DEF Event, Known, Whole
  <2>2. Told(e)
    BY <2>1, TellMoves DEF Announce, TInv, Wires
  <2> QED
    BY <2>1, <2>2 DEF Reactions, Texts, OfKinds
<1> HIDE DEF c, e
<1>6. ReactionsTrue'
  BY <1>1, <1>3, <1>5, ReactionsKept DEF NewsKept
<1>7. TextTrue'
  BY <1>1, <1>3, <1>5, TextKept DEF NewsKept
<1> QED
  BY <1>4, <1>6, <1>7 DEF CountTrue

LEMMA CountRepliesOrder ==
  ASSUME TInv, NEW i \in DOMAIN calls, CountReplies(i), CountTrue, ReactionsTrue, TextTrue, Remembered
  PROVE  CountTrue' /\ ReactionsTrue' /\ TextTrue'
<1>1. /\ calls[i].pc = "count" /\ table' = table /\ UNCHANGED down
      /\ ThenWith(i, "tellCount", Size)
      /\ read'.count = Size /\ read'.reactions = read.reactions /\ read'.text = read.text /\ told' = told
  BY CountNews DEF CountReplies, Size
<1>2. Size \in Nat
  BY FewReplies DEF TInv, Size
<1>3. PICK d \in Call : d.pc = "tellCount" /\ d.x = Size /\ Replaced(calls[i], {d})
  <2>1. Goes(calls[i], "tellCount", Size)
    BY <1>1, <1>2, ThenWithGoes DEF TInv
  <2> QED
    BY <2>1 DEF Goes
<1>5. CallsAt({"tellCount"})'
  BY <1>3 DEF CallsAt, Replaced
<1>6. Size' = Size
  BY <1>1 DEF Size
<1>7. CountTrue'
  BY <1>1, <1>5, <1>6 DEF CountTrue
<1> QED
  BY <1>1, <1>3, <1>7, ReactionsKept, TextKept

LEMMA LookReactionOrder ==
  ASSUME TInv, NEW i \in DOMAIN calls, LookReaction(i), CountTrue, ReactionsTrue, TextTrue
  PROVE  CountTrue' /\ ReactionsTrue' /\ TextTrue'
<1>1. calls[i].pc = "look" /\ table' = table /\ UNCHANGED down /\ NewsKept
  BY NewsStay DEF LookReaction
<1>2. PICK D : Replaced(calls[i], D) /\ \A d \in D : d.pc = "write"
  <2>1. CASE Finish(i)
    BY <2>1, CallFacts, FinishMoves DEF TInv
  <2>2. CASE ThenWith(i, "write", calls[i].by \in table.reacts)
    <3> DEFINE seen == calls[i].by \in table.reacts
    <3>0. seen \in BOOLEAN
      OBVIOUS
    <3> HIDE DEF seen
    <3>1. Goes(calls[i], "write", seen)
      BY <2>2, <3>0, ThenWithGoes DEF TInv, seen
    <3>2. PICK d \in Call : d.pc = "write" /\ Replaced(calls[i], {d})
      BY <3>1 DEF Goes
    <3> QED
      BY <3>2
  <2> QED
    BY <2>1, <2>2 DEF LookReaction
<1> QED
  BY <1>1, <1>2, CountKept, ReactionsKept, TextKept DEF NewsKept

LEMMA WriteReactionOrder ==
  ASSUME TInv, NEW i \in DOMAIN calls, WriteReaction(i), CountTrue, ReactionsTrue, TextTrue
  PROVE  CountTrue' /\ ReactionsTrue' /\ TextTrue'
<1>1. /\ calls[i].pc = "write" /\ UNCHANGED down /\ NewsKept
      /\ table'.replies = table.replies /\ table'.text = table.text
  BY NewsStay DEF WriteReaction, TInv, Tables
<1>2. CASE Then(i, "list")
  <2>1. PICK d \in Call : d.pc = "list" /\ Replaced(calls[i], {d})
    BY <1>2, ThenGoes DEF TInv, Goes
  <2>2. CallsAt({"list"})'
    BY <2>1 DEF CallsAt, Replaced
  <2> QED
    BY <1>1, <2>1, <2>2, CountKept, TextKept DEF ReactionsTrue, NewsKept
<1>3. CASE Finish(i) /\ UNCHANGED table
  <2>1. Replaced(calls[i], {})
    BY <1>3, CallFacts, FinishMoves DEF TInv
  <2> QED
    BY <1>1, <1>3, <2>1, CountKept, ReactionsKept, TextKept DEF NewsKept
<1> QED
  BY <1>2, <1>3 DEF WriteReaction

LEMMA ListReactionsOrder ==
  ASSUME TInv, NEW i \in DOMAIN calls, ListReactions(i), CountTrue, ReactionsTrue, TextTrue, Remembered
  PROVE  CountTrue' /\ ReactionsTrue' /\ TextTrue'
<1>1. /\ calls[i].pc = "list" /\ table' = table /\ UNCHANGED down
      /\ ThenWith(i, "tellReactions", table.reacts)
      /\ read'.reactions = table.reacts /\ read'.count = read.count /\ read'.text = read.text /\ told' = told
  BY ListNews DEF ListReactions
<1>2. table.reacts \in SUBSET Users
  BY DEF TInv, Tables
<1>3. PICK d \in Call : d.pc = "tellReactions" /\ d.x = table.reacts /\ Replaced(calls[i], {d})
  <2>1. Goes(calls[i], "tellReactions", table.reacts)
    BY <1>1, <1>2, ThenWithGoes DEF TInv
  <2> QED
    BY <2>1 DEF Goes
<1>5. CallsAt({"tellReactions"})'
  BY <1>3 DEF CallsAt, Replaced
<1>6. ReactionsTrue'
  BY <1>1, <1>5 DEF ReactionsTrue
<1> QED
  BY <1>1, <1>3, <1>6, CountKept, TextKept

LEMMA WriteTextOrder ==
  ASSUME TInv, NEW i \in DOMAIN calls, WriteText(i), CountTrue, ReactionsTrue, TextTrue, Remembered
  PROVE  CountTrue' /\ ReactionsTrue' /\ TextTrue'
<1>1. /\ calls[i].pc = "write" /\ UNCHANGED down
      /\ table'.replies = table.replies /\ table'.reacts = table.reacts
      /\ read'.text = IF table.exists THEN calls[i].x ELSE read.text
      /\ read'.count = read.count /\ read'.reactions = read.reactions /\ told' = told
  BY TextNews DEF WriteText, TInv, Tables
<1>3. CASE table.exists /\ table'.text = calls[i].x /\ Then(i, "tellText")
  <2>1. PICK d \in Call : d.pc = "tellText" /\ d.x = calls[i].x /\ Replaced(calls[i], {d})
    BY <1>3, ThenGoes DEF TInv, Goes
  <2>2. CallsAt({"tellText"})'
    BY <2>1 DEF CallsAt, Replaced
  <2>3. TextTrue'
    BY <1>1, <1>3, <2>2 DEF TextTrue
  <2> QED
    BY <1>1, <2>1, <2>3, CountKept, ReactionsKept
<1>4. CASE ~ table.exists /\ Finish(i) /\ UNCHANGED table
  <2>1. Replaced(calls[i], {})
    BY <1>4, CallFacts, FinishMoves DEF TInv
  <2> QED
    BY <1>1, <1>4, <2>1, CountKept, ReactionsKept, TextKept
<1> QED
  BY <1>3, <1>4 DEF WriteText, TInv, Tables

\* What is told is then the last of its kind.
LEMMA ReportOrder ==
  ASSUME TInv, NEW i \in DOMAIN calls, Report(i), CountTrue, ReactionsTrue, TextTrue, Remembered
  PROVE  CountTrue' /\ ReactionsTrue' /\ TextTrue'
<1> DEFINE c == calls[i]
           e == ReportOf(calls[i])
<1>1. /\ Replaced(c, {}) /\ Told(e) /\ e \in Event /\ e.x = c.x
      /\ c.pc = "tellCount" => e.ev = "thread_parent_updated"
      /\ c.pc = "tellReactions" => e.ev = "message_reactions_updated"
      /\ c.pc = "tellText" => e.ev = "message_edited"
      /\ c.pc \in {"tellCount", "tellReactions", "tellText"}
      /\ UNCHANGED <<table, tab, drawer, history, behind, lost, spent>>
  BY ReportIs
<1>0. /\ told'.count = IF c.pc = "tellCount" THEN c.x ELSE told.count
      /\ told'.reactions = IF c.pc = "tellReactions" THEN c.x ELSE told.reactions
      /\ told'.text = IF c.pc = "tellText" THEN c.x ELSE told.text
      /\ read' = read
  BY ReportNews
<1> HIDE DEF c, e
<1>2. c \in Range(calls) /\ Range(calls') \subseteq Range(calls) /\ Range(calls) \subseteq Range(calls') \cup {c}
  BY <1>1 DEF Replaced
<1>3. /\ e \in Numbers <=> c.pc = "tellCount"
      /\ e \in Reactions <=> c.pc = "tellReactions"
      /\ e \in Texts <=> c.pc = "tellText"
  BY <1>1 DEF Numbers, Reactions, Texts, OfKinds
<1>4. CountTrue'
  <2>1. CASE c.pc # "tellCount"
    <3> QED
      BY <1>0, <1>1, <1>2, <1>3, <2>1 DEF CountTrue, CallsAt, Told, Numbers, OfKinds, Saying, Size
  <2>2. CASE c.pc = "tellCount"
    <3>1. CASE CallsAt({"announce", "count"})
      BY <1>2, <2>2, <3>1 DEF CountTrue, CallsAt
    <3>2. CASE read.count = Size
      <4>1. Size' = Size
        BY <1>1 DEF Size
      <4>2. CASE c.x = Size
        <5>1. e \in Saying("thread_parent_updated", Size)
          BY <1>1, <4>2, <2>2 DEF Saying
        <5>2. Ends(down', Numbers, Saying("thread_parent_updated", Size))
          BY <1>1, <1>3, <2>2, <5>1 DEF Told
        <5> QED
          BY <1>0, <3>2, <4>1, <5>2 DEF CountTrue, Numbers, OfKinds, Saying
      <4>3. CASE c.x # Size
        BY <1>0, <2>2, <3>2, <4>1, <4>3 DEF CountTrue
      <4> QED
        BY <4>2, <4>3
    <3> QED
      BY <3>1, <3>2 DEF CountTrue
  <2> QED
    BY <2>1, <2>2
<1>5. ReactionsTrue'
  <2>1. CASE c.pc # "tellReactions"
    BY <1>0, <1>1, <1>2, <1>3, <2>1 DEF ReactionsTrue, CallsAt, Told, Reactions, OfKinds, Saying
  <2>2. CASE c.pc = "tellReactions"
    <3>1. CASE CallsAt({"list"})
      BY <1>2, <2>2, <3>1 DEF ReactionsTrue, CallsAt
    <3>2. CASE read.reactions = table.reacts
      <4>1. CASE c.x = table.reacts
        <5>1. e \in Saying("message_reactions_updated", table.reacts)
          BY <1>1, <2>2, <4>1 DEF Saying
        <5>2. Ends(down', Reactions, Saying("message_reactions_updated", table.reacts))
          BY <1>1, <1>3, <2>2, <5>1 DEF Told
        <5> QED
          BY <1>0, <1>1, <3>2, <5>2 DEF ReactionsTrue, Reactions, OfKinds, Saying
      <4>2. CASE c.x # table.reacts
        BY <1>0, <1>1, <2>2, <3>2, <4>2 DEF ReactionsTrue
      <4> QED
        BY <4>1, <4>2
    <3> QED
      BY <3>1, <3>2 DEF ReactionsTrue
  <2> QED
    BY <2>1, <2>2
<1>6. TextTrue'
  <2>1. CASE c.pc # "tellText"
    BY <1>0, <1>1, <1>2, <1>3, <2>1 DEF TextTrue, CallsAt, Told, Texts, OfKinds, Saying
  <2>2. CASE c.pc = "tellText"
    <3>1. CASE c.x = table.text
      <4>1. e \in Saying("message_edited", table.text)
        BY <1>1, <2>2, <3>1 DEF Saying
      <4>2. Ends(down', Texts, Saying("message_edited", table.text))
        BY <1>1, <1>3, <2>2, <4>1 DEF Told
      <4> QED
        BY <1>0, <1>1, <4>2 DEF TextTrue, Texts, OfKinds, Saying
    <3>2. CASE c.x # table.text
      BY <1>0, <1>1, <2>2, <3>2 DEF TextTrue
    <3> QED
      BY <3>1, <3>2
  <2> QED
    BY <2>1, <2>2
<1> QED
  BY <1>4, <1>5, <1>6

----------------------------------------------------------------------------
(* What a handler's step leaves due                                        *)

\* The message does not come back, all are told of its deletion and only of
\* that, and of the replies that the drawer may show none is forgotten.
GoneKept ==
    /\ table'.exists => table.exists
    /\ GoneDue' => ~ table'.exists
    /\ ~ table'.exists /\ ~ GoneDue' => ~ table.exists /\ ~ GoneDue
    /\ table'.exists => \A x : Alive(x) => Alive(x)'

\* What is no longer due was not due, and has not changed.
DuesKept ==
    table'.exists =>
      /\ ~ CountDue' => ~ CountDue /\ table'.replies = table.replies
      /\ ~ ReactionsDue' => ~ ReactionsDue /\ table'.reacts = table.reacts
      /\ ~ TextDue' => ~ TextDue /\ table'.text = table.text
      /\ ~ NumberOwed' => ~ NumberOwed /\ table'.replies = table.replies
      /\ WholeAsked => WholeAsked'
      /\ \A x : ReplyDue(x) => ReplyDue(x)'

LEMMA StillDue ==
  ASSUME NEW c, NEW D, Replaced(c, D), Range(down) \subseteq Range(down')
  PROVE  /\ \A pcs : CallsAt(pcs) => c.pc \in pcs \/ CallsAt(pcs)'
         /\ \A op, x, pcs : InProgress(op, x, pcs) =>
              (c.op = op /\ c.x = x /\ c.pc \in pcs) \/ InProgress(op, x, pcs)'
         /\ \A A : Said(A) => Said(A)'
         /\ \A ev, x : Tells(ev, x) => Tells(ev, x)'
         /\ \A d \in D : d \in Range(calls')
  BY DEF Replaced, CallsAt, InProgress, Said, Tells

LEMMA NotYetDue ==
  ASSUME NEW c, NEW D, Replaced(c, D), NEW op, NEW x, NEW pcs
  PROVE  InProgress(op, x, pcs)' =>
           InProgress(op, x, pcs) \/ \E d \in D : d.op = op /\ d.x = x /\ d.pc \in pcs
  BY DEF Replaced, InProgress

LEMMA GoneUntouched ==
  ASSUME GoneTrue, NEW c, NEW D, Replaced(c, D), table'.exists = table.exists,
         table'.replies = table.replies, c.pc # "announce", \A d \in D : d.pc # "announce",
         \/ UNCHANGED down
         \/ \E e : Told(e) /\ e.ev # "message_deleted"
  PROVE  GoneKept
<1>1. Range(down) \subseteq Range(down')
  BY DEF Told
<1>2. \A x : InProgress("delete", x, {"announce"}) <=> InProgress("delete", x, {"announce"})'
  BY DEF Replaced, InProgress
<1>3. \A x : Tells("message_deleted", x) <=> Tells("message_deleted", x)'
  BY <1>1 DEF Told, Tells
<1>4. GoneDue' <=> GoneDue
  BY <1>2, <1>3 DEF GoneDue
<1>5. \A x : Alive(x) => Alive(x)'
  BY <1>2, <1>3 DEF Alive
<1> QED
  BY <1>4, <1>5 DEF GoneKept, GoneTrue

LEMMA WriteReplyDues ==
  ASSUME TInv, GoneTrue, NEW i \in DOMAIN calls, WriteReply(i)
  PROVE  GoneKept /\ DuesKept
<1> DEFINE c == calls[i]
<1>1. /\ c.op = "reply" /\ c.pc = "write" /\ UNCHANGED down /\ NewsKept
      /\ table'.exists = table.exists /\ table.replies \subseteq table'.replies
      /\ table'.reacts = table.reacts /\ table'.text = table.text
      /\ c \in Range(calls) /\ calls \in Seq(Call)
  BY CallFacts, NewsStay DEF WriteReply, TInv, Tables
<1>2. PICK D : /\ Replaced(c, D) /\ \A d \in D : d.op = "reply" /\ d.pc = "announce"
               /\ table.exists => \E d \in D : d.op = "reply" /\ d.x = c.x /\ d.pc = "announce"
  <2>1. CASE table.exists
    <3>1. Goes(c, "announce", c.x)
      BY <2>1, ThenGoes DEF WriteReply, TInv
    <3>2. PICK d \in Call : d.op = c.op /\ d.pc = "announce" /\ d.x = c.x /\ Replaced(c, {d})
      BY <3>1 DEF Goes
    <3> QED
      BY <1>1, <3>2
  <2>2. CASE ~ table.exists
    <3>1. Replaced(c, {})
      BY <1>1, <2>2, FinishMoves DEF WriteReply
    <3> QED
      BY <2>2, <3>1
  <2> QED
    BY <2>1, <2>2
<1>3. /\ \A pcs : CallsAt(pcs) => c.pc \in pcs \/ CallsAt(pcs)'
      /\ \A op, x, pcs : InProgress(op, x, pcs) =>
           (c.op = op /\ c.x = x /\ c.pc \in pcs) \/ InProgress(op, x, pcs)'
      /\ \A A : Said(A) => Said(A)'
      /\ \A ev, x : Tells(ev, x) => Tells(ev, x)'
      /\ \A d \in D : d \in Range(calls')
      /\ Range(calls) \subseteq Range(calls') \cup {c}
  BY <1>1, <1>2, StillDue DEF Replaced
<1> HIDE DEF c
<1>4. GoneKept
  <2>1. GoneDue' <=> GoneDue
    BY <1>1, <1>2, <1>3, NotYetDue DEF GoneDue, Tells
  <2>2. \A x : Alive(x) => Alive(x)'
    BY <1>1, <1>3 DEF Alive
  <2> QED
    BY <1>1, <2>1, <2>2 DEF GoneKept, GoneTrue
<1>5. ASSUME table'.exists
      PROVE  CallsAt({"announce", "count", "tellCount"})'
  BY <1>1, <1>2, <1>3, <1>5 DEF CallsAt
<1>6. ReactionsDue => ReactionsDue'
  BY <1>1, <1>3 DEF ReactionsDue, NewsKept
<1>7. TextDue => TextDue'
  BY <1>1, <1>3 DEF TextDue, NewsKept
<1>8. WholeAsked => WholeAsked'
  BY <1>1, <1>3 DEF WholeAsked
<1>9. ASSUME table'.exists, NEW x, ReplyDue(x)
      PROVE  ReplyDue(x)'
  <2>1. CASE Tells("receive_channel_message", x) \/ InProgress("reply", x, {"write", "announce"})'
    BY <1>3, <2>1 DEF ReplyDue
  <2>2. CASE c.x = x
    BY <1>1, <1>2, <1>3, <1>9, <2>2 DEF ReplyDue, InProgress
  <2> QED
    BY <1>3, <1>9, <2>1, <2>2 DEF ReplyDue
<1> QED
  BY <1>1, <1>4, <1>5, <1>6, <1>7, <1>8, <1>9 DEF DuesKept, CountDue, NumberOwed

LEMMA DeletesDue ==
  ASSUME TInv, GoneTrue, NEW c, NEW d, Replaced(c, {d}), UNCHANGED down, NewsKept, table.exists,
         c.op = "delete", c.pc = "write", d.op = "delete", d.pc = "announce", d.x = c.x,
         table'.reacts = table.reacts \/ ~ table'.exists, table'.text = table.text,
         IF c.x = Whole THEN ~ table'.exists
         ELSE table'.exists /\ table'.replies = table.replies \ {c.x}
  PROVE  GoneKept /\ DuesKept
<1>1. /\ \A op, x, pcs : InProgress(op, x, pcs) =>
           (c.op = op /\ c.x = x /\ c.pc \in pcs) \/ InProgress(op, x, pcs)'
      /\ \A pcs : CallsAt(pcs) => c.pc \in pcs \/ CallsAt(pcs)'
      /\ \A A : Said(A) => Said(A)'
      /\ \A ev, x : Tells(ev, x) => Tells(ev, x)'
      /\ d \in Range(calls')
      /\ Range(calls) \subseteq Range(calls') \cup {c}
  BY StillDue DEF Replaced
<1>2. InProgress("delete", c.x, {"announce"})'
  BY <1>1 DEF InProgress
<1>3. CASE c.x = Whole
  BY <1>2, <1>3 DEF GoneKept, DuesKept, GoneDue
<1>4. CASE c.x # Whole
  <2>1. ~ GoneDue'
    BY <1>4, NotYetDue DEF GoneTrue, GoneDue, Tells
  <2>2. \A x : Alive(x) => Alive(x)'
    BY <1>1, <1>2, <1>4 DEF Alive
  <2>3. GoneKept
    BY <1>4, <2>1, <2>2 DEF GoneKept
  <2>4. CountDue' /\ NumberOwed'
    BY <1>2 DEF CountDue, NumberOwed, CallsAt, InProgress
  <2>5. (ReactionsDue => ReactionsDue') /\ (TextDue => TextDue')
    BY <1>1 DEF ReactionsDue, TextDue, NewsKept
  <2>6. (WholeAsked => WholeAsked') /\ \A x : ReplyDue(x) => ReplyDue(x)'
    BY <1>1, <1>4 DEF WholeAsked, ReplyDue
  <2> QED
    BY <1>4, <2>3, <2>4, <2>5, <2>6 DEF DuesKept
<1> QED
  BY <1>3, <1>4

LEMMA WriteDeleteDues ==
  ASSUME TInv, GoneTrue, NEW i \in DOMAIN calls, WriteDelete(i)
  PROVE  GoneKept /\ DuesKept
<1> DEFINE c == calls[i]
<1>1. /\ c.op = "delete" /\ c.pc = "write" /\ UNCHANGED down /\ NewsKept
      /\ c \in Range(calls) /\ calls \in Seq(Call)
      /\ table \in [exists : BOOLEAN, replies : SUBSET Known, reacts : SUBSET Users, text : 0 .. MaxEdits]
      /\ ~ table.exists => table.replies = {}
      /\ Whole \notin table.replies
  BY CallFacts, NewsStay DEF WriteDelete, TInv, Tables, Known, Whole
<1>2. ASSUME Then(i, "announce")
      PROVE  \E d \in Call : d.op = "delete" /\ d.pc = "announce" /\ d.x = c.x /\ Replaced(c, {d})
  <2>1. Goes(c, "announce", c.x)
    BY <1>2, ThenGoes DEF TInv
  <2> QED
    BY <1>1, <2>1 DEF Goes
<1>3. CASE /\ c.x = Whole /\ table.exists /\ Then(i, "announce")
           /\ table' = [table EXCEPT !.exists = FALSE, !.replies = {}, !.reacts = {}]
  <2>1. ~ table'.exists /\ table'.text = table.text
    BY <1>1, <1>3
  <2>2. PICK d \in Call : d.op = "delete" /\ d.pc = "announce" /\ d.x = c.x /\ Replaced(c, {d})
    BY <1>2, <1>3
  <2> HIDE DEF c
  <2> QED
    BY <1>1, <1>3, <2>1, <2>2, DeletesDue
<1>4. CASE /\ c.x \in table.replies /\ Then(i, "announce")
           /\ table' = [table EXCEPT !.replies = @ \ {c.x}]
  <2>1. /\ table'.exists /\ table.exists /\ table'.text = table.text /\ table'.reacts = table.reacts
        /\ table'.replies = table.replies \ {c.x} /\ c.x # Whole
    BY <1>1, <1>4
  <2>2. PICK d \in Call : d.op = "delete" /\ d.pc = "announce" /\ d.x = c.x /\ Replaced(c, {d})
    BY <1>2, <1>4
  <2> HIDE DEF c
  <2> QED
    BY <1>1, <2>1, <2>2, DeletesDue
<1>5. CASE /\ IF c.x = Whole THEN ~ table.exists ELSE c.x \notin table.replies
           /\ UNCHANGED table /\ Finish(i)
  <2>1. Replaced(c, {})
    BY <1>1, <1>5, FinishMoves
  <2>2. /\ \A pcs : CallsAt(pcs) => c.pc \in pcs \/ CallsAt(pcs)'
        /\ \A op, x, pcs : InProgress(op, x, pcs) =>
             (c.op = op /\ c.x = x /\ c.pc \in pcs) \/ InProgress(op, x, pcs)'
        /\ Range(calls) \subseteq Range(calls') \cup {c}
    BY <1>1, <2>1, StillDue DEF Replaced
  <2> HIDE DEF c
  <2>3. GoneKept
    BY <1>1, <1>5, <2>1, GoneUntouched
  <2>4. c.x \notin table.replies
    BY <1>1, <1>5
  <2>5. CountDue => CountDue'
    BY <1>1, <1>5, <2>2, <2>4 DEF CountDue, Said, NewsKept
  <2>6. (NumberOwed => NumberOwed') /\ (ReactionsDue => ReactionsDue') /\ (TextDue => TextDue')
    BY <1>1, <2>2 DEF NumberOwed, ReactionsDue, TextDue, Said, NewsKept
  <2>7. table'.exists => (WholeAsked => WholeAsked') /\ \A x : ReplyDue(x) => ReplyDue(x)'
    BY <1>1, <1>5, <2>2 DEF WholeAsked, ReplyDue, Tells
  <2> QED
    BY <1>5, <2>3, <2>5, <2>6, <2>7 DEF DuesKept
<1> QED
  BY <1>3, <1>4, <1>5 DEF WriteDelete

LEMMA AnnounceDues ==
  ASSUME TInv, GoneTrue, NEW i \in DOMAIN calls, Announce(i)
  PROVE  GoneKept /\ DuesKept
<1>0. PICK c, e : /\ c = calls[i]
                  /\ e = [ev |-> IF c.op = "reply" THEN "receive_channel_message" ELSE "message_deleted",
                          x |-> c.x]
  OBVIOUS
<1>1. /\ c \in Range(calls) /\ CallRight(c) /\ c.pc = "announce" /\ calls \in Seq(Call)
      /\ (c.op = "reply" /\ c.x \in Known) \/ (c.op = "delete" /\ c.x \in Known \cup {Whole})
      /\ table' = table /\ Whole \notin Known /\ NewsKept
  BY <1>0, CallFacts, NewsStay DEF Announce, CallRight, TInv, Known, Whole
<1>2. PICK D : Replaced(c, D) /\ \A d \in D : d.pc = "count"
  <2>1. CASE Finish(i)
    BY <1>0, <1>1, <2>1, FinishMoves
  <2>2. CASE Then(i, "count")
    <3>1. Goes(c, "count", c.x)
      BY <1>0, <2>2, ThenGoes DEF TInv
    <3>2. PICK d \in Call : d.pc = "count" /\ Replaced(c, {d})
      BY <3>1 DEF Goes
    <3> QED
      BY <3>2
  <2> QED
    BY <2>1, <2>2 DEF Announce
<1>3. /\ Told(e) /\ e \in Event /\ e.x = c.x
      /\ e.ev = IF c.op = "reply" THEN "receive_channel_message" ELSE "message_deleted"
  <2>1. e \in Event
    BY <1>0, <1>1 DEF Event, Known, Whole
  <2> QED
    BY <1>0, <2>1, TellMoves DEF Announce, TInv, Wires
<1>4. Range(down') = Range(down) \cup {e} /\ Range(down) \subseteq Range(down')
  BY <1>3 DEF Told
<1>5. /\ \A pcs : CallsAt(pcs) => c.pc \in pcs \/ CallsAt(pcs)'
      /\ \A op, x, pcs : InProgress(op, x, pcs) =>
           (c.op = op /\ c.x = x /\ c.pc \in pcs) \/ InProgress(op, x, pcs)'
      /\ \A A : Said(A) => Said(A)'
      /\ \A ev, x : Tells(ev, x) => Tells(ev, x)'
      /\ Range(calls) \subseteq Range(calls') \cup {c}
  BY <1>2, <1>4, StillDue DEF Replaced
<1>6. \A x : InProgress("delete", x, {"announce"})' => InProgress("delete", x, {"announce"})
  BY <1>2, NotYetDue
<1>7. Tells(e.ev, e.x)' /\ \A ev, x : Tells(ev, x)' => Tells(ev, x) \/ (ev = e.ev /\ x = e.x)
  BY <1>4 DEF Tells
<1>8. GoneDue' <=> GoneDue
  <2>1. GoneDue => GoneDue'
    BY <1>1, <1>3, <1>5, <1>7 DEF GoneDue
  <2>2. e.ev = "message_deleted" /\ e.x = Whole => GoneDue
    BY <1>1, <1>3 DEF GoneDue, InProgress
  <2> QED
    BY <1>6, <1>7, <2>1, <2>2 DEF GoneDue
<1>9. \A x : Alive(x) => Alive(x)'
  BY <1>1, <1>3, <1>5, <1>7 DEF Alive
<1>10. Said(Numbers)' 
  BY <1>3, <1>4 DEF Said, Numbers, OfKinds
<1>11. ASSUME table.exists PROVE NumberOwed => NumberOwed'
  <2>1. c.x # Whole
    BY <1>1, <1>11 DEF GoneTrue, GoneDue, InProgress
  <2>2. Goes(c, "count", c.x)
    BY <1>0, <2>1, ThenGoes DEF Announce, TInv
  <2> QED
    BY <2>2 DEF Goes, NumberOwed, CallsAt, Replaced
<1>12. (ReactionsDue => ReactionsDue') /\ (TextDue => TextDue')
  BY <1>1, <1>5 DEF ReactionsDue, TextDue, NewsKept
<1>13. (WholeAsked => WholeAsked') /\ \A x : ReplyDue(x) => ReplyDue(x)'
  BY <1>1, <1>3, <1>5, <1>7 DEF WholeAsked, ReplyDue
<1> QED
  BY <1>1, <1>8, <1>9, <1>10, <1>11, <1>12, <1>13 DEF GoneKept, DuesKept, GoneTrue, CountDue

\* A handler that writes no reply passes on what is due by it.
LEMMA DuesPassedOn ==
  ASSUME NEW c, NEW D, Replaced(c, D), Range(down) \subseteq Range(down'),
         table'.replies = table.replies,
         c.pc # "announce", c.pc = "write" => c.op \in {"toggle", "edit"},
         c.pc \in {"count", "tellCount"} =>
           CallsAt({"tellCount"})' \/ Said(OfKinds({"thread_parent_updated"}))',
         c.pc \in {"list", "tellReactions"} => ReactionsDue',
         c.op = "edit" => TextDue',
         CountDue' \/ (read'.count = read.count /\ told'.count = told.count),
         ReactionsDue' \/ (table'.reacts = table.reacts /\ read'.reactions = read.reactions
                            /\ told'.reactions = told.reactions),
         TextDue' \/ (table'.text = table.text /\ read'.text = read.text /\ told'.text = told.text)
  PROVE  DuesKept
<1>1. /\ \A pcs : CallsAt(pcs) => c.pc \in pcs \/ CallsAt(pcs)'
      /\ \A op, x, pcs : InProgress(op, x, pcs) =>
           (c.op = op /\ c.x = x /\ c.pc \in pcs) \/ InProgress(op, x, pcs)'
      /\ \A A : Said(A) => Said(A)'
      /\ \A ev, x : Tells(ev, x) => Tells(ev, x)'
      /\ Range(calls) \subseteq Range(calls') \cup {c}
  BY StillDue DEF Replaced
<1>2. CallsAt({"tellCount"})' \/ Said(OfKinds({"thread_parent_updated"}))' => NumberOwed' /\ CountDue'
  BY DEF NumberOwed, CountDue, CallsAt, Said, OfKinds, Numbers
<1>3. NumberOwed => NumberOwed'
  BY <1>1, <1>2 DEF NumberOwed
<1>4. CountDue => CountDue'
  <2>1. CallsAt({"announce", "count", "tellCount"}) => CountDue'
    BY <1>1, <1>2 DEF CountDue
  <2>2. Said(Numbers) => CountDue'
    BY <1>1 DEF CountDue, Numbers
  <2> QED
    BY <1>1, <2>1, <2>2 DEF CountDue
<1>5. ReactionsDue => ReactionsDue'
  BY <1>1 DEF ReactionsDue
<1>6. TextDue => TextDue'
  BY <1>1 DEF TextDue
<1>7. (WholeAsked => WholeAsked') /\ \A x : ReplyDue(x) => ReplyDue(x)'
  BY <1>1 DEF WholeAsked, ReplyDue
<1> QED
  BY <1>3, <1>4, <1>5, <1>6, <1>7 DEF DuesKept

LEMMA CountRepliesDues ==
  ASSUME TInv, GoneTrue, NEW i \in DOMAIN calls, CountReplies(i), Remembered
  PROVE  GoneKept /\ DuesKept
<1>1. /\ calls[i].pc = "count" /\ table' = table /\ UNCHANGED down
      /\ ThenWith(i, "tellCount", Size)
      /\ CallRight(calls[i])
      /\ read'.reactions = read.reactions /\ read'.text = read.text /\ told' = told
  BY CallFacts, CountNews DEF CountReplies, Size, TInv
<1>2. Size \in Nat
  BY FewReplies DEF TInv, Size
<1>3. PICK d \in Call : d.pc = "tellCount" /\ Replaced(calls[i], {d})
  <2>1. Goes(calls[i], "tellCount", Size)
    BY <1>1, <1>2, ThenWithGoes DEF TInv
  <2> QED
    BY <2>1 DEF Goes
<1>4. CallsAt({"tellCount"})' /\ CountDue'
  BY <1>3 DEF CallsAt, Replaced, CountDue
<1>5. calls[i].op # "edit"
  BY <1>1 DEF CallRight
<1> QED
  BY <1>1, <1>3, <1>4, <1>5, GoneUntouched, DuesPassedOn

LEMMA LookReactionDues ==
  ASSUME TInv, GoneTrue, NEW i \in DOMAIN calls, LookReaction(i)
  PROVE  GoneKept /\ DuesKept
<1>1. calls[i].pc = "look" /\ table' = table /\ UNCHANGED down /\ CallRight(calls[i]) /\ NewsKept
  BY CallFacts, NewsStay DEF LookReaction, TInv
<1>2. PICK D : Replaced(calls[i], D) /\ \A d \in D : d.pc = "write"
  <2>1. CASE Finish(i)
    BY <2>1, CallFacts, FinishMoves DEF TInv
  <2>2. CASE ThenWith(i, "write", calls[i].by \in table.reacts)
    <3> DEFINE seen == calls[i].by \in table.reacts
    <3>0. seen \in BOOLEAN
      OBVIOUS
    <3> HIDE DEF seen
    <3>1. Goes(calls[i], "write", seen)
      BY <2>2, <3>0, ThenWithGoes DEF TInv, seen
    <3>2. PICK d \in Call : d.pc = "write" /\ Replaced(calls[i], {d})
      BY <3>1 DEF Goes
    <3> QED
      BY <3>2
  <2> QED
    BY <2>1, <2>2 DEF LookReaction
<1>3. calls[i].op # "edit"
  BY <1>1 DEF CallRight
<1> QED
  BY <1>1, <1>2, <1>3, GoneUntouched, DuesPassedOn DEF NewsKept

LEMMA WriteReactionDues ==
  ASSUME TInv, GoneTrue, NEW i \in DOMAIN calls, WriteReaction(i)
  PROVE  GoneKept /\ DuesKept
<1>1. /\ calls[i].pc = "write" /\ calls[i].op = "toggle" /\ UNCHANGED down /\ NewsKept
      /\ table'.exists = table.exists /\ table'.replies = table.replies /\ table'.text = table.text
  BY NewsStay DEF WriteReaction, TInv, Tables
<1>2. CASE Then(i, "list")
  <2>1. Goes(calls[i], "list", calls[i].x)
    BY <1>2, ThenGoes DEF TInv
  <2>2. PICK d \in Call : d.pc = "list" /\ Replaced(calls[i], {d})
    BY <2>1 DEF Goes
  <2>3. ReactionsDue'
    BY <2>2 DEF ReactionsDue, CallsAt, Replaced
  <2> QED
    BY <1>1, <2>2, <2>3, GoneUntouched, DuesPassedOn DEF NewsKept
<1>3. CASE Finish(i) /\ UNCHANGED table
  <2>1. Replaced(calls[i], {})
    BY <1>3, CallFacts, FinishMoves DEF TInv
  <2> QED
    BY <1>1, <1>3, <2>1, GoneUntouched, DuesPassedOn DEF NewsKept
<1> QED
  BY <1>2, <1>3 DEF WriteReaction

LEMMA ListReactionsDues ==
  ASSUME TInv, GoneTrue, NEW i \in DOMAIN calls, ListReactions(i), Remembered
  PROVE  GoneKept /\ DuesKept
<1>1. /\ calls[i].pc = "list" /\ table' = table /\ UNCHANGED down
      /\ ThenWith(i, "tellReactions", table.reacts) /\ CallRight(calls[i])
      /\ table.reacts \in SUBSET Users
      /\ read'.count = read.count /\ read'.text = read.text /\ told' = told
  BY CallFacts, ListNews DEF ListReactions, TInv, Tables
<1>2. Goes(calls[i], "tellReactions", table.reacts)
  BY <1>1, ThenWithGoes DEF TInv
<1>3. PICK d \in Call : d.pc = "tellReactions" /\ Replaced(calls[i], {d})
  BY <1>2 DEF Goes
<1>4. ReactionsDue'
  BY <1>3 DEF ReactionsDue, CallsAt, Replaced
<1>5. calls[i].op # "edit"
  BY <1>1 DEF CallRight
<1> QED
  BY <1>1, <1>3, <1>4, <1>5, GoneUntouched, DuesPassedOn

LEMMA WriteTextDues ==
  ASSUME TInv, GoneTrue, NEW i \in DOMAIN calls, WriteText(i), Remembered
  PROVE  GoneKept /\ DuesKept
<1>1. /\ calls[i].pc = "write" /\ calls[i].op = "edit" /\ UNCHANGED down
      /\ table'.exists = table.exists /\ table'.replies = table.replies /\ table'.reacts = table.reacts
      /\ read'.count = read.count /\ read'.reactions = read.reactions /\ told' = told
      /\ ~ table.exists => read'.text = read.text
  BY TextNews DEF WriteText, TInv, Tables
<1>2. CASE Then(i, "tellText")
  <2>1. Goes(calls[i], "tellText", calls[i].x)
    BY <1>2, ThenGoes DEF TInv
  <2>2. PICK d \in Call : d.op = "edit" /\ d.pc = "tellText" /\ Replaced(calls[i], {d})
    BY <1>1, <2>1 DEF Goes
  <2>3. TextDue'
    BY <2>2 DEF TextDue, Replaced
  <2> QED
    BY <1>1, <2>2, <2>3, GoneUntouched, DuesPassedOn
<1>3. CASE Finish(i) /\ ~ table.exists /\ UNCHANGED table
  <2>1. Replaced(calls[i], {})
    BY <1>3, CallFacts, FinishMoves DEF TInv
  <2>2. DuesKept
    BY <1>1, <1>3 DEF DuesKept
  <2> QED
    BY <1>1, <1>3, <2>1, <2>2, GoneUntouched
<1> QED
  BY <1>2, <1>3 DEF WriteText

LEMMA ReportDues ==
  ASSUME TInv, GoneTrue, NEW i \in DOMAIN calls, Report(i), Remembered
  PROVE  GoneKept /\ DuesKept
<1>0. PICK c, e : c = calls[i] /\ e = ReportOf(calls[i])
  OBVIOUS
<1>1. /\ Replaced(c, {}) /\ Told(e) /\ e \in Event /\ CallRight(c)
      /\ c.pc = "tellCount" => e.ev = "thread_parent_updated"
      /\ c.pc = "tellReactions" => e.ev = "message_reactions_updated"
      /\ c.pc = "tellText" => e.ev = "message_edited"
      /\ c.pc \in {"tellCount", "tellReactions", "tellText"}
      /\ table' = table
      /\ told'.count = IF c.pc = "tellCount" THEN c.x ELSE told.count
      /\ told'.reactions = IF c.pc = "tellReactions" THEN c.x ELSE told.reactions
      /\ told'.text = IF c.pc = "tellText" THEN c.x ELSE told.text
      /\ read' = read
  BY <1>0, ReportIs, ReportNews, CallFacts DEF TInv
<1>2. e \in Range(down') /\ Range(down) \subseteq Range(down')
  BY <1>1 DEF Told
<1>3. c.pc = "tellCount" => Said(OfKinds({"thread_parent_updated"}))'
  BY <1>1, <1>2 DEF Said, OfKinds
<1>4. c.pc = "tellReactions" => ReactionsDue'
  BY <1>1, <1>2 DEF Said, OfKinds, Reactions, ReactionsDue
<1>5. c.op = "edit" => TextDue'
  BY <1>1, <1>2 DEF Said, OfKinds, Texts, TextDue, CallRight
<1>8. c.pc = "tellCount" => CountDue'
  BY <1>1, <1>2 DEF Said, OfKinds, Numbers, CountDue
<1>9. c.pc = "tellText" => TextDue'
  BY <1>1, <1>2 DEF Said, OfKinds, Texts, TextDue
<1>6. GoneKept
  BY <1>1, GoneUntouched
<1>7. DuesKept
  BY <1>1, <1>2, <1>3, <1>4, <1>5, <1>8, <1>9, DuesPassedOn
<1> QED
  BY <1>6, <1>7

\* A handler that fails on its way to count leaves nothing wrong but numbers.
LEMMA FailDues ==
  ASSUME TInv, GoneTrue, NEW i \in DOMAIN calls, Fail(i)
  PROVE  /\ lost' \subseteq {"count", "emptied", "ghost"} => GoneKept
         /\ ~ (lost' \subseteq {"emptied", "ghost"})
         /\ GoneTrue'
<1>1. /\ Replaced(calls[i], {}) /\ UNCHANGED <<table, down>>
      /\ lost' = lost \cup {calls[i].pc} /\ calls[i].pc \in {"look", "write", "announce", "count", "list"}
  BY CallFacts, FinishMoves DEF Fail, TInv
<1>2. GoneDue' => GoneDue
  BY <1>1, NotYetDue DEF GoneDue, Tells
<1> QED
  BY <1>1, <1>2, GoneUntouched DEF GoneTrue

LEMMA ServingKeeps ==
  ASSUME TInv, InOrder, GoneTrue, NEW i \in DOMAIN calls, Serving(i), Remembered
  PROVE  /\ InOrder' /\ GoneTrue' /\ UNCHANGED <<tab, drawer, history, behind>> /\ lost \subseteq lost'
         /\ Spared' => GoneKept
         /\ lost' \subseteq {"emptied", "ghost"} => DuesKept
<1>1. CASE Fail(i)
  <2>1. /\ lost' \subseteq {"count", "emptied", "ghost"} => GoneKept
        /\ ~ (lost' \subseteq {"emptied", "ghost"})
        /\ GoneTrue'
    BY <1>1, FailDues
  <2>2. UNCHANGED <<tab, drawer, history, behind>> /\ lost \subseteq lost'
    BY <1>1 DEF Fail
  <2> QED
    BY <2>1, <2>2 DEF InOrder, Spared
<1>2. CASE ~ Fail(i)
  <2>1. UNCHANGED <<tab, drawer, history, behind, lost>>
    BY <1>2 DEF Serving, WriteReply, WriteDelete, Announce, CountReplies, LookReaction, WriteReaction,
       ListReactions, WriteText, Report, Tabs
  <2>2. GoneKept /\ DuesKept
    BY <1>2, WriteReplyDues, WriteDeleteDues, AnnounceDues, CountRepliesDues, LookReactionDues,
       WriteReactionDues, ListReactionsDues, WriteTextDues, ReportDues DEF Serving
  <2>3. ASSUME lost \subseteq {"emptied", "ghost"}, table'.exists
        PROVE  CountTrue' /\ ReactionsTrue' /\ TextTrue'
    <3>1. CountTrue /\ ReactionsTrue /\ TextTrue /\ table.exists
      BY <2>2, <2>3 DEF GoneKept, InOrder
    <3> QED
      BY <1>2, <2>3, <3>1, WriteReplyOrder, WriteDeleteOrder, AnnounceOrder, CountRepliesOrder, LookReactionOrder,
         WriteReactionOrder, ListReactionsOrder, WriteTextOrder, ReportOrder DEF Serving
  <2>4. InOrder'
    BY <2>1, <2>3 DEF InOrder
  <2>5. GoneTrue'
    BY <2>2 DEF GoneKept, GoneTrue
  <2> QED
    BY <2>1, <2>2, <2>4, <2>5
<1> QED
  BY <1>1, <1>2

\* Whatever the handlers do, what the tab holds stays right or will be put right.
LEMMA WatchedStays ==
  ASSUME TInv, SInv, UNCHANGED <<tab, drawer, history, behind>>, lost \subseteq lost',
         read'.replies = read.replies, told'.replies = told.replies,
         Spared' => GoneKept,
         lost' \subseteq {"emptied", "ghost"} => DuesKept
  PROVE  FacesRight' /\ GoneNoted' /\ Shown' /\ TempDue' /\ DrawerRight' /\ NoneLeft'
<1>1. table'.replies = table.replies => Size' = Size
  BY DEF Size
<1>2. FacesRight'
  <2> SUFFICES ASSUME lost' \subseteq {"emptied"}, table'.exists
               PROVE  /\ ~ behind /\ ~ tab.away => HeadRight(tab.head)' /\ RowRight(tab.row)'
                      /\ history.is = "read" /\ ~ history.late => RowRight(history.row)'
    BY DEF FacesRight
  <2>1. GoneKept /\ DuesKept
    BY DEF Spared
  <2>2. ASSUME NEW f, HeadRight(f) PROVE HeadRight(f)'
    BY <1>1, <2>1, <2>2 DEF HeadRight, DuesKept
  <2>3. ASSUME NEW f, RowRight(f) PROVE RowRight(f)'
    BY <1>1, <2>1, <2>2, <2>3 DEF RowRight, DuesKept
  <2> QED
    BY <2>1, <2>2, <2>3 DEF SInv, FacesRight, GoneKept
<1>3. GoneNoted'
  BY DEF SInv, GoneNoted, GoneKept, Spared
<1>4. Shown' /\ TempDue'
  <2> SUFFICES ASSUME lost' \subseteq {"emptied"}, table'.exists PROVE Shown' /\ TempDue'
    BY DEF Shown, TempDue
  <2>1. GoneKept /\ DuesKept
    BY DEF Spared
  <2> QED
    BY <2>1 DEF SInv, Shown, TempDue, GoneKept, DuesKept
<1>5. DrawerRight'
  <2> SUFFICES ASSUME lost' \subseteq {"ghost"}, table'.exists PROVE DrawerRight'
    BY DEF DrawerRight
  <2>1. GoneKept /\ DuesKept
    BY DEF Spared
  <2> QED
    BY <2>1 DEF SInv, DrawerRight, Asks, Showing, GoneKept, DuesKept
<1>6. NoneLeft'
  <2> SUFFICES ASSUME Spared', table'.exists PROVE NoneLeft'
    BY DEF NoneLeft
  <2>1. GoneKept
    OBVIOUS
  <2> QED
    BY <2>1 DEF SInv, NoneLeft, Asks, Showing, GoneKept, Spared
<1> QED
  BY <1>2, <1>3, <1>4, <1>5, <1>6

LEMMA ServingSafe ==
  ASSUME TInv, SInv, NEW i \in DOMAIN calls, Serving(i), Remembered
  PROVE  SInv'
<1>1. read'.replies = read.replies /\ told'.replies = told.replies
  BY CountNews, ListNews, TextNews, ReportNews, NewsStay DEF Serving, WriteReply, WriteDelete, Announce,
     LookReaction, WriteReaction, Fail
<1> QED
  BY <1>1, ServingKeeps, WatchedStays DEF SInv

----------------------------------------------------------------------------
(* What a request leaves due                                               *)

LEMMA AskedOrder ==
  ASSUME InOrder, GoneTrue, NEW d, Joined(d), d.pc \in {"look", "write"}, UNCHANGED <<table, down>>, NewsKept,
         lost \subseteq lost'
  PROVE  InOrder' /\ GoneTrue' /\ GoneKept /\ DuesKept
<1>1. \A pcs : CallsAt(pcs) => CallsAt(pcs)'
  BY DEF Joined, CallsAt
<1>2. \A op, x, pcs : InProgress(op, x, pcs) => InProgress(op, x, pcs)'
  BY DEF Joined, InProgress
<1>3. \A pcs : CallsAt(pcs)' => CallsAt(pcs) \/ d.pc \in pcs
  BY DEF Joined, CallsAt
<1>4. \A x : InProgress("delete", x, {"announce"})' => InProgress("delete", x, {"announce"})
  BY DEF Joined, InProgress
<1>5. \A A : Said(A) <=> Said(A)'
  BY DEF Said
<1>6. \A ev, x : Tells(ev, x) <=> Tells(ev, x)'
  BY DEF Tells
<1>7. GoneKept /\ GoneTrue'
  BY <1>2, <1>4, <1>6 DEF GoneKept, GoneTrue, GoneDue, Alive
<1>8. DuesKept
  <2>1. CountDue => CountDue'
    BY <1>1, <1>5 DEF CountDue, Joined, Numbers, NewsKept
  <2>2. (ReactionsDue => ReactionsDue') /\ (TextDue => TextDue') /\ (NumberOwed => NumberOwed')
    BY <1>1, <1>5 DEF ReactionsDue, TextDue, NumberOwed, Joined, Reactions, Texts, OfKinds, NewsKept
  <2>3. (WholeAsked => WholeAsked') /\ \A x : ReplyDue(x) => ReplyDue(x)'
    BY <1>2, <1>6 DEF WholeAsked, ReplyDue
  <2> QED
    BY <2>1, <2>2, <2>3 DEF DuesKept
<1>9. CountTrue => CountTrue'
  BY <1>1, <1>3 DEF CountTrue, Joined, Numbers, Saying, OfKinds, Size, NewsKept
<1>10. ReactionsTrue => ReactionsTrue'
  BY <1>1, <1>3 DEF ReactionsTrue, Joined, Reactions, Saying, OfKinds, NewsKept
<1>11. TextTrue => TextTrue'
  BY <1>1, <1>3 DEF TextTrue, Joined, Texts, Saying, OfKinds, NewsKept
<1> QED
  BY <1>7, <1>8, <1>9, <1>10, <1>11 DEF InOrder

LEMMA UnseenSafe ==
  ASSUME TInv, SInv, NEW d, Joined(d), d.pc \in {"look", "write"},
         UNCHANGED <<table, down, tab, drawer, history, behind, lost, News>>
  PROVE  SInv'
<1>1. InOrder' /\ GoneTrue' /\ GoneKept /\ DuesKept
  BY AskedOrder, NewsStay DEF SInv
<1> QED
  BY <1>1, NewsStay, WatchedStays DEF SInv

LEMMA UntoldOrder ==
  ASSUME InOrder, GoneTrue, UNCHANGED <<table, calls, down>>, NewsKept, lost \subseteq lost'
  PROVE  InOrder' /\ GoneTrue' /\ GoneKept /\ DuesKept
<1>1. /\ \A pcs : CallsAt(pcs)' <=> CallsAt(pcs)
      /\ \A op, x, pcs : InProgress(op, x, pcs)' <=> InProgress(op, x, pcs)
      /\ \A A : Said(A)' <=> Said(A)
      /\ \A ev, x : Tells(ev, x)' <=> Tells(ev, x)
  BY DEF CallsAt, InProgress, Said, Tells
<1>2. /\ CountDue' <=> CountDue
      /\ TextDue' <=> TextDue
  BY <1>1 DEF CountDue, TextDue, Numbers, Texts, OfKinds, NewsKept
<1>3. /\ ReactionsDue' <=> ReactionsDue
      /\ NumberOwed' <=> NumberOwed
  BY <1>1 DEF ReactionsDue, NumberOwed, Reactions, OfKinds, NewsKept
<1>4. /\ GoneDue' <=> GoneDue
      /\ WholeAsked' <=> WholeAsked
      /\ \A x : ReplyDue(x)' <=> ReplyDue(x)
      /\ \A x : Alive(x)' <=> Alive(x)
  BY <1>1 DEF GoneDue, WholeAsked, ReplyDue, Alive
<1>5. GoneKept /\ DuesKept /\ GoneTrue'
  BY <1>2, <1>3, <1>4 DEF GoneKept, DuesKept, GoneTrue
<1>6. (CountTrue' <=> CountTrue) /\ (ReactionsTrue' <=> ReactionsTrue) /\ (TextTrue' <=> TextTrue)
  BY DEF CountTrue, ReactionsTrue, TextTrue, CallsAt, Size, Numbers, Reactions, Texts, OfKinds, Saying, NewsKept
<1> QED
  BY <1>5, <1>6 DEF InOrder

----------------------------------------------------------------------------
(* What a change of the tab leaves right                                   *)

\* A picture with the same head, or the same row, but for what is due.
HeadFrom(f, g) ==
    g # None => /\ f # None
                /\ CountDue' \/ g.replies = f.replies
                /\ ReactionsDue' \/ g.reacts = f.reacts

RowFrom(f, g) == HeadFrom(f, g) /\ (g # None => TextDue' \/ g.text = f.text)

LEMMA HeadStays ==
  ASSUME DuesKept, table'.exists, NEW f, NEW g, HeadRight(f), HeadFrom(f, g)
  PROVE  HeadRight(g)'
<1>1. table'.replies = table.replies => Size' = Size
  BY DEF Size
<1> QED
  BY <1>1 DEF HeadRight, HeadFrom, DuesKept

LEMMA RowStays ==
  ASSUME DuesKept, table'.exists, NEW f, NEW g, RowRight(f), RowFrom(f, g)
  PROVE  RowRight(g)'
<1>1. HeadRight(g)'
  BY HeadStays DEF RowRight, RowFrom
<1> QED
  BY <1>1 DEF RowRight, RowFrom, DuesKept, HeadFrom

\* The pictures in the tab and those it is still to be given.
LEMMA TabStaysRight ==
  ASSUME SInv, GoneKept, DuesKept, lost \subseteq lost', UNCHANGED <<history, behind>>,
         ~ tab'.away => ~ tab.away,
         tab'.row # None => tab.row # None,
         tab'.head # None => tab.head # None \/ tab.row # None,
         lost' \subseteq {"emptied"} /\ table'.exists /\ ~ tab'.away =>
           /\ RowFrom(tab.row, tab'.row)
           /\ HeadFrom(tab.head, tab'.head) \/ HeadFrom(tab.row, tab'.head),
         ~ tab'.away /\ tab.row # None /\ tab'.row = None /\ table'.exists => WholeAsked',
         ~ tab'.away => \A x \in tab'.temp : x \in tab.temp \/ ReplyDue(x)'
  PROVE  FacesRight' /\ GoneNoted' /\ Shown' /\ TempDue'
<1>1. PICK row, head : row = tab'.row /\ head = tab'.head
  OBVIOUS
<1>2. lost' \subseteq {"emptied"} /\ table'.exists /\ ~ tab'.away =>
        RowFrom(tab.row, row) /\ (HeadFrom(tab.head, head) \/ HeadFrom(tab.row, head))
  BY <1>1
<1>3. FacesRight'
  <2> SUFFICES ASSUME lost' \subseteq {"emptied"}, table'.exists
               PROVE  /\ ~ behind /\ ~ tab'.away => HeadRight(tab.head)' /\ RowRight(tab.row)'
                      /\ history.is = "read" /\ ~ history.late => RowRight(history.row)'
    BY DEF FacesRight
  <2>1. /\ ~ behind /\ ~ tab.away => HeadRight(tab.head) /\ RowRight(tab.row)
        /\ history.is = "read" /\ ~ history.late => RowRight(history.row)
    BY DEF SInv, FacesRight, GoneKept
  <2>2. ASSUME ~ behind, ~ tab'.away
        PROVE  HeadRight(tab.head)' /\ RowRight(tab.row)'
    <3>1. RowRight(tab.row) /\ HeadRight(tab.row) /\ HeadRight(tab.head)
      BY <2>1, <2>2 DEF RowRight
    <3>2. RowRight(row)' /\ HeadRight(head)'
      BY <1>2, <2>2, <3>1, RowStays, HeadStays
    <3> QED
      BY <1>1, <3>2
  <2>3. ASSUME history.is = "read", ~ history.late
        PROVE  RowRight(history.row)'
    <3>1. RowRight(history.row) /\ RowFrom(history.row, history.row)
      BY <2>1, <2>3 DEF RowFrom, HeadFrom
    <3>2. PICK f : f = history.row /\ f = history'.row
      OBVIOUS
    <3>3. RowRight(f)'
      BY <3>1, <3>2, RowStays
    <3> QED
      BY <3>2, <3>3
  <2> QED
    BY <2>2, <2>3
<1>4. GoneNoted'
  BY DEF SInv, GoneNoted, GoneKept, Spared
<1>5. Shown'
  BY DEF SInv, Shown, GoneKept, DuesKept
<1>6. TempDue'
  BY DEF SInv, TempDue, GoneKept, DuesKept
<1> QED
  BY <1>3, <1>4, <1>5, <1>6

\* A drawer that changed is fetched again; one that is left alone stays right.
LEMMA DrawerStaysRight ==
  ASSUME SInv, GoneKept, DuesKept, lost \subseteq lost', UNCHANGED drawer,
         read'.replies = read.replies, told'.replies = told.replies,
         \/ tab'.head = None \/ tab'.changed
         \/ tab.head # None /\ ~ tab.changed /\ tab'.real = tab.real /\ tab'.temp = tab.temp
  PROVE  DrawerRight' /\ NoneLeft'
<1>1. CASE tab'.head = None \/ tab'.changed
  BY <1>1 DEF DrawerRight, NoneLeft
<1>2. CASE tab.head # None /\ ~ tab.changed /\ tab'.real = tab.real /\ tab'.temp = tab.temp
  BY <1>2 DEF SInv, DrawerRight, NoneLeft, Asks, Showing, GoneKept, DuesKept, Spared
<1> QED
  BY <1>1, <1>2

LEMMA SendReplySafe ==
  ASSUME TInv, SInv, handleSendReply
  PROVE  SInv'
<1>0. PICK r, d, u : r = spent.replies + 1 /\ d = Asked("reply", r) /\ u = More(tab)
  OBVIOUS
<1>1. /\ tab.head # None /\ r \in Nat /\ tab \in Store
      /\ tab' = [u EXCEPT !.temp = @ \cup {r}]
      /\ Request("reply", r, "write")
      /\ UNCHANGED <<table, down, drawer, history, behind, lost>>
      /\ NewsKept /\ read' = read /\ told' = told
  BY <1>0, FewReplies, NewsStay DEF handleSendReply, TInv, Views
<1>2. Joined(d) /\ d.op = "reply" /\ d.x = r /\ d.pc = "write"
  BY <1>0, <1>1, RequestJoins DEF TInv, Wires
<1>3. /\ Kept(tab, u)
      /\ Painted(tab.row, u.row, tab.row.replies + 1, tab.row.reacts, tab.row.text)
      /\ Painted(tab.head, u.head, tab.head.replies + 1, tab.head.reacts, tab.head.text)
  BY <1>0, <1>1, MoreIs
<1>4. /\ tab'.row = u.row /\ tab'.head = u.head /\ tab'.temp = tab.temp \cup {r}
      /\ tab'.changed /\ tab'.away = tab.away
  BY <1>1, <1>3 DEF Kept, Store
<1>5. InOrder' /\ GoneTrue' /\ GoneKept /\ DuesKept
  BY <1>1, <1>2, AskedOrder DEF SInv
<1>6. CountDue' /\ ReplyDue(r)'
  BY <1>2 DEF Joined, CountDue, ReplyDue, InProgress
<1>7. RowFrom(tab.row, tab'.row) /\ HeadFrom(tab.head, tab'.head)
  BY <1>3, <1>4, <1>6 DEF Painted, RowFrom, HeadFrom
<1>8. FacesRight' /\ GoneNoted' /\ Shown' /\ TempDue'
  <2>1. \A x \in tab'.temp : x \in tab.temp \/ ReplyDue(x)'
    BY <1>4, <1>6
  <2>2. tab'.row = None <=> tab.row = None
    BY <1>3, <1>4 DEF Painted
  <2> QED
    BY <1>1, <1>4, <1>5, <1>7, <2>1, <2>2, TabStaysRight
<1>9. DrawerRight' /\ NoneLeft'
  BY <1>1, <1>4, <1>5, DrawerStaysRight
<1> QED
  BY <1>5, <1>8, <1>9 DEF SInv

LEMMA EditSafe ==
  ASSUME TInv, SInv, handleEditSubmit
  PROVE  SInv'
<1>0. PICK n, d, u : n = spent.edits + 1 /\ d = Asked("edit", n) /\ u = editMessage(tab, n)
  OBVIOUS
<1>1. /\ n \in 0 .. MaxEdits /\ n \in Nat /\ tab \in Store /\ tab' = u
      /\ Request("edit", n, "write")
      /\ UNCHANGED <<table, down, drawer, history, behind, lost>>
      /\ NewsKept /\ read' = read /\ told' = told
  BY <1>0, BoundsAssumption, NewsStay DEF handleEditSubmit, TInv, Views, Tables
<1>2. Joined(d) /\ d.op = "edit" /\ d.pc = "write"
  BY <1>0, <1>1, RequestJoins DEF TInv, Wires
<1>3. /\ u.away = tab.away /\ u.real = tab.real /\ u.temp = tab.temp /\ u.changed = tab.changed
      /\ u.head = tab.head
      /\ Painted(tab.row, u.row, tab.row.replies, tab.row.reacts, n)
  BY <1>0, <1>1, EditIs
<1>4. InOrder' /\ GoneTrue' /\ GoneKept /\ DuesKept
  BY <1>1, <1>2, AskedOrder DEF SInv
<1>5. TextDue'
  BY <1>2 DEF Joined, TextDue
<1>6. RowFrom(tab.row, tab'.row) /\ HeadFrom(tab.head, tab'.head)
  BY <1>1, <1>3, <1>5 DEF Painted, RowFrom, HeadFrom
<1>7. FacesRight' /\ GoneNoted' /\ Shown' /\ TempDue'
  <2>1. tab'.row = None <=> tab.row = None
    BY <1>1, <1>3 DEF Painted
  <2> QED
    BY <1>1, <1>3, <1>4, <1>6, <2>1, TabStaysRight
<1>8. DrawerRight' /\ NoneLeft'
  BY <1>1, <1>3, <1>4, DrawerStaysRight
<1> QED
  BY <1>4, <1>7, <1>8 DEF SInv

\* The message itself: the row and the drawer go, and the deletion is asked for.
LEMMA DeleteWholeSafe ==
  ASSUME TInv, SInv, handleDelete(Whole)
  PROVE  SInv'
<1>0. PICK d, u : d = Asked("delete", Whole) /\ u = deleteMessage(tab, Whole)
  OBVIOUS
<1>1. /\ tab \in Store /\ Whole \notin tab.temp /\ Whole \in Nat
      /\ tab' = [u EXCEPT !.temp = @ \ {Whole}]
      /\ Request("delete", Whole, "write")
      /\ UNCHANGED <<table, down, drawer, history, behind, lost>>
      /\ NewsKept /\ read' = read /\ told' = told
  BY <1>0, NewsStay DEF handleDelete, TInv, Views, Known, Whole
<1>2. Joined(d) /\ d.op = "delete" /\ d.x = Whole /\ d.pc = "write"
  BY <1>0, <1>1, RequestJoins DEF TInv, Wires
<1>3. Cleared(tab, u)
  BY <1>0, <1>1, DeleteIs
<1>4. /\ tab'.row = None /\ tab'.head = None /\ tab'.away = tab.away /\ tab'.temp \subseteq tab.temp
  BY <1>1, <1>3 DEF Cleared, Store
<1>5. InOrder' /\ GoneTrue' /\ GoneKept /\ DuesKept
  BY <1>1, <1>2, AskedOrder DEF SInv
<1>6. WholeAsked'
  BY <1>2 DEF Joined, WholeAsked, InProgress
<1>7. RowFrom(tab.row, tab'.row) /\ HeadFrom(tab.head, tab'.head)
  BY <1>4 DEF RowFrom, HeadFrom
<1>8. FacesRight' /\ GoneNoted' /\ Shown' /\ TempDue'
  BY <1>1, <1>4, <1>5, <1>6, <1>7, TabStaysRight
<1>9. DrawerRight' /\ NoneLeft'
  BY <1>1, <1>4, <1>5, DrawerStaysRight
<1> QED
  BY <1>5, <1>8, <1>9 DEF SInv

\* A reply: the drawer fetches, and either the number is still to come or the
\* handler will find the reply and tell it.
LEMMA DeleteReplySafe ==
  ASSUME TInv, SInv, NEW x \in Reply, handleDelete(x)
  PROVE  SInv'
<1>0. PICK d, u : d = Asked("delete", x) /\ u = deleteMessage(tab, x)
  OBVIOUS
<1>1. /\ tab \in Store /\ x # Whole /\ x \in Nat /\ tab.head # None /\ x \in tab.real \cup tab.temp
      /\ tab' = [u EXCEPT !.temp = @ \ {x}]
      /\ UNCHANGED <<table, down, drawer, history, behind>> /\ lost \subseteq lost'
      /\ lost' = lost \/ "ghost" \in lost'
      /\ calls \in Seq(Call) /\ NewsKept /\ read' = read /\ told' = told
  BY <1>0, BoundsAssumption, NewsStay DEF handleDelete, TInv, Views, Wires, Reply, Whole
<1>2. UNCHANGED calls \/ (Joined(d) /\ d.op = "delete" /\ d.x = x /\ d.pc = "write")
  BY <1>0, <1>1, RequestJoins DEF handleDelete
<1>3. Pruned(tab, u, x)
  BY <1>0, <1>1, DeleteIs
<1>4. /\ tab'.row = u.row /\ tab'.head = u.head /\ tab'.away = tab.away /\ tab'.temp \subseteq tab.temp
      /\ tab'.changed
  BY <1>1, <1>3 DEF Pruned, Store
<1>5. InOrder' /\ GoneTrue' /\ GoneKept /\ DuesKept
  <2>1. CASE UNCHANGED calls
    BY <1>1, <2>1, UntoldOrder DEF SInv
  <2>2. CASE Joined(d) /\ d.pc = "write"
    BY <1>1, <2>2, AskedOrder DEF SInv
  <2> QED
    BY <1>2, <2>1, <2>2
<1>6. ASSUME lost' \subseteq {"emptied"}, table'.exists, ~ tab'.away
      PROVE  CountDue'
  <2>1. lost \subseteq {"emptied"} /\ table.exists /\ ~ tab.away /\ ~ ("ghost" \in lost')
    BY <1>1, <1>4, <1>6
  <2>2. CASE x \in tab.temp
    <3>1. ReplyDue(x)
      BY <2>1, <2>2 DEF SInv, TempDue
    <3>2. CountDue
      <4>1. CASE InProgress("reply", x, {"write", "announce"})
        BY <4>1 DEF InProgress, CountDue, CallsAt
      <4>2. CASE Tells("receive_channel_message", x)
        <5>1. \A e \in Range(down) : e \in Event
          BY RangeOfAll DEF TInv, Wires
        <5> QED
          BY <4>2, <5>1 DEF Tells, CountDue, Said, Numbers, OfKinds
      <4> QED
        BY <3>1, <4>1, <4>2 DEF ReplyDue
    <3> QED
      BY <1>5, <1>6, <3>2 DEF DuesKept
  <2>3. CASE x \notin tab.temp
    <3>1. Joined(d) /\ d.op = "delete" /\ d.x = x /\ d.pc = "write"
      BY <1>0, <1>1, <2>3, RequestJoins DEF handleDelete
    <3>2. x \in table.replies \/ NumberOwed
      BY <1>1, <2>1, <2>3, NumberOwedIs DEF handleDelete
    <3>3. CASE x \in table.replies
      BY <1>1, <3>1, <3>3 DEF Joined, CountDue
    <3>4. CASE NumberOwed
      <4>1. CountDue
        BY <3>4 DEF NumberOwed, CountDue, Said, OfKinds, Numbers
      <4> QED
        BY <1>5, <1>6, <4>1 DEF DuesKept
    <3> QED
      BY <3>2, <3>3, <3>4
  <2> QED
    BY <2>2, <2>3
<1>7. lost' \subseteq {"emptied"} /\ table'.exists /\ ~ tab'.away =>
        RowFrom(tab.row, tab'.row) /\ HeadFrom(tab.head, tab'.head)
  BY <1>3, <1>4, <1>6 DEF Pruned, Lessened, RowFrom, HeadFrom
<1>8. FacesRight' /\ GoneNoted' /\ Shown' /\ TempDue'
  <2>1. (tab'.row = None <=> tab.row = None) /\ (tab'.head = None <=> tab.head = None)
    BY <1>3, <1>4 DEF Pruned, Lessened
  <2> QED
    BY <1>1, <1>4, <1>5, <1>7, <2>1, TabStaysRight
<1>9. DrawerRight' /\ NoneLeft'
  BY <1>1, <1>4, <1>5, DrawerStaysRight
<1> QED
  BY <1>5, <1>8, <1>9 DEF SInv

LEMMA ToggleSafe ==
  ASSUME TInv, SInv, NEW u \in Users, handleReactionToggle(u)
  PROVE  SInv'
<1> DEFINE d == [op |-> "toggle", by |-> u, x |-> Whole, pc |-> "look"]
<1>1. d \in Call /\ d.pc = "look" /\ calls \in Seq(Call)
  BY DEF Call, Whole, TInv, Wires
<1>2. /\ calls' = Append(calls, d)
      /\ UNCHANGED <<table, down, tab, drawer, history, behind, lost, News>>
  BY DEF handleReactionToggle
<1> HIDE DEF d
<1>3. Joined(d)
  BY <1>1, <1>2, AppendJoins
<1> QED
  BY <1>1, <1>2, <1>3, UnseenSafe

LEMMA AskingSafe ==
  ASSUME TInv, SInv, Asking
  PROVE  SInv'
<1>1. CASE Elsewhere
  <2>1. UNCHANGED News
    BY <1>1 DEF Elsewhere
  <2> QED
    BY <1>1, <2>1, ElsewhereIs, UnseenSafe
<1>2. ASSUME NEW x \in Reply \cup {Whole}, handleDelete(x)
      PROVE  SInv'
  BY <1>2, DeleteWholeSafe, DeleteReplySafe
<1> QED
  BY <1>1, <1>2, SendReplySafe, EditSafe, ToggleSafe DEF Asking

----------------------------------------------------------------------------
(* What a view leaves due                                                  *)

LEMMA OpenSafe ==
  ASSUME TInv, SInv, openThread
  PROVE  SInv'
<1>1. /\ tab.row # None /\ tab \in Store
      /\ tab' = [tab EXCEPT !.head = tab.row, !.real = {}, !.temp = {}, !.twin = TRUE,
                            !.changed = @ \/ ~ tab.twin]
      /\ UNCHANGED <<table, calls, down, drawer, history, behind>>
      /\ NewsKept /\ read' = read /\ told' = told
      /\ lost \subseteq lost' /\ (tab.twin => lost' = lost \cup {"emptied"})
      /\ tab.twin => tab.head # None
  BY NewsStay DEF openThread, TInv, Views
<1>2. /\ tab'.row = tab.row /\ tab'.head = tab.row /\ tab'.real = {} /\ tab'.temp = {}
      /\ tab'.away = tab.away /\ tab'.changed = (tab.changed \/ ~ tab.twin)
  BY <1>1 DEF Store
<1>3. InOrder' /\ GoneTrue' /\ GoneKept /\ DuesKept
  BY <1>1, UntoldOrder DEF SInv
<1>4. RowFrom(tab.row, tab'.row) /\ HeadFrom(tab.row, tab'.head)
  BY <1>2 DEF RowFrom, HeadFrom
<1>5. FacesRight' /\ GoneNoted' /\ Shown' /\ TempDue'
  BY <1>1, <1>2, <1>3, <1>4, TabStaysRight
<1>6. CASE tab'.changed
  BY <1>1, <1>3, <1>5, <1>6, DrawerStaysRight DEF SInv
<1>7. CASE ~ tab'.changed
  <2>1. tab.twin /\ tab.head # None /\ ~ tab.changed /\ "emptied" \in lost'
    BY <1>1, <1>2, <1>7
  <2>2. DrawerRight'
    BY <2>1 DEF DrawerRight
  <2>3. NoneLeft'
    BY <1>1, <1>2, <1>3, <2>1 DEF SInv, NoneLeft, GoneKept, Asks, Showing, Spared
  <2> QED
    BY <1>3, <1>5, <2>2, <2>3 DEF SInv
<1> QED
  BY <1>6, <1>7

LEMMA CloseSafe ==
  ASSUME TInv, SInv, Close
  PROVE  SInv'
<1>1. /\ tab' = closeThread(tab) /\ tab \in Store
      /\ UNCHANGED <<table, calls, down, drawer, history, behind, lost>>
      /\ NewsKept /\ read' = read /\ told' = told
  BY NewsStay DEF Close, TInv, Views
<1>2. tab'.row = tab.row /\ tab'.head = None /\ tab'.temp = {} /\ tab'.away = tab.away
  BY <1>1, CloseIs
<1>3. InOrder' /\ GoneTrue' /\ GoneKept /\ DuesKept
  BY <1>1, UntoldOrder DEF SInv
<1>4. RowFrom(tab.row, tab'.row) /\ HeadFrom(tab.head, tab'.head)
  BY <1>2 DEF RowFrom, HeadFrom
<1>5. FacesRight' /\ GoneNoted' /\ Shown' /\ TempDue'
  BY <1>1, <1>2, <1>3, <1>4, TabStaysRight
<1>6. DrawerRight' /\ NoneLeft'
  BY <1>1, <1>2, <1>3, DrawerStaysRight
<1> QED
  BY <1>3, <1>5, <1>6 DEF SInv

LEMMA LeaveSafe ==
  ASSUME TInv, SInv, Leave
  PROVE  SInv'
<1>0. PICK u : u = closeThread(tab)
  OBVIOUS
<1>1. /\ tab' = [u EXCEPT !.away = TRUE, !.row = None] /\ tab \in Store
      /\ UNCHANGED <<table, calls, down, drawer, history, behind, lost>>
      /\ NewsKept /\ read' = read /\ told' = told
  BY <1>0, NewsStay DEF Leave, TInv, Views
<1>2. u \in Store /\ u.head = None /\ u.temp = {}
  BY <1>0, <1>1, CloseIs
<1>3. tab'.row = None /\ tab'.head = None /\ tab'.temp = {} /\ tab'.away
  BY <1>1, <1>2 DEF Store
<1>4. InOrder' /\ GoneTrue' /\ GoneKept /\ DuesKept
  BY <1>1, UntoldOrder DEF SInv
<1>5. FacesRight' /\ GoneNoted' /\ Shown' /\ TempDue'
  BY <1>1, <1>3, <1>4, TabStaysRight
<1>6. DrawerRight' /\ NoneLeft'
  BY <1>1, <1>3, <1>4, DrawerStaysRight
<1> QED
  BY <1>4, <1>5, <1>6 DEF SInv

LEMMA ReturnSafe ==
  ASSUME TInv, SInv, Return
  PROVE  SInv'
<1>0. PICK u : u = closeThread(tab)
  OBVIOUS
<1>1. /\ tab' = [u EXCEPT !.away = FALSE, !.row = None] /\ tab \in Store
      /\ UNCHANGED <<table, calls, down, drawer, behind, lost>> /\ NewsKept
      /\ history'.is = "asked"
  BY <1>0, NewsStay DEF Return, TInv, Views, Idle
<1>2. u \in Store /\ u.head = None /\ u.temp = {}
  BY <1>0, <1>1, CloseIs
<1>3. tab'.row = None /\ tab'.head = None /\ tab'.temp = {}
  BY <1>1, <1>2 DEF Store
<1>4. InOrder' /\ GoneTrue'
  BY <1>1, UntoldOrder DEF SInv
<1>5. FacesRight' /\ GoneNoted' /\ Shown' /\ TempDue' /\ DrawerRight' /\ NoneLeft'
  BY <1>1, <1>3 DEF FacesRight, HeadRight, RowRight, GoneNoted, Shown, TempDue, DrawerRight, NoneLeft
<1> QED
  BY <1>4, <1>5 DEF SInv

LEMMA FetchSafe ==
  ASSUME TInv, SInv, fetchReplies
  PROVE  SInv'
<1>1. /\ tab' = [tab EXCEPT !.changed = FALSE] /\ tab \in Store
      /\ UNCHANGED <<table, calls, down, history, behind, lost>> /\ NewsKept
      /\ drawer' = Append(drawer, None) /\ drawer \in Seq(Answers)
  BY NewsStay DEF fetchReplies, TInv, Views, Fetches
<1>2. /\ tab'.row = tab.row /\ tab'.head = tab.head /\ tab'.temp = tab.temp /\ tab'.away = tab.away
  BY <1>1 DEF Store
<1>3. Asks'
  <2>1. Range(drawer') = Range(drawer) \cup {None}
    BY <1>1, RangeAppend DEF Answers
  <2> QED
    BY <2>1 DEF Asks
<1>4. InOrder' /\ GoneTrue' /\ GoneKept /\ DuesKept
  BY <1>1, UntoldOrder DEF SInv
<1>5. RowFrom(tab.row, tab'.row) /\ HeadFrom(tab.head, tab'.head)
  BY <1>2 DEF RowFrom, HeadFrom
<1>6. FacesRight' /\ GoneNoted' /\ Shown' /\ TempDue'
  BY <1>1, <1>2, <1>4, <1>5, TabStaysRight
<1>7. DrawerRight' /\ NoneLeft'
  BY <1>3 DEF DrawerRight, NoneLeft
<1> QED
  BY <1>4, <1>6, <1>7 DEF SInv

LEMMA AnswerRepliesSafe ==
  ASSUME TInv, Remembered, SInv, NEW k \in DOMAIN drawer, AnswerReplies(k)
  PROVE  SInv'
<1>1. /\ UNCHANGED <<table, calls, down, tab, history, behind, lost>>
      /\ drawer \in Seq(Answers)
      /\ table.exists => drawer' = [drawer EXCEPT ![k] = table.replies]
  BY DEF AnswerReplies, TInv, Fetches
<1>0. /\ read'.replies = IF table.exists THEN table.replies ELSE read.replies
      /\ NewsKept
  BY AnswerNews DEF NewsKept
<1>2. InOrder' /\ GoneTrue' /\ GoneKept /\ DuesKept
  BY <1>0, <1>1, UntoldOrder DEF SInv
<1>3. RowFrom(tab.row, tab'.row) /\ HeadFrom(tab.head, tab'.head)
  BY <1>1 DEF RowFrom, HeadFrom
<1>4. FacesRight' /\ GoneNoted' /\ Shown' /\ TempDue'
  BY <1>1, <1>2, <1>3, TabStaysRight
<1>5. CASE ~ table.exists
  BY <1>1, <1>2, <1>4, <1>5 DEF SInv, DrawerRight, NoneLeft
<1>6. CASE table.exists
  <2>1. drawer' # << >>
    <3> DEFINE t == [drawer EXCEPT ![k] = table.replies]
    <3>1. DOMAIN t = DOMAIN drawer /\ drawer' = t
      BY <1>1, <1>6
    <3> HIDE DEF t
    <3>2. k \in DOMAIN drawer'
      BY <3>1
    <3>3. k \notin DOMAIN << >>
      BY EmptySeq
    <3> QED
      BY <3>2, <3>3
  <2>2. Showing' /\ read'.replies = table'.replies /\ \A x \in read'.replies : Alive(x)'
    BY <1>0, <1>1, <1>6, <2>1 DEF Showing, Alive
  <2>3. DrawerRight' /\ NoneLeft'
    BY <2>2 DEF DrawerRight, NoneLeft
  <2> QED
    BY <1>2, <1>4, <2>3 DEF SInv
<1> QED
  BY <1>5, <1>6

\* The drawer shows what it read last, or another answer, or is to show one yet.
LEMMA SetThreadSafe ==
  ASSUME TInv, Remembered, SInv, NEW k \in DOMAIN drawer, setThreadMessages(k)
  PROVE  SInv'
<1>1. /\ UNCHANGED <<table, calls, down, history, behind, lost>> /\ tab \in Store
      /\ drawer \in Seq(Answers) /\ drawer[k] # None
      /\ drawer' = RemoveAt(drawer, k)
      /\ tab' = [tab EXCEPT !.real = drawer[k], !.temp = {}]
  BY DEF setThreadMessages, TInv, Views, Fetches
<1>0. told'.replies = drawer[k] /\ read' = read /\ NewsKept
  BY ShownNews DEF NewsKept
<1>2. /\ tab'.row = tab.row /\ tab'.head = tab.head /\ tab'.real = drawer[k] /\ tab'.temp = {}
      /\ tab'.changed = tab.changed /\ tab'.away = tab.away
  BY <1>1 DEF Store
<1>3. InOrder' /\ GoneTrue' /\ GoneKept /\ DuesKept
  BY <1>0, <1>1, UntoldOrder DEF SInv
<1>4. RowFrom(tab.row, tab'.row) /\ HeadFrom(tab.head, tab'.head)
  BY <1>2 DEF RowFrom, HeadFrom
<1>5. FacesRight' /\ GoneNoted' /\ Shown' /\ TempDue'
  BY <1>1, <1>2, <1>3, <1>4, TabStaysRight
<1>6. Asks => Asks'
  <2>1. Range(drawer) = Range(drawer') \cup {drawer[k]}
    BY <1>1, RangeRemoveAt
  <2> QED
    BY <1>1, <2>1 DEF Asks
<1>7. drawer # << >>
  BY EmptySeq
<1>8. Showing' \/ (tab'.real = read'.replies /\ tab'.temp = {})
  BY <1>0, <1>2 DEF Showing
<1>9. DrawerRight'
  BY <1>0, <1>1, <1>2, <1>3, <1>6, <1>8 DEF SInv, DrawerRight, GoneKept, DuesKept
<1>10. NoneLeft'
  BY <1>0, <1>1, <1>2, <1>3, <1>6, <1>8 DEF SInv, NoneLeft, GoneKept, Spared
<1> QED
  BY <1>3, <1>5, <1>9, <1>10 DEF SInv

LEMMA AnswerHistorySafe ==
  ASSUME TInv, SInv, AnswerHistory
  PROVE  SInv'
<1>1. /\ UNCHANGED <<table, calls, down, tab, drawer, behind, lost>>
      /\ NewsKept /\ read' = read /\ told' = told
      /\ history'.is = "read"
      /\ history'.row = IF table.exists THEN TheFace ELSE None
  BY NewsStay DEF AnswerHistory
<1>2. InOrder' /\ GoneTrue' /\ GoneKept /\ DuesKept
  BY <1>1, UntoldOrder DEF SInv
<1>3. table.exists => history'.row # None /\ RowRight(history.row)'
  BY <1>1, TheFaceIs DEF RowRight, HeadRight, Size
<1>4. FacesRight'
  <2> SUFFICES ASSUME lost \subseteq {"emptied"}, table.exists, ~ behind, ~ tab.away
               PROVE  HeadRight(tab.head)' /\ RowRight(tab.row)'
    BY <1>1, <1>3 DEF FacesRight
  <2>1. HeadRight(tab.head) /\ RowRight(tab.row)
    BY DEF SInv, FacesRight
  <2>2. PICK row, head : row = tab.row /\ head = tab.head /\ row = tab'.row /\ head = tab'.head
    BY <1>1
  <2>3. RowFrom(row, row) /\ HeadFrom(head, head)
    BY DEF RowFrom, HeadFrom
  <2>4. HeadRight(head)' /\ RowRight(row)'
    BY <1>1, <1>2, <2>1, <2>2, <2>3, HeadStays, RowStays
  <2> QED
    BY <2>2, <2>4
<1>5. GoneNoted' /\ Shown'
  BY <1>1, <1>2, <1>3 DEF SInv, GoneNoted, Shown, GoneKept, Spared
<1>6. TempDue' /\ DrawerRight' /\ NoneLeft'
  BY <1>1, <1>2 DEF SInv, TempDue, DrawerRight, NoneLeft, Asks, Showing, GoneKept, DuesKept, Spared
<1> QED
  BY <1>2, <1>4, <1>5, <1>6 DEF SInv

LEMMA SetMessagesSafe ==
  ASSUME TInv, SInv, setMessages
  PROVE  SInv'
<1>1. /\ UNCHANGED <<table, calls, down, drawer, lost>> /\ tab \in Store /\ NewsKept
      /\ history.is = "read" /\ tab.head = None /\ tab.temp = {}
      /\ tab' = [tab EXCEPT !.row = history.row, !.twin = FALSE]
      /\ history' = Idle /\ behind' = history.late
  BY NewsStay DEF setMessages, TInv, Views, Fetches
<1>2. tab'.row = history.row /\ tab'.head = None /\ tab'.temp = {} /\ history'.is = "none"
  BY <1>1 DEF Store, Idle
<1>3. InOrder' /\ GoneTrue' /\ GoneKept /\ DuesKept
  BY <1>1, UntoldOrder DEF SInv
<1>4. FacesRight'
  <2> SUFFICES ASSUME lost \subseteq {"emptied"}, table.exists, ~ history.late
               PROVE  RowRight(tab.row)'
    BY <1>1, <1>2 DEF FacesRight, HeadRight
  <2>1. PICK row : row = history.row /\ row = tab'.row
    BY <1>2
  <2>2. RowRight(row) /\ RowFrom(row, row)
    BY <1>1, <2>1 DEF SInv, FacesRight, RowFrom, HeadFrom
  <2>3. RowRight(row)'
    BY <1>1, <1>3, <2>2, RowStays
  <2> QED
    BY <2>1, <2>3
<1>5. GoneNoted' /\ Shown'
  BY <1>1, <1>2, <1>3 DEF SInv, GoneNoted, Shown, GoneKept, Spared
<1>6. TempDue' /\ DrawerRight' /\ NoneLeft'
  BY <1>2 DEF TempDue, DrawerRight, NoneLeft
<1> QED
  BY <1>3, <1>4, <1>5, <1>6 DEF SInv

----------------------------------------------------------------------------
(* What an event leaves due                                                *)

\* The next event is heard, and all else is as it was.
HearsNext(e) ==
    /\ e \in Event /\ EventRight(e) /\ tab' = Heard(tab, e)
    /\ Range(down) = Range(down') \cup {e}
    /\ \A A, B : Ends(down, A, B) =>
         Ends(down', A, B) /\ (Range(down') \cap A = {} /\ e \in A => e \in B)
    /\ UNCHANGED <<table, calls, drawer, behind, lost, read, told>>
    /\ history'.is = history.is /\ history'.row = history.row
    /\ history.is = "read" => history'.late

LEMMA HearIsNext ==
  ASSUME TInv, Hear
  PROVE  \E e : HearsNext(e)
<1>0. PICK e : e = Head(down)
  OBVIOUS
<1>1. /\ e \in Event /\ EventRight(e) /\ tab' = Heard(tab, e)
      /\ down \in Seq(Event) /\ down # << >> /\ down' = Tail(down)
      /\ Range(down) = Range(down') \cup {e}
      /\ UNCHANGED <<table, calls, drawer, behind, lost>>
      /\ history'.is = history.is /\ history'.row = history.row
      /\ history.is = "read" => history'.late
  BY <1>0, HearIs
<1>2. ASSUME NEW A, NEW B, Ends(down, A, B)
      PROVE  Ends(Tail(down), A, B) /\ (Range(Tail(down)) \cap A = {} /\ Head(down) \in A => Head(down) \in B)
  BY <1>1, <1>2, EndsTail
<1>3. read' = read /\ told' = told
  BY NewsStay DEF Hear
<1> QED
  BY <1>0, <1>1, <1>2, <1>3 DEF HearsNext

\* A kind is due still, or this was the last of it and told the truth.
LEMMA LastIsTrue ==
  ASSUME TInv, InOrder, NEW e, HearsNext(e), lost \subseteq {"emptied", "ghost"}, table.exists
  PROVE  /\ CountDue' \/ (e \notin Numbers /\ ~ CountDue)
           \/ (e.ev = "thread_parent_updated" /\ e.x = Size)
         /\ ReactionsDue' \/ (e \notin Reactions /\ ~ ReactionsDue)
           \/ (e.ev = "message_reactions_updated" /\ e.x = table.reacts)
         /\ TextDue' \/ (e \notin Texts /\ ~ TextDue)
           \/ (e.ev = "message_edited" /\ e.x = table.text)
<1>1. /\ CountTrue /\ ReactionsTrue /\ TextTrue
      /\ UNCHANGED <<table, calls, read, told>>
      /\ Range(down) = Range(down') \cup {e}
  BY DEF InOrder, HearsNext
<1>2. ASSUME NEW A, ~ Said(A)'
      PROVE  /\ e \notin A => ~ Said(A)
             /\ Range(down') \cap A = {}
  BY <1>1, <1>2 DEF Said
<1>3. ASSUME ~ CountDue', e \in Numbers
      PROVE  e.ev = "thread_parent_updated" /\ e.x = Size
  <2>1. /\ ~ CallsAt({"announce", "count", "tellCount"}) /\ ~ Said(Numbers)'
        /\ told.count = read.count
    BY <1>1, <1>3 DEF CountDue, CallsAt, Numbers
  <2>2. Ends(down, Numbers, Saying("thread_parent_updated", Size))
    BY <1>1, <2>1 DEF CountTrue, CallsAt
  <2>3. e \in Saying("thread_parent_updated", Size)
    BY <1>2, <1>3, <2>1, <2>2 DEF HearsNext
  <2> QED
    BY <2>3 DEF Saying
<1>4. ~ CountDue' /\ e \notin Numbers => ~ CountDue
  BY <1>1 DEF CountDue, CallsAt, Said, Numbers, OfKinds
<1>5. ASSUME ~ ReactionsDue', e \in Reactions
      PROVE  e.ev = "message_reactions_updated" /\ e.x = table.reacts
  <2>1. /\ ~ CallsAt({"list", "tellReactions"}) /\ ~ Said(Reactions)'
        /\ told.reactions = read.reactions
    BY <1>1, <1>5 DEF ReactionsDue, CallsAt, Reactions
  <2>2. Ends(down, Reactions, Saying("message_reactions_updated", table.reacts))
    BY <1>1, <2>1 DEF ReactionsTrue, CallsAt
  <2>3. e \in Saying("message_reactions_updated", table.reacts)
    BY <1>2, <1>5, <2>1, <2>2 DEF HearsNext
  <2> QED
    BY <2>3 DEF Saying
<1>6. ~ ReactionsDue' /\ e \notin Reactions => ~ ReactionsDue
  BY <1>1 DEF ReactionsDue, CallsAt, Said, Reactions, OfKinds
<1>7. ASSUME ~ TextDue', e \in Texts
      PROVE  e.ev = "message_edited" /\ e.x = table.text
  <2>1. ~ CallsAt({"tellText"})
    <3>1. \A c \in Range(calls) : c.pc = "tellText" => c.op = "edit"
      BY DEF TInv, Wires, CallRight
    <3> QED
      BY <1>1, <1>7, <3>1 DEF TextDue, CallsAt
  <2>2. ~ Said(Texts)' /\ told.text = read.text
    BY <1>1, <1>7 DEF TextDue
  <2>3. Ends(down, Texts, Saying("message_edited", table.text))
    BY <1>1, <2>1, <2>2 DEF TextTrue
  <2>4. e \in Saying("message_edited", table.text)
    BY <1>2, <1>7, <2>2, <2>3 DEF HearsNext
  <2> QED
    BY <2>4 DEF Saying
<1>8. ~ TextDue' /\ e \notin Texts => ~ TextDue
  BY <1>1 DEF TextDue, Said, Texts, OfKinds
<1> QED
  BY <1>3, <1>4, <1>5, <1>6, <1>7, <1>8

LEMMA HearOrder ==
  ASSUME InOrder, GoneTrue, NEW e, HearsNext(e)
  PROVE  InOrder' /\ GoneTrue'
<1>1. /\ UNCHANGED <<table, calls, lost, read, told>> /\ Range(down) = Range(down') \cup {e}
      /\ \A A, B : Ends(down, A, B) => Ends(down', A, B)
  BY DEF HearsNext
<1>2. (CountTrue => CountTrue') /\ (ReactionsTrue => ReactionsTrue') /\ (TextTrue => TextTrue')
  BY <1>1 DEF CountTrue, ReactionsTrue, TextTrue, CallsAt, Size, Numbers, Reactions, Texts, OfKinds, Saying
<1>3. GoneDue' => GoneDue
  BY <1>1 DEF GoneDue, InProgress, Tells
<1> QED
  BY <1>1, <1>2, <1>3 DEF InOrder, GoneTrue

LEMMA HearFaces ==
  ASSUME TInv, SInv, NEW e, HearsNext(e), lost \subseteq {"emptied"}, table.exists,
         HeadRight(tab.head), RowRight(tab.row)
  PROVE  HeadRight(tab.head)' /\ RowRight(tab.row)'
<1>1. /\ UNCHANGED table /\ e \in Event
      /\ HeardReply(e) \/ HeardGone(e) \/ HeardCount(e) \/ HeardReactions(e) \/ HeardText(e)
  BY HeardKinds DEF HearsNext
<1>2. Size' = Size
  BY <1>1 DEF Size
<1>3. /\ CountDue' \/ (e \notin Numbers /\ ~ CountDue)
        \/ (e.ev = "thread_parent_updated" /\ e.x = Size)
      /\ ReactionsDue' \/ (e \notin Reactions /\ ~ ReactionsDue)
        \/ (e.ev = "message_reactions_updated" /\ e.x = table.reacts)
      /\ TextDue' \/ (e \notin Texts /\ ~ TextDue)
        \/ (e.ev = "message_edited" /\ e.x = table.text)
  BY LastIsTrue DEF SInv
<1>4. /\ e \in Numbers <=> e.ev \in {"receive_channel_message", "message_deleted", "thread_parent_updated"}
      /\ e \in Reactions <=> e.ev = "message_reactions_updated"
      /\ e \in Texts <=> e.ev = "message_edited"
  BY <1>1 DEF Numbers, Reactions, Texts, OfKinds
<1>5. ASSUME NEW f, NEW g, HeadRight(f),
             g # None =>
               /\ f # None
               /\ \/ e.ev \in {"receive_channel_message", "message_deleted"}
                  \/ e.ev = "thread_parent_updated" /\ g.replies = e.x
                  \/ e.ev \notin {"thread_parent_updated"} /\ g.replies = f.replies
               /\ \/ e.ev = "message_reactions_updated" /\ g.reacts = e.x
                  \/ e.ev # "message_reactions_updated" /\ g.reacts = f.reacts
      PROVE  HeadRight(g)'
  BY <1>1, <1>2, <1>3, <1>4, <1>5 DEF HeadRight
<1>6. HeadRight(tab.row)
  BY DEF RowRight
<1>7. PICK row, head : row = tab'.row /\ head = tab'.head
  OBVIOUS
<1>8. HeadRight(row)'
  <2>1. row # None =>
          /\ tab.row # None
          /\ \/ e.ev \in {"receive_channel_message", "message_deleted"}
             \/ e.ev = "thread_parent_updated" /\ row.replies = e.x
             \/ e.ev \notin {"thread_parent_updated"} /\ row.replies = tab.row.replies
          /\ \/ e.ev = "message_reactions_updated" /\ row.reacts = e.x
             \/ e.ev # "message_reactions_updated" /\ row.reacts = tab.row.reacts
    BY <1>1, <1>7 DEF HeardReply, Received, HeardGone, Cleared, Pruned, Lessened, HeardCount, HeardReactions,
       HeardText, Painted
  <2> QED
    BY <1>5, <1>6, <2>1
<1>9. HeadRight(head)'
  <2>1. head # None =>
          /\ tab.head # None
          /\ \/ e.ev \in {"receive_channel_message", "message_deleted"}
             \/ e.ev = "thread_parent_updated" /\ head.replies = e.x
             \/ e.ev \notin {"thread_parent_updated"} /\ head.replies = tab.head.replies
          /\ \/ e.ev = "message_reactions_updated" /\ head.reacts = e.x
             \/ e.ev # "message_reactions_updated" /\ head.reacts = tab.head.reacts
    BY <1>1, <1>7 DEF HeardReply, Received, HeardGone, Cleared, Pruned, Lessened, HeardCount, HeardReactions,
       HeardText, Painted
  <2> QED
    BY <1>5, <2>1
<1>10. row # None => TextDue' \/ row.text = table'.text
  <2>1. row # None =>
          /\ tab.row # None
          /\ \/ e.ev = "message_edited" /\ row.text = e.x
             \/ e.ev # "message_edited" /\ row.text = tab.row.text
    BY <1>1, <1>7 DEF HeardReply, Received, HeardGone, Cleared, Pruned, Lessened, HeardCount, HeardReactions,
       HeardText, Painted
  <2> QED
    BY <1>1, <1>3, <1>4, <2>1 DEF RowRight
<1>11. RowRight(row)'
  BY <1>8, <1>10 DEF RowRight
<1> QED
  BY <1>7, <1>9, <1>11

\* Only the deletion of the message takes its row and its drawer away, and only
\* a reply that arrives changes the drawer without fetching it again.
LEMMA HeardChanges ==
  ASSUME TInv, NEW e, HearsNext(e)
  PROVE  /\ tab'.away = tab.away /\ tab'.temp \subseteq tab.temp
         /\ tab.row = None => tab'.row = None
         /\ tab.head = None => tab'.head = None
         /\ IF e.ev = "message_deleted" /\ e.x = Whole
              THEN tab'.row = None /\ tab'.head = None
              ELSE tab'.row = None => tab.row = None
         /\ tab'.head # None /\ ~ tab'.changed =>
              /\ tab.head # None /\ ~ tab.changed /\ e.ev \in {"receive_channel_message", "message_edited"}
              /\ tab.temp = {} => tab'.real = tab.real /\ tab'.temp = {}
         /\ ~ tab.away /\ e.ev = "receive_channel_message" => e.x \notin tab'.temp
<1>1. /\ HeardReply(e) \/ HeardGone(e) \/ HeardCount(e) \/ HeardReactions(e) \/ HeardText(e)
      /\ tab'.away = tab.away
      /\ tab'.changed \/ tab'.twin => tab'.head # None
      /\ tab'.head = None => tab'.temp = {}
      /\ tab.row = None => tab'.row = None
      /\ tab.head = None => tab'.head = None
  BY HeardKinds, HeardViews DEF HearsNext
<1>2. tab.head = None => tab.temp = {}
  BY DEF TInv, Views
<1>3. CASE HeardReply(e)
  BY <1>1, <1>2, <1>3 DEF HeardReply, Received, Painted, Novel
<1>4. CASE HeardGone(e)
  BY <1>1, <1>2, <1>4 DEF HeardGone, Cleared, Pruned, Lessened
<1>5. CASE HeardCount(e)
  BY <1>1, <1>2, <1>5 DEF HeardCount, Kept, Painted
<1>6. CASE HeardReactions(e)
  BY <1>1, <1>2, <1>6 DEF HeardReactions, Kept, Painted
<1>7. CASE HeardText(e)
  BY <1>1, <1>2, <1>7 DEF HeardText, Painted
<1> QED
  BY <1>1, <1>3, <1>4, <1>5, <1>6, <1>7

LEMMA HearSafe ==
  ASSUME TInv, SInv, Hear
  PROVE  SInv'
<1>1. PICK e : HearsNext(e)
  BY HearIsNext
<1>2. /\ UNCHANGED <<table, calls, drawer, behind, lost, read, told>> /\ e \in Event
      /\ Range(down) = Range(down') \cup {e}
      /\ history'.is = history.is /\ history'.row = history.row
      /\ history.is = "read" => history'.late
  BY <1>1 DEF HearsNext
<1>3. /\ tab'.away = tab.away /\ tab'.temp \subseteq tab.temp
      /\ tab.row = None => tab'.row = None
      /\ tab.head = None => tab'.head = None
      /\ IF e.ev = "message_deleted" /\ e.x = Whole
           THEN tab'.row = None /\ tab'.head = None
           ELSE tab'.row = None => tab.row = None
      /\ tab'.head # None /\ ~ tab'.changed =>
           /\ tab.head # None /\ ~ tab.changed /\ e.ev \in {"receive_channel_message", "message_edited"}
           /\ tab.temp = {} => tab'.real = tab.real /\ tab'.temp = {}
      /\ ~ tab.away /\ e.ev = "receive_channel_message" => e.x \notin tab'.temp
  BY <1>1, HeardChanges
<1>4. \A ev, x : Tells(ev, x) => Tells(ev, x)' \/ (e.ev = ev /\ e.x = x)
  BY <1>2 DEF Tells
<1>5. \A op, x, pcs : InProgress(op, x, pcs)' <=> InProgress(op, x, pcs)
  BY <1>2 DEF InProgress
<1>6. InOrder' /\ GoneTrue'
  BY <1>1, HearOrder DEF SInv
<1>7. FacesRight'
  <2> SUFFICES ASSUME lost \subseteq {"emptied"}, table.exists, ~ behind, ~ tab.away
               PROVE  HeadRight(tab.head)' /\ RowRight(tab.row)'
    BY <1>2, <1>3 DEF FacesRight
  <2>1. HeadRight(tab.head) /\ RowRight(tab.row)
    BY DEF SInv, FacesRight
  <2> QED
    BY <1>1, <2>1, HearFaces
<1>8. GoneNoted'
  <2>1. GoneDue => GoneDue' \/ (e.ev = "message_deleted" /\ e.x = Whole)
    BY <1>4, <1>5 DEF GoneDue
  <2> QED
    BY <1>2, <1>3, <2>1 DEF SInv, GoneNoted, Spared
<1>9. Shown'
  <2>1. e.ev = "message_deleted" /\ e.x = Whole => ~ table.exists
    BY <1>2 DEF SInv, GoneTrue, GoneDue, Tells
  <2>2. WholeAsked' <=> WholeAsked
    BY <1>5 DEF WholeAsked
  <2> QED
    BY <1>2, <1>3, <2>1, <2>2 DEF SInv, Shown
<1>10. TempDue'
  <2> SUFFICES ASSUME lost \subseteq {"emptied"}, table.exists, ~ tab.away, NEW x \in tab'.temp
               PROVE  ReplyDue(x)'
    BY <1>2, <1>3 DEF TempDue
  <2>1. ReplyDue(x)
    BY <1>3 DEF SInv, TempDue
  <2> QED
    BY <1>3, <1>4, <1>5, <2>1 DEF ReplyDue
<1>11. DrawerRight'
  <2> SUFFICES ASSUME lost \subseteq {"ghost"}, table.exists, tab'.head # None, ~ tab'.changed
               PROVE  DrawerRight'
    BY <1>2 DEF DrawerRight
  <2>1. NumberOwed => NumberOwed'
    BY <1>2, <1>3 DEF NumberOwed, CallsAt, Said, OfKinds
  <2> QED
    BY <1>2, <1>3, <2>1 DEF SInv, DrawerRight, Asks, Showing
<1>12. NoneLeft'
  <2> SUFFICES ASSUME Spared, table.exists, tab'.head # None, ~ tab'.changed
               PROVE  NoneLeft'
    BY <1>2 DEF NoneLeft, Spared
  <2>1. \A x : Alive(x) => Alive(x)'
    BY <1>2, <1>3, <1>4, <1>5 DEF Alive
  <2> QED
    BY <1>2, <1>3, <2>1 DEF SInv, NoneLeft, Asks, Showing
<1> QED
  BY <1>6, <1>7, <1>8, <1>9, <1>10, <1>11, <1>12 DEF SInv

LEMMA ViewingSafe ==
  ASSUME TInv, Remembered, SInv, Viewing
  PROVE  SInv'
  BY OpenSafe, CloseSafe, LeaveSafe, ReturnSafe, FetchSafe, AnswerRepliesSafe, SetThreadSafe, AnswerHistorySafe,
     SetMessagesSafe, HearSafe DEF Viewing

----------------------------------------------------------------------------
(* Nothing is due when nothing is under way                                *)

LEMMA SafeStart == Init => SInv
<1> SUFFICES ASSUME Init PROVE SInv
  OBVIOUS
<1>1. /\ calls = << >> /\ down = << >> /\ drawer = << >> /\ history = Idle /\ table.exists
      /\ tab.row = TheFace /\ tab.head = None /\ tab.temp = {}
      /\ told = read /\ read.count = Earlier /\ read.reactions = {} /\ read.text = 0
      /\ table.replies = 1 .. Earlier /\ table.reacts = {} /\ table.text = 0
  BY DEF Init
<1>2. TInv
  BY TypesStart
<1>3. TheFace # None /\ TheFace.replies = Size /\ TheFace.reacts = table.reacts /\ TheFace.text = table.text
  BY <1>2, TheFaceIs DEF Size
<1>4. Range(calls) = {} /\ Range(down) = {}
  BY <1>1 DEF Range
<1>7. Size = Earlier
  BY <1>1, CountTo, BoundsAssumption DEF Size
<1>5. InOrder /\ GoneTrue
  BY <1>1, <1>4, <1>7 DEF InOrder, CountTrue, ReactionsTrue, TextTrue, CallsAt, Ends, GoneTrue, GoneDue, InProgress, Tells
<1>6. FacesRight /\ GoneNoted /\ Shown /\ TempDue /\ DrawerRight /\ NoneLeft
  BY <1>1, <1>3 DEF FacesRight, HeadRight, RowRight, GoneNoted, Shown, TempDue, DrawerRight, NoneLeft, Idle
<1> QED
  BY <1>5, <1>6 DEF SInv

LEMMA SafeStays == TInv /\ Remembered /\ SInv /\ [Next]_vars => SInv'
<1> SUFFICES ASSUME TInv, Remembered, SInv, [Next]_vars PROVE SInv'
  OBVIOUS
<1>1. CASE Next
  BY <1>1, AskingSafe, ViewingSafe, ServingSafe DEF Next
<1>2. CASE UNCHANGED vars
  <2>1. /\ UNCHANGED <<table, calls, down, tab, drawer, history, behind, lost>>
        /\ NewsKept /\ read' = read /\ told' = told
    BY <1>2, NewsStay DEF vars
  <2>2. InOrder' /\ GoneTrue' /\ GoneKept /\ DuesKept
    BY <2>1, UntoldOrder DEF SInv
  <2> QED
    BY <2>1, <2>2, WatchedStays DEF SInv
<1> QED
  BY <1>1, <1>2

LEMMA NothingDue ==
  ASSUME Quiet
  PROVE  /\ CountDue <=> told.count # read.count
         /\ ReactionsDue <=> told.reactions # read.reactions
         /\ TextDue <=> told.text # read.text
         /\ ~ NumberOwed /\ ~ GoneDue /\ ~ WholeAsked
         /\ \A x : ~ ReplyDue(x) /\ (Alive(x) => x \in table.replies)
<1>1. Range(calls) = {} /\ Range(down) = {}
  BY DEF Quiet, Range
<1> QED
  BY <1>1 DEF CountDue, ReactionsDue, TextDue, NumberOwed, GoneDue, WholeAsked, ReplyDue, Alive, CallsAt,
     InProgress, Said, Tells

LEMMA ListFollows == TInv /\ SInv => ListSettles
<1> SUFFICES ASSUME TInv, SInv, Quiet, lost \subseteq {"emptied"}, ~ behind, ~ tab.away
             PROVE  /\ tab.row # None <=> table.exists
                    /\ tab.head # None => table.exists
                    /\ tab.temp = {}
                    /\ \A f \in {tab.row, tab.head} \ {None} :
                         /\ told.count = read.count => f.replies = Cardinality(table.replies)
                         /\ told.reactions = read.reactions => f.reacts = table.reacts
                    /\ tab.row # None /\ told.text = read.text => tab.row.text = table.text
  BY DEF ListSettles
<1>1. /\ CountDue <=> told.count # read.count
      /\ ReactionsDue <=> told.reactions # read.reactions
      /\ TextDue <=> told.text # read.text
      /\ ~ GoneDue /\ ~ WholeAsked /\ \A x : ~ ReplyDue(x)
  BY NothingDue
<1>2. CASE ~ table.exists
  BY <1>1, <1>2 DEF SInv, GoneNoted, Spared, TInv, Views
<1>3. CASE table.exists
  <2>1. HeadRight(tab.head) /\ RowRight(tab.row) /\ HeadRight(tab.row)
    BY <1>3 DEF SInv, FacesRight, RowRight
  <2>2. tab.row # None /\ tab.temp = {}
    BY <1>1, <1>3 DEF SInv, Shown, TempDue, Quiet, Idle
  <2> QED
    BY <1>1, <1>3, <2>1, <2>2 DEF RowRight, HeadRight, Size
<1> QED
  BY <1>2, <1>3

LEMMA DrawerFollows == TInv /\ SInv => DrawerSettles
<1> SUFFICES ASSUME TInv, SInv, Quiet, tab.head # None, told.replies = read.replies,
                    behind => table.exists
             PROVE  /\ lost \subseteq {"count", "emptied", "ghost"} => tab.real \subseteq table.replies
                    /\ lost \subseteq {"ghost"} => tab.real = table.replies /\ tab.temp = {}
  BY DEF DrawerSettles
<1>1. /\ ~ NumberOwed /\ ~ GoneDue /\ \A x : Alive(x) => x \in table.replies
      /\ drawer = << >> /\ ~ tab.changed
  BY NothingDue DEF Quiet
<1>2. ~ Asks /\ ~ Showing
  BY <1>1 DEF Asks, Showing, Range
<1>3. lost \subseteq {"count", "emptied", "ghost"} => table.exists
  BY <1>1 DEF SInv, GoneNoted, Spared
<1> QED
  BY <1>1, <1>2, <1>3 DEF SInv, DrawerRight, NoneLeft, Spared

LEMMA SettlingHolds == Spec => [](TInv /\ Remembered /\ SInv)
<1>1. Init => TInv /\ Remembered /\ SInv
  BY TypesStart, NotesStart, SafeStart
<1>2. TInv /\ Remembered /\ SInv /\ [Next]_vars => (TInv /\ Remembered /\ SInv)'
  BY TypesStay, NotesStay, SafeStays
<1> QED
  BY <1>1, <1>2, PTL DEF Spec

\* However actions, handlers, answers and failures interleave, the list shows the
\* message just while there is one, and its replies, reactions and text as they
\* are in the database once nothing is under way (messageSlice 132-233,
\* channelHandler 129-143, messageActionHandler 197-206), whatever two handlers
\* that overlap tell in the wrong order of another of the three.
THEOREM ListIsSettled == Spec => []ListSettles
<1> QED
  BY SettlingHolds, ListFollows, PTL

\* An open drawer then shows just the replies there are, even of a list that is
\* old, if the answer read last was shown last; a handler that fails between
\* what it tells and what it counts may cost it a reply, but leaves it none that
\* was deleted (ThreadDrawer 58-104, useChannelEvents 77-136).
THEOREM DrawerIsSettled == Spec => []DrawerSettles
<1> QED
  BY SettlingHolds, DrawerFollows, PTL
=============================================================================
