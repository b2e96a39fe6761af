--------------------------- MODULE SessionProofs ---------------------------
(***************************************************************************)
(* Theorems about Session, for any tabs, browsers and requests, with every *)
(* overlap, cut and failure: the types, the rotation of the refresh token, *)
(* its single use, the cookie that is not left spent, and the browser that *)
(* stays signed out.                                                       *)
(***************************************************************************)
EXTENDS Session, TLAPS

(***************************************************************************)
(* Every variable keeps its type.                                          *)
(***************************************************************************)
LEMMA TypeInit == Init => TypeOK
  BY HomeAssumption DEF Init, TypeOK, NoToken, Token

\* A request that is answered, or matched, stays a request.
LEMMA AnswerType ==
  ASSUME TypeOK, NEW s \in Slots, request[s] # Idle, NEW ok \in BOOLEAN,
         NEW sets \in Token \cup {Keep}, UNCHANGED minted,
         Answer(s, ok, sets) \/ Match(s)
  PROVE  request' \in [Slots -> Request \cup {Idle}]'
<1>1. request[s] \in Request
  BY DEF TypeOK
<1>2. Request' = Request
  BY DEF Request, RequestOver, Token
<1>3. CASE Answer(s, ok, sets)
  <2>1. [request[s] EXCEPT !.pc = "answered", !.ok = ok, !.sets = sets] \in Request
    BY <1>1 DEF Request, RequestOver
  <2>2. request' = [request EXCEPT ![s] =
                      [request[s] EXCEPT !.pc = "answered", !.ok = ok, !.sets = sets]]
    BY <1>1, <1>3 DEF Answer, TypeOK, Request, RequestOver
  <2> QED
    BY <1>2, <2>1, <2>2 DEF TypeOK
<1>4. CASE Match(s)
  <2>1. [request[s] EXCEPT !.pc = "matched"] \in Request
    BY <1>1 DEF Request, RequestOver
  <2> QED
    BY <1>2, <1>4, <2>1 DEF TypeOK, Match
<1> QED
  BY <1>3, <1>4

LEMMA TypeStep == TypeOK /\ [Next]_vars => TypeOK'
<1> SUFFICES ASSUME TypeOK, [Next]_vars PROVE TypeOK'
  OBVIOUS
<1> USE DEF TypeOK
<1>1. ASSUME NEW s \in Slots, NEW t \in Tabs, NEW op \in Op, Send(s, t, op) PROVE TypeOK'
  <2>1. cookie[Home[t]] \in Token
    BY HomeAssumption
  <2>2. shared' \subseteq Token /\ acts' \in Nat
    BY <1>1, <2>1 DEF Send
  <2> QED
    BY <1>1, <2>1, <2>2 DEF Send, Request, RequestOver, Token
<1>2. ASSUME NEW s \in Slots, NEW t \in Tabs, Refresh(s, t) \/ Login(s, t) \/ Logout(s, t)
      PROVE  TypeOK'
  BY <1>1, <1>2 DEF Refresh, Login, Logout, Op
<1>3. ASSUME NEW s \in Slots, Authenticate(s) PROVE TypeOK'
  <2>1. request[s] # Idle /\ UNCHANGED <<hash, minted, cookie, tab, acts, past>>
    BY <1>3 DEF Authenticate
  <2>2. NoToken \in Token \cup {Keep} /\ Keep \in Token \cup {Keep}
    BY DEF NoToken, Token
  <2>3. request' \in [Slots -> Request \cup {Idle}]'
    BY <1>3, <2>1, <2>2, AnswerType DEF Authenticate
  <2> QED
    BY <2>1, <2>3 DEF Token, past
<1>4. ASSUME NEW s \in Slots, Mint(s) PROVE TypeOK'
  <2>1. request[s] \in Request
    BY <1>4 DEF Mint
  <2>2. Len(minted) \in Nat /\ minted' \in Seq(Nat) /\ Len(minted') = Len(minted) + 1
    BY <1>4, <2>1 DEF Mint, Request, RequestOver, Token, NoToken
  <2>3. Token \subseteq Token' /\ Request \subseteq Request'
    BY <2>2 DEF Token, Request, RequestOver
  <2>4. /\ Len(minted) + 1 \in Token'
        /\ hash' = Len(minted) + 1
        /\ UNCHANGED <<cookie, tab, acts, past>>
    BY <1>4, <2>2 DEF Mint, Token
  <2> DEFINE answer == [request[s] EXCEPT !.pc = "answered", !.ok = TRUE,
                                          !.sets = Len(minted) + 1]
  <2>5. answer \in Request'
    BY <2>1, <2>3, <2>4 DEF Request, RequestOver
  <2>6. request' = [request EXCEPT ![s] = answer]
    BY <1>4, <2>1 DEF Mint, Answer, Request, RequestOver
  <2>7. request' \in [Slots -> Request \cup {Idle}]'
    BY <2>3, <2>5, <2>6
  <2> QED
    BY <2>2, <2>3, <2>4, <2>7 DEF past
<1>5. ASSUME NEW s \in Slots, Revoke(s) PROVE TypeOK'
  <2>1. request[s] # Idle /\ UNCHANGED <<minted, cookie, tab, acts, past>>
        /\ Answer(s, TRUE, NoToken) /\ hash' = NoToken
    BY <1>5 DEF Revoke
  <2>2. NoToken \in Token \cup {Keep} /\ NoToken \in Token
    BY DEF NoToken, Token
  <2>3. request' \in [Slots -> Request \cup {Idle}]'
    BY <2>1, <2>2, AnswerType
  <2> QED
    BY <2>1, <2>2, <2>3 DEF Token, past
<1>6. ASSUME NEW s \in Slots, Fail(s) PROVE TypeOK'
  <2>1. request[s] # Idle /\ UNCHANGED <<hash, minted, cookie, tab, acts, past>>
    BY <1>6 DEF Fail
  <2>2. Answer(s, FALSE, Keep) \/ Answer(s, FALSE, NoToken)
    BY <1>6 DEF Fail
  <2>3. NoToken \in Token \cup {Keep} /\ Keep \in Token \cup {Keep}
    BY DEF NoToken, Token
  <2>4. request' \in [Slots -> Request \cup {Idle}]'
    BY <2>1, <2>2, <2>3, AnswerType
  <2> QED
    BY <2>1, <2>4 DEF Token, past
<1>7. ASSUME NEW t \in Tabs, RefreshFailed(t) \/ SignedIn(t) \/ SignedOut(t)
      PROVE  tab' \in [Tabs -> [signedIn : BOOLEAN, ready : BOOLEAN]]
  <2>1. ASSUME NEW new \in [signedIn : BOOLEAN, ready : BOOLEAN],
               tab' = [tab EXCEPT ![t] = new]
        PROVE  tab' \in [Tabs -> [signedIn : BOOLEAN, ready : BOOLEAN]]
    BY <2>1
  <2>2. CASE RefreshFailed(t)
    <3>1. PICK stays \in BOOLEAN :
            tab' = [tab EXCEPT ![t] = [signedIn |-> tab[t].signedIn /\ stays, ready |-> TRUE]]
      BY <2>2 DEF RefreshFailed
    <3>2. (tab[t].signedIn /\ stays) \in BOOLEAN
      BY Zenon
    <3>3. [signedIn |-> tab[t].signedIn /\ stays, ready |-> TRUE]
            \in [signedIn : BOOLEAN, ready : BOOLEAN]
      BY <3>2, Zenon
    <3> QED
      BY <2>1, <3>1, <3>3, Zenon
  <2>3. CASE SignedIn(t) \/ SignedOut(t)
    BY <2>1, <2>3 DEF SignedIn, SignedOut
  <2> QED
    BY <1>7, <2>2, <2>3
<1>8. ASSUME NEW s \in Slots, Arrive(s) PROVE TypeOK'
  <2>1. request[s] \in Request
    BY <1>8 DEF Arrive
  <2>2. tab' \in [Tabs -> [signedIn : BOOLEAN, ready : BOOLEAN]]
    BY <1>7, <1>8, <2>1 DEF Arrive, Request, RequestOver
  <2>3. cookie' \in [Browsers -> Token]
    BY <1>8, <2>1 DEF Arrive, Request, RequestOver
  <2>4. lost' \subseteq Token /\ UNCHANGED shared
    BY <1>8, <2>1 DEF Arrive, Request, RequestOver
  <2>5. left' \subseteq Browsers
    <3>1. Home[request[s].tab] \in Browsers
      BY <2>1, HomeAssumption DEF Request, RequestOver
    <3>2. left' \in {left, left \cup {Home[request[s].tab]}, left \ {Home[request[s].tab]}}
      BY <1>8 DEF Arrive
    <3> QED
      BY <3>1, <3>2
  <2> QED
    BY <1>8, <2>2, <2>3, <2>4, <2>5 DEF Arrive, Token, Request, RequestOver
<1>9. ASSUME NEW s \in Slots, Cut(s) PROVE TypeOK'
  <2>1. request[s] \in Request
    BY <1>9 DEF Cut
  <2>2. tab' \in [Tabs -> [signedIn : BOOLEAN, ready : BOOLEAN]]
    BY <1>7, <1>9, <2>1 DEF Cut, Request, RequestOver
  <2>3. [request[s] EXCEPT !.cut = TRUE] \in Request
    BY <2>1 DEF Request, RequestOver
  <2>4. request' \in [Slots -> Request \cup {Idle}]
    BY <1>9, <2>3 DEF Cut
  <2>5. UNCHANGED <<hash, minted, cookie, past>> /\ acts' \in Nat
    BY <1>9 DEF Cut
  <2> QED
    BY <2>2, <2>4, <2>5 DEF past, Token, Request, RequestOver
<1>10. ASSUME NEW t \in Tabs, Reload(t) PROVE TypeOK'
  <2>1. ASSUME NEW s \in Slots PROVE request'[s] \in Request \cup {Idle}
    <3>1. CASE s \in Waiting(t)
      <4>1. request[s] \in Request
        BY <3>1 DEF Waiting
      <4>2. [request[s] EXCEPT !.cut = TRUE] \in Request
        BY <4>1 DEF Request, RequestOver
      <4> QED
        BY <1>10, <3>1, <4>2 DEF Reload
    <3>2. CASE s \notin Waiting(t)
      BY <1>10, <3>2 DEF Reload
    <3> QED
      BY <3>1, <3>2
  <2>2. request' \in [Slots -> Request \cup {Idle}]
    BY <1>10, <2>1 DEF Reload
  <2>3. tab' \in [Tabs -> [signedIn : BOOLEAN, ready : BOOLEAN]] /\ acts' \in Nat
    BY <1>10 DEF Reload
  <2> QED
    BY <1>10, <2>2, <2>3 DEF Reload, past, Token, Request, RequestOver
<1>11. CASE UNCHANGED vars
  BY <1>11 DEF vars, past, Token, Request, RequestOver
<1> QED
  BY <1>2, <1>3, <1>4, <1>5, <1>6, <1>8, <1>9, <1>10, <1>11 DEF Next, Browse, Serve

\* Every variable keeps its type, for any tabs, browsers and slots.
THEOREM TypeCorrect == Spec => []TypeOK
  BY TypeInit, TypeStep, PTL DEF Spec

----------------------------------------------------------------------------
(***************************************************************************)
(* Rotation.  A token is only exchanged for younger ones, and the one the  *)
(* server accepts is the youngest it has stored.                           *)
(***************************************************************************)
Older == \A n \in DOMAIN minted : minted[n] < n

RotationInv == TypeOK /\ Older /\ Rotated

LEMMA RotationInit == Init => RotationInv
<1> SUFFICES ASSUME Init PROVE RotationInv
  OBVIOUS
<1>1. TypeOK
  BY TypeInit
<1> QED
  BY <1>1 DEF RotationInv, Init, Older, Rotated, NoToken

\* What Mint adds: one token, younger than every token there is.
LEMMA MintExtends ==
  ASSUME TypeOK, NEW s \in Slots, Mint(s)
  PROVE  /\ request[s] \in Request
         /\ Len(minted) \in Nat
         /\ Len(minted') = Len(minted) + 1
         /\ DOMAIN minted = 1 .. Len(minted)
         /\ DOMAIN minted' = 1 .. (Len(minted) + 1)
         /\ \A n \in DOMAIN minted : minted'[n] = minted[n]
         /\ minted'[Len(minted) + 1] =
              IF request[s].op = "refresh" THEN request[s].carries ELSE NoToken
  BY DEF TypeOK, Mint, Request, RequestOver, Token, NoToken

\* Only Mint touches minted; hash is otherwise kept or erased.
LEMMA OnlyMintMints ==
  ASSUME Next, \A s \in Slots : ~ Mint(s)
  PROVE  minted' = minted /\ hash' \in {hash, NoToken}
  BY DEF Next, Browse, Serve, Refresh, Login, Logout, Send, Authenticate, Revoke, Fail,
         Arrive, Cut, Reload

LEMMA RotationStep == RotationInv /\ [Next]_vars => RotationInv'
<1> SUFFICES ASSUME RotationInv, [Next]_vars PROVE RotationInv'
  OBVIOUS
<1>1. TypeOK'
  BY TypeStep DEF RotationInv
<1>2. CASE \E s \in Slots : Mint(s)
  <2> PICK s \in Slots : Mint(s)
    BY <1>2
  <2>1. Older'
    BY MintExtends DEF RotationInv, Older, Request, RequestOver, Token, NoToken
  <2>2. hash' = Len(minted) + 1
    BY DEF Mint
  <2> QED
    BY <1>1, <2>1, <2>2, MintExtends DEF RotationInv, Older, Rotated
<1>3. CASE Next /\ \A s \in Slots : ~ Mint(s)
  BY <1>1, <1>3, OnlyMintMints DEF RotationInv, Older, Rotated
<1>4. CASE UNCHANGED vars
  BY <1>1, <1>4 DEF RotationInv, Older, Rotated, vars
<1> QED
  BY <1>2, <1>3, <1>4

\* A token that was exchanged is never accepted again, with any number of
\* tabs and browsers, and whatever is cut off or reloaded.
THEOREM RotationHolds == Spec => []Rotated
<1>1. RotationInv => Rotated
  BY DEF RotationInv
<1> QED
  BY <1>1, RotationInit, RotationStep, PTL DEF Spec
----------------------------------------------------------------------------
(***************************************************************************)
(* What each kind of step does to the requests.                            *)
(***************************************************************************)
Exchanged(c) == \E n \in DOMAIN minted : minted[n] = c

Refreshing(s) == request[s] # Idle /\ request[s].op = "refresh"

Live(s) == request[s] # Idle /\ ~ request[s].cut

LEMMA SendFrame ==
  ASSUME TypeOK, NEW s \in Slots, NEW t \in Tabs, NEW op \in Op, Send(s, t, op)
  PROVE  /\ request[s] = Idle /\ Home[t] \in Browsers
         /\ request'[s] # Idle
         /\ request'[s].tab = t /\ request'[s].op = op /\ request'[s].carries = cookie[Home[t]]
         /\ request'[s].pc = "sent" /\ request'[s].sets = Keep /\ ~ request'[s].cut /\ ~ request'[s].ok
         /\ \A u \in Slots : u # s => request'[u] = request[u]
         /\ UNCHANGED <<hash, minted, cookie, tab, lost, left>>
<1> DEFINE new == [tab |-> t, op |-> op, carries |-> cookie[Home[t]], pc |-> "sent",
                   sets |-> Keep, ok |-> FALSE, cut |-> FALSE]
<1>1. /\ request[s] = Idle /\ request' = [request EXCEPT ![s] = new]
      /\ UNCHANGED <<hash, minted, cookie, tab, lost, left>> /\ Home[t] \in Browsers
  BY HomeAssumption DEF Send
<1>2. request'[s] = new /\ \A u \in Slots : u # s => request'[u] = request[u]
  BY <1>1 DEF TypeOK
<1>3. new # Idle
  <2>1. new \in RequestOver(Nat)
    BY <1>1 DEF RequestOver, TypeOK, Token, Op
  <2> QED
    BY <2>1, IdleAssumption
<1>4. /\ new.tab = t /\ new.op = op /\ new.carries = cookie[Home[t]] /\ new.pc = "sent"
      /\ new.sets = Keep /\ new.cut = FALSE /\ new.ok = FALSE
  OBVIOUS
<1> HIDE DEF new
<1> QED
  BY <1>1, <1>2, <1>3, <1>4

\* An answer changes the outcome of its request and of no other.
LEMMA AnswerFrame ==
  ASSUME TypeOK, NEW s \in Slots, request[s] # Idle, NEW ok \in BOOLEAN,
         NEW sets \in Nat \cup {Keep}, Answer(s, ok, sets)
  PROVE  /\ \A u \in Slots : request'[u] # Idle <=> request[u] # Idle
         /\ \A u \in Slots : u # s => request'[u] = request[u]
         /\ request'[s].tab = request[s].tab /\ request'[s].op = request[s].op
         /\ request'[s].carries = request[s].carries /\ request'[s].cut = request[s].cut
         /\ request'[s].pc = "answered" /\ request'[s].sets = sets /\ request'[s].ok = ok
<1>1. request[s] \in Request
  BY DEF TypeOK
<1>2. request' = [request EXCEPT ![s] =
                    [request[s] EXCEPT !.pc = "answered", !.ok = ok, !.sets = sets]]
  BY <1>1 DEF Answer, TypeOK, Request, RequestOver
<1>3. request'[s] = [request[s] EXCEPT !.pc = "answered", !.ok = ok, !.sets = sets]
  BY <1>2 DEF TypeOK
<1>4. request'[s] \in RequestOver(Nat)
  <2>1. Token \subseteq Nat
    BY DEF Token
  <2> QED
    BY <1>1, <1>3, <2>1 DEF Request, RequestOver
<1> QED
  BY IdleAssumption, <1>1, <1>2, <1>3, <1>4 DEF TypeOK, Request, RequestOver

LEMMA MatchFrame ==
  ASSUME TypeOK, NEW s \in Slots, request[s] # Idle, Match(s)
  PROVE  /\ \A u \in Slots : request'[u] # Idle <=> request[u] # Idle
         /\ \A u \in Slots : u # s => request'[u] = request[u]
         /\ request'[s].tab = request[s].tab /\ request'[s].op = request[s].op
         /\ request'[s].carries = request[s].carries /\ request'[s].cut = request[s].cut
         /\ request'[s].pc = "matched" /\ request'[s].sets = request[s].sets /\ request'[s].ok = request[s].ok
<1>1. request[s] \in Request
  BY DEF TypeOK
<1>2. request'[s] = [request[s] EXCEPT !.pc = "matched"]
  BY DEF Match, TypeOK
<1>3. request'[s] # Idle
  <2>1. Token \subseteq Nat
    BY DEF Token
  <2>2. request'[s] \in RequestOver(Nat)
    BY <1>1, <1>2, <2>1 DEF Request, RequestOver
  <2> QED
    BY <2>2, IdleAssumption
<1>4. \A u \in Slots : u # s => request'[u] = request[u]
  BY DEF Match, TypeOK
<1> QED
  BY <1>1, <1>2, <1>3, <1>4 DEF Request, RequestOver

\* The server's steps but Mint: a request is matched, or answered without a token.
LEMMA ServerFrame ==
  ASSUME TypeOK, NEW s \in Slots, Authenticate(s) \/ Revoke(s) \/ Fail(s)
  PROVE  /\ request[s] # Idle /\ request[s].pc # "answered"
         /\ UNCHANGED <<minted, cookie, tab, past>> /\ hash' \in {hash, NoToken}
         /\ \A u \in Slots : request'[u] # Idle <=> request[u] # Idle
         /\ \A u \in Slots : u # s => request'[u] = request[u]
         /\ request'[s].tab = request[s].tab /\ request'[s].op = request[s].op
         /\ request'[s].carries = request[s].carries /\ request'[s].cut = request[s].cut
         /\ \/ /\ request'[s].pc = "answered" /\ request'[s].sets \in {NoToken, Keep}
               /\ request[s].op = "refresh" => ~ request'[s].ok
               /\ request[s].op = "logout" /\ request'[s].ok =>
                    /\ request'[s].sets = NoToken
                    /\ request[s].carries = NoToken \/ request[s].carries # hash'
               /\ request[s].op = "login" => ~ request'[s].ok
            \/ /\ request'[s].pc = "matched" /\ request'[s].sets = request[s].sets
               /\ request[s].pc = "sent" /\ hash' = hash
               /\ request[s].op = "refresh" => request[s].carries = hash /\ hash # NoToken
<1>1. /\ request[s] # Idle /\ request[s].pc # "answered"
      /\ UNCHANGED <<minted, cookie, tab, past>> /\ hash' \in {hash, NoToken}
  BY DEF Authenticate, Revoke, Fail
<1>2. request[s] \in Request /\ NoToken \in Nat
  BY <1>1 DEF TypeOK, NoToken
<1>3. \/ Match(s) /\ request[s].pc = "sent" /\ hash' = hash
                  /\ (request[s].op = "refresh" => request[s].carries = hash /\ hash # NoToken)
      \/ Answer(s, FALSE, NoToken) \/ Answer(s, FALSE, Keep)
      \/ Answer(s, TRUE, NoToken) /\ request[s].op = "logout"
                                  /\ (request[s].carries = NoToken \/ request[s].carries # hash')
  BY DEF Authenticate, Revoke, Fail
<1>4. CASE Match(s) /\ request[s].pc = "sent" /\ hash' = hash
                    /\ (request[s].op = "refresh" => request[s].carries = hash /\ hash # NoToken)
  BY <1>1, <1>4, MatchFrame
<1>5. CASE Answer(s, FALSE, NoToken) \/ Answer(s, FALSE, Keep)
  BY <1>1, <1>2, <1>5, AnswerFrame
<1>6. CASE Answer(s, TRUE, NoToken) /\ request[s].op = "logout"
                                    /\ (request[s].carries = NoToken \/ request[s].carries # hash')
  BY <1>1, <1>2, <1>6, AnswerFrame
<1> QED
  BY <1>3, <1>4, <1>5, <1>6

LEMMA MintFrame ==
  ASSUME TypeOK, NEW s \in Slots, Mint(s), NEW young, young = Len(minted) + 1
  PROVE  /\ request[s] # Idle /\ request[s].pc = "matched" /\ request[s].op \in {"refresh", "login"}
         /\ request[s].tab \in Tabs /\ young \in Nat
         /\ UNCHANGED <<cookie, tab, past>> /\ hash' = young
         /\ \A u \in Slots : request'[u] # Idle <=> request[u] # Idle
         /\ \A u \in Slots : u # s => request'[u] = request[u]
         /\ request'[s].tab = request[s].tab /\ request'[s].op = request[s].op
         /\ request'[s].carries = request[s].carries /\ request'[s].cut = request[s].cut
         /\ request'[s].pc = "answered" /\ request'[s].sets = young /\ request'[s].ok
<1>1. /\ request[s] # Idle /\ request[s].pc = "matched" /\ request[s].op \in {"refresh", "login"}
      /\ Answer(s, TRUE, young) /\ UNCHANGED <<cookie, tab, past>> /\ hash' = young
  BY DEF Mint
<1>2. request[s] \in Request /\ young \in Nat
  BY MintExtends
<1>3. request[s].tab \in Tabs
  BY <1>2 DEF Request, RequestOver
<1> QED
  BY <1>1, <1>2, <1>3, AnswerFrame

LEMMA ArriveFrame ==
  ASSUME TypeOK, NEW s \in Slots, Arrive(s)
  PROVE  /\ request[s] # Idle /\ request[s] \in Request /\ request[s].pc = "answered"
         /\ Home[request[s].tab] \in Browsers
         /\ request'[s] = Idle /\ \A u \in Slots : u # s => request'[u] = request[u]
         /\ UNCHANGED <<hash, minted, shared>>
         /\ \A b \in Browsers :
              cookie'[b] = IF b = Home[request[s].tab] /\ ~ request[s].cut /\ request[s].sets # Keep
                             THEN request[s].sets ELSE cookie[b]
<1>1. /\ request[s] # Idle /\ request[s] \in Request /\ request[s].pc = "answered"
      /\ request' = [request EXCEPT ![s] = Idle] /\ UNCHANGED <<hash, minted, shared>>
  BY DEF Arrive, TypeOK
<1>2. Home[request[s].tab] \in Browsers
  BY <1>1, HomeAssumption DEF Request, RequestOver
<1>3. cookie' = IF request[s].cut \/ request[s].sets = Keep THEN cookie
                  ELSE [cookie EXCEPT ![Home[request[s].tab]] = request[s].sets]
  BY DEF Arrive
<1>4. \A b \in Browsers :
        cookie'[b] = IF b = Home[request[s].tab] /\ ~ request[s].cut /\ request[s].sets # Keep
                       THEN request[s].sets ELSE cookie[b]
  BY <1>3 DEF TypeOK
<1> QED
  BY <1>1, <1>2, <1>4 DEF TypeOK

\* A cut or a reload changes no request but that its answer will be lost.
LEMMA CutFrame ==
  ASSUME TypeOK, (\E s \in Slots : Cut(s)) \/ (\E t \in Tabs : Reload(t))
  PROVE  /\ UNCHANGED <<hash, minted, cookie, past>>
         /\ \A u \in Slots :
              /\ request'[u] # Idle <=> request[u] # Idle
              /\ request[u] # Idle =>
                   /\ request'[u].tab = request[u].tab /\ request'[u].op = request[u].op
                   /\ request'[u].carries = request[u].carries /\ request'[u].pc = request[u].pc
                   /\ request'[u].sets = request[u].sets /\ request'[u].ok = request[u].ok
                   /\ request[u].cut => request'[u].cut
<1>1. UNCHANGED <<hash, minted, cookie, past>>
  BY DEF Cut, Reload
<1>2. ASSUME NEW u \in Slots
      PROVE  request'[u] = request[u] \/ (request[u] # Idle /\ request'[u] = [request[u] EXCEPT !.cut = TRUE])
  <2>1. ASSUME NEW s \in Slots, Cut(s)
        PROVE  request'[u] = request[u] \/ (request[u] # Idle /\ request'[u] = [request[u] EXCEPT !.cut = TRUE])
    BY <2>1 DEF Cut, TypeOK
  <2>2. ASSUME NEW t \in Tabs, Reload(t)
        PROVE  request'[u] = request[u] \/ (request[u] # Idle /\ request'[u] = [request[u] EXCEPT !.cut = TRUE])
    BY <2>2 DEF Reload, Waiting
  <2> QED
    BY <2>1, <2>2
<1>3. ASSUME NEW u \in Slots, request[u] # Idle, NEW q, q = [request[u] EXCEPT !.cut = TRUE]
      PROVE  /\ q # Idle /\ q.tab = request[u].tab /\ q.op = request[u].op /\ q.carries = request[u].carries
             /\ q.pc = request[u].pc /\ q.sets = request[u].sets /\ q.ok = request[u].ok /\ q.cut
  <2>1. request[u] \in Request
    BY <1>3 DEF TypeOK
  <2>2. q \in RequestOver(Nat)
    <3>1. Token \subseteq Nat
      BY DEF Token
    <3> QED
      BY <1>3, <2>1, <3>1 DEF Request, RequestOver
  <2> QED
    BY <1>3, <2>1, <2>2, IdleAssumption DEF Request, RequestOver
<1> QED
  BY <1>1, <1>2, <1>3

----------------------------------------------------------------------------
(***************************************************************************)
(* Single use.  Two refreshes with one token are under way on the server   *)
(* only if the token is noted as shared: a tab sends no second one.        *)
(***************************************************************************)
Served(s) == Refreshing(s) /\ request[s].pc \in {"sent", "matched"}

NotedTwins ==
    \A s, u \in Slots :
      Served(s) /\ Served(u) /\ request[s].carries = request[u].carries =>
        s = u \/ request[s].carries \in shared

LetThrough ==
    \A s \in Slots :
      Refreshing(s) /\ request[s].pc = "matched" =>
        /\ request[s].carries # NoToken
        /\ Exchanged(request[s].carries) => request[s].carries \in shared

SingleUseInv == RotationInv /\ NotedTwins /\ LetThrough /\ SingleUse

LEMMA SingleUseInit == Init => SingleUseInv
<1> SUFFICES ASSUME Init PROVE SingleUseInv
  OBVIOUS
<1>1. RotationInv
  BY RotationInit
<1> QED
  BY <1>1 DEF Init, SingleUseInv, NotedTwins, LetThrough, SingleUse, Served, Refreshing

\* The steps after which nobody asks for more than before.
LEMMA NoMoreServed ==
  ASSUME SingleUseInv, UNCHANGED <<minted, shared>>,
         \A u \in Slots : Served(u)' =>
           /\ Served(u) /\ request'[u].carries = request[u].carries
           /\ request'[u].pc = request[u].pc \/ (request[u].carries = hash /\ hash # NoToken)
  PROVE  NotedTwins' /\ LetThrough' /\ SingleUse'
<1> USE DEF SingleUseInv, RotationInv
<1>1. NotedTwins'
  BY DEF NotedTwins
<1>2. LetThrough'
  <2> SUFFICES ASSUME NEW u \in Slots, Refreshing(u)', request'[u].pc = "matched"
               PROVE  /\ request'[u].carries # NoToken
                      /\ Exchanged(request[u].carries)' => request'[u].carries \in shared'
    BY DEF LetThrough
  <2>1. /\ Refreshing(u) /\ request'[u].carries = request[u].carries
        /\ request[u].pc = "matched" \/ (request[u].carries = hash /\ hash # NoToken)
    BY DEF Served, Refreshing
  <2> QED
    BY <2>1 DEF LetThrough, Exchanged, Rotated
<1> QED
  BY <1>1, <1>2 DEF SingleUse

\* A request that would be a second one is noted, or not sent.
LEMMA BrowseStep ==
  ASSUME SingleUseInv, NEW s \in Slots, NEW t \in Tabs,
         Refresh(s, t) \/ Login(s, t) \/ Logout(s, t)
  PROVE  NotedTwins' /\ LetThrough' /\ SingleUse'
<1> USE DEF SingleUseInv, RotationInv
<1>1. PICK op \in Op : Send(s, t, op) /\ (op = "refresh" => ~ Pending(t, "refresh"))
  BY DEF Refresh, Login, Logout, Op
<1>2. /\ request[s] = Idle /\ request'[s] # Idle
      /\ request'[s].op = op /\ request'[s].carries = cookie[Home[t]] /\ request'[s].pc = "sent"
      /\ \A u \in Slots : u # s => request'[u] = request[u]
      /\ UNCHANGED minted
  BY <1>1, SendFrame
<1>3. /\ shared \subseteq shared'
      /\ op = "refresh" /\ (\E u \in Slots : Rival(u, t, cookie[Home[t]])) => cookie[Home[t]] \in shared'
  BY <1>1 DEF Send
<1>4. ASSUME NEW u \in Slots, Served(u), request[u].carries = cookie[Home[t]], op = "refresh"
      PROVE  cookie[Home[t]] \in shared'
  <2>1. ~ (request[u].tab = t /\ ~ request[u].cut)
    BY <1>1, <1>4 DEF Pending, Waiting, Served, Refreshing
  <2>2. Rival(u, t, cookie[Home[t]])
    BY <1>4, <2>1 DEF Rival, Served, Refreshing
  <2> QED
    BY <1>3, <1>4, <2>2
<1>5. NotedTwins'
  <2> SUFFICES ASSUME NEW u \in Slots, NEW v \in Slots, Served(u)', Served(v)', u # v,
                      request'[u].carries = request'[v].carries
               PROVE  request'[u].carries \in shared'
    BY DEF NotedTwins
  <2>1. CASE u # s /\ v # s
    BY <1>2, <1>3, <2>1 DEF NotedTwins, Served, Refreshing
  <2>2. CASE u = s
    BY <1>2, <1>4, <2>2 DEF Served, Refreshing
  <2>3. CASE v = s
    BY <1>2, <1>4, <2>3 DEF Served, Refreshing
  <2> QED
    BY <2>1, <2>2, <2>3
<1>6. LetThrough'
  BY <1>2, <1>3 DEF LetThrough, Refreshing, Exchanged
<1> QED
  BY <1>2, <1>3, <1>5, <1>6 DEF SingleUse

\* What is exchanged after a token is made: what was, and what it is made from.
LEMMA NowExchanged ==
  ASSUME TypeOK, NEW s \in Slots, Mint(s), NEW n \in DOMAIN minted', minted'[n] # NoToken
  PROVE  \/ n \in DOMAIN minted /\ minted'[n] = minted[n]
         \/ n = Len(minted) + 1 /\ request[s].op = "refresh" /\ minted'[n] = request[s].carries
  BY MintExtends DEF NoToken

LEMMA MintStep ==
  ASSUME SingleUseInv, NEW s \in Slots, Mint(s)
  PROVE  NotedTwins' /\ LetThrough' /\ SingleUse'
<1> USE DEF SingleUseInv, RotationInv
<1> DEFINE c == request[s].carries
<1>1. /\ request[s] # Idle /\ request[s].pc = "matched" /\ UNCHANGED shared
      /\ \A u \in Slots : request'[u] # Idle <=> request[u] # Idle
      /\ \A u \in Slots : u # s => request'[u] = request[u]
      /\ request'[s].pc = "answered"
  BY MintFrame DEF past
<1>2. \A u \in Slots : Served(u)' => u # s /\ Served(u) /\ request'[u] = request[u]
  BY <1>1 DEF Served, Refreshing
<1>3. NotedTwins'
  BY <1>1, <1>2 DEF NotedTwins
<1>4. request[s].op = "refresh" => (Exchanged(c) => c \in shared)
  BY <1>1 DEF LetThrough, Refreshing
<1>5. SingleUse'
  <2> SUFFICES ASSUME NEW m \in DOMAIN minted', NEW n \in DOMAIN minted', m # n,
                      minted'[m] = minted'[n], minted'[m] # NoToken
               PROVE  minted'[m] \in shared
    BY <1>1 DEF SingleUse
  <2>1. CASE m \in DOMAIN minted /\ minted'[m] = minted[m] /\ n \in DOMAIN minted /\ minted'[n] = minted[n]
    BY <2>1 DEF SingleUse
  <2>2. CASE /\ request[s].op = "refresh"
             /\ \/ m \in DOMAIN minted /\ minted'[m] = minted[m] /\ minted'[n] = c
                \/ n \in DOMAIN minted /\ minted'[n] = minted[n] /\ minted'[m] = c
    <3>1. Exchanged(c) /\ minted'[m] = c
      BY <2>2 DEF Exchanged
    <3> QED
      BY <1>4, <2>2, <3>1
  <2> QED
    BY <2>1, <2>2, NowExchanged
<1>6. LetThrough'
  <2> SUFFICES ASSUME NEW u \in Slots, Refreshing(u)', request'[u].pc = "matched"
               PROVE  /\ request'[u].carries # NoToken
                      /\ Exchanged(request[u].carries)' => request'[u].carries \in shared
    BY <1>1 DEF LetThrough
  <2>1. u # s /\ Served(u) /\ request'[u] = request[u] /\ request[u].pc = "matched" /\ Refreshing(u)
    BY <1>2 DEF Served, Refreshing
  <2>2. /\ request[u].carries # NoToken
        /\ Exchanged(request[u].carries) => request[u].carries \in shared
    BY <2>1 DEF LetThrough
  <2>3. ASSUME NEW n \in DOMAIN minted', minted'[n] = request[u].carries
        PROVE  request[u].carries \in shared
    <3>1. CASE n \in DOMAIN minted /\ minted'[n] = minted[n]
      BY <2>2, <2>3, <3>1 DEF Exchanged
    <3>2. CASE request[s].op = "refresh" /\ minted'[n] = c
      <4>1. Served(s) /\ request[s].carries = request[u].carries
        BY <1>1, <2>3, <3>2 DEF Served, Refreshing
      <4> QED
        BY <2>1, <4>1 DEF NotedTwins
    <3> QED
      BY <2>2, <2>3, <3>1, <3>2, NowExchanged
  <2>4. Exchanged(request[u].carries)' => request[u].carries \in shared
    BY <2>1, <2>3 DEF Exchanged
  <2> QED
    BY <2>1, <2>2, <2>4
<1> QED
  BY <1>3, <1>5, <1>6

LEMMA SingleUseStep == SingleUseInv /\ [Next]_vars => SingleUseInv'
<1> SUFFICES ASSUME SingleUseInv, [Next]_vars PROVE SingleUseInv'
  OBVIOUS
<1> USE DEF SingleUseInv
<1>1. RotationInv' /\ TypeOK
  BY RotationStep DEF RotationInv
<1>2. CASE Browse
  BY <1>1, <1>2, BrowseStep DEF Browse
<1>3. ASSUME NEW s \in Slots, Mint(s) PROVE SingleUseInv'
  BY <1>1, <1>3, MintStep
<1>4. ASSUME NEW s \in Slots, Authenticate(s) \/ Revoke(s) \/ Fail(s) PROVE SingleUseInv'
  <2>1. UNCHANGED <<minted, shared>>
    BY <1>1, <1>4, ServerFrame DEF past
  <2>2. \A u \in Slots : Served(u)' =>
          /\ Served(u) /\ request'[u].carries = request[u].carries
          /\ request'[u].pc = request[u].pc \/ (request[u].carries = hash /\ hash # NoToken)
    BY <1>1, <1>4, ServerFrame DEF Served, Refreshing
  <2> QED
    BY <1>1, <2>1, <2>2, NoMoreServed
<1>5. ASSUME NEW s \in Slots, Arrive(s) PROVE SingleUseInv'
  <2>1. \A u \in Slots : Served(u)' => Served(u) /\ request'[u] = request[u]
    BY <1>1, <1>5, ArriveFrame DEF Served, Refreshing
  <2>2. UNCHANGED <<minted, shared>>
    BY <1>1, <1>5, ArriveFrame
  <2> QED
    BY <1>1, <2>1, <2>2, NoMoreServed
<1>6. CASE (\E s \in Slots : Cut(s)) \/ (\E t \in Tabs : Reload(t))
  <2>1. UNCHANGED <<minted, shared>>
    BY <1>1, <1>6, CutFrame DEF past
  <2>2. \A u \in Slots : Served(u)' =>
          Served(u) /\ request'[u].carries = request[u].carries /\ request'[u].pc = request[u].pc
    BY <1>1, <1>6, CutFrame DEF Served, Refreshing
  <2> QED
    BY <1>1, <2>1, <2>2, NoMoreServed
<1>7. CASE UNCHANGED vars
  <2>1. UNCHANGED <<minted, shared>> /\ \A u \in Slots : Served(u)' => Served(u) /\ request'[u] = request[u]
    BY <1>7 DEF vars, past, Served, Refreshing
  <2> QED
    BY <1>1, <2>1, NoMoreServed
<1> QED
  BY <1>2, <1>3, <1>4, <1>5, <1>6, <1>7 DEF Next, Serve

\* However many tabs share a cookie and whatever overlaps, fails, is cut off or
\* reloaded, a refresh token is exchanged twice only if another tab, or a page
\* that has forgotten its request, asked with it at the same time.
THEOREM TokensAreUsedOnce == Spec => []SingleUse
<1>1. SingleUseInv => SingleUse
  BY DEF SingleUseInv
<1> QED
  BY <1>1, SingleUseInit, SingleUseStep, PTL DEF Spec
----------------------------------------------------------------------------
(***************************************************************************)
(* No spent cookie.  A token is known to one browser; the answer that      *)
(* brings it is the only place it is in, so it is not exchanged before it  *)
(* arrives; and a browser whose cookie was exchanged has each answer that  *)
(* replaces it under way, unless it was lost.                              *)
(***************************************************************************)
Knows(b, c) ==
    \/ cookie[b] = c
    \/ \E s \in Slots : /\ request[s] # Idle /\ Home[request[s].tab] = b
                        /\ request[s].carries = c \/ request[s].sets = c

OwnTokens ==
    \A b, d \in Browsers, c \in Nat : c # NoToken /\ Knows(b, c) /\ Knows(d, c) => b = d

Brings(s) == request[s] # Idle /\ request[s].sets \notin {Keep, NoToken}

Undelivered ==
    \A s \in Slots : Brings(s) =>
      /\ \A b \in Browsers : cookie[b] # request[s].sets
      /\ \A u \in Slots : request[u] # Idle => request[u].carries # request[s].sets
      /\ \A u \in Slots : Brings(u) /\ request[u].sets = request[s].sets => u = s
      /\ ~ Exchanged(request[s].sets)

\* The answer that brings token n to browser b.
Replacing(b, n) ==
    \E s \in Slots : /\ request[s] # Idle /\ request[s].pc = "answered"
                     /\ request[s].sets = n /\ Home[request[s].tab] = b

SpentIsReplaced ==
    \A b \in Browsers, n \in DOMAIN minted :
      cookie[b] # NoToken /\ minted[n] = cookie[b] => n \in lost \/ Replacing(b, n)

UnspentInv == RotationInv /\ OwnTokens /\ Undelivered /\ SpentIsReplaced

LEMMA UnspentInit == Init => UnspentInv
<1> SUFFICES ASSUME Init PROVE UnspentInv
  OBVIOUS
<1>1. RotationInv
  BY RotationInit
<1> QED
  BY <1>1 DEF Init, UnspentInv, OwnTokens, Knows, Undelivered, SpentIsReplaced, Brings, NoToken

\* The steps that leave cookies alone and let no request bring what it did not:
\* no browser learns of a token, no answer is withdrawn.
LEMMA NothingNew ==
  ASSUME UnspentInv, UNCHANGED <<minted, cookie, lost>>,
         \A u \in Slots : request'[u] # Idle =>
           \/ /\ request[u] # Idle
              /\ request'[u].tab = request[u].tab /\ request'[u].carries = request[u].carries
              /\ request'[u].sets \in {request[u].sets, NoToken, Keep}
           \/ /\ Home[request'[u].tab] \in Browsers /\ request'[u].sets = Keep
              /\ request'[u].carries = cookie[Home[request'[u].tab]],
         \A u \in Slots : request[u] # Idle /\ request[u].pc = "answered" =>
           /\ request'[u] # Idle /\ request'[u].pc = "answered"
           /\ request'[u].tab = request[u].tab /\ request'[u].sets = request[u].sets
  PROVE  OwnTokens' /\ Undelivered' /\ SpentIsReplaced'
<1> USE DEF UnspentInv
<1>1. ASSUME NEW b \in Browsers, NEW c \in Nat, c # NoToken, Knows(b, c)' PROVE Knows(b, c)
  BY <1>1, KeepAssumption DEF Knows
<1>2. OwnTokens'
  BY <1>1 DEF OwnTokens
<1>3. \A u \in Slots : Brings(u)' => Brings(u) /\ request'[u].sets = request[u].sets
  BY DEF Brings
<1>4. Undelivered'
  <2> SUFFICES ASSUME NEW u \in Slots, Brings(u)'
               PROVE  /\ \A b \in Browsers : cookie'[b] # request'[u].sets
                      /\ \A v \in Slots : request'[v] # Idle => request'[v].carries # request'[u].sets
                      /\ \A v \in Slots : Brings(v)' /\ request'[v].sets = request'[u].sets => v = u
                      /\ ~ Exchanged(request[u].sets)'
    BY DEF Undelivered
  <2>1. Brings(u) /\ request'[u].sets = request[u].sets
    BY <1>3
  <2>2. \A b \in Browsers : cookie[b] # request[u].sets
    BY <2>1 DEF Undelivered
  <2>3. \A v \in Slots : request'[v] # Idle => request'[v].carries # request[u].sets
    BY <2>1, <2>2 DEF Undelivered
  <2>4. ~ Exchanged(request[u].sets)
    BY <2>1 DEF Undelivered
  <2> QED
    BY <1>3, <2>1, <2>2, <2>3, <2>4 DEF Undelivered, Exchanged
<1>5. ASSUME NEW b \in Browsers, NEW n, Replacing(b, n) PROVE Replacing(b, n)'
  BY <1>5 DEF Replacing
<1> QED
  BY <1>2, <1>4, <1>5 DEF SpentIsReplaced

\* The token an answer brings has not been exchanged when the cookie is set;
\* one that is cut off is noted.
LEMMA ArriveUnspent ==
  ASSUME UnspentInv, NEW s \in Slots, Arrive(s)
  PROVE  OwnTokens' /\ Undelivered' /\ SpentIsReplaced'
<1> USE DEF UnspentInv, RotationInv
<1> DEFINE r == request[s]
<1>1. /\ r # Idle /\ r \in Request /\ r.pc = "answered" /\ Home[r.tab] \in Browsers
      /\ request'[s] = Idle /\ \A u \in Slots : u # s => request'[u] = request[u]
      /\ UNCHANGED minted
      /\ \A b \in Browsers :
           cookie'[b] = IF b = Home[r.tab] /\ ~ r.cut /\ r.sets # Keep THEN r.sets ELSE cookie[b]
  BY ArriveFrame
<1>2. lost' = IF r.cut THEN lost \cup ({r.sets} \ {Keep, NoToken}) ELSE lost
  BY DEF Arrive
<1>3. r.sets \in Nat \cup {Keep}
  BY <1>1 DEF Request, RequestOver, Token
<1> HIDE DEF r
<1>4. ASSUME NEW b \in Browsers, NEW c \in Nat, c # NoToken, Knows(b, c)' PROVE Knows(b, c)
  <2>1. CASE cookie'[b] = c /\ cookie[b] # c
    BY <1>1, <2>1 DEF Knows, r
  <2>2. CASE cookie[b] = c
    BY <2>2 DEF Knows
  <2>3. CASE cookie'[b] # c
    BY <1>1, <1>4, <2>3 DEF Knows
  <2> QED
    BY <2>1, <2>2, <2>3
<1>5. OwnTokens'
  BY <1>4 DEF OwnTokens
<1>6. \A u \in Slots : Brings(u)' => u # s /\ Brings(u) /\ request'[u] = request[u]
  BY <1>1 DEF Brings
<1>7. Undelivered'
  <2> SUFFICES ASSUME NEW u \in Slots, Brings(u)'
               PROVE  /\ \A b \in Browsers : cookie'[b] # request'[u].sets
                      /\ \A v \in Slots : request'[v] # Idle => request'[v].carries # request'[u].sets
                      /\ \A v \in Slots : Brings(v)' /\ request'[v].sets = request'[u].sets => v = u
                      /\ ~ Exchanged(request[u].sets)'
    BY DEF Undelivered
  <2>1. u # s /\ Brings(u) /\ request'[u] = request[u]
    BY <1>6
  <2>2. r.sets # request[u].sets
    BY <1>1, <2>1 DEF Undelivered, Brings, r
  <2>3. \A b \in Browsers : cookie'[b] # request[u].sets
    BY <1>1, <2>1, <2>2 DEF Undelivered
  <2>4. \A v \in Slots : request'[v] # Idle => request'[v].carries # request[u].sets
    BY <1>1, <2>1 DEF Undelivered
  <2> QED
    BY <1>1, <1>6, <2>1, <2>3, <2>4 DEF Undelivered, Exchanged
<1>8. SpentIsReplaced'
  <2> SUFFICES ASSUME NEW b \in Browsers, NEW n \in DOMAIN minted, cookie'[b] # NoToken,
                      minted[n] = cookie'[b]
               PROVE  n \in lost' \/ Replacing(b, n)'
    BY <1>1 DEF SpentIsReplaced
  <2>1. cookie'[b] = cookie[b]
    <3>1. SUFFICES ASSUME cookie'[b] = r.sets, r.sets # Keep PROVE FALSE
      BY <1>1
    <3>2. Brings(s) /\ Exchanged(request[s].sets)
      BY <1>1, <3>1 DEF Brings, Exchanged, r
    <3> QED
      BY <3>2 DEF Undelivered
  <2>2. CASE n \in lost
    BY <1>2, <2>2
  <2>3. ASSUME NEW u \in Slots, request[u] # Idle, request[u].pc = "answered",
               request[u].sets = n, Home[request[u].tab] = b, u # s
        PROVE  Replacing(b, n)'
    BY <1>1, <2>3 DEF Replacing
  <2>4. CASE r.sets = n /\ Home[r.tab] = b
    <3>1. n \in Nat /\ n # NoToken /\ n # Keep
      <4>1. n \in 1 .. Len(minted) /\ Len(minted) \in Nat
        BY DEF TypeOK
      <4> QED
        BY <4>1, KeepAssumption DEF NoToken
    <3>2. CASE r.cut
      BY <1>2, <2>4, <3>1, <3>2
    <3>3. CASE ~ r.cut
      <4>1. cookie'[b] = n /\ minted[n] = n
        BY <1>1, <2>4, <3>1, <3>3
      <4> QED
        BY <3>1, <4>1 DEF Older
    <3> QED
      BY <3>2, <3>3
  <2> QED
    BY <2>1, <2>2, <2>3, <2>4 DEF SpentIsReplaced, Replacing, r
<1> QED
  BY <1>5, <1>7, <1>8

\* A new token is nowhere else, and the browser whose cookie it is made from
\* is the one its answer goes to.
LEMMA MintUnspent ==
  ASSUME UnspentInv, NEW s \in Slots, Mint(s)
  PROVE  OwnTokens' /\ Undelivered' /\ SpentIsReplaced'
<1> USE DEF UnspentInv, RotationInv
<1> DEFINE r == request[s]
<1>0. PICK young : young = Len(minted) + 1
  OBVIOUS
<1>1. /\ r # Idle /\ r \in Request /\ r.tab \in Tabs /\ young \in Nat
      /\ UNCHANGED <<cookie, lost>>
      /\ \A u \in Slots : request'[u] # Idle <=> request[u] # Idle
      /\ \A u \in Slots : u # s => request'[u] = request[u]
      /\ request'[s].tab = r.tab /\ request'[s].carries = r.carries
      /\ request'[s].pc = "answered" /\ request'[s].sets = young
  BY <1>0, MintFrame, MintExtends DEF past
<1>2. ASSUME NEW c \in Token PROVE c # young
  BY <1>0, <1>1, MintExtends DEF Token
<1>3. \A b \in Browsers : cookie[b] # young
  BY <1>2 DEF TypeOK
<1>4. ASSUME NEW u \in Slots, request[u] # Idle
      PROVE  request[u].carries # young /\ request[u].sets # young
  <2>1. request[u].carries \in Token /\ request[u].sets \in Token \cup {Keep}
    BY <1>4 DEF TypeOK, Request, RequestOver
  <2> QED
    BY <1>1, <1>2, <2>1, KeepAssumption
<1>5. ASSUME NEW b \in Browsers, NEW c \in Nat, Knows(b, c)'
      PROVE  Knows(b, c) \/ (c = young /\ b = Home[r.tab])
  BY <1>1, <1>5 DEF Knows
<1>6. \A b \in Browsers : ~ Knows(b, young)
  BY <1>3, <1>4 DEF Knows
<1>7. OwnTokens'
  BY <1>5, <1>6 DEF OwnTokens
<1>8. \A n \in DOMAIN minted' : minted'[n] # young
  <2>1. ASSUME NEW n \in DOMAIN minted PROVE minted[n] # young
    <3>1. n \in 1 .. Len(minted) /\ Len(minted) \in Nat
      BY MintExtends
    <3>2. minted[n] < n /\ minted[n] \in Nat
      BY DEF Older, TypeOK
    <3> QED
      BY <1>0, <3>1, <3>2
  <2>2. young # NoToken
    BY <1>0, MintExtends DEF NoToken
  <2>3. r.carries # young
    BY <1>1, <1>4
  <2> QED
    BY <2>1, <2>2, <2>3, NowExchanged
<1>9. young # NoToken /\ young # Keep
  BY <1>0, <1>1, MintExtends, KeepAssumption DEF NoToken
<1>10. Undelivered'
  <2> SUFFICES ASSUME NEW u \in Slots, Brings(u)'
               PROVE  /\ \A b \in Browsers : cookie'[b] # request'[u].sets
                      /\ \A v \in Slots : request'[v] # Idle => request'[v].carries # request'[u].sets
                      /\ \A v \in Slots : Brings(v)' /\ request'[v].sets = request'[u].sets => v = u
                      /\ ~ Exchanged(request[u].sets)'
    BY DEF Undelivered
  <2>1. \A v \in Slots : request'[v] # Idle =>
           request[v] # Idle /\ request'[v].carries = request[v].carries
    BY <1>1
  <2>2. CASE u = s
    <3>1. request'[u].sets = young
      BY <1>1, <2>2
    <3>2. ~ Exchanged(request[u].sets)'
      BY <1>8, <3>1 DEF Exchanged
    <3>3. \A v \in Slots : v # s /\ request'[v] # Idle => request'[v].sets # young
      BY <1>1, <1>4
    <3>4. \A v \in Slots : request'[v] # Idle => request'[v].carries # young
      BY <1>4, <2>1
    <3> QED
      BY <1>1, <1>3, <2>2, <3>1, <3>2, <3>3, <3>4 DEF Brings
  <2>3. CASE u # s
    <3>1. /\ Brings(u) /\ request'[u] = request[u] /\ request[u].sets # young
          /\ request[u].sets # r.carries
      BY <1>1, <1>4, <2>3 DEF Brings, Undelivered
    <3>2. \A n \in DOMAIN minted' : minted'[n] # request[u].sets
      BY <3>1, NowExchanged DEF Undelivered, Exchanged, Brings
    <3>3. ~ Exchanged(request[u].sets)'
      BY <3>1, <3>2 DEF Exchanged
    <3>4. \A v \in Slots : Brings(v)' /\ request'[v].sets = request[u].sets => v = u
      BY <1>1, <3>1 DEF Undelivered, Brings
    <3>5. \A b \in Browsers : cookie'[b] # request[u].sets
      BY <1>1, <3>1 DEF Undelivered
    <3>6. \A v \in Slots : request'[v] # Idle => request'[v].carries # request[u].sets
      BY <2>1, <3>1 DEF Undelivered
    <3> QED
      BY <3>1, <3>3, <3>4, <3>5, <3>6
  <2> QED
    BY <2>2, <2>3
<1>11. SpentIsReplaced'
  <2> SUFFICES ASSUME NEW b \in Browsers, NEW n \in DOMAIN minted', cookie[b] # NoToken,
                      minted'[n] = cookie[b]
               PROVE  n \in lost \/ Replacing(b, n)'
    BY <1>1 DEF SpentIsReplaced
  <2>1. CASE n \in DOMAIN minted /\ minted'[n] = minted[n]
    <3>1. n \in lost \/ Replacing(b, n)
      BY <2>1 DEF SpentIsReplaced
    <3>2. ASSUME NEW u \in Slots, request[u] # Idle, request[u].pc = "answered",
                 request[u].sets = n, Home[request[u].tab] = b
          PROVE  Replacing(b, n)'
      <4>1. u # s
        BY <3>2, MintFrame
      <4> QED
        BY <1>1, <3>2, <4>1 DEF Replacing
    <3> QED
      BY <3>1, <3>2 DEF Replacing
  <2>2. CASE n = Len(minted) + 1 /\ minted'[n] = r.carries
    <3>1. cookie[b] \in Nat /\ Home[r.tab] \in Browsers
      BY <1>1, HomeAssumption DEF TypeOK, Token
    <3>2. Knows(b, cookie[b]) /\ Knows(Home[r.tab], cookie[b])
      BY <1>1, <2>2 DEF Knows
    <3>3. Home[r.tab] = b
      BY <3>1, <3>2 DEF OwnTokens
    <3> QED
      BY <1>0, <1>1, <2>2, <3>3 DEF Replacing
  <2> QED
    BY <2>1, <2>2, NowExchanged
<1> QED
  BY <1>7, <1>10, <1>11

LEMMA UnspentStep == UnspentInv /\ [Next]_vars => UnspentInv'
<1> SUFFICES ASSUME UnspentInv, [Next]_vars PROVE UnspentInv'
  OBVIOUS
<1> USE DEF UnspentInv
<1>1. RotationInv' /\ TypeOK
  BY RotationStep DEF RotationInv
<1>2. ASSUME NEW s \in Slots, NEW t \in Tabs, Refresh(s, t) \/ Login(s, t) \/ Logout(s, t)
      PROVE  UnspentInv'
  <2>1. PICK op \in Op : Send(s, t, op)
    BY <1>2 DEF Refresh, Login, Logout, Op
  <2>2. /\ UNCHANGED <<minted, cookie, lost>>
        /\ request[s] = Idle /\ request'[s] # Idle /\ Home[t] \in Browsers
        /\ request'[s].tab = t /\ request'[s].carries = cookie[Home[t]] /\ request'[s].sets = Keep
        /\ \A u \in Slots : u # s => request'[u] = request[u]
    BY <1>1, <2>1, SendFrame
  <2>3. OwnTokens' /\ Undelivered' /\ SpentIsReplaced'
    BY <2>2, NothingNew
  <2> QED
    BY <1>1, <2>3
<1>3. ASSUME NEW s \in Slots, Mint(s) PROVE UnspentInv'
  BY <1>1, <1>3, MintUnspent
<1>4. ASSUME NEW s \in Slots, Authenticate(s) \/ Revoke(s) \/ Fail(s) PROVE UnspentInv'
  <2>1. UNCHANGED <<minted, cookie, lost>>
    BY <1>1, <1>4, ServerFrame DEF past
  <2>2. /\ request[s].pc # "answered" /\ request'[s].sets \in {request[s].sets, NoToken, Keep}
        /\ request'[s].tab = request[s].tab /\ request'[s].carries = request[s].carries
        /\ \A u \in Slots : request'[u] # Idle <=> request[u] # Idle
        /\ \A u \in Slots : u # s => request'[u] = request[u]
    BY <1>1, <1>4, ServerFrame
  <2>3. OwnTokens' /\ Undelivered' /\ SpentIsReplaced'
    BY <2>1, <2>2, NothingNew
  <2> QED
    BY <1>1, <2>3
<1>5. ASSUME NEW s \in Slots, Arrive(s) PROVE UnspentInv'
  BY <1>1, <1>5, ArriveUnspent
<1>6. CASE (\E s \in Slots : Cut(s)) \/ (\E t \in Tabs : Reload(t))
  <2>1. UNCHANGED <<minted, cookie, lost>>
    BY <1>1, <1>6, CutFrame DEF past
  <2>2. \A u \in Slots :
          /\ request'[u] # Idle <=> request[u] # Idle
          /\ request[u] # Idle =>
               /\ request'[u].tab = request[u].tab /\ request'[u].carries = request[u].carries
               /\ request'[u].pc = request[u].pc /\ request'[u].sets = request[u].sets
    BY <1>1, <1>6, CutFrame
  <2>3. OwnTokens' /\ Undelivered' /\ SpentIsReplaced'
    BY <2>1, <2>2, NothingNew
  <2> QED
    BY <1>1, <2>3
<1>7. CASE UNCHANGED vars
  BY <1>1, <1>7 DEF vars, past, OwnTokens, Undelivered, SpentIsReplaced, Knows, Brings, Replacing, Exchanged
<1> QED
  BY <1>2, <1>3, <1>4, <1>5, <1>6, <1>7 DEF Next, Browse, Serve

\* Whatever tabs share a cookie, and in whatever order requests are served and
\* answered, a browser with nothing under way holds a token that was exchanged
\* only if every answer that brought another for it was cut off.
THEOREM NoSpentCookie == Spec => []CookieIsUnspent
<1>1. UnspentInv => CookieIsUnspent
  BY DEF UnspentInv, SpentIsReplaced, Replacing, CookieIsUnspent, AtRest
<1> QED
  BY <1>1, UnspentInit, UnspentStep, PTL DEF Spec
----------------------------------------------------------------------------
(***************************************************************************)
(* Signed out stays out.  A sign-out that was served leaves its token      *)
(* unaccepted for good.  In a browser that was left there is no cookie,    *)
(* and no refresh that was let through or could be.                        *)
(***************************************************************************)
\* A token that is not accepted, now or later: the row only gets new ones.
Dead(c) == c = NoToken \/ c # hash

\* What an answer sets: a token comes of a login or refresh that was let through.
OutcomesFit ==
    \A s \in Slots : request[s] # Idle =>
      /\ request[s].pc # "answered" => request[s].sets = Keep
      /\ request[s].op = "logout" \/ (request[s].op = "refresh" /\ ~ request[s].ok) =>
           request[s].sets \in {Keep, NoToken}
      /\ request[s].op = "login" /\ ~ request[s].ok => request[s].sets \in {Keep, NoToken}
      /\ request[s].op = "logout" /\ request[s].pc = "answered" /\ request[s].ok =>
           request[s].sets = NoToken /\ Dead(request[s].carries)

\* A refresh that is, or will be, refused.
Refused(s) ==
    \/ request[s].pc = "sent" /\ Dead(request[s].carries)
    \/ request[s].pc = "answered" /\ ~ request[s].ok

LeftIsOver ==
    \A b \in left :
      /\ cookie[b] = NoToken
      /\ \A s \in Slots :
           Live(s) /\ request[s].op = "refresh" /\ Home[request[s].tab] = b => Refused(s)

LeftInv == TypeOK /\ OutcomesFit /\ LeftIsOver

\* What the property asks of a step.
OnlyLogin ==
  \A t \in Tabs :
    Home[t] \in left /\ ~ tab[t].signedIn /\ tab'[t].signedIn =>
      \E s \in Slots : /\ request[s] # Idle /\ request'[s] = Idle
                       /\ request[s].op = "login" /\ request[s].tab = t

LEMMA LeftInit == Init => LeftInv
<1> SUFFICES ASSUME Init PROVE LeftInv
  OBVIOUS
<1>1. TypeOK
  BY TypeInit
<1> QED
  BY <1>1 DEF Init, LeftInv, OutcomesFit, LeftIsOver

\* A token that was made is dead for good once it is.
LEMMA DeadStays ==
  ASSUME TypeOK, hash' \in {hash, NoToken, Len(minted) + 1}
  PROVE  \A c \in Token : Dead(c) => Dead(c)'
<1>1. \A c \in Token : c # Len(minted) + 1
  BY DEF Token, TypeOK
<1> QED
  BY <1>1 DEF Dead

LEMMA CarriesToken ==
  ASSUME TypeOK, NEW s \in Slots, request[s] # Idle
  PROVE  /\ request[s].carries \in Token /\ request[s].tab \in Tabs
         /\ request[s].pc \in {"sent", "matched", "answered"} /\ request[s].op \in Op
  BY DEF TypeOK, Request, RequestOver

LEMMA TabsAre ==
  ASSUME TypeOK, NEW t \in Tabs, RefreshFailed(t) \/ SignedIn(t) \/ SignedOut(t)
  PROVE  /\ \A o \in Tabs : o # t => tab'[o] = tab[o]
         /\ RefreshFailed(t) \/ SignedOut(t) => (tab'[t].signedIn => tab[t].signedIn)
<1>1. CASE RefreshFailed(t)
  <2>1. PICK stays \in BOOLEAN :
          tab' = [tab EXCEPT ![t] = [signedIn |-> tab[t].signedIn /\ stays, ready |-> TRUE]]
    BY <1>1 DEF RefreshFailed
  <2>2. tab'[t].signedIn = (tab[t].signedIn /\ stays)
    BY <2>1, Zenon DEF TypeOK
  <2>3. \A o \in Tabs : o # t => tab'[o] = tab[o]
    BY <2>1, Zenon DEF TypeOK
  <2> QED
    BY <2>2, <2>3
<1>2. CASE SignedIn(t)
  <2>1. \A o \in Tabs : o # t => tab'[o] = tab[o]
    BY <1>2 DEF SignedIn, TypeOK
  <2>2. SignedOut(t) => FALSE
    BY <1>2 DEF SignedIn, SignedOut, TypeOK
  <2> QED
    BY <1>1, <2>1, <2>2
<1>3. CASE SignedOut(t)
  <2>1. tab'[t] = [signedIn |-> FALSE, ready |-> TRUE]
    BY <1>3 DEF SignedOut, TypeOK
  <2> QED
    BY <1>3, <2>1 DEF SignedOut, TypeOK
<1> QED
  BY <1>1, <1>2, <1>3

\* The steps of which no browser hears.
LEMMA ServeLeft ==
  ASSUME LeftInv, NEW s \in Slots, Authenticate(s) \/ Revoke(s) \/ Fail(s) \/ Mint(s)
  PROVE  OutcomesFit' /\ LeftIsOver' /\ OnlyLogin
<1> USE DEF LeftInv
<1>1. PICK young : young = Len(minted) + 1
  OBVIOUS
<1>2. /\ request[s] # Idle /\ request[s].pc # "answered"
      /\ UNCHANGED <<cookie, tab, past>> /\ hash' \in {hash, NoToken, young}
      /\ \A u \in Slots : request'[u] # Idle <=> request[u] # Idle
      /\ \A u \in Slots : u # s => request'[u] = request[u]
      /\ request'[s].tab = request[s].tab /\ request'[s].op = request[s].op
      /\ request'[s].carries = request[s].carries /\ request'[s].cut = request[s].cut
  <2>1. CASE Mint(s)
    BY <1>1, <2>1, MintFrame
  <2>2. CASE Authenticate(s) \/ Revoke(s) \/ Fail(s)
    BY <2>2, ServerFrame
  <2> QED
    BY <2>1, <2>2
<1>3. \A c \in Token : Dead(c) => Dead(c)'
  BY <1>1, <1>2, DeadStays
<1>4. /\ request'[s].pc # "answered" => request'[s].sets = Keep
      /\ request[s].op = "logout" \/ (request[s].op = "refresh" /\ ~ request'[s].ok) =>
           request'[s].sets \in {Keep, NoToken}
      /\ request[s].op = "login" /\ ~ request'[s].ok => request'[s].sets \in {Keep, NoToken}
      /\ request[s].op = "logout" /\ request'[s].pc = "answered" /\ request'[s].ok =>
           request'[s].sets = NoToken /\ Dead(request[s].carries)'
      /\ request[s].op = "refresh" /\ request[s].pc = "sent" /\ Dead(request[s].carries) =>
           request'[s].pc = "answered" /\ ~ request'[s].ok
  <2>1. CASE Mint(s)
    BY <1>1, <2>1, MintFrame
  <2>2. CASE Authenticate(s) \/ Revoke(s) \/ Fail(s)
    <3>1. request[s].pc # "answered" => request[s].sets = Keep
      BY <1>2 DEF OutcomesFit
    <3> QED
      BY <1>2, <2>2, <3>1, ServerFrame DEF Dead, OutcomesFit
  <2> QED
    BY <2>1, <2>2
<1>5. OutcomesFit'
  <2> SUFFICES ASSUME NEW u \in Slots, request'[u] # Idle
               PROVE  /\ request'[u].pc # "answered" => request'[u].sets = Keep
                      /\ request'[u].op = "logout" \/ (request'[u].op = "refresh" /\ ~ request'[u].ok) =>
                           request'[u].sets \in {Keep, NoToken}
                      /\ request'[u].op = "login" /\ ~ request'[u].ok => request'[u].sets \in {Keep, NoToken}
                      /\ request'[u].op = "logout" /\ request'[u].pc = "answered" /\ request'[u].ok =>
                           request'[u].sets = NoToken /\ Dead(request[u].carries)'
    BY DEF OutcomesFit
  <2>1. CASE u = s
    BY <1>2, <1>4, <2>1 DEF Dead
  <2>2. CASE u # s
    <3>1. request[u] # Idle /\ request'[u] = request[u] /\ request[u].carries \in Token
      BY <1>2, <2>2, CarriesToken
    <3>2. Dead(request[u].carries) => Dead(request[u].carries)'
      BY <1>3, <3>1 DEF Dead
    <3> QED
      BY <3>1, <3>2 DEF OutcomesFit
  <2> QED
    BY <2>1, <2>2
<1>6. LeftIsOver'
  <2> SUFFICES ASSUME NEW b \in left
               PROVE  /\ cookie[b] = NoToken
                      /\ \A u \in Slots : Live(u)' /\ request'[u].op = "refresh"
                                          /\ Home[request'[u].tab] = b => Refused(u)'
    BY <1>2 DEF LeftIsOver, past
  <2>1. ASSUME NEW u \in Slots, Live(u)', request'[u].op = "refresh", Home[request'[u].tab] = b
        PROVE  Refused(u)'
    <3>1. Live(u) /\ request[u].op = "refresh" /\ Home[request[u].tab] = b
      BY <1>2, <2>1 DEF Live
    <3>2. Refused(u) /\ request[u].carries \in Token
      BY <3>1, CarriesToken DEF LeftIsOver, Live
    <3>3. CASE u = s
      BY <1>2, <1>4, <3>1, <3>2, <3>3 DEF Refused
    <3>4. CASE u # s
      <4>1. Dead(request[u].carries) => Dead(request[u].carries)'
        BY <1>2, <1>3, <3>2, <3>4 DEF Dead
      <4> QED
        BY <1>2, <3>2, <3>4, <4>1 DEF Refused
    <3> QED
      BY <3>3, <3>4
  <2> QED
    BY <2>1 DEF LeftIsOver
<1> QED
  BY <1>2, <1>5, <1>6 DEF OnlyLogin

\* A browser without a cookie sends a refresh that is refused.
LEMMA BrowseLeft ==
  ASSUME LeftInv, NEW s \in Slots, NEW t \in Tabs,
         Refresh(s, t) \/ Login(s, t) \/ Logout(s, t)
  PROVE  OutcomesFit' /\ LeftIsOver' /\ OnlyLogin
<1> USE DEF LeftInv
<1>1. PICK op \in Op : Send(s, t, op)
  BY DEF Refresh, Login, Logout, Op
<1>2. /\ UNCHANGED <<hash, cookie, tab, left>>
      /\ request'[s].tab = t /\ request'[s].carries = cookie[Home[t]] /\ request'[s].sets = Keep
      /\ request'[s].pc = "sent" /\ ~ request'[s].ok
      /\ \A u \in Slots : u # s => request'[u] = request[u]
  BY <1>1, SendFrame
<1>3. OutcomesFit'
  BY <1>2 DEF OutcomesFit, Dead
<1>4. LeftIsOver'
  BY <1>2 DEF LeftIsOver, Live, Refused, Dead
<1> QED
  BY <1>2, <1>3, <1>4 DEF OnlyLogin

LEMMA CutLeft ==
  ASSUME LeftInv, (\E s \in Slots : Cut(s)) \/ (\E t \in Tabs : Reload(t))
  PROVE  OutcomesFit' /\ LeftIsOver' /\ OnlyLogin
<1> USE DEF LeftInv
<1>1. /\ UNCHANGED <<hash, cookie, left>>
      /\ \A u \in Slots :
           /\ request'[u] # Idle <=> request[u] # Idle
           /\ request[u] # Idle =>
                /\ request'[u].tab = request[u].tab /\ request'[u].op = request[u].op
                /\ request'[u].carries = request[u].carries /\ request'[u].pc = request[u].pc
                /\ request'[u].sets = request[u].sets /\ request'[u].ok = request[u].ok
                /\ request[u].cut => request'[u].cut
  BY CutFrame DEF past
<1>2. OutcomesFit'
  BY <1>1 DEF OutcomesFit, Dead
<1>3. LeftIsOver'
  BY <1>1 DEF LeftIsOver, Live, Refused, Dead
<1>4. \A t \in Tabs : tab'[t].signedIn => tab[t].signedIn
  <2>1. ASSUME NEW s \in Slots, Cut(s) PROVE \A t \in Tabs : tab'[t].signedIn => tab[t].signedIn
    <3>1. request[s].tab \in Tabs
      BY <2>1, CarriesToken DEF Cut
    <3>2. UNCHANGED tab \/ RefreshFailed(request[s].tab) \/ SignedOut(request[s].tab)
      BY <2>1 DEF Cut
    <3> QED
      BY <3>1, <3>2, TabsAre
  <2>2. ASSUME NEW o \in Tabs, Reload(o) PROVE \A t \in Tabs : tab'[t].signedIn => tab[t].signedIn
    BY <2>2 DEF Reload, TypeOK
  <2> QED
    BY <2>1, <2>2
<1> QED
  BY <1>2, <1>3, <1>4 DEF OnlyLogin

\* The answer of a sign-out ends the session of the browser, that of a refused
\* refresh does not restore it.
LEMMA ArriveLeft ==
  ASSUME LeftInv, NEW s \in Slots, Arrive(s)
  PROVE  OutcomesFit' /\ LeftIsOver' /\ OnlyLogin
<1> USE DEF LeftInv
<1> DEFINE r == request[s]
           h == Home[r.tab]
<1>1. /\ r # Idle /\ r.pc = "answered" /\ h \in Browsers
      /\ request'[s] = Idle /\ \A u \in Slots : u # s => request'[u] = request[u]
      /\ UNCHANGED hash
      /\ \A b \in Browsers :
           cookie'[b] = IF b = h /\ ~ r.cut /\ r.sets # Keep THEN r.sets ELSE cookie[b]
  BY ArriveFrame
<1>2. r.tab \in Tabs /\ r.op \in Op
  BY <1>1, CarriesToken
<1>3. OutcomesFit'
  BY <1>1 DEF OutcomesFit, Dead
<1>4. \A u \in Slots : Live(u)' => u # s /\ Live(u) /\ request'[u] = request[u]
  BY <1>1 DEF Live
<1>5. \A u \in Slots : Refused(u) /\ u # s => Refused(u)'
  BY <1>1 DEF Refused, Dead
<1>6. CASE r.cut
  <2>1. UNCHANGED <<cookie, tab, left>>
    BY <1>6 DEF Arrive
  <2> QED
    BY <1>3, <1>4, <1>5, <2>1 DEF LeftIsOver, OnlyLogin
<1>7. CASE ~ r.cut /\ r.op = "login"
  <2>1. left' = IF r.ok THEN left \ {h} ELSE left
    BY <1>7 DEF Arrive
  <2>2. \A b \in left' : b \in left /\ cookie'[b] = NoToken
    <3>1. \A b \in left : cookie[b] = NoToken /\ b \in Browsers
      BY DEF LeftIsOver, TypeOK
    <3>2. ~ r.ok => r.sets \in {Keep, NoToken}
      BY <1>1, <1>7 DEF OutcomesFit
    <3> QED
      BY <1>1, <2>1, <3>1, <3>2
  <2>3. LeftIsOver'
    BY <1>4, <1>5, <2>2 DEF LeftIsOver
  <2>4. UNCHANGED tab \/ SignedIn(r.tab)
    BY <1>7 DEF Arrive
  <2>5. OnlyLogin
    BY <1>1, <1>2, <1>7, <2>4, TabsAre DEF OnlyLogin
  <2> QED
    BY <1>3, <2>3, <2>5
<1>8. CASE ~ r.cut /\ r.op = "refresh"
  <2>1. UNCHANGED left
    BY <1>8 DEF Arrive
  <2>2. h \in left => ~ r.ok
    BY <1>1, <1>8 DEF LeftIsOver, Live, Refused
  <2>3. \A b \in left : cookie'[b] = NoToken
    <3>1. \A b \in left : cookie[b] = NoToken /\ b \in Browsers
      BY DEF LeftIsOver, TypeOK
    <3>2. h \in left => r.sets \in {Keep, NoToken}
      BY <1>1, <1>8, <2>2 DEF OutcomesFit
    <3> QED
      BY <1>1, <3>1, <3>2
  <2>4. LeftIsOver'
    BY <1>4, <1>5, <2>1, <2>3 DEF LeftIsOver
  <2>5. (r.ok /\ SignedIn(r.tab)) \/ (~ r.ok /\ RefreshFailed(r.tab))
    BY <1>8 DEF Arrive
  <2>6. OnlyLogin
    BY <1>2, <2>2, <2>5, TabsAre DEF OnlyLogin
  <2> QED
    BY <1>3, <2>4, <2>6
<1>9. CASE ~ r.cut /\ r.op = "logout"
  <2>1. SignedOut(r.tab)
    BY <1>9 DEF Arrive
  <2>2. OnlyLogin
    BY <1>2, <2>1, TabsAre DEF OnlyLogin
  <2>3. left' = left \/ (r.ok /\ left' = left \cup {h} /\ \A u \in Slots : ~ Escapes(u, r))
    BY <1>9 DEF Arrive
  <2>4. \A b \in left : cookie'[b] = NoToken
    <3>1. \A b \in left : cookie[b] = NoToken /\ b \in Browsers
      BY DEF LeftIsOver, TypeOK
    <3>2. r.sets \in {Keep, NoToken}
      BY <1>1, <1>9 DEF OutcomesFit
    <3> QED
      BY <1>1, <3>1, <3>2
  <2>5. CASE left' = left
    BY <1>3, <1>4, <1>5, <2>2, <2>4, <2>5 DEF LeftIsOver
  <2>6. CASE r.ok /\ left' = left \cup {h} /\ \A u \in Slots : ~ Escapes(u, r)
    <3>1. r.sets = NoToken /\ Dead(r.carries)
      BY <1>1, <1>9, <2>6 DEF OutcomesFit
    <3>2. cookie'[h] = NoToken
      BY <1>1, <1>9, <3>1, KeepAssumption DEF NoToken
    <3>3. ASSUME NEW u \in Slots, Live(u), request[u].op = "refresh", Home[request[u].tab] = h
          PROVE  Refused(u)
      <4>1. request[u].pc \in {"sent", "matched", "answered"}
        BY <3>3, CarriesToken DEF Live
      <4>2. /\ ~ (request[u].pc = "sent" /\ request[u].carries \notin {NoToken, r.carries})
            /\ request[u].pc # "matched"
            /\ ~ (request[u].pc = "answered" /\ request[u].ok)
        BY <2>6, <3>3 DEF Escapes, Live
      <4> QED
        BY <3>1, <4>1, <4>2 DEF Refused, Dead
    <3>4. LeftIsOver'
      BY <1>4, <1>5, <2>4, <2>6, <3>2, <3>3 DEF LeftIsOver
    <3> QED
      BY <1>3, <2>2, <3>4
  <2> QED
    BY <2>3, <2>5, <2>6
<1> QED
  BY <1>2, <1>6, <1>7, <1>8, <1>9 DEF Op

LEMMA LeftStep == LeftInv /\ [Next]_vars => LeftInv' /\ [OnlyLogin]_vars
<1> SUFFICES ASSUME LeftInv, [Next]_vars
             PROVE  LeftInv' /\ [OnlyLogin]_vars
  OBVIOUS
<1>1. TypeOK'
  BY TypeStep DEF LeftInv
<1>2. CASE Next
  <2>1. OutcomesFit' /\ LeftIsOver' /\ OnlyLogin
    BY <1>2, ServeLeft, BrowseLeft, CutLeft, ArriveLeft DEF Next, Browse, Serve
  <2> QED
    BY <1>1, <2>1 DEF LeftInv
<1>3. CASE UNCHANGED vars
  BY <1>1, <1>3 DEF LeftInv, vars, past, OutcomesFit, LeftIsOver, Live, Refused, Dead
<1> QED
  BY <1>2, <1>3

\* Once a sign-out was answered, a refresh of any tab of the browser is refused
\* until somebody signs in there, whatever overlapped it; the refreshes that had
\* been let through before, or carried another token, are the only exception.
THEOREM StaysSignedOut == Spec => SignedOutStaysOut
<1>1. Spec => [][OnlyLogin]_vars
  BY LeftInit, LeftStep, PTL DEF Spec
<1> QED
  BY <1>1 DEF SignedOutStaysOut, OnlyLogin
=============================================================================
