------------------------------ MODULE Session ------------------------------
(***************************************************************************)
(* The session of one account: the hash of a refresh token in the user row *)
(* (one per account), the refresh cookie each browser holds, and the tabs, *)
(* which keep the access token in memory and refresh it with the cookie.   *)
(*                                                                         *)
(* A request carries the cookie of its browser as it is when it is sent.   *)
(* The server reads the row and compares, then writes: two awaits, between *)
(* which other requests run.  The answer sets or clears the cookie when it *)
(* arrives.  Tokens are numbered as they are made.                         *)
(***************************************************************************)
EXTENDS Naturals, Sequences

CONSTANTS
    Tabs,
    Browsers,
    Home,         \* the browser a tab is open in
    Slots,        \* requests that may be under way together
    Idle,         \* a slot without one
    Keep,         \* an answer that does not mention the cookie
    MaxTokens,    \* bound: refresh tokens made
    MaxActs,      \* bound: requests sent and cut off, pages reloaded
    Faulty        \* the rate limit may refuse, the database may fail

ASSUME HomeAssumption == Home \in [Tabs -> Browsers]
ASSUME BoundsAssumption == MaxTokens \in Nat /\ MaxActs \in Nat
ASSUME KeepAssumption == Keep \notin Nat
ASSUME SwitchesAssumption == Faulty \in BOOLEAN

VARIABLES
    hash,      \* the token whose hash the user row holds
    minted,    \* the n-th token was made in exchange for minted[n], or by a login
    cookie,    \* the refresh cookie of each browser
    tab,       \* authStore: isAuthenticated, isSessionReady
    request,
    acts,      \* requests, cuts and reloads so far
    (* What happened, for the properties only. *)
    shared,    \* tokens with which two requests were under way that the client does not keep apart
    lost,      \* tokens whose answer was cut off
    left       \* browsers whose sign-out was answered and met nothing it does not stop

past == <<shared, lost, left>>
vars == <<hash, minted, cookie, tab, request, acts, past>>

NoToken == 0

Token == 0 .. Len(minted)
Op == {"refresh", "login", "logout"}

RequestOver(tokens) ==
    [tab : Tabs, op : Op, carries : tokens, pc : {"sent", "matched", "answered"},
     sets : tokens \cup {Keep}, ok : BOOLEAN, cut : BOOLEAN]

ASSUME IdleAssumption == Idle \notin RequestOver(Nat)

Request == RequestOver(Token)

TypeOK ==
    /\ minted \in Seq(Nat)
    /\ hash \in Token
    /\ cookie \in [Browsers -> Token]
    /\ tab \in [Tabs -> [signedIn : BOOLEAN, ready : BOOLEAN]]
    /\ request \in [Slots -> Request \cup {Idle}]
    /\ acts \in Nat
    /\ shared \subseteq Token /\ lost \subseteq Token /\ left \subseteq Browsers

Init ==
    /\ hash = NoToken
    /\ minted = << >>
    /\ cookie = [b \in Browsers |-> NoToken]
    /\ tab = [t \in Tabs |-> [signedIn |-> FALSE, ready |-> FALSE]]
    /\ request = [s \in Slots |-> Idle]
    /\ acts = 0
    /\ shared = {} /\ lost = {} /\ left = {}

Waiting(t) == {s \in Slots : request[s] # Idle /\ request[s].tab = t /\ ~ request[s].cut}

Pending(t, op) == \E s \in Waiting(t) : request[s].op = op

----------------------------------------------------------------------------
(* The tabs                                                                *)

\* A refresh under way on the server with token c, of another tab of the
\* browser or one that tab t does not know of any more.
Rival(u, t, c) ==
    LET q == request[u]
    IN  /\ q # Idle /\ q.op = "refresh" /\ q.pc \in {"sent", "matched"}
        /\ q.carries = c
        /\ q.tab # t \/ q.cut

Send(s, t, op) ==
    LET c == cookie[Home[t]]
    IN  /\ request[s] = Idle
        /\ acts < MaxActs /\ acts' = acts + 1
        /\ request' = [request EXCEPT ![s] =
             [tab |-> t, op |-> op, carries |-> c, pc |-> "sent", sets |-> Keep, ok |-> FALSE, cut |-> FALSE]]
        /\ shared' = IF op = "refresh" /\ \E u \in Slots : Rival(u, t, c) THEN shared \cup {c} ELSE shared
        /\ UNCHANGED <<hash, minted, cookie, tab, lost, left>>

\* Mutant: every caller sends its own refresh.
RefreshAgain(s, t) == Send(s, t, "refresh")

\* One refreshPromise per tab.  A page refreshes when it has loaded, when a
\* request or the socket finds the access token missing or expired, and when
\* a request is refused: signed out or not.
Refresh(s, t) == ~ Pending(t, "refresh") /\ Send(s, t, "refresh")

\* The sign-in page does not wait for the session to be restored.
Login(s, t) == ~ tab[t].signedIn /\ ~ Pending(t, "login") /\ Send(s, t, "login")

Logout(s, t) == tab[t].signedIn /\ Send(s, t, "logout")

\* What the callers make of a refresh that failed: all but a refresh ahead of
\* time and the one after loading sign the tab out.
RefreshFailed(t) ==
    \E stays \in BOOLEAN :
      tab' = [tab EXCEPT ![t] = [signedIn |-> @.signedIn /\ stays, ready |-> TRUE]]

SignedIn(t) == tab' = [tab EXCEPT ![t] = [signedIn |-> TRUE, ready |-> TRUE]]
SignedOut(t) == tab' = [tab EXCEPT ![t] = [signedIn |-> FALSE, ready |-> TRUE]]

\* A refresh of the browser that sign-out r does not stop: it was let through
\* before, or carries another token.
Escapes(u, r) ==
    LET q == request[u]
    IN  /\ q # Idle /\ ~ q.cut /\ q.op = "refresh" /\ Home[q.tab] = Home[r.tab]
        /\ \/ q.pc = "sent" /\ q.carries \notin {NoToken, r.carries}
           \/ q.pc = "matched"
           \/ q.pc = "answered" /\ q.ok

\* The answer: first the cookie, then the store of the tab.
Arrive(s) ==
    LET r == request[s]
    IN  /\ r # Idle /\ r.pc = "answered"
        /\ request' = [request EXCEPT ![s] = Idle]
        /\ IF r.cut
             THEN /\ lost' = lost \cup ({r.sets} \ {Keep, NoToken})
                  /\ UNCHANGED <<cookie, tab, left>>
             ELSE /\ cookie' = IF r.sets = Keep THEN cookie
                                 ELSE [cookie EXCEPT ![Home[r.tab]] = r.sets]
                  /\ \/ r.op = "refresh" /\ r.ok /\ SignedIn(r.tab)
                     \/ r.op = "refresh" /\ ~ r.ok /\ RefreshFailed(r.tab)
                     \/ r.op = "login" /\ r.ok /\ SignedIn(r.tab)
                     \/ r.op = "login" /\ ~ r.ok /\ UNCHANGED tab
                     \/ r.op = "logout" /\ SignedOut(r.tab)
                  /\ left' = CASE r.op = "login" /\ r.ok -> left \ {Home[r.tab]}
                               [] r.op = "logout" /\ r.ok /\ ~ (\E u \in Slots : Escapes(u, r)) ->
                                    left \cup {Home[r.tab]}
                               [] OTHER -> left
                  /\ UNCHANGED lost
        /\ UNCHANGED <<hash, minted, acts, shared>>

\* The connection breaks: the tab sees an error, the server goes on.
Cut(s) ==
    LET r == request[s]
    IN  /\ r # Idle /\ ~ r.cut
        /\ acts < MaxActs
        /\ acts' = acts + 1
        /\ request' = [request EXCEPT ![s].cut = TRUE]
        /\ \/ r.op = "refresh" /\ RefreshFailed(r.tab)
           \/ r.op = "login" /\ UNCHANGED tab
           \/ r.op = "logout" /\ SignedOut(r.tab)
        /\ UNCHANGED <<hash, minted, cookie, past>>

\* The access token was in memory only.
Reload(t) ==
    /\ acts < MaxActs
    /\ acts' = acts + 1
    /\ tab' = [tab EXCEPT ![t] = [signedIn |-> FALSE, ready |-> FALSE]]
    /\ request' = [s \in Slots |-> IF s \in Waiting(t) THEN [request[s] EXCEPT !.cut = TRUE]
                                     ELSE request[s]]
    /\ UNCHANGED <<hash, minted, cookie, past>>

----------------------------------------------------------------------------
(* The server                                                              *)

Answer(s, ok, sets) ==
    request' = [request EXCEPT ![s].pc = "answered", ![s].ok = ok, ![s].sets = sets]

Match(s) == request' = [request EXCEPT ![s].pc = "matched"]

\* The row is read: tokensMatch for a refresh and a logout, the password for
\* a login.  A refresh that does not match clears the cookie, a logout that
\* does not match leaves the row alone.
Authenticate(s) ==
    LET r == request[s]
    IN  /\ r # Idle /\ r.pc = "sent"
        /\ \/ r.op = "refresh" /\ r.carries = NoToken /\ Answer(s, FALSE, Keep)
           \/ r.op = "refresh" /\ r.carries \notin {NoToken, hash} /\ Answer(s, FALSE, NoToken)
           \/ r.op = "logout" /\ r.carries \in {NoToken} \cup (Token \ {hash})
              /\ Answer(s, TRUE, NoToken)
           \/ r.op \in {"refresh", "logout"} /\ r.carries = hash /\ hash # NoToken /\ Match(s)
           \/ r.op = "login" /\ Match(s)
           \/ r.op = "login" /\ Answer(s, FALSE, Keep)
        /\ UNCHANGED <<hash, minted, cookie, tab, acts, past>>

\* Mutant: the tokens are made and not stored.
MintUnstored(s) ==
    /\ request[s] # Idle /\ request[s].pc = "matched"
    /\ request[s].op \in {"refresh", "login"}
    /\ Answer(s, TRUE, Len(minted) + 1)
    /\ UNCHANGED <<hash, minted, cookie, tab, acts, past>>

\* Mutant: a refresh does not set the cookie.
MintUnset(s) ==
    LET r == request[s]
    IN  /\ r # Idle /\ r.pc = "matched" /\ r.op \in {"refresh", "login"}
        /\ Len(minted) < MaxTokens
        /\ minted' = Append(minted, IF r.op = "refresh" THEN r.carries ELSE NoToken)
        /\ hash' = Len(minted) + 1
        /\ Answer(s, TRUE, IF r.op = "refresh" THEN Keep ELSE Len(minted) + 1)
        /\ UNCHANGED <<cookie, tab, acts, past>>

\* Mutant: a refresh leaves the stored hash as it is.
MintUnrotated(s) ==
    LET r == request[s]
    IN  /\ r # Idle /\ r.pc = "matched" /\ r.op \in {"refresh", "login"}
        /\ Len(minted) < MaxTokens
        /\ minted' = Append(minted, IF r.op = "refresh" THEN r.carries ELSE NoToken)
        /\ hash' = IF r.op = "refresh" THEN hash ELSE Len(minted) + 1
        /\ Answer(s, TRUE, Len(minted) + 1)
        /\ UNCHANGED <<cookie, tab, acts, past>>

\* generateAndStoreTokens, for whatever row is there by now.
Mint(s) ==
    LET r == request[s]
    IN  /\ r # Idle /\ r.pc = "matched" /\ r.op \in {"refresh", "login"}
        /\ Len(minted) < MaxTokens
        /\ minted' = Append(minted, IF r.op = "refresh" THEN r.carries ELSE NoToken)
        /\ hash' = Len(minted) + 1
        /\ Answer(s, TRUE, Len(minted) + 1)
        /\ UNCHANGED <<cookie, tab, acts, past>>

\* Mutant: signing out clears the cookie and leaves the row as it is.
RevokeKept(s) ==
    /\ request[s] # Idle /\ request[s].pc = "matched" /\ request[s].op = "logout"
    /\ Answer(s, TRUE, NoToken)
    /\ UNCHANGED <<hash, minted, cookie, tab, acts, past>>

Revoke(s) ==
    LET r == request[s]
    IN  /\ r # Idle /\ r.pc = "matched" /\ r.op = "logout"
        /\ hash' = NoToken
        /\ Answer(s, TRUE, NoToken)
        /\ UNCHANGED <<minted, cookie, tab, acts, past>>

\* The rate limit refuses before anything is read.  An error of the database
\* clears the cookie in a refresh and in no other request.
Fail(s) ==
    LET r == request[s]
    IN  /\ Faulty
        /\ r # Idle
        /\ \/ r.pc = "sent" /\ Answer(s, FALSE, Keep)
           \/ r.pc \in {"sent", "matched"}
              /\ Answer(s, FALSE, IF r.op = "refresh" THEN NoToken ELSE Keep)
        /\ UNCHANGED <<hash, minted, cookie, tab, acts, past>>

----------------------------------------------------------------------------
Browse == \E s \in Slots, t \in Tabs : Refresh(s, t) \/ Login(s, t) \/ Logout(s, t)

Serve == \E s \in Slots : Authenticate(s) \/ Mint(s) \/ Revoke(s) \/ Fail(s)

Next ==
    \/ Browse
    \/ Serve
    \/ \E s \in Slots : Arrive(s) \/ Cut(s)
    \/ \E t \in Tabs : Reload(t)

Spec == Init /\ [][Next]_vars

----------------------------------------------------------------------------
AtRest == \A s \in Slots : request[s] = Idle

\* When nothing is under way a browser is left with a token that was already
\* exchanged only if every answer that brought its replacement was cut off: a
\* cookie the server refuses was otherwise replaced by another session of the
\* account, never by the browser's own refreshes (authFetch
\* refreshAccessToken, authController setRefreshTokenCookie).
CookieIsUnspent ==
    AtRest => \A b \in Browsers, n \in DOMAIN minted :
                cookie[b] # NoToken /\ minted[n] = cookie[b] => n \in lost

\* A refresh token is exchanged once (authFetch: "De-duplicate concurrent
\* refreshes"), unless another tab of the browser, or a page that was reloaded
\* since or whose request was cut off, asked with it at the same time.
SingleUse ==
    \A m, n \in DOMAIN minted :
      minted[m] = minted[n] /\ minted[m] # NoToken => m = n \/ minted[m] \in shared

\* "refresh token rotation": a token that was exchanged is never accepted
\* again, whatever is cut off, reloaded or answered late.
Rotated == hash # NoToken => \A n \in DOMAIN minted : minted[n] # hash

\* When a sign-out was answered, no tab of the browser is signed in again but
\* by a login, though any of them may refresh at any time: a refresh that was
\* under way is refused, unless it had been let through before or carried
\* another token than the sign-out, and a later one has no cookie
\* (CurrentUserFooter, authService revokeRefreshToken, authStore restoreSession).
SignedOutStaysOut ==
    [][ \A t \in Tabs :
          Home[t] \in left /\ ~ tab[t].signedIn /\ tab'[t].signedIn =>
            \E s \in Slots : /\ request[s] # Idle /\ request'[s] = Idle
                             /\ request[s].op = "login" /\ request[s].tab = t ]_vars
============================================================================
