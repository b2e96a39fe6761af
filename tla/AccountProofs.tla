--------------------------- MODULE AccountProofs ---------------------------
(***************************************************************************)
(* Theorems about Accounts, for any number of tabs, calls and codes: a     *)
(* stale code is refused, the account can be entered, and the invitation   *)
(* is kept, whatever overlaps, fails or expires.                           *)
(***************************************************************************)
EXTENDS Accounts, TLAPS

Confirming == {"verify", "reset", "confirmSet"}

\* What holds of a call r under way, over a row a, n codes and the dead d.
Sound(r, a, n, d) ==
    /\ r.pc # "answered" => r.reply = "none"
    /\ \/ r.pc \in {"link", "write", "mint"}
       \/ r.op \in {"requestSet", "confirmSet"}
       \/ r.op \in {"login", "google", "verify"} /\ r.reply = "ok"
       => a # NoAccount
    /\ r.op \in Confirming /\ r.pc \in {"sent", "write"} => r.code \in 1 .. n
    /\ r.op = "verify" /\ r.pc = "write" => r.code # a.code["reset"]
    /\ r.op \in {"reset", "confirmSet"} /\ r.pc = "write" => r.code # a.code["verification"]
    /\ r.late => /\ r.op \in Confirming
                 /\ \/ r.pc = "sent" /\ r.code \in d
                    \/ r.pc = "answered" /\ r.reply # "ok"

CallsAreSound ==
    \A s \in Slots : call[s] # Idle => Sound(call[s], account, issued, dead)

\* No code is in both columns, and none that is dead is in either.
CodesAreApart ==
    Exists => /\ account.code["verification"] = account.code["reset"] =>
                   account.code["reset"] = NoCode
              /\ \A column \in Column : account.code[column] \notin dead

OnlyAccountsSignIn ==
    \A t \in Tabs : tab[t].signedIn \/ tab[t].card # "none" => Exists

IInv ==
    /\ TypeOK
    /\ CallsAreSound
    /\ CodesAreApart
    /\ OnlyAccountsSignIn
    /\ AccountsCanBeEntered
    /\ InvitationIsKept

----------------------------------------------------------------------------
(* One call of the table changes.                                          *)

\* Codes are only added, and a column is emptied or given a fresh one.
RowGrows ==
    /\ issued \in Nat /\ issued' \in Nat /\ issued <= issued'
    /\ dead \subseteq dead'
    /\ Exists => account' # NoAccount
    /\ Exists => \A column \in Column :
         \/ account'.code[column] = account.code[column]
         \/ account'.code[column] = NoCode
         \/ account'.code[column] > issued /\ account'.code[column] \in Nat

LEMMA StaysSound ==
  ASSUME NEW r, Sound(r, account, issued, dead), RowGrows
  PROVE  Sound(r, account', issued', dead')
<1>1. r.code \in 1 .. issued => r.code \in 1 .. issued'
  BY DEF RowGrows
<1>2. ASSUME NEW column \in Column, Exists, r.code \in 1 .. issued, r.code # account.code[column]
      PROVE  r.code # account'.code[column]
  BY <1>2 DEF RowGrows, NoCode
<1>3. "reset" \in Column /\ "verification" \in Column
  BY DEF Column
<1> QED
  BY <1>1, <1>2, <1>3 DEF Sound, RowGrows, Confirming, Exists

LEMMA TypesGrow ==
  ASSUME issued \in Nat, issued' \in Nat, issued <= issued'
  PROVE  /\ Code \subseteq Code' /\ Code \subseteq Nat
         /\ Call \subseteq Call' /\ Account \subseteq Account'
         /\ Idle \notin Call' /\ NoAccount \notin Account'
<1>1. Code \subseteq Code' /\ Code \subseteq Nat /\ Code' \subseteq Nat /\ NoCode \in Nat
  BY DEF Code, NoCode
<1>2. Call \subseteq Call' /\ Call' \subseteq CallOver(Nat)
  BY <1>1 DEF Call, CallOver, NoCode
<1>3. Account \subseteq Account' /\ Account' \subseteq AccountOver(Nat)
  <2>1. [Column -> Code \cup {NoCode}] \subseteq [Column -> Code' \cup {NoCode}]
    BY <1>1
  <2>2. [Column -> Code' \cup {NoCode}] \subseteq [Column -> Nat]
    BY <1>1
  <2> QED
    BY <2>1, <2>2 DEF Account, AccountOver, NoCode
<1> QED
  BY <1>1, <1>2, <1>3, NothingAssumption

\* The table after one call has changed.
LEMMA OneCallChanges ==
  ASSUME TypeOK, CallsAreSound, RowGrows, NEW s \in Slots, NEW r \in Call',
         call' = [call EXCEPT ![s] = r], Sound(r, account', issued', dead')
  PROVE  call' \in [Slots -> Call \cup {Idle}]' /\ CallsAreSound'
<1>1. Call \subseteq Call'
  BY TypesGrow DEF RowGrows
<1>2. \A z \in Slots : call'[z] = IF z = s THEN r ELSE call[z]
  BY DEF TypeOK
<1>3. call' \in [Slots -> Call' \cup {Idle}]
  BY <1>1 DEF TypeOK
<1>4. ASSUME NEW z \in Slots, call'[z] # Idle PROVE Sound(call'[z], account', issued', dead')
  <2>1. CASE z = s
    BY <1>2, <2>1
  <2>2. CASE z # s
    <3>1. Sound(call[z], account, issued, dead)
      BY <1>2, <1>4, <2>2 DEF CallsAreSound
    <3>2. Sound(call[z], account', issued', dead')
      BY <3>1, StaysSound
    <3> QED
      BY <1>2, <2>2, <3>2
  <2> QED
    BY <2>1, <2>2
<1> QED
  BY <1>3, <1>4 DEF CallsAreSound
----------------------------------------------------------------------------
(* The browser's steps                                                     *)

TabType == [page : Page, signedIn : BOOLEAN, card : Card]
Invite == [pending : BOOLEAN, became : {"unopened", "open", "joined", "refused", "overtaken"}]

\* When neither the row nor the calls change, but the pages do.
LEMMA PagesChange ==
  ASSUME IInv, UNCHANGED row,
         call' \in [Slots -> Call \cup {Idle}], CallsAreSound',
         tab' \in [Tabs -> TabType], OnlyAccountsSignIn',
         invite' \in Invite,
         InvitationIsKept'
  PROVE  IInv'
<1>1. Call' = Call /\ Account' = Account /\ Code' = Code
  BY DEF row, Call, Account, Code
<1>2. TypeOK'
  BY <1>1 DEF IInv, TypeOK, row, TabType, Invite
<1>3. CodesAreApart' /\ AccountsCanBeEntered'
  BY DEF IInv, row, CodesAreApart, AccountsCanBeEntered, Exists
<1> QED
  BY <1>2, <1>3 DEF IInv

LEMMA SameCalls == ASSUME IInv, UNCHANGED <<row, call>>
                   PROVE  call' \in [Slots -> Call \cup {Idle}] /\ CallsAreSound'
  BY DEF IInv, TypeOK, CallsAreSound, row

LEMMA RowStays == ASSUME TypeOK, UNCHANGED row PROVE RowGrows
  BY DEF TypeOK, RowGrows, row, Exists

LEMMA SendIsSound ==
  ASSUME IInv, NEW s \in Slots, NEW t \in Tabs, NEW op \in Op, NEW code \in Code \cup {NoCode},
         Send(s, t, op, code),
         op \in {"requestSet", "confirmSet"} => Exists,
         op \in Confirming => code \in Code,
         code \in Code => op \in Confirming
  PROVE  /\ call' \in [Slots -> Call \cup {Idle}] /\ CallsAreSound'
         /\ call'[s] # Idle /\ call'[s].op = op
         /\ \A z \in Slots : call[z] # Idle => call'[z] = call[z]
<1> DEFINE new == [tab |-> t, op |-> op, code |-> code, late |-> code \in dead,
                   pc |-> "sent", reply |-> "none", card |-> FALSE]
<1>1. (code \in dead) \in BOOLEAN
  OBVIOUS
<1>2. new \in Call
  BY <1>1 DEF Call, CallOver, Reply
<1>3. Sound(new, account, issued, dead)
  <2>1. code \in dead => code \in Code
    BY DEF IInv, TypeOK
  <2> QED
    BY <2>1 DEF Sound, Code, Exists
<1>4. call' = [call EXCEPT ![s] = new] /\ UNCHANGED row
  BY DEF Send
<1>5. RowGrows /\ TypeOK /\ CallsAreSound
  BY <1>4, RowStays DEF IInv
<1>6. Call' = Call
  BY <1>4 DEF Call, Code, row
<1>7. new \in Call' /\ Sound(new, account', issued', dead')
  BY <1>2, <1>3, <1>4, <1>6 DEF row
<1> HIDE DEF new
<1>8. call' \in [Slots -> Call \cup {Idle}]' /\ CallsAreSound'
  BY <1>4, <1>5, <1>7, OneCallChanges
<1>9. new # Idle
  BY <1>2, TypesGrow, <1>5, <1>6 DEF RowGrows
<1>10. call'[s] = new /\ call[s] = Idle
  BY <1>4 DEF IInv, TypeOK, Send
<1>11. \A z \in Slots : call[z] # Idle => call'[z] = call[z]
  BY <1>4, <1>10 DEF IInv, TypeOK
<1> QED
  BY <1>6, <1>8, <1>9, <1>10, <1>11 DEF new
\* No call to join goes away.
JoinsStay ==
    \A s \in Slots : call[s] # Idle /\ call[s].op = "join" =>
       call'[s] # Idle /\ call'[s].op = "join"

\* A way through the links, or to a form to sign in that is left at once.
LEMMA LandsKeeps ==
  ASSUME IInv, UNCHANGED row, NEW t \in Tabs, NEW page \in Page, NEW signedIn \in BOOLEAN,
         tab[t].page # "invited", Lands(t, page, signedIn), JoinsStay
  PROVE  /\ tab' \in [Tabs -> TabType] /\ OnlyAccountsSignIn'
         /\ invite' \in Invite
         /\ InvitationIsKept'
<1> DEFINE to == IF page \in {"login", "signup"} /\ signedIn THEN Destination ELSE page
<1>1. Destination \in Page
  BY DEF Destination, Page
<1>2. tab' = [tab EXCEPT ![t].page = to]
  BY DEF Lands
<1>3. tab \in [Tabs -> TabType]
  BY DEF IInv, TypeOK, TabType
<1>4. /\ tab' \in [Tabs -> TabType]
      /\ \A u \in Tabs : tab'[u].page = IF u = t THEN to ELSE tab[u].page
      /\ \A u \in Tabs : tab'[u].signedIn = tab[u].signedIn /\ tab'[u].card = tab[u].card
  BY <1>1, <1>2, <1>3 DEF TabType
<1>5. OnlyAccountsSignIn'
  BY <1>4 DEF IInv, OnlyAccountsSignIn, Exists, row
<1>6. invite' \in Invite
  BY DEF IInv, TypeOK, Lands, Invite
<1>7. InvitationIsKept'
  <2>1. CASE UNCHANGED invite
    BY <1>4, <2>1 DEF IInv, InvitationIsKept, JoinsStay
  <2>2. CASE /\ to = Destination
             /\ invite' = [invite EXCEPT !.pending = FALSE]
    <3>1. invite'.became = invite.became
      BY <2>2 DEF IInv, TypeOK
    <3>2. CASE invite.pending
      <4>1. tab'[t].page = "invited"
        BY <1>4, <2>2, <3>2 DEF Destination
      <4> QED
        BY <4>1 DEF InvitationIsKept
    <3>3. CASE ~ invite.pending
      BY <1>4, <3>1, <3>3 DEF IInv, InvitationIsKept, JoinsStay
    <3> QED
      BY <3>2, <3>3
  <2> QED
    BY <2>1, <2>2 DEF Lands
<1> QED
  BY <1>4, <1>5, <1>6, <1>7

LEMMA VisitKeeps == ASSUME IInv, NEW t \in Tabs, NEW page \in Page, Visit(t, page) PROVE IInv'
<1>1. tab[t].page # "invited" /\ tab[t].signedIn \in BOOLEAN /\ UNCHANGED <<row, call>>
  BY DEF Visit, Link, IInv, TypeOK
<1> QED
  BY <1>1, LandsKeeps, SameCalls, PagesChange DEF Visit, JoinsStay

LEMMA OpenInviteKeeps == ASSUME IInv, NEW t \in Tabs, OpenInvite(t) PROVE IInv'
<1> DEFINE restored == \E u \in Tabs : tab[u].signedIn
           shown == restored /\ GoogleOnly(account)
           new == [page |-> "invited", signedIn |-> restored, card |-> Offer(shown)]
<1>1. restored \in BOOLEAN /\ Offer(shown) \in Card
  BY DEF Offer, Card
<1>2. new \in TabType
  BY <1>1 DEF TabType, Page
<1>3. tab' = [tab EXCEPT ![t] = new] /\ UNCHANGED <<row, call>>
      /\ invite' = [invite EXCEPT !.became = "open"]
  BY DEF OpenInvite
<1>4. new.page = "invited" /\ (new.signedIn \/ new.card # "none" => restored)
  BY DEF Offer
<1> HIDE DEF new
<1>5. tab' \in [Tabs -> TabType] /\ \A u \in Tabs : tab'[u] = IF u = t THEN new ELSE tab[u]
  BY <1>2, <1>3 DEF IInv, TypeOK, TabType
<1>6. OnlyAccountsSignIn'
  BY <1>3, <1>4, <1>5 DEF IInv, OnlyAccountsSignIn, Exists, row
<1>7. InvitationIsKept'
  BY <1>4, <1>5 DEF InvitationIsKept
<1>8. invite' \in Invite
  BY <1>3 DEF IInv, TypeOK, Invite
<1> QED
  BY <1>3, <1>5, <1>6, <1>7, <1>8, SameCalls, PagesChange

LEMMA LogoutKeeps == ASSUME IInv, NEW t \in Tabs, Logout(t) PROVE IInv'
<1> DEFINE new == [page |-> "login", signedIn |-> FALSE, card |-> "none"]
<1>1. new \in TabType
  BY DEF TabType, Page, Card
<1>2. tab' = [tab EXCEPT ![t] = new] /\ UNCHANGED <<row, call, invite>> /\ tab[t].page = "home"
  BY DEF Logout
<1>3. tab' \in [Tabs -> TabType] /\ \A u \in Tabs : tab'[u] = IF u = t THEN new ELSE tab[u]
  BY <1>1, <1>2 DEF IInv, TypeOK, TabType
<1>4. OnlyAccountsSignIn' /\ InvitationIsKept'
  BY <1>2, <1>3 DEF IInv, OnlyAccountsSignIn, InvitationIsKept, Exists, row
<1>5. invite' \in Invite
  BY <1>2 DEF IInv, TypeOK, Invite
<1> QED
  BY <1>2, <1>3, <1>4, <1>5, SameCalls, PagesChange

\* A form is sent and the page stays.
LEMMA FormKeeps ==
  ASSUME IInv, NEW s \in Slots, NEW t \in Tabs, NEW op \in Op, NEW code \in Code \cup {NoCode},
         Send(s, t, op, code), UNCHANGED <<tab, invite>>,
         op \in {"requestSet", "confirmSet"} => Exists,
         op \in Confirming => code \in Code,
         code \in Code => op \in Confirming
  PROVE  IInv'
<1>1. UNCHANGED row
  BY DEF Send
<1>2. /\ call' \in [Slots -> Call \cup {Idle}] /\ CallsAreSound'
      /\ \A z \in Slots : call[z] # Idle => call'[z] = call[z]
  BY SendIsSound
<1>3. OnlyAccountsSignIn' /\ InvitationIsKept'
  BY <1>1, <1>2 DEF IInv, OnlyAccountsSignIn, InvitationIsKept, Exists, row
<1>4. /\ tab' \in [Tabs -> TabType]
      /\ invite' \in Invite
  BY DEF IInv, TypeOK, TabType, Invite
<1> QED
  BY <1>1, <1>2, <1>3, <1>4, PagesChange

LEMMA FormsKeep ==
  ASSUME IInv, NEW s \in Slots, NEW t \in Tabs,
         \/ handleSubmit(s, t) \/ handleGoogleSuccess(s, t) \/ handleVerify(s, t)
         \/ handleResend(s, t) \/ handleRequestOTP(s, t) \/ handleResetPassword(s, t)
         \/ requestOtp(s, t) \/ confirm(s, t)
  PROVE  IInv'
<1>1. UNCHANGED <<tab, invite>>
  BY DEF handleSubmit, handleGoogleSuccess, handleVerify, handleResend, handleRequestOTP,
         handleResetPassword, requestOtp, confirm
<1>2. NoCode \notin Code /\ NoCode \in Code \cup {NoCode} /\ Code \subseteq Code \cup {NoCode}
  BY DEF Code, NoCode
<1>3. tab[t].card # "none" => Exists
  BY DEF IInv, OnlyAccountsSignIn
<1>4. CASE handleSubmit(s, t) \/ handleGoogleSuccess(s, t) \/ handleResend(s, t)
           \/ handleRequestOTP(s, t)
  <2>1. PICK op \in {"register", "login", "google", "resend", "forgot"} : Send(s, t, op, NoCode)
    BY <1>4 DEF handleSubmit, handleGoogleSuccess, handleResend, handleRequestOTP
  <2>2. op \in Op /\ op \notin Confirming /\ op \notin {"requestSet", "confirmSet"}
    BY DEF Op, Confirming
  <2> QED
    BY <1>1, <1>2, <2>1, <2>2, FormKeeps
<1>5. CASE handleVerify(s, t) \/ handleResetPassword(s, t) \/ confirm(s, t)
  <2>1. PICK op \in Confirming, k \in Code : Send(s, t, op, k) /\ (op = "confirmSet" => Exists)
    BY <1>3, <1>5 DEF handleVerify, handleResetPassword, confirm, Confirming
  <2>2. op \in Op /\ op # "requestSet"
    BY DEF Op, Confirming
  <2> QED
    BY <1>1, <1>2, <2>1, <2>2, FormKeeps
<1>6. CASE requestOtp(s, t)
  <2>1. Send(s, t, "requestSet", NoCode) /\ Exists
    BY <1>3, <1>6 DEF requestOtp
  <2>2. "requestSet" \in Op /\ "requestSet" \notin Confirming
    BY DEF Op, Confirming
  <2> QED
    BY <1>1, <1>2, <2>1, <2>2, FormKeeps
<1> QED
  BY <1>4, <1>5, <1>6

LEMMA InvitedKeeps == ASSUME IInv, NEW s \in Slots, NEW t \in Tabs, Invited(s, t) PROVE IInv'
<1>1. tab \in [Tabs -> TabType]
  BY DEF IInv, TypeOK, TabType
<1>2. CASE /\ UNCHANGED <<row, call>> /\ invite' = [invite EXCEPT !.pending = TRUE]
           /\ tab' = [tab EXCEPT ![t].page = "login"]
  <2>1. /\ tab' \in [Tabs -> TabType]
        /\ \A u \in Tabs : tab'[u].signedIn = tab[u].signedIn /\ tab'[u].card = tab[u].card
    BY <1>1, <1>2 DEF TabType, Page
  <2>2. invite' \in Invite
        /\ invite'.pending
    BY <1>2 DEF IInv, TypeOK, Invite
  <2>3. OnlyAccountsSignIn' /\ InvitationIsKept'
    BY <1>2, <2>1, <2>2 DEF IInv, OnlyAccountsSignIn, InvitationIsKept, Exists, row
  <2> QED
    BY <1>2, <2>1, <2>2, <2>3, SameCalls, PagesChange
<1>3. CASE /\ Send(s, t, "join", NoCode) /\ UNCHANGED invite
           /\ tab' = [tab EXCEPT ![t].page = "invite"]
  <2>1. UNCHANGED row
    BY <1>3 DEF Send
  <2>2. /\ tab' \in [Tabs -> TabType]
        /\ \A u \in Tabs : tab'[u].signedIn = tab[u].signedIn /\ tab'[u].card = tab[u].card
    BY <1>1, <1>3 DEF TabType, Page
  <2>3. "join" \in Op /\ "join" \notin Confirming /\ NoCode \notin Code
    BY DEF Op, Confirming, Code, NoCode
  <2>4. /\ call' \in [Slots -> Call \cup {Idle}] /\ CallsAreSound'
        /\ call'[s] # Idle /\ call'[s].op = "join"
    BY <1>3, <2>3, SendIsSound
  <2>5. OnlyAccountsSignIn' /\ InvitationIsKept'
    BY <2>1, <2>2, <2>4 DEF IInv, OnlyAccountsSignIn, InvitationIsKept, Exists, row
  <2>6. invite' \in Invite
    BY <1>3 DEF IInv, TypeOK, Invite
  <2> QED
    BY <2>1, <2>2, <2>4, <2>5, <2>6, PagesChange
<1> QED
  BY <1>2, <1>3 DEF Invited
----------------------------------------------------------------------------
(* The server's steps                                                      *)

LEMMA ServerKeeps ==
  ASSUME IInv, NEW s \in Slots, call[s] # Idle, NEW r \in Call',
         call' = [call EXCEPT ![s] = r], r.op = call[s].op,
         Sound(r, account', issued', dead'), RowGrows,
         issued' \in 0 .. MaxCodes, account' \in Account' \cup {NoAccount}, dead' \subseteq Code',
         CodesAreApart', AccountsCanBeEntered', UNCHANGED <<tab, invite>>
  PROVE  IInv'
<1>1. call' \in [Slots -> Call \cup {Idle}]' /\ CallsAreSound'
  BY OneCallChanges DEF IInv
<1>2. \A z \in Slots : call'[z] = IF z = s THEN r ELSE call[z]
  BY DEF IInv, TypeOK
<1>3. r # Idle
  BY TypesGrow DEF RowGrows
<1>4. TypeOK'
  BY <1>1 DEF IInv, TypeOK
<1>5. OnlyAccountsSignIn'
  BY DEF IInv, OnlyAccountsSignIn, RowGrows, Exists
<1>6. InvitationIsKept'
  BY <1>2, <1>3 DEF IInv, InvitationIsKept
<1> QED
  BY <1>1, <1>4, <1>5, <1>6 DEF IInv

\* The row is only read.
LEMMA ReadingKeeps ==
  ASSUME IInv, NEW s \in Slots, call[s] # Idle, NEW r \in Call,
         call' = [call EXCEPT ![s] = r], r.op = call[s].op,
         Sound(r, account, issued, dead), UNCHANGED <<row, tab, invite>>
  PROVE  IInv'
<1>1. account' = account /\ issued' = issued /\ dead' = dead
  BY DEF row
<1>2. Call' = Call /\ Account' = Account /\ Code' = Code
  BY <1>1 DEF Call, CallOver, Account, AccountOver, Code, NoCode
<1>3. RowGrows
  BY RowStays DEF IInv
<1>4. CodesAreApart' /\ AccountsCanBeEntered'
  BY <1>1 DEF IInv, CodesAreApart, AccountsCanBeEntered, Exists
<1>5. issued' \in 0 .. MaxCodes /\ account' \in Account' \cup {NoAccount} /\ dead' \subseteq Code'
  BY <1>1, <1>2 DEF IInv, TypeOK
<1>6. r \in Call' /\ Sound(r, account', issued', dead')
  BY <1>1, <1>2
<1> QED
  BY <1>3, <1>4, <1>5, <1>6, ServerKeeps

Answered(r, reply) == [r EXCEPT !.pc = "answered", !.reply = reply, !.code = NoCode]
Granted(r, u) == [r EXCEPT !.pc = "mint", !.card = GoogleOnly(u)]
Gone(r, pc) == [r EXCEPT !.pc = pc]

LEMMA CallShape ==
  ASSUME IInv, NEW s \in Slots, call[s] # Idle
  PROVE  /\ call[s] \in Call
         /\ Sound(call[s], account, issued, dead)
         /\ \A reply : Answer(s, reply) => call' = [call EXCEPT ![s] = Answered(call[s], reply)]
         /\ \A pc : Goto(s, pc) => call' = [call EXCEPT ![s] = Gone(call[s], pc)]
         /\ \A u : Grant(s, u) => call' = [call EXCEPT ![s] = Granted(call[s], u)]
<1>1. call[s] \in Call
  BY DEF IInv, TypeOK
<1>2. Sound(call[s], account, issued, dead)
  BY DEF IInv, CallsAreSound
<1> QED
  BY <1>1, <1>2 DEF Answer, Goto, Grant, Answered, Gone, Granted

LEMMA AnsweredShape ==
  ASSUME NEW r \in Call, NEW reply \in Reply
  PROVE  LET new == Answered(r, reply)
         IN  /\ new \in Call /\ new.op = r.op /\ new.pc = "answered" /\ new.reply = reply
             /\ new.late = r.late
  BY DEF Answered, Call, CallOver

LEMMA GoneShape ==
  ASSUME NEW r \in Call, NEW pc \in {"create", "link", "write", "mint"}
  PROVE  LET new == Gone(r, pc)
         IN  /\ new \in Call /\ new.op = r.op /\ new.pc = pc /\ new.reply = r.reply
             /\ new.late = r.late /\ new.code = r.code
  BY DEF Gone, Call, CallOver

LEMMA GrantedShape ==
  ASSUME NEW r \in Call, NEW u
  PROVE  LET new == Granted(r, u)
         IN  /\ new \in Call /\ new.op = r.op /\ new.pc = "mint" /\ new.reply = r.reply
             /\ new.late = r.late /\ new.code = r.code
<1>1. GoogleOnly(u) \in BOOLEAN
  BY DEF GoogleOnly
<1> QED
  BY <1>1 DEF Granted, Call, CallOver

\* A call may be refused at any time before it is answered.
LEMMA RefusedKeeps ==
  ASSUME IInv, NEW s \in Slots, call[s] # Idle, call[s].pc # "answered",
         Answer(s, "refused"), UNCHANGED <<row, tab, invite>>
  PROVE  IInv'
<1> DEFINE new == Answered(call[s], "refused")
<1>1. /\ call[s] \in Call /\ Sound(call[s], account, issued, dead)
      /\ call' = [call EXCEPT ![s] = new]
  BY CallShape
<1>2. /\ new \in Call /\ new.op = call[s].op /\ new.pc = "answered" /\ new.reply = "refused"
      /\ new.late = call[s].late
  BY <1>1, AnsweredShape DEF Reply
<1> HIDE DEF new
<1>3. Sound(new, account, issued, dead)
  BY <1>1, <1>2 DEF Sound
<1> QED
  BY <1>1, <1>2, <1>3, ReadingKeeps

\* So may one that is not about a code be answered otherwise, by an account if
\* it is to enter.
LEMMA RepliedKeeps ==
  ASSUME IInv, NEW s \in Slots, call[s] # Idle, call[s].op \notin Confirming,
         NEW reply \in Reply, Answer(s, reply), UNCHANGED <<row, tab, invite>>,
         call[s].op \in {"login", "google"} /\ reply = "ok" => Exists
  PROVE  IInv'
<1> DEFINE new == Answered(call[s], reply)
<1>1. /\ call[s] \in Call /\ Sound(call[s], account, issued, dead)
      /\ call' = [call EXCEPT ![s] = new]
  BY CallShape
<1>2. /\ new \in Call /\ new.op = call[s].op /\ new.pc = "answered" /\ new.reply = reply
      /\ new.late = call[s].late
  BY <1>1, AnsweredShape
<1> HIDE DEF new
<1>3. Sound(new, account, issued, dead)
  BY <1>1, <1>2 DEF Sound, Exists, Confirming
<1> QED
  BY <1>1, <1>2, <1>3, ReadingKeeps

\* A call that is let through, but for those with a code.
LEMMA GoneKeeps ==
  ASSUME IInv, NEW s \in Slots, call[s] # Idle, call[s].pc = "sent", call[s].op \notin Confirming,
         NEW pc \in {"create", "link", "write"}, Goto(s, pc), pc # "create" => Exists,
         UNCHANGED <<row, tab, invite>>
  PROVE  IInv'
<1> DEFINE new == Gone(call[s], pc)
<1>1. /\ call[s] \in Call /\ Sound(call[s], account, issued, dead)
      /\ call' = [call EXCEPT ![s] = new]
  BY CallShape
<1>2. /\ new \in Call /\ new.op = call[s].op /\ new.pc = pc /\ new.reply = call[s].reply
      /\ new.late = call[s].late
  BY <1>1, GoneShape
<1> HIDE DEF new
<1>3. Sound(new, account, issued, dead)
  BY <1>1, <1>2 DEF Sound, Exists, Confirming
<1> QED
  BY <1>1, <1>2, <1>3, ReadingKeeps

\* A code that fits is not dead, nor in the other column.
LEMMA FittingKeeps ==
  ASSUME IInv, NEW s \in Slots, call[s] # Idle, call[s].pc = "sent", Exists,
         \/ call[s].op = "verify" /\ Fits(call[s], "verification")
         \/ call[s].op \in {"reset", "confirmSet"} /\ Fits(call[s], "reset"),
         Goto(s, "write"), UNCHANGED <<row, tab, invite>>
  PROVE  IInv'
<1> DEFINE new == Gone(call[s], "write")
<1>1. /\ call[s] \in Call /\ Sound(call[s], account, issued, dead)
      /\ call' = [call EXCEPT ![s] = new]
  BY CallShape
<1>2. /\ new \in Call /\ new.op = call[s].op /\ new.pc = "write" /\ new.reply = call[s].reply
      /\ new.late = call[s].late /\ new.code = call[s].code
  BY <1>1, GoneShape
<1> HIDE DEF new
<1>3. call[s].op \in Confirming /\ call[s].code \in 1 .. issued /\ call[s].code # NoCode
  BY <1>1 DEF Sound, Confirming, NoCode
<1>4. call[s].code \notin dead
  BY DEF IInv, CodesAreApart, Fits, Column
<1>5. call[s].op = "verify" => call[s].code # account.code["reset"]
  BY <1>3 DEF IInv, CodesAreApart, Fits
<1>6. call[s].op \in {"reset", "confirmSet"} => call[s].code # account.code["verification"]
  BY <1>3 DEF IInv, CodesAreApart, Fits
<1>7. Sound(new, account, issued, dead)
  BY <1>1, <1>2, <1>3, <1>4, <1>5, <1>6 DEF Sound, Exists
<1> QED
  BY <1>1, <1>2, <1>7, ReadingKeeps

LEMMA GrantedKeeps ==
  ASSUME IInv, NEW s \in Slots, call[s] # Idle, call[s].pc \in {"sent", "link"},
         call[s].op \in {"login", "google"}, NEW u, Grant(s, u), Exists,
         UNCHANGED <<row, tab, invite>>
  PROVE  IInv'
<1> DEFINE new == Granted(call[s], u)
<1>1. /\ call[s] \in Call /\ Sound(call[s], account, issued, dead)
      /\ call' = [call EXCEPT ![s] = new]
  BY CallShape
<1>2. /\ new \in Call /\ new.op = call[s].op /\ new.pc = "mint" /\ new.reply = call[s].reply
      /\ new.late = call[s].late
  BY <1>1, GrantedShape
<1> HIDE DEF new
<1>3. Sound(new, account, issued, dead)
  BY <1>1, <1>2 DEF Sound, Exists, Confirming
<1> QED
  BY <1>1, <1>2, <1>3, ReadingKeeps
LEMMA FindKeeps == ASSUME IInv, NEW s \in Slots, Find(s) PROVE IInv'
<1>1. call[s] # Idle /\ call[s].pc = "sent" /\ UNCHANGED <<row, tab, invite>>
  BY DEF Find, row
<1>2. Sound(call[s], account, issued, dead)
  BY <1>1, CallShape
<1>3. call[s].op \in {"requestSet", "confirmSet"} => Exists
  BY <1>2 DEF Sound, Exists
<1>4. CASE Answer(s, "refused")
  BY <1>1, <1>4, RefusedKeeps
<1>5. CASE /\ call[s].op \in {"register", "resend", "forgot", "requestSet", "google"}
           /\ \E pc \in {"create", "link", "write"} : Goto(s, pc) /\ (pc # "create" => Exists)
  BY <1>1, <1>5, GoneKeeps DEF Confirming
<1>6. CASE /\ Exists /\ Goto(s, "write")
           /\ \/ call[s].op = "verify" /\ Fits(call[s], "verification")
              \/ call[s].op \in {"reset", "confirmSet"} /\ Fits(call[s], "reset")
  BY <1>1, <1>6, FittingKeeps
<1>7. CASE call[s].op \in {"login", "google"} /\ Exists /\ Grant(s, account)
  BY <1>1, <1>7, GrantedKeeps
<1>8. CASE \/ call[s].op = "login" /\ Answer(s, "unverified")
           \/ call[s].op = "join" /\ Answer(s, "ok")
  BY <1>1, <1>8, RepliedKeeps DEF Confirming, Reply
<1>9. CASE registerCheck(s) \/ resendCheck(s) \/ forgotCheck(s) \/ requestSetCheck(s)
  BY <1>3, <1>4, <1>5, <1>9
     DEF registerCheck, resendCheck, forgotCheck, requestSetCheck, Check
<1>10. CASE verifyCheck(s) \/ resetCheck(s) \/ confirmSetCheck(s)
  BY <1>3, <1>4, <1>6, <1>10 DEF verifyCheck, resetCheck, confirmSetCheck, Check
<1>11. CASE loginCheck(s) \/ googleCheck(s) \/ Joins(s)
  BY <1>4, <1>5, <1>7, <1>8, <1>11 DEF loginCheck, SignIn, googleCheck, Joins
<1> QED
  BY <1>9, <1>10, <1>11 DEF Find

LEMMA MintKeeps == ASSUME IInv, NEW s \in Slots, Mint(s) PROVE IInv'
<1> DEFINE new == Answered(call[s], "ok")
<1>1. call[s] # Idle /\ call[s].pc = "mint" /\ UNCHANGED <<row, tab, invite>> /\ Answer(s, "ok")
  BY DEF Mint, row
<1>2. /\ call[s] \in Call /\ Sound(call[s], account, issued, dead)
      /\ call' = [call EXCEPT ![s] = new]
  BY <1>1, CallShape
<1>3. /\ new \in Call /\ new.op = call[s].op /\ new.pc = "answered" /\ new.reply = "ok"
      /\ new.late = call[s].late
  BY <1>2, AnsweredShape DEF Reply
<1> HIDE DEF new
<1>4. Sound(new, account, issued, dead)
  BY <1>1, <1>2, <1>3 DEF Sound
<1> QED
  BY <1>1, <1>2, <1>3, <1>4, ReadingKeeps

LEMMA FailKeeps == ASSUME IInv, NEW s \in Slots, Fail(s) PROVE IInv'
  BY RefusedKeeps DEF Fail, row

\* A step that writes the row.
LEMMA WritingKeeps ==
  ASSUME IInv, NEW s \in Slots, call[s] # Idle, NEW a \in Account', account' = a,
         NEW r \in Call, call' = [call EXCEPT ![s] = r], r.op = call[s].op,
         Sound(r, account', issued', dead'), RowGrows,
         issued' \in 0 .. MaxCodes, dead' \subseteq Code',
         CodesAreApart', AccountsCanBeEntered', UNCHANGED <<tab, invite>>
  PROVE  IInv'
  BY ServerKeeps, TypesGrow DEF RowGrows

\* A row as it is written: issued' codes, of which the dead' are in no column.
LEMMA WrittenRow ==
  ASSUME NEW a, account' = a, Exists',
         \/ a.googleId /\ a.verified
         \/ a.password /\ a.verified
         \/ a.password /\ a.code["verification"] # NoCode,
         a.code["verification"] = a.code["reset"] => a.code["reset"] = NoCode,
         a.code["verification"] \notin dead', a.code["reset"] \notin dead'
  PROVE  CodesAreApart' /\ AccountsCanBeEntered'
  BY DEF CodesAreApart, AccountsCanBeEntered, Exists, Column

LEMMA CreateKeeps == ASSUME IInv, NEW s \in Slots, Create(s) PROVE IInv'
<1> DEFINE local == [provider |-> "LOCAL", password |-> TRUE, googleId |-> FALSE, verified |-> FALSE,
                     code |-> [verification |-> issued + 1, reset |-> NoCode], expired |-> {}]
           google == [provider |-> "GOOGLE", password |-> FALSE, googleId |-> TRUE, verified |-> TRUE,
                      code |-> [verification |-> NoCode, reset |-> NoCode], expired |-> {}]
<1>1. /\ call[s] # Idle /\ call[s].pc = "create" /\ UNCHANGED <<dead, tab, invite>>
      /\ issued \in Nat /\ issued \in 0 .. MaxCodes /\ dead \subseteq Code
  BY DEF Create, IInv, TypeOK
<1>2. call[s] \in Call /\ Sound(call[s], account, issued, dead)
  BY <1>1, CallShape
<1>3. CASE Exists /\ Answer(s, "refused") /\ UNCHANGED <<account, issued>>
  BY <1>1, <1>3, RefusedKeeps DEF row
<1>4. CASE /\ ~ Exists /\ call[s].op = "register" /\ issued < MaxCodes
           /\ account' = local /\ issued' = issued + 1 /\ Answer(s, "ok")
  <2> DEFINE new == Answered(call[s], "ok")
  <2>1. call' = [call EXCEPT ![s] = new]
    BY <1>1, <1>4, CallShape
  <2>2. /\ new \in Call /\ new.op = call[s].op /\ new.pc = "answered" /\ new.reply = "ok"
        /\ new.late = call[s].late
    BY <1>2, AnsweredShape DEF Reply
  <2>3. issued' \in Nat /\ issued <= issued' /\ issued' \in 0 .. MaxCodes
    BY <1>1, <1>4, BoundsAssumption
  <2>4. local \in Account'
    <3>1. issued' \in Code' /\ issued + 1 = issued'
      BY <1>1, <1>4 DEF Code
    <3>2. local.code \in [Column -> Code' \cup {NoCode}]
      BY <3>1 DEF Column
    <3> QED
      BY <3>2 DEF Account, AccountOver, NoCode
  <2>5. NoAccount \notin Account' /\ dead' \subseteq Code'
    BY <1>1, <2>3, TypesGrow
  <2>6. local.code["verification"] = issued + 1 /\ local.code["reset"] = NoCode
        /\ local.password
    OBVIOUS
  <2> HIDE DEF local, new
  <2>7. RowGrows
    BY <1>1, <1>4, <2>3 DEF RowGrows
  <2>8. CodesAreApart' /\ AccountsCanBeEntered'
    <3>1. issued + 1 \notin dead /\ NoCode \notin dead /\ issued + 1 # NoCode
      BY <1>1 DEF Code, NoCode
    <3>2. Exists'
      BY <1>4, <2>4, <2>5 DEF Exists
    <3> QED
      BY <1>1, <1>4, <2>6, <3>1, <3>2, WrittenRow
  <2>9. Sound(new, account', issued', dead')
    BY <1>1, <1>2, <1>4, <2>2 DEF Sound, Confirming
  <2> QED
    BY <1>1, <1>4, <2>1, <2>2, <2>3, <2>4, <2>5, <2>7, <2>8, <2>9, WritingKeeps
<1>5. CASE /\ ~ Exists /\ call[s].op = "google"
           /\ account' = google /\ UNCHANGED issued /\ Grant(s, google)
  <2> DEFINE new == Granted(call[s], google)
  <2>1. call' = [call EXCEPT ![s] = new]
    BY <1>1, <1>5, CallShape
  <2>2. /\ new \in Call /\ new.op = call[s].op /\ new.pc = "mint" /\ new.reply = call[s].reply
        /\ new.late = call[s].late
    BY <1>2, GrantedShape
  <2>3. google \in Account'
    <3>1. google.code \in [Column -> Code' \cup {NoCode}]
      BY DEF Column
    <3> QED
      BY <3>1 DEF Account, AccountOver, NoCode
  <2>4. issued' \in Nat /\ issued <= issued'
    BY <1>1, <1>5
  <2>5. NoAccount \notin Account' /\ dead' \subseteq Code'
    BY <1>1, <2>4, TypesGrow
  <2>6. google.code["verification"] = NoCode /\ google.code["reset"] = NoCode
        /\ google.googleId /\ google.verified
    OBVIOUS
  <2> HIDE DEF google, new
  <2>7. RowGrows
    BY <1>1, <1>5, <2>4 DEF RowGrows
  <2>8. CodesAreApart' /\ AccountsCanBeEntered'
    <3>1. NoCode \notin dead
      BY <1>1 DEF Code, NoCode
    <3>2. Exists'
      BY <1>5, <2>3, <2>5 DEF Exists
    <3> QED
      BY <1>1, <1>5, <2>6, <3>1, <3>2, WrittenRow
  <2>9. Sound(new, account', issued', dead')
    <3>1. account' # NoAccount
      BY <1>5, <2>3, <2>5
    <3> QED
      BY <1>1, <1>2, <1>5, <2>2, <3>1 DEF Sound, Confirming
  <2> QED
    BY <1>1, <1>5, <2>1, <2>2, <2>3, <2>5, <2>7, <2>8, <2>9, WritingKeeps
<1> QED
  BY <1>1, <1>3, <1>4, <1>5 DEF Create
\* The row a call finds when it writes, with the codes apart and none dead.
LEMMA FoundRow ==
  ASSUME IInv, NEW s \in Slots, call[s] # Idle, call[s].pc \in {"link", "write"}
  PROVE  /\ Exists /\ account \in Account /\ account \in AccountOver(Nat)
         /\ account.code \in [Column -> 0 .. issued]
         /\ issued \in Nat /\ issued \in 0 .. MaxCodes /\ dead \subseteq 1 .. issued
         /\ Code = 1 .. issued /\ NoCode = 0
         /\ account.code["verification"] = account.code["reset"] => account.code["reset"] = 0
         /\ account.code["verification"] \notin dead /\ account.code["reset"] \notin dead
         /\ \/ account.googleId /\ account.verified
            \/ account.password /\ account.verified
            \/ account.password /\ account.code["verification"] # 0
<1>1. Exists
  BY CallShape DEF Sound, Exists
<1>2. /\ account \in Account /\ issued \in Nat /\ issued \in 0 .. MaxCodes
      /\ dead \subseteq 1 .. issued /\ Code = 1 .. issued /\ NoCode = 0
  BY <1>1, BoundsAssumption DEF IInv, TypeOK, Exists, Code, NoCode
<1>3. Code \cup {NoCode} = 0 .. issued
  BY <1>2
<1>4. account.code \in [Column -> 0 .. issued]
  BY <1>2, <1>3 DEF Account, AccountOver
<1>5. account \in AccountOver(Nat)
  <2>1. [Column -> 0 .. issued] \subseteq [Column -> Nat]
    BY <1>2
  <2> QED
    BY <1>2, <1>4, <2>1 DEF Account, AccountOver
<1>6. "verification" \in Column /\ "reset" \in Column
  BY DEF Column
<1> QED
  BY <1>1, <1>2, <1>4, <1>5, <1>6 DEF IInv, CodesAreApart, AccountsCanBeEntered

LEMMA LinkKeeps == ASSUME IInv, NEW s \in Slots, LinkGoogle(s) PROVE IInv'
<1> DEFINE a == [account EXCEPT !.googleId = TRUE, !.verified = TRUE]
           new == Granted(call[s], account')
<1>1. /\ call[s] # Idle /\ call[s].pc = "link" /\ UNCHANGED <<issued, dead, tab, invite>>
      /\ account' = a /\ Grant(s, account')
  BY DEF LinkGoogle
<1>2. call[s] \in Call /\ Sound(call[s], account, issued, dead)
      /\ call' = [call EXCEPT ![s] = new]
  BY <1>1, CallShape
<1>3. /\ new \in Call /\ new.op = call[s].op /\ new.pc = "mint" /\ new.reply = call[s].reply
      /\ new.late = call[s].late
  BY <1>2, GrantedShape
<1>4. /\ Exists /\ account \in Account /\ issued \in Nat /\ issued \in 0 .. MaxCodes
      /\ dead \subseteq Code
      /\ account.code["verification"] = account.code["reset"] => account.code["reset"] = NoCode
      /\ account.code["verification"] \notin dead /\ account.code["reset"] \notin dead
  BY <1>1, FoundRow
<1>5. Code' = Code /\ Account' = Account /\ NoAccount \notin Account
  BY <1>1, <1>4, TypesGrow DEF Code, Account, AccountOver, NoCode
<1>6. a \in Account' /\ a.code = account.code /\ a.googleId /\ a.verified
  BY <1>4, <1>5 DEF Account, AccountOver
<1> HIDE DEF a, new
<1>7. RowGrows
  BY <1>1, <1>4, <1>5, <1>6 DEF RowGrows
<1>8. CodesAreApart' /\ AccountsCanBeEntered'
  <2>1. Exists'
    BY <1>1, <1>5, <1>6 DEF Exists
  <2> QED
    BY <1>1, <1>4, <1>6, <2>1, WrittenRow
<1>9. Sound(new, account', issued', dead')
  <2>1. account' # NoAccount
    BY <1>1, <1>5, <1>6
  <2>2. ~ call[s].late
    BY <1>1, <1>2 DEF Sound
  <2> QED
    BY <1>1, <1>2, <1>3, <2>1, <2>2 DEF Sound
<1> QED
  BY <1>1, <1>2, <1>3, <1>4, <1>5, <1>6, <1>7, <1>8, <1>9, WritingKeeps

LEMMA StoreCodeKeeps == ASSUME IInv, NEW s \in Slots, StoreCode(s) PROVE IInv'
<1> DEFINE column == IF call[s].op = "resend" THEN "verification" ELSE "reset"
           a == [account EXCEPT !.code[column] = issued + 1, !.expired = @ \ {column}]
           new == Answered(call[s], "ok")
<1>1. /\ call[s] # Idle /\ call[s].pc = "write" /\ UNCHANGED <<tab, invite>>
      /\ call[s].op \in {"resend", "forgot", "requestSet"}
      /\ issued < MaxCodes /\ issued' = issued + 1 /\ account' = a /\ Answer(s, "ok")
      /\ dead' = dead \cup ({account.code[column]} \ {NoCode})
  BY DEF StoreCode
<1>2. call[s] \in Call /\ Sound(call[s], account, issued, dead)
      /\ call' = [call EXCEPT ![s] = new]
  BY <1>1, CallShape
<1>3. /\ new \in Call /\ new.op = call[s].op /\ new.pc = "answered" /\ new.reply = "ok"
      /\ new.late = call[s].late
  BY <1>2, AnsweredShape DEF Reply
<1>4. /\ Exists /\ account \in Account /\ account.code \in [Column -> 0 .. issued]
      /\ issued \in Nat /\ dead \subseteq 1 .. issued /\ NoCode = 0
      /\ account.code["verification"] = account.code["reset"] => account.code["reset"] = 0
      /\ account.code["verification"] \notin dead /\ account.code["reset"] \notin dead
      /\ \/ account.googleId /\ account.verified
         \/ account.password /\ account.verified
         \/ account.password /\ account.code["verification"] # 0
  BY <1>1, FoundRow
<1>5. column \in Column /\ Column = {"verification", "reset"}
  BY DEF Column
<1>6. issued' \in Nat /\ issued <= issued' /\ issued' \in 0 .. MaxCodes
  BY <1>1, <1>4, BoundsAssumption
<1>7. Code' = 1 .. issued' /\ Code' \cup {NoCode} = 0 .. issued'
  BY <1>4, <1>6 DEF Code
<1>8. account.code[column] \in 0 .. issued
  BY <1>4, <1>5
<1>9. dead' \subseteq Code'
  BY <1>1, <1>4, <1>6, <1>7, <1>8
<1>10. a.code = [account.code EXCEPT ![column] = issued + 1]
       /\ a.googleId = account.googleId /\ a.verified = account.verified
       /\ a.password = account.password
  BY <1>4 DEF Account, AccountOver
<1>11. \A c \in Column : a.code[c] = IF c = column THEN issued + 1 ELSE account.code[c]
  BY <1>4, <1>10
<1>12. a.code \in [Column -> Code' \cup {NoCode}]
  BY <1>1, <1>4, <1>5, <1>6, <1>7, <1>10
<1>13. a \in Account'
  BY <1>4, <1>12 DEF Account, AccountOver
<1>14. NoAccount \notin Account'
  BY <1>4, <1>6, TypesGrow
<1> HIDE DEF a, new, column
<1>15. RowGrows
  BY <1>1, <1>4, <1>6, <1>11, <1>13, <1>14 DEF RowGrows
<1>16. CodesAreApart' /\ AccountsCanBeEntered'
  <2>1. Exists'
    BY <1>1, <1>13, <1>14 DEF Exists
  <2>2. \A c \in Column : a.code[c] \notin dead'
    <3> SUFFICES ASSUME NEW c \in Column PROVE a.code[c] \notin dead'
      OBVIOUS
    <3>1. CASE c = column
      BY <1>1, <1>4, <1>8, <1>11, <3>1
    <3>2. CASE c # column
      <4>1. a.code[c] = account.code[c] /\ a.code[c] \notin dead
        BY <1>4, <1>5, <1>11, <3>2
      <4>2. a.code[c] = account.code[column] => a.code[c] = 0
        <5>1. CASE column = "verification" /\ c = "reset"
          BY <1>4, <4>1, <5>1
        <5>2. CASE column = "reset" /\ c = "verification"
          BY <1>4, <4>1, <5>2
        <5> QED
          BY <1>5, <3>2, <5>1, <5>2
      <4> QED
        BY <1>1, <1>4, <4>1, <4>2
    <3> QED
      BY <3>1, <3>2
  <2>3. a.code["verification"] # a.code["reset"]
    BY <1>4, <1>5, <1>11
  <2>4. \/ a.googleId /\ a.verified
        \/ a.password /\ a.verified
        \/ a.password /\ a.code["verification"] # NoCode
    BY <1>4, <1>5, <1>10, <1>11
  <2> QED
    BY <1>1, <1>5, <2>1, <2>2, <2>3, <2>4, WrittenRow
<1>17. Sound(new, account', issued', dead')
  BY <1>1, <1>2, <1>3, <1>13, <1>14 DEF Sound, Confirming
<1> QED
  BY <1>1, <1>2, <1>3, <1>6, <1>9, <1>13, <1>15, <1>16, <1>17, WritingKeeps

LEMMA ConfirmEmailKeeps == ASSUME IInv, NEW s \in Slots, ConfirmEmail(s) PROVE IInv'
<1> DEFINE a == [account EXCEPT !.verified = TRUE, !.code["verification"] = NoCode,
                                !.expired = @ \ {"verification"}]
           new == Granted(call[s], account')
<1>1. /\ call[s] # Idle /\ call[s].pc = "write" /\ UNCHANGED <<issued, tab, invite>>
      /\ call[s].op = "verify" /\ account' = a /\ Grant(s, account')
      /\ dead' = dead \cup {call[s].code}
  BY DEF ConfirmEmail
<1>2. call[s] \in Call /\ Sound(call[s], account, issued, dead)
      /\ call' = [call EXCEPT ![s] = new]
  BY <1>1, CallShape
<1>3. /\ new \in Call /\ new.op = call[s].op /\ new.pc = "mint" /\ new.reply = call[s].reply
      /\ new.late = call[s].late
  BY <1>2, GrantedShape
<1>4. /\ Exists /\ account \in Account /\ account.code \in [Column -> 0 .. issued]
      /\ issued \in Nat /\ issued \in 0 .. MaxCodes /\ dead \subseteq 1 .. issued
      /\ Code = 1 .. issued /\ NoCode = 0
      /\ account.code["verification"] \notin dead /\ account.code["reset"] \notin dead
      /\ \/ account.googleId /\ account.verified
         \/ account.password /\ account.verified
         \/ account.password /\ account.code["verification"] # 0
  BY <1>1, FoundRow
<1>5. Code' = Code /\ Account' = Account /\ NoAccount \notin Account
  BY <1>1, <1>4, TypesGrow DEF Code, Account, AccountOver, NoCode
<1>6. call[s].code \in 1 .. issued /\ call[s].code # account.code["reset"]
  BY <1>1, <1>2 DEF Sound, Confirming
<1>7. a.code = [account.code EXCEPT !["verification"] = NoCode] /\ a.verified
      /\ a.googleId = account.googleId /\ a.password = account.password
  BY <1>4 DEF Account, AccountOver
<1>8. a.code["verification"] = NoCode /\ a.code["reset"] = account.code["reset"]
      /\ \A c \in Column : a.code[c] = NoCode \/ a.code[c] = account.code[c]
  BY <1>4, <1>7 DEF Column
<1>9. a \in Account'
  <2>1. Code' \cup {NoCode} = 0 .. issued
    BY <1>4, <1>5
  <2>2. a.code \in [Column -> Code' \cup {NoCode}]
    BY <1>4, <1>7, <2>1
  <2> QED
    BY <1>4, <2>2 DEF Account, AccountOver
<1> HIDE DEF a, new
<1>10. RowGrows
  BY <1>1, <1>4, <1>5, <1>8, <1>9 DEF RowGrows
<1>11. CodesAreApart' /\ AccountsCanBeEntered'
  <2>1. Exists'
    BY <1>1, <1>5, <1>9 DEF Exists
  <2>2. a.code["verification"] \notin dead' /\ a.code["reset"] \notin dead'
    BY <1>1, <1>4, <1>6, <1>8
  <2>3. (a.googleId \/ a.password) /\ a.verified
    BY <1>4, <1>7
  <2> QED
    BY <1>1, <1>8, <2>1, <2>2, <2>3, WrittenRow
<1>12. Sound(new, account', issued', dead')
  <2>1. ~ call[s].late
    BY <1>1, <1>2 DEF Sound
  <2> QED
    BY <1>1, <1>2, <1>3, <1>5, <1>9, <2>1 DEF Sound
<1>13. dead' \subseteq Code'
  BY <1>1, <1>4, <1>5, <1>6
<1> QED
  BY <1>1, <1>2, <1>3, <1>4, <1>9, <1>10, <1>11, <1>12, <1>13, WritingKeeps

LEMMA ConfirmPasswordKeeps == ASSUME IInv, NEW s \in Slots, ConfirmPassword(s) PROVE IInv'
<1> DEFINE a == [account EXCEPT !.password = TRUE, !.code["reset"] = NoCode,
                                !.expired = @ \ {"reset"}]
           new == Answered(call[s], "ok")
<1>1. /\ call[s] # Idle /\ call[s].pc = "write" /\ UNCHANGED <<issued, tab, invite>>
      /\ call[s].op \in {"reset", "confirmSet"} /\ account' = a /\ Answer(s, "ok")
      /\ dead' = dead \cup {call[s].code}
  BY DEF ConfirmPassword
<1>2. call[s] \in Call /\ Sound(call[s], account, issued, dead)
      /\ call' = [call EXCEPT ![s] = new]
  BY <1>1, CallShape
<1>3. /\ new \in Call /\ new.op = call[s].op /\ new.pc = "answered" /\ new.reply = "ok"
      /\ new.late = call[s].late
  BY <1>2, AnsweredShape DEF Reply
<1>4. /\ Exists /\ account \in Account /\ account.code \in [Column -> 0 .. issued]
      /\ issued \in Nat /\ issued \in 0 .. MaxCodes /\ dead \subseteq 1 .. issued
      /\ Code = 1 .. issued /\ NoCode = 0
      /\ account.code["verification"] \notin dead /\ account.code["reset"] \notin dead
      /\ \/ account.googleId /\ account.verified
         \/ account.password /\ account.verified
         \/ account.password /\ account.code["verification"] # 0
  BY <1>1, FoundRow
<1>5. Code' = Code /\ Account' = Account /\ NoAccount \notin Account
  BY <1>1, <1>4, TypesGrow DEF Code, Account, AccountOver, NoCode
<1>6. call[s].code \in 1 .. issued /\ call[s].code # account.code["verification"]
  BY <1>1, <1>2 DEF Sound, Confirming
<1>7. a.code = [account.code EXCEPT !["reset"] = NoCode] /\ a.password
      /\ a.googleId = account.googleId /\ a.verified = account.verified
  BY <1>4 DEF Account, AccountOver
<1>8. a.code["reset"] = NoCode /\ a.code["verification"] = account.code["verification"]
      /\ \A c \in Column : a.code[c] = NoCode \/ a.code[c] = account.code[c]
  BY <1>4, <1>7 DEF Column
<1>9. a \in Account'
  <2>1. Code' \cup {NoCode} = 0 .. issued
    BY <1>4, <1>5
  <2>2. a.code \in [Column -> Code' \cup {NoCode}]
    BY <1>4, <1>7, <2>1
  <2> QED
    BY <1>4, <2>2 DEF Account, AccountOver
<1> HIDE DEF a, new
<1>10. RowGrows
  BY <1>1, <1>4, <1>5, <1>8, <1>9 DEF RowGrows
<1>11. CodesAreApart' /\ AccountsCanBeEntered'
  <2>1. Exists'
    BY <1>1, <1>5, <1>9 DEF Exists
  <2>2. a.code["verification"] \notin dead' /\ a.code["reset"] \notin dead'
    BY <1>1, <1>4, <1>6, <1>8
  <2>3. \/ a.googleId /\ a.verified
        \/ a.password /\ a.verified
        \/ a.password /\ a.code["verification"] # NoCode
    BY <1>4, <1>7, <1>8
  <2> QED
    BY <1>1, <1>8, <2>1, <2>2, <2>3, WrittenRow
<1>12. Sound(new, account', issued', dead')
  <2>1. ~ call[s].late
    BY <1>1, <1>2 DEF Sound
  <2> QED
    BY <1>1, <1>2, <1>3, <1>5, <1>9, <2>1 DEF Sound
<1>13. dead' \subseteq Code'
  BY <1>1, <1>4, <1>5, <1>6
<1> QED
  BY <1>1, <1>2, <1>3, <1>4, <1>9, <1>10, <1>11, <1>12, <1>13, WritingKeeps

LEMMA ExpireKeeps == ASSUME IInv, NEW column \in Column, Expire(column) PROVE IInv'
<1> DEFINE a == [account EXCEPT !.expired = @ \cup {column}]
<1>1. account' = a /\ UNCHANGED <<issued, dead, tab, call, invite>> /\ Exists
  BY DEF Expire
<1>2. account \in Account /\ issued \in Nat
  BY <1>1, BoundsAssumption DEF IInv, TypeOK, Exists
<1>3. Code' = Code /\ Account' = Account /\ Call' = Call /\ NoAccount \notin Account
  BY <1>1, <1>2, TypesGrow DEF Code, Account, AccountOver, Call, CallOver, NoCode
<1>4. a \in Account /\ a.code = account.code /\ a.googleId = account.googleId
      /\ a.verified = account.verified /\ a.password = account.password
  BY <1>2 DEF Account, AccountOver
<1> HIDE DEF a
<1>5. TypeOK'
  BY <1>1, <1>3, <1>4 DEF IInv, TypeOK
<1>6. RowGrows
  BY <1>1, <1>2, <1>3, <1>4 DEF RowGrows
<1>7. CallsAreSound'
  BY <1>1, <1>6, StaysSound DEF IInv, CallsAreSound
<1>8. CodesAreApart' /\ AccountsCanBeEntered' /\ OnlyAccountsSignIn' /\ InvitationIsKept'
  BY <1>1, <1>3, <1>4
     DEF IInv, CodesAreApart, AccountsCanBeEntered, OnlyAccountsSignIn, InvitationIsKept, Exists
<1> QED
  BY <1>5, <1>7, <1>8 DEF IInv
----------------------------------------------------------------------------
(* The answers                                                             *)

\* What an answer leaves of the pages and the invitation.
PagesAreKept ==
    /\ tab' \in [Tabs -> TabType] /\ OnlyAccountsSignIn'
    /\ invite' \in Invite /\ InvitationIsKept'

LEMMA FreedCall ==
  ASSUME IInv, NEW s \in Slots, call[s] # Idle, call' = [call EXCEPT ![s] = Idle], UNCHANGED row
  PROVE  /\ call' \in [Slots -> Call \cup {Idle}] /\ CallsAreSound'
         /\ call[s].op # "join" => JoinsStay
<1>1. \A z \in Slots : call'[z] = IF z = s THEN Idle ELSE call[z]
  BY DEF IInv, TypeOK
<1>2. call' \in [Slots -> Call \cup {Idle}]
  BY DEF IInv, TypeOK
<1>3. CallsAreSound'
  BY <1>1 DEF IInv, CallsAreSound, row
<1> QED
  BY <1>1, <1>2, <1>3 DEF JoinsStay

LEMMA EnterKeeps ==
  ASSUME IInv, UNCHANGED row, JoinsStay, Exists, NEW t \in Tabs, NEW shown, Enter(t, shown)
  PROVE  PagesAreKept
<1> DEFINE new == [page |-> Destination, signedIn |-> TRUE, card |-> Offer(shown)]
<1>1. new \in TabType
  BY DEF TabType, Destination, Offer, Page, Card
<1>2. tab' = [tab EXCEPT ![t] = new] /\ new.page = Destination
  BY DEF Enter, SignedInAs
<1> HIDE DEF new
<1>3. tab' \in [Tabs -> TabType] /\ \A u \in Tabs : tab'[u] = IF u = t THEN new ELSE tab[u]
  BY <1>1, <1>2 DEF IInv, TypeOK, TabType
<1>4. OnlyAccountsSignIn'
  BY DEF OnlyAccountsSignIn, Exists, row
<1>5. invite' \in Invite
  BY DEF Enter, Overtaken, IInv, TypeOK, Invite
<1>6. InvitationIsKept'
  <2>1. CASE invite.pending
    <3>1. tab'[t].page = "invited"
      BY <1>2, <1>3, <2>1 DEF Destination
    <3> QED
      BY <3>1 DEF InvitationIsKept
  <2>2. CASE ~ invite.pending /\ tab[t].page = "invited"
    <3>1. invite'.became # "open"
      BY <2>2 DEF Enter, Overtaken
    <3> QED
      BY <3>1 DEF InvitationIsKept
  <2>3. CASE ~ invite.pending /\ tab[t].page # "invited"
    <3>1. invite'.became = invite.became
      BY <2>3 DEF Enter, Overtaken
    <3> QED
      BY <1>3, <2>3, <3>1 DEF IInv, InvitationIsKept, JoinsStay
  <2> QED
    BY <2>1, <2>2, <2>3
<1> QED
  BY <1>3, <1>4, <1>5, <1>6 DEF PagesAreKept

LEMMA PushKeeps ==
  ASSUME IInv, UNCHANGED row, JoinsStay, NEW t \in Tabs, NEW page \in Page, Push(t, page)
  PROVE  PagesAreKept
<1>1. tab[t].signedIn \in BOOLEAN /\ tab \in [Tabs -> TabType]
  BY DEF IInv, TypeOK, TabType
<1>2. CASE tab[t].page # "invited"
  <2>1. Lands(t, page, tab[t].signedIn)
    BY <1>2 DEF Push
  <2> QED
    BY <1>1, <1>2, <2>1, LandsKeeps DEF PagesAreKept
<1>3. CASE tab[t].page = "invited"
  <2>1. tab' = [tab EXCEPT ![t].page = page] /\ invite' = [invite EXCEPT !.became = Overtaken(t)]
    BY <1>3 DEF Push
  <2>2. /\ tab' \in [Tabs -> TabType]
        /\ \A u \in Tabs : tab'[u].signedIn = tab[u].signedIn /\ tab'[u].card = tab[u].card
    BY <1>1, <2>1 DEF TabType
  <2>3. OnlyAccountsSignIn'
    BY <2>2 DEF IInv, OnlyAccountsSignIn, Exists, row
  <2>4. invite' \in Invite
    BY <2>1 DEF Overtaken, IInv, TypeOK, Invite
  <2>5. invite'.became # "open"
    BY <1>3, <2>1 DEF Overtaken, IInv, TypeOK
  <2> QED
    BY <2>2, <2>3, <2>4, <2>5 DEF PagesAreKept, InvitationIsKept
<1> QED
  BY <1>2, <1>3

\* The pages change in a way that neither reaches nor leaves the invitation's.
LEMMA AsideKeeps ==
  ASSUME IInv, UNCHANGED <<row, invite>>, JoinsStay, tab' \in [Tabs -> TabType],
         \A t \in Tabs : tab[t].page = "invited" => tab'[t].page = "invited",
         OnlyAccountsSignIn'
  PROVE  PagesAreKept
  BY DEF IInv, TypeOK, PagesAreKept, Invite, InvitationIsKept, JoinsStay

LEMMA ArriveKeeps == ASSUME IInv, NEW s \in Slots, Arrive(s) PROVE IInv'
<1> DEFINE r == call[s]
           t == r.tab
<1>1. r # Idle /\ r.pc = "answered" /\ call' = [call EXCEPT ![s] = Idle] /\ UNCHANGED row
  BY DEF Arrive, row
<1>2. r \in Call /\ Sound(r, account, issued, dead)
  BY <1>1, CallShape
<1>3. t \in Tabs
  BY <1>2 DEF Call, CallOver
<1>4. /\ call' \in [Slots -> Call \cup {Idle}] /\ CallsAreSound'
      /\ r.op # "join" => JoinsStay
  BY <1>1, FreedCall
<1>5. tab \in [Tabs -> TabType]
  BY DEF IInv, TypeOK, TabType
<1>6. r.op \in {"login", "google", "verify"} /\ r.reply = "ok" => Exists
  BY <1>2 DEF Sound, Exists
<1> SUFFICES PagesAreKept
  BY <1>1, <1>4, PagesChange DEF PagesAreKept
<1>7. CASE SignInAnswered(t, r)
  <2>1. Exists /\ JoinsStay
    BY <1>4, <1>6, <1>7 DEF SignInAnswered
  <2>2. CASE Enter(t, r.card)
    BY <1>1, <1>3, <2>1, <2>2, EnterKeeps
  <2>3. CASE tab' = SignedInAs(t, tab[t].page, r.card) /\ UNCHANGED invite
    <3> DEFINE new == [page |-> tab[t].page, signedIn |-> TRUE, card |-> Offer(r.card)]
    <3>1. new \in TabType /\ new.page = tab[t].page
      BY <1>3, <1>5 DEF TabType, Offer, Card
    <3>2. tab' = [tab EXCEPT ![t] = new]
      BY <2>3 DEF SignedInAs
    <3> HIDE DEF new
    <3>3. tab' \in [Tabs -> TabType] /\ \A u \in Tabs : tab'[u].page = tab[u].page
      BY <1>3, <1>5, <3>1, <3>2
    <3>4. OnlyAccountsSignIn'
      BY <1>1, <2>1 DEF OnlyAccountsSignIn, Exists, row
    <3> QED
      BY <1>1, <2>1, <2>3, <3>3, <3>4, AsideKeeps
  <2> QED
    BY <1>7, <2>2, <2>3 DEF SignInAnswered
<1>8. CASE VerifyAnswered(t, r)
  <2>1. Exists /\ JoinsStay /\ Enter(t, r.card)
    BY <1>4, <1>6, <1>8 DEF VerifyAnswered
  <2> QED
    BY <1>1, <1>3, <2>1, EnterKeeps
<1>9. CASE CodeIsNeeded(t, r) \/ ResetAnswered(t, r)
  <2>1. PICK page \in {"verify", "login"} : JoinsStay /\ Push(t, page)
    BY <1>4, <1>9 DEF CodeIsNeeded, ResetAnswered
  <2>2. page \in Page
    BY DEF Page
  <2> QED
    BY <1>1, <1>3, <2>1, <2>2, PushKeeps
<1>10. CASE ForgotAnswered(t, r)
  <2>1. /\ tab' = [tab EXCEPT ![t].page = IF @ = "forgot" THEN "reset" ELSE @]
        /\ UNCHANGED invite /\ JoinsStay
    BY <1>4, <1>10 DEF ForgotAnswered
  <2>2. /\ tab' \in [Tabs -> TabType]
        /\ \A u \in Tabs : tab'[u].signedIn = tab[u].signedIn /\ tab'[u].card = tab[u].card
        /\ \A u \in Tabs : tab[u].page = "invited" => tab'[u].page = "invited"
    BY <1>3, <1>5, <2>1 DEF TabType, Page
  <2>3. OnlyAccountsSignIn'
    BY <1>1, <2>2 DEF IInv, OnlyAccountsSignIn, Exists, row
  <2> QED
    BY <1>1, <2>1, <2>2, <2>3, AsideKeeps
<1>11. CASE SetPasswordAnswered(t, r)
  <2>1. /\ tab' = [tab EXCEPT ![t].card =
                     IF @ = "none" THEN @ ELSE IF r.op = "requestSet" THEN "otp" ELSE "none"]
        /\ UNCHANGED invite /\ JoinsStay
    BY <1>4, <1>11 DEF SetPasswordAnswered
  <2>2. /\ tab' \in [Tabs -> TabType]
        /\ \A u \in Tabs : tab'[u].signedIn = tab[u].signedIn /\ tab'[u].page = tab[u].page
        /\ \A u \in Tabs : tab'[u].card # "none" => tab[u].card # "none"
    BY <1>3, <1>5, <2>1 DEF TabType, Card
  <2>3. OnlyAccountsSignIn'
    BY <1>1, <2>2 DEF IInv, OnlyAccountsSignIn, Exists, row
  <2> QED
    BY <1>1, <2>1, <2>2, <2>3, AsideKeeps
<1>12. CASE JoinAnswered(t, r)
  <2>1. /\ tab' = [tab EXCEPT ![t].page = IF @ = "invite" THEN "home" ELSE @]
        /\ invite' = [invite EXCEPT !.became = IF r.reply = "ok" THEN "joined" ELSE "refused"]
    BY <1>12 DEF JoinAnswered
  <2>2. /\ tab' \in [Tabs -> TabType]
        /\ \A u \in Tabs : tab'[u].signedIn = tab[u].signedIn /\ tab'[u].card = tab[u].card
    BY <1>3, <1>5, <2>1 DEF TabType, Page
  <2>3. OnlyAccountsSignIn'
    BY <1>1, <2>2 DEF IInv, OnlyAccountsSignIn, Exists, row
  <2>4. invite' \in Invite /\ invite'.became # "open"
    BY <2>1 DEF IInv, TypeOK, Invite
  <2> QED
    BY <2>2, <2>3, <2>4 DEF PagesAreKept, InvitationIsKept
<1>13. CASE MessageShown(r)
  <2>1. UNCHANGED <<tab, invite>> /\ JoinsStay
    BY <1>4, <1>13 DEF MessageShown
  <2>2. OnlyAccountsSignIn'
    BY <1>1, <2>1 DEF IInv, OnlyAccountsSignIn, Exists, row
  <2> QED
    BY <1>1, <1>5, <2>1, <2>2, AsideKeeps
<1> QED
  BY <1>7, <1>8, <1>9, <1>10, <1>11, <1>12, <1>13 DEF Arrive

----------------------------------------------------------------------------
(* The invariant                                                           *)

LEMMA InitHolds == Init => IInv
<1> SUFFICES ASSUME Init PROVE IInv
  OBVIOUS
<1>1. TypeOK
  BY BoundsAssumption DEF Init, TypeOK, Page, Card
<1>2. CallsAreSound /\ CodesAreApart /\ AccountsCanBeEntered
  BY DEF Init, CallsAreSound, CodesAreApart, AccountsCanBeEntered, Exists
<1>3. OnlyAccountsSignIn /\ InvitationIsKept
  BY DEF Init, OnlyAccountsSignIn, InvitationIsKept
<1> QED
  BY <1>1, <1>2, <1>3 DEF IInv

LEMMA StepHolds == IInv /\ [Next]_vars => IInv'
<1> SUFFICES ASSUME IInv, [Next]_vars PROVE IInv'
  OBVIOUS
<1>1. CASE UNCHANGED vars
  <2>1. UNCHANGED <<row, tab, call, invite>>
    BY <1>1 DEF vars
  <2>2. OnlyAccountsSignIn' /\ InvitationIsKept'
    BY <2>1 DEF IInv, OnlyAccountsSignIn, InvitationIsKept, Exists, row
  <2>3. tab' \in [Tabs -> TabType] /\ invite' \in Invite
    BY <2>1 DEF IInv, TypeOK, TabType, Invite
  <2> QED
    BY <2>1, <2>2, <2>3, SameCalls, PagesChange
<1>2. CASE Browse
  BY <1>2, VisitKeeps, OpenInviteKeeps, LogoutKeeps, FormsKeep, InvitedKeeps DEF Browse
<1>3. CASE Serve
  BY <1>3, FindKeeps, CreateKeeps, LinkKeeps, StoreCodeKeeps, ConfirmEmailKeeps,
     ConfirmPasswordKeeps, MintKeeps, FailKeeps DEF Serve
<1>4. CASE \E s \in Slots : Arrive(s)
  BY <1>4, ArriveKeeps
<1>5. CASE \E column \in Column : Expire(column)
  BY <1>5, ExpireKeeps
<1> QED
  BY <1>1, <1>2, <1>3, <1>4, <1>5 DEF Next

LEMMA Invariant == Spec => []IInv
  BY InitHolds, StepHolds, PTL DEF Spec

(***************************************************************************)
(* The row, the calls and the pages keep their types.                      *)
(***************************************************************************)
THEOREM TypeCorrect == Spec => []TypeOK
<1>1. IInv => TypeOK
  BY DEF IInv
<1> QED
  BY <1>1, Invariant, PTL

(***************************************************************************)
(* A code that was replaced or confirmed is refused to every call sent     *)
(* afterwards (verifyOTP, executePasswordReset, confirmSetPassword).       *)
(***************************************************************************)
THEOREM StaleCodes == Spec => []StaleCodeIsRefused
<1>1. IInv => StaleCodeIsRefused
  <2> SUFFICES ASSUME IInv, NEW s \in Slots, call[s] # Idle, call[s].late
               PROVE  call[s].pc \in {"sent", "answered"} /\ call[s].reply # "ok"
    BY DEF StaleCodeIsRefused
  <2>1. Sound(call[s], account, issued, dead)
    BY CallShape
  <2> QED
    BY <2>1 DEF Sound
<1> QED
  BY <1>1, Invariant, PTL

(***************************************************************************)
(* However registrations, confirmations, resets and sign-ins by Google     *)
(* overlap, the row they leave can be entered.                             *)
(***************************************************************************)
THEOREM NobodyIsLockedOut == Spec => []AccountsCanBeEntered
<1>1. IInv => AccountsCanBeEntered
  BY DEF IInv
<1> QED
  BY <1>1, Invariant, PTL

(***************************************************************************)
(* An invitation that was opened is remembered, on its way, asked for or   *)
(* answered, through any walk over the forms and in any tab, unless it was *)
(* overtaken (inviteContinuation).                                         *)
(***************************************************************************)
THEOREM InvitationsAreKept == Spec => []InvitationIsKept
<1>1. IInv => InvitationIsKept
  BY DEF IInv
<1> QED
  BY <1>1, Invariant, PTL
=============================================================================
