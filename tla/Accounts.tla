------------------------------ MODULE Accounts ------------------------------
(***************************************************************************)
(* Getting in: the row of one e-mail address, the one-time codes mailed to *)
(* it, and the pages of a browser on which its owner registers, verifies,  *)
(* signs in, resets or sets a password, and follows an invitation.         *)
(*                                                                         *)
(* Every service function reads the row, decides, and writes one or more   *)
(* awaits later by the row's key alone: Find and Write are two steps, and  *)
(* other calls run in between.  Codes are numbered as they are stored.     *)
(***************************************************************************)
EXTENDS Naturals, FiniteSets

CONSTANTS
    Tabs,       \* tabs of one browser
    Slots,      \* calls that may be under way together
    Idle,       \* a slot without one
    NoAccount,  \* the address is not registered
    MaxCodes,   \* bound: codes stored
    Faulty      \* a call may be refused by the rate limit or fail at an await

ASSUME BoundsAssumption == MaxCodes \in Nat
ASSUME SwitchesAssumption == Faulty \in BOOLEAN

VARIABLES
    account,    \* the User row
    issued,     \* codes stored so far
    dead,       \* codes that were replaced, or confirmed to the end
    tab,        \* the page of each tab, its store, its set-password card
    call,
    invite      \* pendingInvite of localStorage, and what became of the invitation

row == <<account, issued, dead>>
vars == <<row, tab, call, invite>>

Column == {"verification", "reset"}
Code == 1 .. issued
NoCode == 0

AccountOver(codes) ==
    [provider : {"LOCAL", "GOOGLE"}, password : BOOLEAN, googleId : BOOLEAN,
     verified : BOOLEAN, code : [Column -> codes], expired : SUBSET Column]

Account == AccountOver(Code \cup {NoCode})

\* "invited": on the way to the page of the invitation; "invite": that page,
\* which has asked to join.  "forgot" and "reset" are the steps of one page.
Page == {"login", "signup", "verify", "forgot", "reset", "home", "invited", "invite"}
Card == {"none", "idle", "otp"}

Op == {"register", "resend", "verify", "login", "google", "forgot", "reset",
       "requestSet", "confirmSet", "join"}
Reply == {"none", "ok", "refused", "unverified"}

CallOver(codes) ==
    [tab : Tabs, op : Op, code : codes, late : BOOLEAN,
     pc : {"sent", "create", "link", "write", "mint", "answered"}, reply : Reply,
     card : BOOLEAN]

Call == CallOver(Code \cup {NoCode})

ASSUME NothingAssumption == Idle \notin CallOver(Nat) /\ NoAccount \notin AccountOver(Nat)

TypeOK ==
    /\ issued \in 0 .. MaxCodes
    /\ account \in Account \cup {NoAccount}
    /\ dead \subseteq Code
    /\ tab \in [Tabs -> [page : Page, signedIn : BOOLEAN, card : Card]]
    /\ call \in [Slots -> Call \cup {Idle}]
    /\ invite \in [pending : BOOLEAN,
                   became : {"unopened", "open", "joined", "refused", "overtaken"}]

Init ==
    /\ account = NoAccount
    /\ issued = 0 /\ dead = {}
    /\ tab = [t \in Tabs |-> [page |-> "login", signedIn |-> FALSE, card |-> "none"]]
    /\ call = [s \in Slots |-> Idle]
    /\ invite = [pending |-> FALSE, became |-> "unopened"]

----------------------------------------------------------------------------
(* The pages                                                               *)

Pending(t, ops) == \E s \in Slots : call[s] # Idle /\ call[s].tab = t /\ call[s].op \in ops

\* isLoading of the forms: the fields, the buttons and most links are disabled.
Busy(t) == Pending(t, {"register", "login", "forgot", "reset"})

Send(s, t, op, code) ==
    /\ call[s] = Idle
    /\ call' = [call EXCEPT ![s] =
         [tab |-> t, op |-> op, code |-> code, late |-> code \in dead,
          pc |-> "sent", reply |-> "none", card |-> FALSE]]
    /\ UNCHANGED row

\* The links between the pages.
Link == {<<"login", "signup">>, <<"login", "forgot">>, <<"signup", "login">>,
         <<"verify", "signup">>, <<"forgot", "login">>, <<"reset", "forgot">>}

\* Mutant: the invitation is taken from the store and not followed.
DestinationHome == "home"

\* consumeInviteDestination, getPostVerificationDestination.
Destination == IF invite.pending THEN "invited" ELSE "home"

\* A form to sign in that finds the tab signed in leaves at once.
Lands(t, page, signedIn) ==
    IF page \in {"login", "signup"} /\ signedIn
      THEN /\ tab' = [tab EXCEPT ![t].page = Destination]
           /\ invite' = [invite EXCEPT !.pending = FALSE]
      ELSE /\ tab' = [tab EXCEPT ![t].page = page]
           /\ UNCHANGED invite

Visit(t, page) ==
    /\ <<tab[t].page, page>> \in Link
    /\ tab[t].page # "verify" => ~ Busy(t)
    /\ Lands(t, page, tab[t].signedIn)
    /\ UNCHANGED <<row, call>>

\* SetPasswordCard is shown to accounts made by Google that have no password.
GoogleOnly(u) == u.provider = "GOOGLE" /\ ~ u.password

Offer(shown) == IF shown THEN "idle" ELSE "none"

\* The address of the invitation, once: the page loads, and the session of the
\* browser is restored if it has one.
OpenInvite(t) ==
    /\ invite.became = "unopened"
    /\ \A s \in Slots : call[s] # Idle => call[s].tab # t
    /\ invite' = [invite EXCEPT !.became = "open"]
    /\ LET restored == \E u \in Tabs : tab[u].signedIn
       IN  tab' = [tab EXCEPT ![t] = [page |-> "invited", signedIn |-> restored,
                     card |-> Offer(restored /\ GoogleOnly(account))]]
    /\ UNCHANGED <<row, call>>

\* The effect of the invitation's page: it remembers the address for those who
\* are not signed in, and asks to join for the others.
Invited(s, t) ==
    /\ tab[t].page = "invited"
    /\ \/ /\ ~ tab[t].signedIn
          /\ tab' = [tab EXCEPT ![t].page = "login"]
          /\ invite' = [invite EXCEPT !.pending = TRUE]
          /\ UNCHANGED <<row, call>>
       \/ /\ tab[t].signedIn
          /\ tab' = [tab EXCEPT ![t].page = "invite"]
          /\ Send(s, t, "join", NoCode)
          /\ UNCHANGED invite

Logout(t) ==
    /\ tab[t].page = "home" /\ tab[t].signedIn
    /\ tab' = [tab EXCEPT ![t] = [page |-> "login", signedIn |-> FALSE, card |-> "none"]]
    /\ UNCHANGED <<row, call, invite>>

\* The forms.  A code may be typed at any time after it was stored, or never:
\* its mail takes its time.
handleSubmit(s, t) ==
    /\ ~ Busy(t)
    /\ \/ tab[t].page = "signup" /\ Send(s, t, "register", NoCode)
       \/ tab[t].page = "login" /\ Send(s, t, "login", NoCode)
    /\ UNCHANGED <<tab, invite>>

\* The Google button beside the form is not disabled.
handleGoogleSuccess(s, t) ==
    /\ tab[t].page \in {"login", "signup"}
    /\ Send(s, t, "google", NoCode)
    /\ UNCHANGED <<tab, invite>>

handleVerify(s, t) ==
    /\ tab[t].page = "verify" /\ ~ Pending(t, {"verify"})
    /\ \E k \in Code : Send(s, t, "verify", k)
    /\ UNCHANGED <<tab, invite>>

\* A minute apart.
handleResend(s, t) ==
    /\ tab[t].page = "verify" /\ ~ Pending(t, {"resend"})
    /\ Send(s, t, "resend", NoCode)
    /\ UNCHANGED <<tab, invite>>

handleRequestOTP(s, t) ==
    /\ tab[t].page = "forgot" /\ ~ Busy(t)
    /\ Send(s, t, "forgot", NoCode)
    /\ UNCHANGED <<tab, invite>>

handleResetPassword(s, t) ==
    /\ tab[t].page = "reset" /\ ~ Busy(t)
    /\ \E k \in Code : Send(s, t, "reset", k)
    /\ UNCHANGED <<tab, invite>>

\* The card in the profile of one who is signed in.
requestOtp(s, t) ==
    /\ tab[t].page = "home" /\ tab[t].card = "idle" /\ ~ Pending(t, {"requestSet"})
    /\ Send(s, t, "requestSet", NoCode)
    /\ UNCHANGED <<tab, invite>>

confirm(s, t) ==
    /\ tab[t].page = "home" /\ tab[t].card = "otp" /\ ~ Pending(t, {"confirmSet"})
    /\ \E k \in Code : Send(s, t, "confirmSet", k)
    /\ UNCHANGED <<tab, invite>>

----------------------------------------------------------------------------
(* The answers                                                             *)

SignedInAs(t, page, shown) ==
    [tab EXCEPT ![t] = [page |-> page, signedIn |-> TRUE, card |-> Offer(shown)]]

\* Another page is pushed while the one of the invitation loads.
Overtaken(t) ==
    IF tab[t].page = "invited" /\ invite.became = "open" THEN "overtaken" ELSE invite.became

\* The session of a code that was verified, or of Google or a password on a
\* form to sign in: the way goes on to the invitation that is remembered.
Enter(t, shown) ==
    /\ tab' = SignedInAs(t, Destination, shown)
    /\ invite' = [pending |-> FALSE,
                  became |-> IF invite.pending THEN invite.became ELSE Overtaken(t)]

\* A push to another page, wherever the tab is by now.
Push(t, page) ==
    IF tab[t].page = "invited"
      THEN /\ tab' = [tab EXCEPT ![t].page = page]
           /\ invite' = [invite EXCEPT !.became = Overtaken(t)]
      ELSE Lands(t, page, tab[t].signedIn)

\* AuthScreen does not mind which of its forms was answered; without it, on
\* another page by now, the store of the tab is set and that is all.
SignInAnswered(t, r) ==
    /\ r.op \in {"login", "google"} /\ r.reply = "ok"
    /\ IF tab[t].page \in {"login", "signup"}
         THEN Enter(t, r.card)
         ELSE tab' = SignedInAs(t, tab[t].page, r.card) /\ UNCHANGED invite

VerifyAnswered(t, r) ==
    /\ r.op = "verify" /\ r.reply = "ok"
    /\ Enter(t, r.card)

CodeIsNeeded(t, r) ==
    /\ \/ r.op = "login" /\ r.reply = "unverified"
       \/ r.op = "register" /\ r.reply = "ok"
    /\ Push(t, "verify")

ResetAnswered(t, r) ==
    /\ r.op = "reset" /\ r.reply = "ok"
    /\ Push(t, "login")

ForgotAnswered(t, r) ==
    /\ r.op = "forgot" /\ r.reply = "ok"
    /\ tab' = [tab EXCEPT ![t].page = IF @ = "forgot" THEN "reset" ELSE @]
    /\ UNCHANGED invite

SetPasswordAnswered(t, r) ==
    /\ r.op \in {"requestSet", "confirmSet"} /\ r.reply = "ok"
    /\ tab' = [tab EXCEPT ![t].card =
                 IF @ = "none" THEN @ ELSE IF r.op = "requestSet" THEN "otp" ELSE "none"]
    /\ UNCHANGED invite

JoinAnswered(t, r) ==
    /\ r.op = "join"
    /\ tab' = [tab EXCEPT ![t].page = IF @ = "invite" THEN "home" ELSE @]
    /\ invite' = [invite EXCEPT !.became = IF r.reply = "ok" THEN "joined" ELSE "refused"]

MessageShown(r) ==
    /\ r.op = "resend" \/ (r.reply = "refused" /\ r.op # "join")
    /\ UNCHANGED <<tab, invite>>

Arrive(s) ==
    LET r == call[s]
        t == r.tab
    IN  /\ r # Idle /\ r.pc = "answered"
        /\ call' = [call EXCEPT ![s] = Idle]
        /\ \/ SignInAnswered(t, r) \/ VerifyAnswered(t, r) \/ CodeIsNeeded(t, r)
           \/ ResetAnswered(t, r) \/ ForgotAnswered(t, r) \/ SetPasswordAnswered(t, r)
           \/ JoinAnswered(t, r) \/ MessageShown(r)
        /\ UNCHANGED row

----------------------------------------------------------------------------
(* The server                                                              *)

Goto(s, pc) == call' = [call EXCEPT ![s].pc = pc]

Answer(s, reply) ==
    call' = [call EXCEPT ![s].pc = "answered", ![s].reply = reply, ![s].code = NoCode]

Grant(s, u) == call' = [call EXCEPT ![s].pc = "mint", ![s].card = GoogleOnly(u)]

\* The gatekeeper of a login with the right password.
SignIn(s) == IF account.verified THEN Grant(s, account) ELSE Answer(s, "unverified")

\* The code of the call is the one in the column, and its time is not over.
Fits(r, column) == account.code[column] = r.code /\ column \notin account.expired

Exists == account # NoAccount

\* The row is read and the call refused, or let through to its next await.
Check(s, op, allowed, pc) ==
    /\ call[s].op = op
    /\ IF allowed THEN Goto(s, pc) ELSE Answer(s, "refused")

registerCheck(s) == Check(s, "register", ~ Exists, "create")
resendCheck(s) == Check(s, "resend", Exists /\ ~ account.verified, "write")
verifyCheck(s) ==
    Check(s, "verify", Exists /\ ~ account.verified /\ Fits(call[s], "verification"), "write")
forgotCheck(s) == Check(s, "forgot", Exists /\ account.provider # "GOOGLE", "write")
resetCheck(s) == Check(s, "reset", Exists /\ Fits(call[s], "reset"), "write")
requestSetCheck(s) == Check(s, "requestSet", ~ account.password, "write")
confirmSetCheck(s) == Check(s, "confirmSet", Fits(call[s], "reset"), "write")

\* The password is right or wrong.
loginCheck(s) ==
    /\ call[s].op = "login"
    /\ \/ Answer(s, "refused")
       \/ Exists /\ account.password /\ SignIn(s)

googleCheck(s) ==
    /\ call[s].op = "google"
    /\ \/ ~ Exists /\ Goto(s, "create")
       \/ Exists /\ account.googleId /\ Grant(s, account)
       \/ Exists /\ ~ account.googleId /\ Goto(s, "link")

Joins(s) == call[s].op = "join" /\ Answer(s, "ok")

Find(s) ==
    /\ call[s] # Idle /\ call[s].pc = "sent"
    /\ \/ registerCheck(s) \/ resendCheck(s) \/ verifyCheck(s)
       \/ forgotCheck(s) \/ resetCheck(s) \/ requestSetCheck(s) \/ confirmSetCheck(s)
       \/ loginCheck(s) \/ googleCheck(s) \/ Joins(s)
    /\ UNCHANGED <<row, tab, invite>>

\* Mutant: the code of a registration is not a new one.
CreateUncounted(s) ==
    /\ call[s] # Idle /\ call[s].pc = "create" /\ ~ Exists
    /\ account' = [provider |-> "LOCAL", password |-> TRUE, googleId |-> FALSE, verified |-> FALSE,
                   code |-> [verification |-> issued + 1, reset |-> NoCode], expired |-> {}]
    /\ Answer(s, "ok")
    /\ UNCHANGED <<issued, dead, tab, invite>>

\* The key on the address: only one of two creations succeeds.
Create(s) ==
    LET r == call[s]
        local == [provider |-> "LOCAL", password |-> TRUE, googleId |-> FALSE, verified |-> FALSE,
                  code |-> [verification |-> issued + 1, reset |-> NoCode], expired |-> {}]
        google == [provider |-> "GOOGLE", password |-> FALSE, googleId |-> TRUE, verified |-> TRUE,
                   code |-> [verification |-> NoCode, reset |-> NoCode], expired |-> {}]
    IN  /\ r # Idle /\ r.pc = "create"
        /\ \/ Exists /\ Answer(s, "refused") /\ UNCHANGED <<account, issued>>
           \/ /\ ~ Exists /\ r.op = "register" /\ issued < MaxCodes
              /\ account' = local /\ issued' = issued + 1
              /\ Answer(s, "ok")
           \/ /\ ~ Exists /\ r.op = "google"
              /\ account' = google /\ UNCHANGED issued
              /\ Grant(s, google)
        /\ UNCHANGED <<dead, tab, invite>>

\* googleLogin: the account of the address is Google's from now on, and verified.
LinkGoogle(s) ==
    /\ call[s] # Idle /\ call[s].pc = "link"
    /\ account' = [account EXCEPT !.googleId = TRUE, !.verified = TRUE]
    /\ Grant(s, account')
    /\ UNCHANGED <<issued, dead, tab, invite>>

\* A fresh code replaces the one in the column.
StoreCode(s) ==
    LET r == call[s]
        column == IF r.op = "resend" THEN "verification" ELSE "reset"
    IN  /\ r # Idle /\ r.pc = "write" /\ r.op \in {"resend", "forgot", "requestSet"}
        /\ issued < MaxCodes
        /\ issued' = issued + 1
        /\ account' = [account EXCEPT !.code[column] = issued + 1, !.expired = @ \ {column}]
        /\ dead' = dead \cup ({account.code[column]} \ {NoCode})
        /\ Answer(s, "ok")
        /\ UNCHANGED <<tab, invite>>

\* verifyOTP
ConfirmEmail(s) ==
    LET r == call[s]
    IN  /\ r # Idle /\ r.pc = "write" /\ r.op = "verify"
        /\ account' = [account EXCEPT !.verified = TRUE, !.code["verification"] = NoCode,
                                      !.expired = @ \ {"verification"}]
        /\ dead' = dead \cup {r.code}
        /\ Grant(s, account')
        /\ UNCHANGED <<issued, tab, invite>>

\* Mutant: the code of a reset is left in its column.
ConfirmPasswordKeeping(s) ==
    /\ call[s] # Idle /\ call[s].pc = "write" /\ call[s].op \in {"reset", "confirmSet"}
    /\ account' = [account EXCEPT !.password = TRUE]
    /\ dead' = dead \cup {call[s].code}
    /\ Answer(s, "ok")
    /\ UNCHANGED <<issued, tab, invite>>

\* Mutant: both columns are emptied.
ConfirmPasswordEmptying(s) ==
    /\ call[s] # Idle /\ call[s].pc = "write" /\ call[s].op \in {"reset", "confirmSet"}
    /\ account' = [account EXCEPT !.password = TRUE, !.code = [c \in Column |-> NoCode],
                                  !.expired = {}]
    /\ dead' = dead \cup {call[s].code}
    /\ Answer(s, "ok")
    /\ UNCHANGED <<issued, tab, invite>>

\* executePasswordReset, confirmSetPassword: the new password is hashed, the
\* column emptied whatever it holds by now.
ConfirmPassword(s) ==
    LET r == call[s]
    IN  /\ r # Idle /\ r.pc = "write" /\ r.op \in {"reset", "confirmSet"}
        /\ account' = [account EXCEPT !.password = TRUE, !.code["reset"] = NoCode,
                                      !.expired = @ \ {"reset"}]
        /\ dead' = dead \cup {r.code}
        /\ Answer(s, "ok")
        /\ UNCHANGED <<issued, tab, invite>>

\* generateAndStoreTokens, for the Session of the account.
Mint(s) ==
    /\ call[s] # Idle /\ call[s].pc = "mint"
    /\ Answer(s, "ok")
    /\ UNCHANGED <<row, tab, invite>>

Fail(s) ==
    /\ Faulty
    /\ call[s] # Idle /\ call[s].pc # "answered"
    /\ Answer(s, "refused")
    /\ UNCHANGED <<row, tab, invite>>

\* Fifteen minutes.
Expire(column) ==
    /\ Exists /\ account.code[column] # NoCode /\ column \notin account.expired
    /\ account' = [account EXCEPT !.expired = @ \cup {column}]
    /\ UNCHANGED <<issued, dead, tab, call, invite>>

----------------------------------------------------------------------------
Browse ==
    \E t \in Tabs :
      \/ \E page \in Page : Visit(t, page)
      \/ OpenInvite(t) \/ Logout(t)
      \/ \E s \in Slots :
           \/ handleSubmit(s, t) \/ handleGoogleSuccess(s, t) \/ handleVerify(s, t)
           \/ handleResend(s, t) \/ handleRequestOTP(s, t) \/ handleResetPassword(s, t)
           \/ requestOtp(s, t) \/ confirm(s, t) \/ Invited(s, t)

Serve ==
    \E s \in Slots :
      \/ Find(s) \/ Create(s) \/ LinkGoogle(s) \/ StoreCode(s)
      \/ ConfirmEmail(s) \/ ConfirmPassword(s) \/ Mint(s) \/ Fail(s)

Next ==
    \/ Browse
    \/ Serve
    \/ \E s \in Slots : Arrive(s)
    \/ \E column \in Column : Expire(column)

Spec == Init /\ [][Next]_vars

----------------------------------------------------------------------------
\* A code that was replaced by a newer one or confirmed to the end is of no
\* use to any call sent afterwards: only confirmations that overlap can use
\* one twice (verifyOTP 160-172, executePasswordReset 319-334,
\* confirmSetPassword 370-382, where comparing and clearing are two awaits).
StaleCodeIsRefused ==
    \A s \in Slots :
      call[s] # Idle /\ call[s].late =>
        call[s].pc \in {"sent", "answered"} /\ call[s].reply # "ok"

\* Whatever overlaps, the owner of an address can get in: by Google, by a
\* password, or by a password and the code of the row (register, verifyOTP,
\* googleLogin and the two confirmations write different columns of it).
AccountsCanBeEntered ==
    Exists => \/ account.googleId /\ account.verified
              \/ account.password /\ account.verified
              \/ account.password /\ account.code["verification"] # NoCode

\* An invitation that was opened is never forgotten on the way through the
\* forms, in whichever tab and by whichever way its owner signs in: it is
\* remembered, on its way, asked for or answered, unless another page was
\* pushed while its own was loading (inviteContinuation,
\* getPostVerificationDestination, InvitePage 24-34).
InvitationIsKept ==
    invite.became = "open" =>
      \/ invite.pending
      \/ \E t \in Tabs : tab[t].page = "invited"
      \/ \E s \in Slots : call[s] # Idle /\ call[s].op = "join"
============================================================================
