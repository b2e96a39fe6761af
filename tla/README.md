# SyncVela in TLA+

SyncVela is a team chat: a Node server (Express, Socket.IO, Prisma on
PostgreSQL, Redis) and a Next.js client (zustand stores). This directory holds
TLA+ modules of its concurrent parts, configurations that check them with TLC
and proofs checked with TLAPS. Paths below are relative to the repository;
`B/` is `backend/src/`, `F/` is `frontend/src/`, `C/` is
`frontend/src/features/chat/`. The repository has no tests, so what a part
should do is taken from its code, its comments, its log messages and its README.

    tlc -workers 2 -config governance.cfg MCGovernance
    tlapm GovernanceProofs.tla

## 1. The system

One Node process runs its handlers on an event loop: nothing interleaves
within a synchronous stretch, anything may at an `await`. Several processes
may share the database and Redis (the Socket.IO Redis adapter). A browser tab
is an event loop of its own; the tabs of a browser share its cookies and
nothing else. What is hard here follows from that: *read, await, write* on the
server, *events in another order than the requests that caused them* on the
client, and *a connection lost between two of these*.

| component | state | operations | talks to |
|---|---|---|---|
| Workspace and channel governance: `B/controllers/workspaceController.ts`, `channelController.ts`, `B/utils/rbac.ts` | rows `Workspace`, `WorkspaceMember` (role), `Channel`, `ChannelMember` (isHidden) | create, join and delete a workspace; change a role, transfer ownership, remove a member; create, read, invite to, leave, delete a channel, switch its visibility for a member | the database; announces to rooms of members |
| Channel socket handlers: `B/sockets/handlers/channelHandler.ts` | socket rooms | join, leave, `send_channel_message`, `markChannelAsRead`, typing | governance rows, message table |
| Sending and delivery: `F/providers/SocketProvider.tsx`, `C/state/messageSlice.ts`, `ChatInput.tsx`, `useDMEvents.ts`, `useChannelEvents.ts`, `B/sockets/handlers/dmHandler.ts` | optimistic rows, pending queue, a timer per connect; the message table | compose, emit, echo, acknowledge, flush, fetch a history | socket, HTTP, database |
| Sessions: `B/services/authService.ts`, `F/lib/authFetch.ts`, `F/store/authStore.ts` | one hash of a refresh token per account; a cookie per browser; a store and a refresh promise per tab | login, refresh with rotation, logout, restore after a reload | HTTP, database |
| One-time codes and passwords: `authService.ts`, `F/app/verify-otp`, `F/app/auth/forgot-password`, `F/app/invite`, `F/features/auth/`, `SetPasswordCard.tsx` | the user row with its two columns for codes; the page of each tab, the remembered invitation | register, resend, verify, sign in, reset, set a password; follow an invitation | database, mail, HTTP |
| Presence: `B/sockets/index.ts`, `C/runtime/presence/usePresenceEvents.ts` | connections, a three-second timer per lost one, a Redis key; the set `onlineUsers` | connect, heartbeat, disconnect, snapshot, announce | rooms, Redis |
| Socket rate limit: `B/sockets/socketSecurity.ts` | a Redis counter per user and event, with a time to live | INCR, then PEXPIRE by whoever made the key | Redis |
| HTTP rate limit: `B/middlewares/rateLimit.ts` | kept by the library | | Redis |
| Redis connection: `B/config/redis.ts` | a client and the promise of a connect under way | connect, quit | Redis |
| Message actions and threads: `messageActionHandler.ts`, `ThreadDrawer.tsx` | reactions, edits, deletions, reply counts | toggle, edit, delete, reply | database, rooms |
| Direct conversations: `dmHandler.ts`, `useDMEvents.ts`, `DirectMessageList.tsx`, `useWorkspaceMembers.ts` | conversation rows, read marks; who is selected, which room is open, badges | select, find or create, send, mark as read, list | database, rooms, HTTP |
| Workspace events and navigation: `useWorkspaceEvents.ts`, `useChannelEvents.ts`, `useWorkspaceInit.ts`, `useWorkspaceMembers.ts`, `useChannelFetcher.ts`, `workspaceSlice.ts` | the workspace and channel shown, the role, lists of workspaces, members, channels | switch, open, create a channel; follow what others change | socket, HTTP |
| Message reading, uploads, server assembly, screens, generated client | nothing of their own that changes | queries, signed URLs, wiring, rendering | |

What makes each part correct, and where it is hard:

* *Governance.* A workspace has one owner, who is replaced only by a transfer
  the owner asked for. Channel rows belong to channels that exist and, between
  requests, to members. A channel one has left stays left. Every handler checks
  first and writes one or more awaits later, with no lock in between except
  what a `$transaction` and the keys of the schema give.
* *Sending.* What was composed is stored, and not over and over. The list shows
  each row as what it is, whatever the order of echo, acknowledgement and
  history; what leaves the queue was stored or is being tried again. The client
  does not know what became of an emit, and the flush after a connect does not ask.
* *Sessions.* A refresh token is exchanged once and refused afterwards; nobody
  is left with a spent one; a tab signed out stays so. The server compares in
  one await and overwrites in another, and cookies are set in the order in
  which answers arrive.
* *Presence.* Who stays away is in the end shown offline, who has another
  device connected is not. Timers race with reconnects, snapshots with events.
* *Ways in.* Whoever owns an address can get in; a code that was used or
  replaced is refused; an invitation survives the forms. Each call reads the row
  and writes some columns of it later; answers come when another page is shown.
* *Direct conversations.* A message goes to whom it was meant for, a read tick was
  earned, nothing unread goes unnoticed. An answer names a room and not the person
  it was asked for, and nothing keeps two people from having two conversations.
* *What the browser shows of a workspace.* Role, members and sidebar are those of
  the tables once nothing is under way. Announcements and answers travel
  apart, and each replaces what is shown.
* *Rate limit.* A window lets a bounded number through and the refused are let
  through again. Counting and expiry are two commands.

Every hazard found while reading is in `PROJECT.json` under `hazards`, at the
line where it bites.

## 2. The modules

| module | what it is |
|---|---|
| `Ownership` | abstract: the owner is founded, handed over, perhaps lost, never found again |
| `Governance` | the tables and all twelve operations, cut at their awaits; implements `Ownership` |
| `MCGovernance` | its instances: a behaviour keeps to one of several parts |
| `MCRejoin` | a member who wants a channel back that they have left |
| `GovernanceProofs` | types, one owner, the refinement, deliberate handover, rows have channels, hidden channels stay hidden, and what holds of requests served one after the other |
| `WorkspaceView`, `MCWorkspaceView` | what one browser shows of a workspace while others govern it |
| `WorkspaceProofs` | nobody is moved to another workspace, types, current roles, the current sidebar |
| `Delivery` | abstract: only composed messages are stored, at most as often as they may be tried |
| `Outbox` | composer, optimistic rows, queue, socket, timers, histories and the storing handlers; implements `Delivery` |
| `OutboxProofs` | types, faithful rows, pruning, the refinement |
| `MessageLog`, `MCMessageLog` | a message, its thread, its reactions and its text, as a tab shows them while handlers write and announce |
| `MessageLogProofs` | types, the list and the drawer at rest, in whatever order answers come |
| `Session`, `MCSession` | tabs, browsers, cookies, requests, the hash in the user row |
| `SessionProofs` | types, rotation, single use, no spent cookie, signed out stays out, all without restriction |
| `Accounts`, `MCAccounts` | the row of an address, its codes, and the pages of a browser |
| `AccountProofs` | types, stale codes, ways in, invitations |
| `DirectConversation`, `MCDirectConversation` | two people, their conversations, and what both browsers make of them |
| `DirectProofs` | addressees, second conversations, types, earned ticks, nothing unnoticed |
| `Presence` | connections of a user, and what a watcher is shown |
| `SocketLimit` | the counter and its time to live |
| `RedisProofs` | of `Presence`: another device keeps the user online, types; of `SocketLimit`: types, one expiry a life, two limits a window |

**Governance.** A request is a record in a slot: `pc` names the next thing its
handler does, `seen` keeps the ids it has read. `XAuthorise`, `XLookup`,
`XCheck`, `XWrite`/`XCommit`... are the stretches of handler `X` between two
awaits. A `$transaction` is one step at its commit where row locks make it so
(the transfer: its `updateMany` of the old owner must match, otherwise all of
it is rolled back), two where they do not (`createChannel` reads the owner
without a lock). Foreign keys are guards of the upserts. `Abort` ends any
request at any await: a 4xx, a constraint, a lost database. `Notify` ends the
others; what it emits is left out, except that nothing may be announced that
is not done.

**Outbox.** One tab, one conversation of each kind. `net` and `down` are the
packets of the present connection in order (Socket.IO keeps the order of one
connection and loses both directions with it); `buffer` is what the socket
library keeps while offline and sends first. `handlers` are calls on the
server between their awaits, which survive their connection (`orphan`).
`timers.own` are armed one-second timers, `timers.stale` those of sockets that
were replaced with the access token: the cleanup does not clear them.
`fetches` are HTTP requests, read at one time and applied at another. `Reload` keeps the
queue, which is in localStorage, and nothing else of the page. Message
bodies are gone; `Bare` messages have attachments and no text, because a retry
carries only the text.

**MessageLog.** `tab` is the store of one tab: the message's row in the list
(`row`), the head of the drawer (`head`, another copy) and the drawer's list
(`real` ids and `temp` ones). Handlers are records with a `pc` as in
`Outbox`; each ends by telling the room what it wrote or read, and `down` is what
the tab has not heard yet. Other tabs may ask for anything at any time, so their
stores are not kept. `twin` says that the head is the row's own object and
`changed` that it is a new one: React compares the object, so this decides
whether the drawer fetches its replies again. A deletion is applied
twice, as two hooks listen to it. `read` and `told` are for the properties only: the number of replies, the reactions, the
text and the drawer's replies as a handler or a request read (or wrote) them last, and as they were told or shown last. Where
the two differ, answers of the database or fetches have overtaken one another, which nothing in the code prevents. `lost` names what went astray: the points at which handlers failed,
`"emptied"` (a thread reopened over the object it shows) and `"ghost"` (the deletion of a reply that
an old answer of the drawer has brought back, and that the server no longer finds).

**Session.** Tokens are numbered as they are minted, and `minted[n]` is the
token that was exchanged for the n-th (0 for a login). A request carries the
cookie as it is when sent; `Match` compares, `Mint` and `Revoke` write later;
`Arrive` sets or clears the cookie and lets the tab act on the answer. `Cut`
loses an answer; `Reload` empties a tab. A tab refreshes at any time, signed out or not: with no token
(`authFetch.ts:108`), and when a request is refused (122). Three variables are for the properties only: `shared`,
the tokens with which two refreshes were under way that no `refreshPromise` keeps apart (another tab's, or one
whose page was reloaded or connection cut); `lost`, the tokens whose answer was cut off; `left`, the browsers whose last
sign-out was answered while no refresh *escaped* it (let through before, or sent with another token).

**Presence.** The connection handler's three awaits are `JoinRooms`, `SetKey`
and `AnnounceOnline`; the timer's are `Check`, `DeleteKey` and
`AnnounceOffline`. `ReadSnapshot` and `SendSnapshot` are two steps, so a
snapshot may be older than the events before it.

**WorkspaceView.** The governance of `Governance` seen from a browser: there a
handler is cut at every await, here the tables change in one step and the
announcement (`news`) follows in a later one, in any order (`Announce`), to the rooms the
socket is in. `fetches` are HTTP requests: asked, answered from the tables, applied at
another time by whichever page is shown. `view` is the store. `missed` collects the
circumstances under which the code is misled, at the step where they
happen; the properties name those they except:

| circumstance | what happened |
|---|---|
| `late` | an answer that an event has overtaken replaces what is shown (`useChannelFetcher.ts:26`, `useWorkspaceMembers.ts:45`) |
| `foreign` | so does an answer for a workspace that is not shown any more |
| `swapped` | two announcements were made in another order than the writes |
| `gap` | an announcement was made while the socket was in no room for it |
| `unheard` | an eviction or deletion was told while the connection was down: the list of workspaces is fetched with a new token only (`useWorkspaceInit.ts:17`) |
| `failed` | a request or its answer was lost; nothing asks again |
| `stranger` | `added_to_channel` does not look at the workspace (`useChannelEvents.ts:177`) |
| `captured` | a list read before an await is written back after it (`useWorkspaceEvents.ts:70`, `NewChannelModal.tsx:52`) |
| `promoted` | a GUEST made OWNER by a transfer is not shown the channels (`useWorkspaceEvents.ts:154`) |
| `unhydrated` | a promotion met before the role is known fetches nothing (`useWorkspaceEvents.ts:52`); a new channel met in a role that is not the present one is shown or dropped by it (`useChannelEvents.ts:193`) |
| `replaced` | a list without the open channel leaves it open |
| `restored` | a guest has got a row by marking a channel read (`channelHandler.ts:167`) |
| `relisted` | the inviter's browser has the channel announced to all who have a row, hidden rows included (`InviteModal.tsx:102`, `channelHandler.ts:198`), and the page lists the channel its user has left (`useChannelEvents.ts:177`) |

Each is needed: without it the run finds a counterexample.

**Accounts.** One address, several tabs of one browser. A call is a record with a `pc`:
`Find` reads the row and decides, the next step writes by the row's key. Codes are numbered
as they are stored; `dead` are those replaced or confirmed to the end, and `late` marks a call
that was sent with one of these. The mail is left out: a code may be
typed in any tab once it is stored. `Arrive` is the answer, taken by whatever page
is shown by then (`Push`, `Lands`, `Enter`). `invite` is what localStorage
remembers and what became of it.

**DirectConversation.** Time is counted in messages. `convs` may hold two
conversations of one pair. `handlers` are packets and what they have
become on the server; packets of one connection are read in order and their handlers overlap.
`view.mixed` says that the answer to an earlier selection was taken for the answer to
this one; `seen` and `passed` are for the properties only: the messages that were listed, and those
that a receipt or a selection of the reader's own covered unlisted, among them those that
were told to a connection that was lost. `unheard` are those whose only news failed: the handler ended
between storing and telling (`Fail` at "announce"), or the member list that would have counted them was
refused (`MembersFail`); reading a member list empties it, since that counts them.

**SocketLimit.** `Incr` is the INCR with its reply, `PExpire` the second
command, `Fail` whatever keeps it from being sent. `recent` counts what was let
through in each of the last ticks and exists for the property only. Its names begin
with `Limit` where `Presence` has the same, since the proofs of both are in one module.

## 3. The runs

| run | instance | shows |
|---|---|---|
| `governance` | one request at a time among 3 users and a channel, or 2 users and 2 channels; two in flight among 2 users and a channel; all operations, any may fail at any await | one owner; refinement of `Ownership`; handover is deliberate; no row outlives its channel; only the workspace owner's switch shows a hidden channel again. One at a time also: a live workspace keeps its owner, rows belong to members, an announced demotion is complete |
| `workspace` | a user, an owner and a third; two workspaces, a public and two private channels | once nothing is under way the page shows the role, members and channels of the tables, circumstances above excepted; nobody is moved to another workspace unasked |
| `outbox` | one direct, one channel message; a lost connection, a replaced socket or a reload, two moves, unheard packets, failing handlers | refinement of `Delivery`; rows are faithful; pruned only when stored |
| `outbox_live` | a direct message, a channel message of attachments only; one lost connection or reload | a queued message reaches the table |
| `threads` | a message with a reply, and one more; two overlapping requests from a tab or elsewhere, and of two crossing fetches of the drawer, a look at another channel and a failing handler one at a time; answers in any order | at rest the list and the drawer show what the database holds, if what was read last was told last |
| `direct` | two people with browsers, a third without | a message goes to the addressee; a tick is earned; nothing goes unnoticed; a second conversation of a pair comes of a race only |
| `session` | two tabs of one browser, a tab of another; five requests, cuts and reloads, three at once, all overlapping, any may fail | rotation; a token is exchanged twice, or left in a cookie, only in the circumstances named; a browser that was signed out stays so |
| `accounts` | two tabs, two calls at once, two codes, any call may fail | a used or replaced code is refused; the account can be entered; the invitation is kept |
| `presence` | two connections that come and go, a third on another server that stays or was never made, a crash, a watcher who loses one | another device keeps the user online; who stays away is shown offline |
| `limit` | two processes, limit 3, window 4, two failures | two limits a window; one expiry a life; the refused are let through again |
| `owner_locked` | 3 users, 2 requests, role operations | *violated*: a role change overtaken by a transfer demotes the new owner |
| `rejoin` | two users, a channel, one request at a time, all operations on channels but the owner's switch | *violated*: a public channel that was left stays hidden, whatever its member asks for |

**Bounds.** Two requests are enough for every race of governance that was found
by reading: each is one write slipping between a check and a write of another
handler. The theorems on ownership and on rows hold for any number. One request over
three users, or over two channels, is enough for the sequential properties, which compare two
users and one channel at a time. `MaxLosses`, `MaxMoves` and `MaxFetches`
(`Outbox`), `MaxReplies`, `MaxEdits`, `MaxOps`, `MaxMoves`, `MaxFetches` and `MaxLost` (`MessageLog`),
`MaxTokens` and `MaxActs` (`Session`), `MaxCodes` (`Accounts`), `MaxConnects`, `MaxDrops` and
`MaxCrashes` (`Presence`) and `MaxFails` (`SocketLimit`) bound what the user
and the network may do. `WorkspaceView` and `DirectConversation` take a set of bounds, of which a
behaviour keeps to one: two changes, or one change met by an act of the user, a fault or a
renewed token; two selections and a message, a selection, a message and a fault, or two
messages. Each of the circumstances and of the findings in section 6 takes no more.
A behaviour of `outbox` has one loss, of any
kind; `outbox_live` has none of the token's (`Renewing`), since a stale timer does lose the queue. `threads` starts with one reply and
may have a second, so that a number subtracted twice is not always hidden by its lower bound; two requests are enough
for two writes, or two readings, to be announced in either order, and two fetches for an old answer to be shown last. Its one look at another
channel, its one failure and its crossing fetches are not met together (`OneTrouble`), which the proofs do not need. Three tokens are a login and
two refreshes in any order, or a sign-in that overtakes a refresh; five acts are a sign-in, a sign-out and
three refreshes or reloads, and each exception of the properties is met within them. Two codes are one of each
column, or one and its replacement. `limit` meets two
lives of the key in a window, which is the case its property is about.
Deadlock is checked for `SocketLimit` only: elsewhere the bounds run out, and a
deleted workspace takes no requests. Symmetry is used for users, channels, tabs and
request slots, and only in runs without liveness.

**Named assumptions.** They are CONSTANTS, so that a run shows what depends on them.
`Prompt` (`Outbox`): the server listens before the first packet is
read; in the code the listeners come after awaits (`B/sockets/index.ts:90-147`).
`Faulty`: handlers may be refused or fail. `Renewing` (`Outbox`): the socket may be
replaced because the access token was. `Steady` (`Presence`): devices
that stay connected throughout, on another server. `Presence`, `WorkspaceView`, `MessageLog` and `Session` have no such
switch: what the code does not make up for is noted when it happens (`missed`, `lost`, `behind`, `read` and `told`, `shared`),
and excepted where it matters.
The safety runs take the
worse value wherever the property holds with it; where it does not, section 6 says what happens.

**Fairness.** The event loops of server and client go on, so handlers, timers and
fetches under way have weak fairness; the socket library reconnects; a Redis key
expires and time passes. Nothing is owed by the user or the network: composing,
moving, dropping and failing are never fair. `Refills` needs fair `PExpire`: the
command is sent unless something fails, and that case is excepted in the property.
`rejoin` has what its statement speaks of, a member who keeps asking (`Trying`): marking the
channel read by either way and being invited to it are asked for again and again, a request comes to an end, and
none of the steps of such a request fails every time. That is more than the code promises, so what does
not happen under it does not happen in the code.

**Refinement.** `Ownership` is implemented with `phase <- workspace` and
`owners <-` the users whose row says OWNER; every handler step that does not
change them is a stutter. `Delivery` is implemented with `copies` counting the
rows of each message in the table, and `Tries` two for a message that can be
retried and one for the others.

## 4. What is proved

`GovernanceProofs`, for any users, channels, slots and set of operations:

* `TypeCorrect`, one lemma per handler.
* `OwnershipStep`: every step is a step of `Ownership` or leaves the owners
  alone. `RoleWriters` reduces it to the six actions that write roles. From it
  follow `ImplementsOwnership` and `SingleOwner`, by the invariant
  `IInv` = types, one owner at most, and *only a live workspace has one*. The
  last part is needed: without it founding a workspace could add a second owner.
* `DeliberateHandover`: a step that makes an
  owner while there is one is the commit of the old owner's own transfer.
* `RowsHaveChannels` and `HiddenStaysHidden`, by the invariant `RowInv`: the property of rows
  itself, *fresh ids* (as long as a request is going to create a channel, no channel
  has its id and no other request is going to create it) and that a switch of visibility names
  somebody. Without the first a creation could overwrite hidden rows with visible
  ones. `RowWriters` finds the ten steps that write a channel or a row, `RowStep`
  says what each does to one row, `SlotSteps` what a step does to the requests.
* `SoundAlone`: as long as one request at a time is served (`OneAtATime`), a live workspace has
  its owner, rows are members' and an announced demotion is complete. `AloneInv` adds what
  makes the checks of a handler good for its write (`StillHolds`: whoever is to get a row is
  a member, whoever is to be demoted or removed is not the owner, a demotion has listed
  every channel it takes away) and that nothing exists of a workspace that was not created. Nobody else
  writes in between, so each check carries to the write; with two requests it does not, and the
  properties fail. `AloneSound` says so of the checked instance, where `Within` keeps to one slot.

`WorkspaceProofs`, for any users, workspaces, channels, tables and bounds:

* `NobodyIsMoved`, by
  `IInv` = the roles and the page's workspace have their types, and *what is under way was true when it was
  written*: an announcement, an event or a list of workspaces that would take the user out of a
  workspace is about one the user is out of. It stays true because who is out stays out
  (`Stays`). Without it an old answer could move somebody. One lemma says so of each kind of
  step; `EvictStep` and `ApplyStep` are the two that move.
* `TypeCorrect`, by `Typed`, which adds that the open workspace is one of the list.
* `RolesCurrent`, by `Current`, which is claimed until one of the circumstances that mislead roles is met: of
  all that is under way about somebody *the last says what the tables say* (`InOrder`); an
  answer that was read agrees with the tables unless something about it is still on its way (`AnswersRight`);
  what is shown is right, or a word about it is coming, or an answer that will set it right (`ViewRight`). The
  property is the case where nothing is coming. `Shows` and `Fact` compare one user's
  entry, so that a list and a role are the same argument. `Tells`, `Keeps` and `Handled` are what an announcement,
  a change of the tables and a handled event do to it.
* `SidebarCurrent`, by `Sidebar`, which is claimed until any circumstance is met and says the same of channels. Whether
  a channel is to be listed is its `Place`, of the user's role, the channel's existence and type and the user's row
  together. `Settles` are the events that decide it in the browser, and `Raises` the announcements that lead to
  one. The last of each agrees with `Place` (`ChannelsInOrder`); a list of
  channels, shown or answered, is right of every channel that is not *awaited*, and all of the one workspace
  (`ListRight`); what is shown is so, or a list is being asked for (`SidebarRight`). The open channel is listed
  (`OpenListed`). `GovernMinds` says that whoever changes a place announces it, `ListenObeys`
  that the browser does as it is told, `TypeCorrect`'s invariant that a page at rest is of a workspace one is in.

`OutboxProofs`, for any messages, bounds and faults:

* `ImplementsDelivery`, by `Account`: every packet, handler and queued message that may
  still end in a row of the table is counted with the rows there are (`Outstanding`), and the sum is at most the
  tries of the message. Only composing adds to it: a retry takes from the queue what it
  adds to the wire, an orphaned handler is counted once, and what is retried is `Repeatable`.
* `RowsFaithful`, by `Contents`: packets, events, histories and rows name ids under which their
  own message is stored, because an id is given once.
* `Pruned`, an action property, from the same.
* `TypeCorrect`, by `Wires` and `Timers`: nothing is buffered on a live connection, nothing waits
  on a dead one, and a timer is armed by a connect, which takes a loss before it.

Filters of sequences are reasoned about through `Places`, the set of places an entry of a set has; what the
recursive definitions return is shown by induction on the length, through the well-foundedness of `<`.

`SessionProofs`, for any tabs, browsers and slots:

* `TypeCorrect`, and `RotationHolds` by `RotationInv`, which adds that a token
  is exchanged only for younger ones.
* `TokensAreUsedOnce`, by `SingleUseInv`: two refreshes that carry one token, neither of them answered
  yet, are noted in `shared` (`NotedTwins`), since a tab sends no second one itself, and a token let through has not been
  exchanged unless it is shared (`LetThrough`). The second part needs the first when a token is made.
* `NoSpentCookie`, by `UnspentInv`: a token is known to one browser (`OwnTokens`), the answer that brings one is the only
  place it is in (`Undelivered`), and a browser whose cookie was exchanged has each answer that replaces it
  under way, or it was lost (`SpentIsReplaced`).
* `StaysSignedOut`, an action property, by `LeftInv`: an answered sign-out leaves the token it carried `Dead`, which
  lasts, as the row only gets new ones; a browser that was left has no cookie, and its refreshes are refused or
  carry a dead token (`LeftIsOver`). That a sign-out stops the refreshes sent with its own token is the
  erasing of the row, that it stops later ones the clearing of the cookie.

None of them has a hypothesis: two tabs of a browser do exchange one token, a cut does leave a spent cookie and a
refresh let through before the sign-out does restore the session, and these are noted where they happen.

`DirectProofs`, for any people, known pairs and bounds:

* `AddresseesOnly` and `SecondsAreFromRaces`, by
  `IInv` = every packet, event and view names only conversations there are, a packet is never addressed to
  its sender, a stored message is of the two whose conversation it is in, and a
  handler about to create a conversation found none older than its look. The last part is what makes
  a second conversation the result of a race; the first keep a room from naming nothing.
* `TypeCorrect`, `TicksAreEarned` and `NothingUnnoticed`, by `Full`, which adds the types of all that is under way
  (a receipt, event or history that carries a time of reading comes of a reader who opened the room, `HasRead`) and
  `Noticed`: each message to a person was listed or passed, or is *pending* somewhere: about to be announced, in an
  event, in a badge, in a member list that is asked for or answered, or the connection is down and the next one asks;
  or its news failed and no list was read since (`unheard`).
  Each step moves it from one of these places to another, and the property is the case where only the badge is left.

`RedisProofs`, of `Presence`, for any connections, drops and crashes:

* `KeptOnline`, by `KeptInv`: with a
  connection that stays no timer is past its look, every snapshot has the user in it, and
  nothing on its way to the watcher tells of an absence.
* `TypeCorrect`, by `Account`: each of the connections there may be is still to be made, lives, has armed a
  timer or is on its way out. Without it the timers have no bound.

`AccountProofs`, for any tabs, calls and number of codes: `TypeCorrect`, `StaleCodes`,
`NobodyIsLockedOut` and `InvitationsAreKept`, by `IInv` = these four and

* `CallsAreSound`: what a call under way relies on is so when it writes, above all that the row
  is still there and that a code to be confirmed was issued and is not in the other column;
* `CodesAreApart`: no code is in both columns and no dead one in either. Without it a
  confirmation could empty, or a stale code fit, a column that holds another's;
* `OnlyAccountsSignIn`: a signed-in page has a row.

`RowGrows` is the step common to all writers (codes are added, columns emptied or given a fresh
one), so that what holds of every call under way is shown once. The pages are walked link by
link for the invitation.

`RedisProofs`, of `SocketLimit`, for any processes, limit, window and number of failures: `LimitTypeCorrect` and
`SingleExpiry`, whose conjunction is inductive, and `AtMostTwoLimits`. `WindowInv` follows the lives of
the key: what was let through within a window, less what this life has let through, is at most one limit
(`AtMostOneLimitBefore`), and nothing of an earlier life is younger than the moment at which the expiry
was set (`SinceExpirySet`), so that when the key goes its own share is all there is. That the sums grow and
age as they should (`OneMore`, `Older`, `LongerIsMore`) is shown by induction through the well-foundedness of `<`.

`MessageLogProofs`, for any users, bounds and failures:

* `TypeCorrect`, by `TInv`. Each call and event has the shape its point allows (`CallRight`, `EventRight`), and
  a number shown plus the replies that have yet to arrive (`Uncounted`) is at most twice the replies there have been (`Within`):
  a reply may be counted once by a reading and once more when it arrives, no more often.
* `ListIsSettled` and `DrawerIsSettled`, in whatever order answers come. Both are cases of `SInv`, where nothing is
  under way. It says of everything a copy shows that it is right *or something is due that will put it right*, or what was
  told last was not what was read last:
  * `InOrder`: what was last read of each kind (number, reactions, text) is the truth, or a handler has yet to read it; and
    if it was told last, it is also the last of its kind on the way to the tab;
  * `FacesRight`: row, head and the history on its way show each number, reactions and text as they are, or one of that kind is
    due (`CountDue`, `ReactionsDue`, `TextDue`);
  * `GoneTrue`, `GoneNoted`: a deletion that is told has happened, and until it is heard (`GoneDue`) it may still be shown;
  * `Shown`, `TempDue`: a message not shown has a deletion asked for, and a reply without its id has yet to be written or heard;
  * `DrawerRight`, `NoneLeft`: the answer that the drawer read last has the replies there are, or it is about to fetch them
    again, or a number is to come that makes it do so, and that answer is shown, or one is to be shown yet, or another was
    shown after it; what it has beside them is being deleted (`Alive`).
  What is due does not vanish without effect: `GoneKept` and `DuesKept` say so of a step, each action is shown to
  satisfy them, and the row, head and drawer follow by lemmas common to all (`RowStays`, `HeadStays`, `TabStaysRight`).

The only assumptions on constants are the named ASSUMEs of the modules (disjoint constants,
bounds in `Nat`, switches in `BOOLEAN`, finitely many users and connections, people in pairs, markers such as `Idle`, `NoAccount` and `None` unlike
what they stand beside, users unlike workspaces, rows of existing channels in the initial tables, a provisional id
unlike a row's), which TLC evaluates in the runs, and a finite number of slots for `AloneSound`.

Model-checked only:

* Liveness (`QueueReachesTheTable`, `OfflineIsShown`, `Refills`): fairness and ENABLED are out of
  the prover's reach.
* `OwnerIsLocked` and `PublicChannelsAreRejoined`, which are false.

## 5. What is not modelled

* *Generated code*: about 22,000 of the repository's 37,000 lines are the generated
  Prisma client, which keeps no state of its own. What is left to model is some 15,000 lines,
  most of them rendering.
* *Screens, wiring, uploads, mail, hashing, signatures, OAuth*: nothing that changes
  state beyond what its component does. *HTTP rate limit*: the counting is a library's.
  *Redis connection*: a promise stored before the first await of one event loop.
* *Another user of the browser*: `Outbox` has one user and one tab. The persisted queue is
  neither emptied when its user signs out nor shared between tabs that are open.
* *Requests that no page makes*: the calls of `Accounts` carry what the pages send, among it a code that was
  typed. `resetPasswordHandler` (`authController.ts:205-215`) does not check its body, and an `otp` of null is
  compared with the column as it is, empty or not (`authService.ts:319`); `StaleCodeIsRefused` is about codes.
* *Direct conversations*: delivery marks (`markAsDelivered` announces and the client shows a
  sign), typing, and sends without a room (the composer does not make them). Retries are in `Outbox`, replies and deletions in `MessageLog`.
* *Workspace pages*: the user's own administrative dialogs (`ManageMembersModal`,
  `handleDeleteWorkspace`, `CreateWorkspaceModal`); the roles shown beside other members;
  the user's own joining, which ends in a new page; the rooms of channels and `join_workspace`,
  which are joined as lists arrive. The
  `invalidateQueries` of `SocketProvider.tsx:107` refetches nothing: no query uses these keys.
* *Unread counts of channels, paging, search, context of a message*: counts that are
  merged over what is shown, and read-only queries.
* *Several processes of the server* are modelled where it matters (the rate limit,
  `Steady`); the tables are shared anyway.
* `SocketLimit` models production, where a process whose Redis client is closed
  refuses the event.

## 6. What the models show of the code

Two statements of the code are refuted by runs (section 3). One is the "System Lock" of the
owner's role (`workspaceController.ts:328`; the removal at 512 has the same shape). The other is the comment
before `leaveChannel` (`channelController.ts:319`): "Public channels are hidden per user so they can be
intentionally rejoined later; private memberships are retained but hidden so the channel owner can restore
access." No request of a member brings back a channel of either type. Marking it read
changes `lastReadAt` only, an invitation skips who has a row, and nobody may change their own visibility (463).
Only `setChannelMemberVisibility` does, for both types, and it asks for the owner of the *workspace* (452); the
`ownerId` of a channel is written at its creation and never read. `OnlyTheOwnerUnhides` and its theorem state
what the code does, and the run `rejoin` what the comment says.

A third, the de-duplication of refreshes (`authFetch.ts:6`), holds in a tab and not in a
browser: two tabs may exchange the same token (`shared`).

Found while modelling and left as the code has it, each with the constant or
the restriction that keeps it out of a passing run:

* The queue is emptied one second after a connect, whether or not the first emit is under way:
  a message composed within that second may be stored twice (`DeliverySpec` allows two).
* The timer of a replaced socket empties the queue into a socket that will not
  connect again (`QueueReachesTheTable` excepts `Renewing`).
* Signing out leaves the persisted queue (`resetChat`, `uiSlice.ts:86`): who signs in next on the
  browser sends what is in it, as their own. Read in the code, in no model.
* A flushed item is off the queue when it is emitted: a connection lost then loses it
  (the property speaks of items still queued).
* A channel message is retried as a direct message to the user "channel"
  (`ChatInput.tsx:217`), reported unavailable and shown as sent.
* Two rows may share an id when an acknowledgement follows a history that already has the row.
* A thread opened again over the object it shows is emptied and not fetched
  (`"emptied"` in `lost`). An edit does not reach the head of the drawer
  (`ListSettles` leaves its text out). A reply or a deletion whose handler fails, or a history older than an
  event it is applied after, leaves the tab wrong until the next event or history
  (`lost`, `behind`); so do lists of reactions, counts or fetches that arrive in the
  opposite order (`told` differs from `read`). An old answer of the drawer may bring back a reply that was just
  deleted; who deletes it again takes one more off the number (`MessageBubble.tsx:137`), and the server, which finds
  nothing, tells no number that would repair it (`messageActionHandler.ts:146`). This (`"ghost"`) was met in the proof:
  with the one reply that the run begins with, the lower bound hides it. An unread badge of a channel is decremented twice by a deletion
  (`useDMEvents.ts:252`, `useChannelEvents.ts:212`), and deleting a message that was read
  takes one off the badge of another (`useDMEvents.ts:255`); no model has badges of deletions.
* A failure between INCR and PEXPIRE leaves a counter that never expires.
  The README speaks of token buckets; the code counts in fixed windows, hence *two* limits a window.
* A connection that ends during the handler's awaits is announced online and never offline
  (`"abrupt"` in `missed`); a snapshot asked for before the server listens is not sent (`"unheard"`);
  a snapshot that takes longer than the timer brings a user back (`"slow"`);
  a user who returns between the timer's look and its announcement is shown offline;
  a crash leaves the user shown online until the next snapshot (`"crash"`), as nobody reads the key that expires.
* A reload during a refresh leaves a spent cookie (`lost`); a refresh that was let through before a
  sign-out, in this tab or another, signs the browser in again when it is answered (`Escapes`). So does any later
  refresh after a sign-out that failed or was cut off: the tab signs out whatever the answer (`CurrentUserFooter.tsx:46`), and the
  cookie stays.
* A guest stripped of every channel gets the row of a public one by marking it read over the
  socket (`channelHandler.ts:167`, against the comment at `workspaceController.ts:344`).
* The owner added to a private channel is read without a lock (`channelController.ts:46`).
* An upsert authorised before its user was removed inserts a row for a non-member: that is why
  `RowsBelongToMembers` is stated for one request at a time (`AloneIsSound`).
* The thirteen circumstances of `WorkspaceView` (section 2). One was met in the proof only, as it takes more
  steps than a run makes: a guest promoted while disconnected has the role GUEST until the members are
  answered, and a public channel created meanwhile, after the channels were answered, is dropped
  for good (`useChannelEvents.ts:193`). Besides, switching keeps the
  channels of the workspace left until the answer comes, and `WorkspaceDropdown.tsx:71` writes
  the list of workspaces it was shown with.
* *Ways in.* An account of Google's that asks to set a password while it has one is told to
  use the forgotten-password page (`authService.ts:350`), which refuses such accounts (290). A
  reset ends no session. A code stored while a confirmation is under way is wiped unread.
  A page pushed by a second answer while the invitation's page loads loses the
  invitation (`"overtaken"`).
* *Direct conversations.* A `roomJoined` or a history that was asked for an earlier selection is
  taken for the present one (`useDMEvents.ts:62`, `:92`): messages are sent into the room of
  another person, and the tick is another's; the properties except `view.mixed`. Two first messages,
  a double click, or a selection made offline that `handleReconnect` repeats (`useDMEvents.ts:297`)
  create two conversations of a pair, of which the sidebar counts one. `markAsRead` stamps the time at which it is
  processed (`dmHandler.ts:277`) and is sent before the history is fetched (`useDMEvents.ts:66`), so
  it covers what was not listed. A message told while the member list is under way is
  counted in both (`useWorkspaceMembers.ts:54`). `sendPrivateMessage` signs attachments after it has stored the
  message (`dmHandler.ts:233`): when that fails the message is there and nobody is told of it, with a badge only
  from the next member list; and a member list that fails is not asked for again before the next connect. A history that is refused after
  a reconnect leaves the room as it is, and opening a person clears the badge at a glance. A receipt
  covers by its time, so a message that was told to a lost connection is marked as read unseen.
  `usePresenceEvents.ts:19` replaces the server's time of a read by the browser's.

## 7. Plan

Done: the modules of section 2, the runs of section 3, the proofs of section 4.

Next, in this order: unread counts of channels and their
decrements, in a module that shares the listeners with `WorkspaceView`; the administrative
dialogs in `WorkspaceView`; lost connections and threads of direct conversations in `MessageLog`.
