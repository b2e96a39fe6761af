----------------------------- MODULE MessageLog -----------------------------
(***************************************************************************)
(* One message of a channel and its thread, as one browser tab sees them:  *)
(* replies, deletions, reactions and edits, made in the tab or elsewhere.  *)
(* Every handler writes a row, and after one or more awaits tells the room *)
(* what it did or what it has read.  The tab acts at once, does not wait   *)
(* for an answer and undoes nothing.  It keeps three copies of what it     *)
(* shows: the row of the message list, the head of the drawer, and the     *)
(* drawer's list, which is fetched again whenever that head changes.       *)
(*                                                                         *)
(* What other tabs show is not kept: they may ask for anything.  Reactions *)
(* and edits are those of the message itself, with one emoji; all may      *)
(* delete, as senders, owners and admins do.  The n-th reply has tempId    *)
(* and id n: `temp` holds those a list knows by tempId only.               *)
(***************************************************************************)
EXTENDS Naturals, FiniteSets, SequencesExt

CONSTANTS
    Users,       \* who reacts
    None,
    Earlier,     \* how many replies there are already
    MaxReplies,  \* bound: with those
    MaxEdits,    \* bound
    MaxOps,      \* bound: requests of all kinds
    MaxMoves,    \* bound: how often the tab looks at another channel
    MaxFetches,  \* bound: fetches of the drawer under way together
    MaxLost      \* bound: handlers that fail

ASSUME BoundsAssumption ==
    MaxReplies \in Nat /\ Earlier \in 0 .. MaxReplies /\ MaxEdits \in Nat /\ MaxFetches \in Nat

\* No picture of the message and no list of replies.
ASSUME NoneAssumption ==
    /\ None \notin [replies : Nat, reacts : SUBSET Users, text : Nat]
    /\ \A replies \in SUBSET (1 .. MaxReplies) : replies # None

VARIABLES
    table,   \* the rows: the message, its replies, its reactions
    calls,   \* handlers under way
    down,    \* events on their way to the tab
    tab,     \* its store
    drawer,  \* the fetches of its drawer, in the order they were sent
    history, \* the fetch of its message list
    behind,  \* the list was filled by an answer older than an event
    lost,    \* at which points something has failed or gone astray
    spent,   \* how much of the bounds is used
    read,    \* what was last read to be told or shown: the number of replies,
             \* the reactions, the text, and for the drawer the replies
    told     \* and what of each was last told or shown

News == <<read, told>>
vars == <<table, calls, down, tab, drawer, history, behind, lost, spent, News>>
Tabs == <<tab, drawer, history, behind, lost, spent>>

Whole == 0  \* stands for the message where a reply could stand
Reply == 1 .. MaxReplies
Face == [replies : 0 .. 2 * MaxReplies, reacts : SUBSET Users, text : 0 .. MaxEdits]

TypeOK ==
    /\ table \in [exists : BOOLEAN, replies : SUBSET Reply, reacts : SUBSET Users,
                  text : 0 .. MaxEdits]
    /\ ~ table.exists => table.replies = {} /\ table.reacts = {}
    /\ \A i \in DOMAIN calls :
         calls[i].pc \in {"look", "write", "announce", "count", "tellCount", "list",
                          "tellReactions", "tellText"}
    /\ tab.row \in Face \cup {None} /\ tab.head \in Face \cup {None}
    /\ tab.real \subseteq Reply /\ tab.temp \subseteq Reply \ tab.real
    /\ tab.changed \/ tab.twin => tab.head # None
    /\ Len(drawer) <= MaxFetches
    /\ history.is \in {"none", "asked", "read"}
    /\ behind \in BOOLEAN
    /\ {read, told} \subseteq [count : 0 .. MaxReplies, reactions : SUBSET Users, text : 0 .. MaxEdits,
                              replies : SUBSET Reply]

TheFace == [replies |-> Cardinality(table.replies), reacts |-> table.reacts, text |-> table.text]
Idle == [is |-> "none", row |-> None, late |-> FALSE]

Init ==
    /\ table = [exists |-> TRUE, replies |-> 1 .. Earlier, reacts |-> {}, text |-> 0]
    /\ calls = << >> /\ down = << >>
    /\ tab = [away |-> FALSE, row |-> TheFace, head |-> None, real |-> {}, temp |-> {},
              twin |-> FALSE, changed |-> FALSE]
    /\ drawer = << >> /\ history = Idle
    /\ behind = FALSE /\ lost = {}
    /\ spent = [replies |-> Earlier, edits |-> 0, ops |-> 0, moves |-> 0]
    /\ read = [count |-> Earlier, reactions |-> {}, text |-> 0, replies |-> 1 .. Earlier]
    /\ told = read

----------------------------------------------------------------------------
(* The store of a tab                                                      *)

On(face, F(_)) == IF face = None THEN None ELSE F(face)

\* Both copies of the message become other objects, and a new head makes the
\* drawer's effect run.
Repaint(t, F(_)) ==
    [t EXCEPT !.row = On(@, F), !.head = On(@, F),
              !.twin = FALSE, !.changed = @ \/ t.head # None]

More(t) == Repaint(t, LAMBDA f : [f EXCEPT !.replies = @ + 1])

\* Mutant: no lower bound.
FewerStill(t) == Repaint(t, LAMBDA f : [f EXCEPT !.replies = @ - 1])

Fewer(t) == Repaint(t, LAMBDA f : [f EXCEPT !.replies = Max({@ - 1, 0})])

\* Mutant: the effect does not see a new count.
setThreadReplyCountUnseen(t, n) ==
    [Repaint(t, LAMBDA f : [f EXCEPT !.replies = n]) EXCEPT !.changed = t.changed]

setThreadReplyCount(t, n) == Repaint(t, LAMBDA f : [f EXCEPT !.replies = n])
updateMessageReactions(t, reacts) == Repaint(t, LAMBDA f : [f EXCEPT !.reacts = reacts])

\* The head keeps the old text.
editMessage(t, text) ==
    [t EXCEPT !.row = On(@, LAMBDA f : [f EXCEPT !.text = text]),
              !.twin = @ /\ t.row = None]

closeThread(t) ==
    [t EXCEPT !.head = None, !.real = {}, !.temp = {}, !.twin = FALSE, !.changed = FALSE]

deleteMessage(t, x) ==
    IF x = Whole
      THEN [(IF t.head = None THEN t ELSE closeThread(t)) EXCEPT !.row = None]
      ELSE [Fewer(t) EXCEPT !.real = @ \ {x}]

\* A reply arrives: the drawer of its thread may know it already.
receive(t, r) ==
    IF t.away THEN t
    ELSE IF t.head = None THEN More(t)
    ELSE IF r \in t.real \cup t.temp
      THEN [t EXCEPT !.real = @ \cup {r}, !.temp = @ \ {r}]
      ELSE [More(t) EXCEPT !.real = @ \cup {r}]

----------------------------------------------------------------------------
(* Requests                                                                *)

\* emit: the connection is up, so a handler starts.
Request(op, x, pc) == calls' = Append(calls, [op |-> op, by |-> None, x |-> x, pc |-> pc])

Spend(what) ==
    /\ spent.ops < MaxOps
    /\ spent' = [f \in DOMAIN spent |-> spent[f] + IF f \in {"ops", what} THEN 1 ELSE 0]

Visible == tab.row # None \/ tab.head # None

handleSendReply ==
    LET r == spent.replies + 1
    IN  /\ tab.head # None /\ r <= MaxReplies
        /\ Spend("replies")
        /\ tab' = [More(tab) EXCEPT !.temp = @ \cup {r}]
        /\ Request("reply", r, "write")
        /\ UNCHANGED <<table, down, drawer, history, behind, lost, News>>

\* The number of replies is on its way to the tab.
CountOwed ==
    \/ \E i \in DOMAIN calls : calls[i].pc \in {"announce", "count", "tellCount"}
    \/ \E i \in DOMAIN down : down[i].ev = "thread_parent_updated"

\* The server finds nothing to delete by a tempId, nor a reply that an old
\* answer has brought back; then nobody tells the number again.
handleDelete(x) ==
    /\ IF x = Whole THEN Visible ELSE tab.head # None /\ x \in tab.real \cup tab.temp
    /\ Spend("ops")
    /\ tab' = [deleteMessage(tab, x) EXCEPT !.temp = @ \ {x}]
    /\ IF x \in tab.temp THEN UNCHANGED calls ELSE Request("delete", x, "write")
    /\ lost' = IF x \in {Whole} \cup table.replies \cup tab.temp \/ CountOwed THEN lost
               ELSE lost \cup {"ghost"}
    /\ UNCHANGED <<table, down, drawer, history, behind, News>>

handleEditSubmit ==
    LET n == spent.edits + 1
    IN  /\ Visible /\ n <= MaxEdits
        /\ Spend("edits")
        /\ tab' = editMessage(tab, n)
        /\ Request("edit", n, "write")
        /\ UNCHANGED <<table, down, drawer, history, behind, lost, News>>

\* Nothing is shown before the answer, wherever the click was.
handleReactionToggle(u) ==
    /\ Spend("ops")
    /\ calls' = Append(calls, [op |-> "toggle", by |-> u, x |-> Whole, pc |-> "look"])
    /\ UNCHANGED <<table, down, tab, drawer, history, behind, lost, News>>

\* Another tab, of the same user or of another.
Elsewhere ==
    /\ \/ /\ spent.replies < MaxReplies
          /\ Spend("replies") /\ Request("reply", spent.replies + 1, "write")
       \/ /\ spent.edits < MaxEdits
          /\ Spend("edits") /\ Request("edit", spent.edits + 1, "write")
       \/ \E x \in table.replies \cup {Whole} : Spend("ops") /\ Request("delete", x, "write")
    /\ UNCHANGED <<table, down, tab, drawer, history, behind, lost, News>>

----------------------------------------------------------------------------
(* Views                                                                   *)

\* Opened again over the object it shows already, the drawer is emptied and
\* its effect, which depends on that object, does not run.
openThread ==
    /\ tab.row # None
    /\ tab' = [tab EXCEPT !.head = tab.row, !.real = {}, !.temp = {}, !.twin = TRUE,
                          !.changed = @ \/ ~ tab.twin]
    /\ lost' = IF tab.twin THEN lost \cup {"emptied"} ELSE lost
    /\ UNCHANGED <<table, calls, down, drawer, history, behind, spent, News>>

Close ==
    /\ tab.head # None
    /\ tab' = closeThread(tab)
    /\ UNCHANGED <<table, calls, down, drawer, history, behind, lost, spent, News>>

\* Another channel is opened.
Leave ==
    /\ ~ tab.away /\ spent.moves < MaxMoves
    /\ spent' = [spent EXCEPT !.moves = @ + 1]
    /\ tab' = [closeThread(tab) EXCEPT !.away = TRUE, !.row = None]
    /\ UNCHANGED <<table, calls, down, drawer, history, behind, lost, News>>

\* And this one again, whose history is fetched.
Return ==
    /\ tab.away /\ history = Idle
    /\ tab' = [closeThread(tab) EXCEPT !.away = FALSE, !.row = None]
    /\ history' = [history EXCEPT !.is = "asked"]
    /\ UNCHANGED <<table, calls, down, drawer, behind, lost, spent, News>>

\* The effect of the drawer: it runs for every new head and is not cancelled.
fetchReplies ==
    /\ tab.changed /\ Len(drawer) < MaxFetches
    /\ tab' = [tab EXCEPT !.changed = FALSE]
    /\ drawer' = Append(drawer, None)
    /\ UNCHANGED <<table, calls, down, history, behind, lost, spent, News>>

\* A thread whose message is gone has no answer to show.
AnswerReplies(k) ==
    /\ drawer[k] = None
    /\ IF table.exists
         THEN /\ drawer' = [drawer EXCEPT ![k] = table.replies]
              /\ read' = [read EXCEPT !.replies = table.replies]
         ELSE UNCHANGED read /\ drawer' = RemoveAt(drawer, k)
    /\ UNCHANGED <<table, calls, down, tab, history, behind, lost, spent, told>>

\* The drawer shows the answer, whatever it held, open or not, and whichever
\* request it answers.
setThreadMessages(k) ==
    /\ drawer[k] # None
    /\ tab' = [tab EXCEPT !.real = drawer[k], !.temp = {}]
    /\ drawer' = RemoveAt(drawer, k)
    /\ told' = [told EXCEPT !.replies = drawer[k]]
    /\ UNCHANGED <<table, calls, down, history, behind, lost, spent, read>>

AnswerHistory ==
    /\ history.is = "asked"
    /\ history' = [is |-> "read", row |-> IF table.exists THEN TheFace ELSE None, late |-> FALSE]
    /\ UNCHANGED <<table, calls, down, tab, drawer, behind, lost, spent, News>>

\* The list shows the answer, whatever channel is open.
setMessages ==
    /\ history.is = "read"
    /\ tab' = [tab EXCEPT !.row = history.row, !.twin = FALSE]
    /\ history' = Idle
    /\ behind' = history.late
    /\ UNCHANGED <<table, calls, down, drawer, lost, spent, News>>

\* The store after an event; a deletion is heard by two listeners.
Heard(t, e) ==
    CASE e.ev = "receive_channel_message" -> receive(t, e.x)
      [] e.ev = "message_deleted" -> deleteMessage(deleteMessage(t, e.x), e.x)
      [] e.ev = "thread_parent_updated" -> setThreadReplyCount(t, e.x)
      [] e.ev = "message_reactions_updated" -> updateMessageReactions(t, e.x)
      [] e.ev = "message_edited" -> editMessage(t, e.x)

Hear ==
    /\ down # << >>
    /\ down' = Tail(down)
    /\ tab' = Heard(tab, Head(down))
    /\ history' = [history EXCEPT !.late = history.is = "read"]
    /\ UNCHANGED <<table, calls, drawer, behind, lost, spent, News>>

----------------------------------------------------------------------------
(* The server                                                              *)

Tell(ev, x) == down' = Append(down, [ev |-> ev, x |-> x])

Finish(i) == calls' = RemoveAt(calls, i)
Then(i, pc) == calls' = [calls EXCEPT ![i].pc = pc]
ThenWith(i, pc, x) == calls' = [calls EXCEPT ![i].pc = pc, ![i].x = x]

\* The row a write refers to may be gone, and then the handler ends.
WriteReply(i) ==
    /\ calls[i].op = "reply" /\ calls[i].pc = "write"
    /\ IF table.exists
         THEN table' = [table EXCEPT !.replies = @ \cup {calls[i].x}] /\ Then(i, "announce")
         ELSE UNCHANGED table /\ Finish(i)
    /\ UNCHANGED <<down, Tabs, News>>

WriteDelete(i) ==
    LET x == calls[i].x
    IN  /\ calls[i].op = "delete" /\ calls[i].pc = "write"
        /\ \/ /\ x = Whole /\ table.exists
              /\ table' = [table EXCEPT !.exists = FALSE, !.replies = {}, !.reacts = {}]
              /\ Then(i, "announce")
           \/ /\ x \in table.replies
              /\ table' = [table EXCEPT !.replies = @ \ {x}]
              /\ Then(i, "announce")
           \/ /\ IF x = Whole THEN ~ table.exists ELSE x \notin table.replies
              /\ UNCHANGED table /\ Finish(i)
        /\ UNCHANGED <<down, Tabs, News>>

\* Mutant: after a deletion no count is sent.
AnnounceBare(i) ==
    LET c == calls[i]
    IN  /\ c.pc = "announce"
        /\ Tell(IF c.op = "reply" THEN "receive_channel_message" ELSE "message_deleted", c.x)
        /\ IF c.op = "delete" THEN Finish(i) ELSE Then(i, "count")
        /\ UNCHANGED <<table, Tabs, News>>

Announce(i) ==
    LET c == calls[i]
    IN  /\ c.pc = "announce"
        /\ Tell(IF c.op = "reply" THEN "receive_channel_message" ELSE "message_deleted", c.x)
        /\ IF c.x = Whole THEN Finish(i) ELSE Then(i, "count")
        /\ UNCHANGED <<table, Tabs, News>>

CountReplies(i) ==
    /\ calls[i].pc = "count"
    /\ ThenWith(i, "tellCount", Cardinality(table.replies))
    /\ read' = [read EXCEPT !.count = Cardinality(table.replies)]
    /\ UNCHANGED <<table, down, Tabs, told>>

\* It is looked whether the user has reacted; then that is undone or done,
\* unless somebody has done so meanwhile; then all reactions are listed.
LookReaction(i) ==
    LET c == calls[i]
    IN  /\ c.pc = "look"
        /\ IF table.exists THEN ThenWith(i, "write", c.by \in table.reacts) ELSE Finish(i)
        /\ UNCHANGED <<table, down, Tabs, News>>

WriteReaction(i) ==
    LET c == calls[i]
    IN  /\ c.op = "toggle" /\ c.pc = "write"
        /\ IF table.exists /\ (c.by \in table.reacts) = c.x
             THEN /\ table' = [table EXCEPT !.reacts = IF c.x THEN @ \ {c.by} ELSE @ \cup {c.by}]
                  /\ Then(i, "list")
             ELSE UNCHANGED table /\ Finish(i)
        /\ UNCHANGED <<down, Tabs, News>>

ListReactions(i) ==
    /\ calls[i].pc = "list"
    /\ ThenWith(i, "tellReactions", table.reacts)
    /\ read' = [read EXCEPT !.reactions = table.reacts]
    /\ UNCHANGED <<table, down, Tabs, told>>

WriteText(i) ==
    /\ calls[i].op = "edit" /\ calls[i].pc = "write"
    /\ IF table.exists
         THEN /\ table' = [table EXCEPT !.text = calls[i].x] /\ Then(i, "tellText")
              /\ read' = [read EXCEPT !.text = calls[i].x]
         ELSE UNCHANGED <<table, read>> /\ Finish(i)
    /\ UNCHANGED <<down, Tabs, told>>

\* The room is told what was read or written, by the handlers whose answers
\* from the database come first.
Report(i) ==
    LET c == calls[i]
    IN  /\ \/ /\ c.pc = "tellCount" /\ Tell("thread_parent_updated", c.x)
              /\ told' = [told EXCEPT !.count = c.x]
           \/ /\ c.pc = "tellReactions" /\ Tell("message_reactions_updated", c.x)
              /\ told' = [told EXCEPT !.reactions = c.x]
           \/ /\ c.pc = "tellText" /\ Tell("message_edited", c.x)
              /\ told' = [told EXCEPT !.text = c.x]
        /\ Finish(i)
        /\ UNCHANGED <<table, Tabs, read>>

\* An await throws, or the request was refused before its write.
Fail(i) ==
    /\ Cardinality(lost) < MaxLost
    /\ calls[i].pc \in {"look", "write", "announce", "count", "list"}
    /\ lost' = lost \cup {calls[i].pc}
    /\ Finish(i)
    /\ UNCHANGED <<table, down, tab, drawer, history, behind, spent, News>>

----------------------------------------------------------------------------
Asking ==
    \/ handleSendReply \/ handleEditSubmit \/ Elsewhere
    \/ \E x \in Reply \cup {Whole} : handleDelete(x)
    \/ \E u \in Users : handleReactionToggle(u)

Viewing ==
    \/ openThread \/ Close \/ Leave \/ Return
    \/ fetchReplies \/ AnswerHistory \/ setMessages \/ Hear
    \/ \E k \in DOMAIN drawer : AnswerReplies(k) \/ setThreadMessages(k)

Serving(i) ==
    \/ WriteReply(i) \/ WriteDelete(i) \/ Announce(i) \/ CountReplies(i)
    \/ LookReaction(i) \/ WriteReaction(i) \/ ListReactions(i) \/ WriteText(i)
    \/ Report(i) \/ Fail(i)

Next == Asking \/ Viewing \/ \E i \in DOMAIN calls : Serving(i)

Spec == Init /\ [][Next]_vars

----------------------------------------------------------------------------
\* No handler runs and nothing is on its way to the tab.
Quiet ==
    /\ calls = << >> /\ down = << >> /\ drawer = << >> /\ history = Idle
    /\ ~ tab.changed

\* Whatever was done at once and however often an event was counted, when
\* nothing is under way the list shows the message while there is one, with its
\* text, the number of its replies and its reactions as they are in the
\* database, the head of an open drawer shows the same except for the text, and
\* no reply waits for its id (messageActionHandler 197-206, channelHandler
\* 129-143, messageSlice 60-233); unless a handler failed, the list was filled
\* by a history that was older than an event, or of that very number, reactions
\* or text the handler that read last was not the last to tell.
ListSettles ==
    Quiet /\ lost \subseteq {"emptied"} /\ ~ behind /\ ~ tab.away =>
      /\ tab.row # None <=> table.exists
      /\ tab.head # None => table.exists
      /\ tab.temp = {}
      /\ \A f \in {tab.row, tab.head} \ {None} :
           /\ told.count = read.count => f.replies = Cardinality(table.replies)
           /\ told.reactions = read.reactions => f.reacts = table.reacts
      /\ tab.row # None /\ told.text = read.text => tab.row.text = table.text

\* An open drawer shows the replies there are when nothing is under way,
\* though each answer replaces its list and may be older than it, and though
\* the list behind it may be old, if only the message still exists
\* (ThreadDrawer 58-104, useChannelEvents 77-136); unless the answer that was
\* read last was not the last to be shown.  Handlers that fail once they have
\* told what they wrote may cost it a reply, never leave it one that was
\* deleted.
DrawerSettles ==
    Quiet /\ tab.head # None /\ told.replies = read.replies /\ (behind => table.exists) =>
      /\ lost \subseteq {"count", "emptied", "ghost"} => tab.real \subseteq table.replies
      /\ lost \subseteq {"ghost"} => tab.real = table.replies /\ tab.temp = {}
=============================================================================
