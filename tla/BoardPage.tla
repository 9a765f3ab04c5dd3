------------------------------ MODULE BoardPage ------------------------------
(***************************************************************************)
(* The board page of the frontend: a list of tasks, or of approvals, that  *)
(* is kept by the answers to the page's own requests and by an event       *)
(* stream, against the rows of the server, which others change too.        *)
(*                                                                         *)
(* Source: app/boards/[boardId]/page.tsx in src/frontend, and the streams  *)
(* of api/tasks.py and api/approvals.py.  Values are not told apart but by *)
(* the write they come from; a stamp stands for updated_at and created_at  *)
(* of tasks, events and approvals (resolved_at where there is one).  A     *)
(* stamp is taken before its commit, so that commits may come in another   *)
(* order than stamps.                                                      *)
(***************************************************************************)
EXTENDS Naturals, Sequences, FiniteSets

CONSTANTS
    Item,           \* tasks, or approvals
    Start,          \* those that exist when the page is opened
    Mine, Theirs,   \* requests of this page, and of everybody else
    Kinds,          \* what the list may be of: "tasks", "approvals"
    MaxListed,      \* the approvals a snapshot lists
    Hope,           \* the value of a card that was moved and is not confirmed
    MaxClock,       \* bound: stamps
    MaxAsked,       \* bound: requests of this page
    MaxWire,        \* bound: payloads under way
    MaxFaults       \* bound: broken streams, lost answers, processes cut off

ASSUME BoundAssumption == {MaxListed, MaxClock, MaxAsked, MaxWire, MaxFaults} \subseteq Nat
\* Items are numbered as they come: those at the start carry stamps of the past.
ASSUME ItemAssumption ==
    /\ IsFiniteSet(Item) /\ Item # {} /\ Start \subseteq Item
    /\ \A t \in Item : t \in Nat \ {0} /\ t <= Cardinality(Item)
ASSUME HopeAssumption == Hope \notin Nat
ASSUME RequestAssumption == Mine \cap Theirs = {} /\ Kinds \subseteq {"tasks", "approvals"}

Request == Mine \cup Theirs

VARIABLES
    kind,       \* of the list: the page keeps one of each, and they do not meet
    clock,      \* the last stamp
    row,        \* of each item: the write it shows, and its stamp; v = 0 where there is none
    event,      \* the stamp of each task's last event in the activity log, 0 without
    req,        \* what each request stands before
    loaded,     \* has the page its snapshot
    shown,      \* the cards of each item, first one first
    current,    \* the cards as last rendered: tasksRef, approvalsRef
    stream,     \* the server's end of the event stream
    wire,       \* payloads under way to the page
    asked, faults,  \* requests of this page, failures so far
    history     \* what has been: see WrongIsKnown

serverVars == <<clock, row, event>>
pageVars == <<loaded, shown, current, stream, wire>>
vars == <<kind, serverVars, req, pageVars, asked, faults, history>>

Unborn == [v |-> 0, at |-> 0]
Gone == [v |-> 0, at |-> 1]
Live(t) == row[t].v # 0
Right(t) == IF Live(t) THEN shown[t] # <<>> /\ \A i \in 1..Len(shown[t]) : shown[t][i].v = row[t].v
            ELSE shown[t] = <<>>
Wrong == {t \in Item : ~Right(t)}

NoCards == [t \in Item |-> <<>>]
Idle == [at |-> "idle", op |-> "save", item |-> CHOOSE t \in Item : TRUE, v |-> 0, ev |-> 0,
         answer |-> Unborn, before |-> NoCards]
Off == [on |-> FALSE, lastSeen |-> 0, seen |-> {}]

\* The page is opened; others are at work already.
Init ==
    /\ kind \in Kinds
    /\ row = [t \in Item |-> IF t \in Start THEN [v |-> t, at |-> t] ELSE Unborn]
    /\ clock = Cardinality(Item)
    /\ event = [t \in Item |-> 0]
    /\ req = [c \in Request |-> Idle]
    /\ loaded = FALSE /\ shown = NoCards /\ current = NoCards
    /\ stream = Off /\ wire = <<>> /\ asked = 0 /\ faults = 0
    /\ history = [gap |-> {}, missed |-> {}, mine |-> {}, crossed |-> FALSE]

\* Items newly known to be shown wrong, and to stay so.
Gap(new) == (history.gap \cup new) \cap Wrong'

\* get_board_snapshot lists every task, and the newest approvals.
Listed == {t \in Item : /\ Live(t)
                        /\ kind = "approvals" => Cardinality({u \in Item : u > t /\ Live(u)}) < MaxListed}

\* loadBoard takes the snapshot, which is rendered before anything else goes on;
\* what it leaves out stays out until it changes.
Load ==
    /\ ~loaded /\ loaded' = TRUE
    /\ shown' = [t \in Item |-> IF t \in Listed THEN <<row[t]>> ELSE <<>>]
    /\ current' = shown'
    /\ UNCHANGED <<kind, serverVars, req, stream, wire, faults>>
    /\ history' = [history EXCEPT !.gap = Gap(Item \ Listed)]

\* The effects after a render hand the list to the handlers and the streams.
Render ==
    /\ current # shown /\ current' = shown
    /\ UNCHANGED <<kind, serverVars, req, loaded, shown, stream, wire, faults, history>>

-----------------------------------------------------------------------------
(* The stream. *)

\* The stamp under which the log, or the approval itself, tells of an item.  Of
\* several events of a task all bring the same row, so the last one stands for them.
Entry(t) == IF kind = "tasks" THEN event[t] ELSE row[t].at

\* _fetch_task_events and seen_ids, _fetch_approval_events.
Due == {t \in Item : /\ Live(t) /\ Entry(t) > 0 /\ Entry(t) >= stream.lastSeen
                     /\ kind = "tasks" => Entry(t) \notin stream.seen}

\* A stream with this cursor never tells an entry that is older.
Passed(t, e) == IF stream.on /\ e < stream.lastSeen THEN {t} ELSE {}

Stamps == UNION {{current[t][i].at : i \in 1..Len(current[t])} : t \in Item}

\* Variant: the stream starts with what happens from now on.
CursorNow == clock

\* latestTaskTimestamp, latestApprovalTimestamp; without one the server takes the time.
Cursor == IF Stamps = {} THEN clock ELSE CHOOSE s \in Stamps : \A r \in Stamps : r <= s

\* A task's row is committed and its event still to come.
Untold(t) ==
    /\ kind = "tasks"
    /\ \E c \in Request : /\ req[c].item = t /\ req[c].op # "lead"
                          /\ req[c].at \in {"written", "recorded"}

\* connect, at once or after the backoff.
Connect ==
    /\ loaded /\ ~stream.on
    /\ stream' = [on |-> TRUE, lastSeen |-> Cursor, seen |-> {}]
    /\ UNCHANGED <<kind, serverVars, req, loaded, shown, current, wire, faults>>
    /\ history' = [history EXCEPT !.missed = {},
          !.gap = Gap({t \in Wrong : ~Untold(t) /\ (Stamps = {} \/ \E s \in Stamps : Entry(t) < s)})]

Payload(t) == [item |-> t, stamp |-> Entry(t), v |-> row[t].v, at |-> row[t].at]

\* In the order of the stamps.
Sorted(S) == {q \in [1..Cardinality(S) -> S] : \A i, j \in DOMAIN q : i < j => Entry(q[i]) < Entry(q[j])}

\* One round of the generator: every entry is sent with the row as it is now.
\* Of seen_ids those below lastSeen no longer matter.
Poll ==
    /\ stream.on /\ Due # {} /\ Len(wire) < MaxWire
    /\ \E q \in Sorted(Due) :
          /\ wire' = wire \o [i \in DOMAIN q |-> Payload(q[i])]
          /\ stream' = [stream EXCEPT !.lastSeen = Entry(q[Len(q)]), !.seen = {Entry(q[Len(q)])}]
    /\ history' = [history EXCEPT !.missed = @ \ Due]
    /\ UNCHANGED <<kind, serverVars, req, loaded, shown, current, faults>>

Card(p) == [v |-> p.v, at |-> p.at]

\* Variant: the payload goes to the front whether the item is shown or not.
DeliverPrepends ==
    LET p == Head(wire)
        cards == shown[p.item]
    IN  /\ wire # <<>>
        /\ wire' = Tail(wire)
        /\ shown' = [shown EXCEPT ![p.item] = <<Card(p)>> \o cards]
        /\ UNCHANGED <<kind, serverVars, req, loaded, current, stream, faults>>
        /\ history' = [history EXCEPT !.gap = Gap({t \in {p.item} : ~Live(t) \/ Len(cards) > 1})]

\* The page takes a payload: the first card of the item is replaced (findIndex),
\* or a new one goes to the front.
Deliver ==
    LET p == Head(wire)
        cards == shown[p.item]
    IN  /\ wire # <<>>
        /\ wire' = Tail(wire)
        /\ shown' = [shown EXCEPT ![p.item] =
                        IF cards = <<>> THEN <<Card(p)>> ELSE [cards EXCEPT ![1] = Card(p)]]
        /\ UNCHANGED <<kind, serverVars, req, loaded, current, stream, faults>>
        /\ history' = [history EXCEPT !.gap = Gap({t \in {p.item} : ~Live(t) \/ Len(cards) > 1})]

\* The connection breaks, or the page is hidden: what was under way is gone.
Break ==
    /\ stream.on /\ faults < MaxFaults
    /\ stream' = Off /\ wire' = <<>> /\ faults' = faults + 1
    /\ UNCHANGED <<kind, serverVars, req, loaded, shown, current>>
    /\ history' = [history EXCEPT !.missed = {}]

-----------------------------------------------------------------------------
(* Writes, on the server. *)

\* A new item takes the next number.
Fits(op, t) ==
    IF op = "create" THEN /\ \A u \in Item : u >= t => row[u] = Unborn
                          /\ \A c \in Request : req[c].op = "create" /\ req[c].item >= t =>
                                                    req[c].at \in {"idle", "sent"}
                     ELSE Live(t)

Stamped(c, op, t) ==
    /\ Fits(op, t) /\ clock < MaxClock
    /\ clock' = clock + 1
    /\ req' = [req EXCEPT ![c].at = "stamped", ![c].op = op, ![c].item = t, ![c].v = clock + 1]
    /\ UNCHANGED <<kind, row, event, pageVars, faults, history>>

\* Others create, update, decide and reopen; a lead's update, and the reset of
\* a dependent, commit the row and the event together.
TheirOps == IF kind = "tasks" THEN {"create", "save", "lead"} ELSE {"create", "decide", "reopen"}
TheirWrite(c, t) == req[c].at = "idle" /\ \E op \in TheirOps : Stamped(c, op, t)

\* The page's request is accepted, and stamped; or refused.
Accept(c) == req[c].at = "sent" /\ req[c].op # "delete" /\ Stamped(c, req[c].op, req[c].item)
Refuse(c) ==
    /\ req[c].at = "sent"
    /\ req' = [req EXCEPT ![c].at = "refused"]
    /\ UNCHANGED <<kind, serverVars, pageVars, faults, history>>

\* The row as the request leaves it; a reopened approval keeps its stamp.
Written(c) == [v |-> req[c].v, at |-> IF req[c].op = "reopen" THEN row[req[c].item].at ELSE req[c].v]

\* An approval is its own entry.
Commit(c) ==
    LET t == req[c].item IN
    /\ req[c].at = "stamped" /\ req[c].op # "lead"
    /\ Live(t) \/ req[c].op = "create"
    /\ row' = [row EXCEPT ![t] = Written(c)]
    /\ req' = [req EXCEPT ![c].at = "written"]
    /\ UNCHANGED <<kind, clock, event, pageVars, faults>>
    /\ history' = [history EXCEPT !.gap = Gap({}),
          !.missed = @ \cup (IF kind = "tasks" THEN {} ELSE Passed(t, row'[t].at))]

\* The request is over, but for the answer to the page.
Done(c, answer) == IF c \in Mine THEN [req[c] EXCEPT !.at = "answered", !.answer = answer, !.v = 0, !.ev = 0]
                   ELSE Idle

\* The row is read again for the answer, and the event is stamped.
Record(c) ==
    LET t == req[c].item IN
    /\ req[c].at = (IF req[c].op = "lead" THEN "stamped" ELSE "written") /\ Live(t)
    /\ \/ /\ kind = "tasks" /\ clock < MaxClock
          /\ clock' = clock + 1
          /\ req' = [req EXCEPT ![c].at = "recorded", ![c].ev = clock', ![c].answer = row[t]]
       \/ /\ kind = "approvals"
          /\ req' = [req EXCEPT ![c] = Done(c, row[t])] /\ UNCHANGED clock
    /\ UNCHANGED <<kind, row, event, pageVars, faults, history>>

\* The event is committed, and a lead's row with it.
Tell(c) ==
    LET t == req[c].item IN
    /\ req[c].at = "recorded" /\ Live(t)
    /\ row' = IF req[c].op = "lead" THEN [row EXCEPT ![t] = Written(c)] ELSE row
    /\ event' = [event EXCEPT ![t] = IF @ < req[c].ev THEN req[c].ev ELSE @]
    /\ req' = [req EXCEPT ![c] = Done(c, req[c].answer)]
    /\ UNCHANGED <<kind, clock, pageVars, faults>>
    /\ history' = [history EXCEPT !.gap = Gap({}), !.missed = @ \cup Passed(t, req[c].ev)]

\* The item is deleted with its events; nobody is told.
Delete(t) ==
    /\ Live(t)
    /\ row' = [row EXCEPT ![t] = Gone]
    /\ event' = [event EXCEPT ![t] = 0]
    /\ UNCHANGED <<kind, clock, pageVars, faults>>

TheirDelete(c, t) == req[c].at = "idle" /\ Delete(t) /\ UNCHANGED req /\
    history' = [history EXCEPT !.gap = Gap({t})]

MyDelete(c) ==
    /\ req[c].at = "sent" /\ req[c].op = "delete" /\ Delete(req[c].item)
    /\ req' = [req EXCEPT ![c].at = "answered"]
    /\ history' = [history EXCEPT !.gap = Gap({})]

\* A request finds its item gone, or its process is cut off, perhaps between
\* the two commits.
Abort(c) ==
    LET t == req[c].item IN
    /\ req[c].at \in {"stamped", "written", "recorded"}
    /\ \/ ~Live(t) /\ req[c].op # "create" /\ UNCHANGED faults
       \/ faults < MaxFaults /\ faults' = faults + 1
    /\ req' = [req EXCEPT ![c] = IF c \in Mine THEN [@ EXCEPT !.at = "refused", !.v = 0, !.ev = 0] ELSE Idle]
    /\ UNCHANGED <<kind, serverVars, pageVars>>
    /\ history' = [history EXCEPT !.gap = Gap({x \in {t} : Untold(t)})]

-----------------------------------------------------------------------------
(* The page's own requests. *)

Sent(c, op, t) == [Idle EXCEPT !.at = "sent", !.op = op, !.item = t,
                               !.before = IF op = "move" THEN current ELSE NoCards]

\* handleCreateTask, handleTaskSave, handleDeleteTask, handleApprovalDecision.
MyOps == IF kind = "tasks" THEN {"create", "save", "delete"} ELSE {"decide"}
Send(c, t) ==
    /\ loaded /\ req[c].at = "idle" /\ asked < MaxAsked /\ asked' = asked + 1
    /\ \E op \in MyOps :
          /\ IF op = "create" THEN Fits(op, t) ELSE shown[t] # <<>>
          /\ req' = [req EXCEPT ![c] = Sent(c, op, t)]
    /\ UNCHANGED <<kind, serverVars, pageVars, faults, history>>

Moving(t) == \E c \in Mine : req[c].at # "idle" /\ req[c].op = "move" /\ req[c].item = t

Hoped(cards) == [i \in 1..Len(cards) |-> [cards[i] EXCEPT !.v = Hope]]

\* handleTaskMove shows the new status at once and keeps the list as last rendered.
Move(c, t) ==
    /\ kind = "tasks" /\ req[c].at = "idle" /\ current[t] # <<>>
    /\ asked < MaxAsked /\ asked' = asked + 1
    /\ req' = [req EXCEPT ![c] = Sent(c, "move", t)]
    /\ shown' = [shown EXCEPT ![t] = Hoped(@)]
    /\ UNCHANGED <<kind, serverVars, loaded, current, stream, wire, faults>>
    /\ history' = [history EXCEPT !.gap = Gap({x \in {t} : current[x] # shown[x]}),
                                  !.crossed = @ \/ current # shown \/ \E u \in Item : Moving(u)]

\* A created task goes to the front, a deleted one is filtered out, any other
\* has its cards replaced.
Applied(c) ==
    LET t == req[c].item
        a == req[c].answer
    IN  CASE req[c].op = "create" -> [shown EXCEPT ![t] = <<a>> \o @]
          [] req[c].op = "delete" -> [shown EXCEPT ![t] = <<>>]
          [] OTHER -> [shown EXCEPT ![t] = [i \in 1..Len(@) |-> a]]

\* The answer comes, late perhaps.
Answered(c) ==
    LET t == req[c].item IN
    /\ req[c].at = "answered"
    /\ shown' = Applied(c)
    /\ req' = [req EXCEPT ![c] = Idle]
    /\ UNCHANGED <<kind, serverVars, loaded, current, stream, wire, faults>>
    /\ history' = [history EXCEPT !.gap = Gap({x \in {t} : Right(t)}),
                                  !.mine = IF req[c].op = "create" THEN @ \cup {t} ELSE @]

\* Variant: a move that failed is reported and stays.
FailedKeeps(c) ==
    /\ \/ req[c].at = "refused" /\ UNCHANGED faults
       \/ req[c].at = "answered" /\ faults < MaxFaults /\ faults' = faults + 1
    /\ shown' = shown
    /\ req' = [req EXCEPT ![c] = Idle]
    /\ UNCHANGED <<kind, serverVars, loaded, current, stream, wire>>
    /\ history' = [history EXCEPT !.gap = Gap({})]

\* A refusal comes, or no answer at all; a move puts back the whole list as it
\* was before it, whatever has come in since.
Failed(c) ==
    LET t == req[c].item
        before == req[c].before
    IN  /\ \/ req[c].at = "refused" /\ UNCHANGED faults
           \/ req[c].at = "answered" /\ faults < MaxFaults /\ faults' = faults + 1
        /\ shown' = IF req[c].op = "move" THEN before ELSE shown
        /\ req' = [req EXCEPT ![c] = Idle]
        /\ UNCHANGED <<kind, serverVars, loaded, current, stream, wire>>
        /\ history' = [history EXCEPT !.gap = Gap(
              {x \in Item : /\ shown[x] # shown'[x]
                            /\ x = t => shown[x] # Hoped(before[x])}
              \cup {x \in {t} : req[c].op = "delete"})]

Serve(c) == Accept(c) \/ Refuse(c) \/ Commit(c) \/ Record(c) \/ Tell(c) \/ MyDelete(c)

Next ==
    \/ /\ UNCHANGED asked
       /\ \/ Load \/ Render \/ Connect \/ Poll \/ Deliver \/ Break
          \/ \E c \in Request : Serve(c) \/ Abort(c)
          \/ \E c \in Theirs, t \in Item : TheirWrite(c, t) \/ TheirDelete(c, t)
          \/ \E c \in Mine : Answered(c) \/ Failed(c)
    \/ \E c \in Mine, t \in Item : Send(c, t) \/ Move(c, t)

Spec == Init /\ [][Next]_vars

-----------------------------------------------------------------------------
(* Properties. *)

Row == [v : Nat, at : Nat]
Cards == Seq([v : Nat \cup {Hope}, at : Nat])
RequestRecord ==
    [at : {"idle", "sent", "stamped", "written", "recorded", "answered", "refused"},
     op : {"create", "save", "lead", "move", "delete", "decide", "reopen"},
     item : Item, v : Nat, ev : Nat, answer : Row, before : [Item -> Cards]]

TypeOK ==
    /\ kind \in Kinds /\ clock \in Nat /\ asked \in Nat /\ faults \in Nat
    /\ row \in [Item -> Row] /\ event \in [Item -> Nat]
    /\ req \in [Request -> RequestRecord]
    /\ loaded \in BOOLEAN /\ shown \in [Item -> Cards] /\ current \in [Item -> Cards]
    /\ DOMAIN stream = DOMAIN Off /\ stream.on \in BOOLEAN
    /\ wire \in Seq([item : Item, stamp : Nat, v : Nat, at : Nat])
    /\ history \in [gap : SUBSET Item, missed : SUBSET Item, mine : SUBSET Item, crossed : BOOLEAN]

\* While the stream is up, an item that is shown wrong (with another value than
\* its row has, though it was deleted, or not at all) is on its way to the page
\* or under a request still; or the reason is one of these: a rollback or a late
\* answer put an older card over it, a move kept cards that had changed since the
\* last render, the snapshot left it out, a card was restored or added for an item
\* that was deleted, a duplicate card is passed over, its entry was committed
\* behind the cursor, the process was cut off before the event, or the cursor
\* of a connection jumped over it.
WrongIsKnown ==
    stream.on => \A t \in Wrong :
        \/ t \in history.gap \cup history.missed
        \/ t \in Due
        \/ \E i \in 1..Len(wire) : wire[i].item = t
        \/ \E c \in Request : req[c].at # "idle" /\ req[c].item = t

Unconfirmed(cards) == \E i \in 1..Len(cards) : cards[i].v = Hope

\* A status that the server never had does not stay on the page, unless the
\* list one move puts back was taken while another was under way, or before the
\* page had rendered its latest change.
PhantomNeedsOverlap ==
    \A t \in Item : Unconfirmed(shown[t]) => Moving(t) \/ history.crossed

\* An item has two cards only if this page created it and the stream was faster
\* than the answer.
ShownOnce == \A t \in Item : Len(shown[t]) > 1 => t \in history.mine
=============================================================================
