# Verification of ecom-os

TLA+ models of the stateful core of this repository: the customer-service desk
and its flow engine, the refund lane, the approvals and the tasks of a board, the
board page that shows them, the lifecycle of the agents on a gateway, and the
task queue the workers run on. TLC checks the models on small instances; TLAPS
proves the most important invariants for every value of the constants.

`PROJECT.json` lists components, runs, mutants, the lines each definition
stands for, hazards, findings and theorems. In this file `app/` stands for
`src/backend/app/`.

Run a check with `tlc -config <run>.cfg <module>.tla`, a proof with
`tlapm <module>_proofs.tla`.

## 1. The system

A FastAPI backend (async SQLAlchemy on PostgreSQL), one uvicorn process whose
request handlers interleave at every `await`, a queue worker process on Redis,
a cron job and a webhook that trigger the customer-service loop, and external
services: the mail provider (Composio), Shopify, a language model, and the
OpenClaw gateway on which agents live.

Sessions are opened with `expire_on_commit=False` (`app/db/session.py`), at READ
COMMITTED, and no row has a version column. A handler therefore works on the
copy it loaded first; a flush writes those attributes whose value differs from
the copy, and the last writer of a column wins. Most of what is hard in this
code comes from there. `OrmRow.Flushed` states that rule once, and the modules
whose handlers load, wait and write use it or the same rule for a whole row.

| Component | State it keeps | Operations | What makes it correct | Module |
|---|---|---|---|---|
| Refund lane (`services/refunds.py`, `connectors/refunds.py`) | `refund_requests.status` | create, approve (two commits around a call to Shopify), reject | executed was paid; no payment without an approval of its own; settled is final | `RefundLane` |
| CS desk (`services/tickets.py`, `cs_loop.py`, `agent_runtime/*`) | tickets and their messages | sweep the inbox, thread replies, loop over actionable tickets | mail filed once; replies not overlooked; sticky escalation; no ticket closed unanswered | `CSDesk`, `TicketLanes` |
| Flow engine (`services/flow_engine.py`) | `flow_step`, `flow_data` of a ticket; a merchant's steps | start, resume, walk, save steps | refund requests and e-mails do not repeat; a refund ends with a rep; the walk ends | `FlowEngine` |
| Board approvals (`api/approvals.py`, `services/approval_task_links.py`) | approvals and their links to tasks | create, decide, reopen, tell the lead; delete a task | one pending approval per task; decisions told; no lock cycle | `Approvals`, `TaskApprovals` |
| Agent lifecycle (`services/openclaw/lifecycle_*.py`, `provisioning_db.py`, `core/agent_auth.py`) | the agent's row, the gateway's token file, reconcile tasks | provision and wake, check in, reconcile, update, template sync | token and hash together; wakes bounded; a silent agent is given up in the end | `AgentLifecycle` |
| Task queue (`services/queue.py`, `queue_worker.py`, `webhooks/queue.py`, `api/board_webhooks.py`) | a Redis list and a sorted set | ingest, enqueue, drain, pop, retry | nothing vanishes; runs bounded; dropped only after its retries | `TaskQueue`, `TaskFates` |
| Tasks, status gates, dependencies (`api/tasks.py`, `services/task_dependencies.py`) | tasks, dependency edges | move, assign, edit dependencies, reopen, reset dependents | gates hold at the commit; circles take overlapping edits; blocked work is reset but for named cases; the search for circles is exact | `TaskGates`, `DependencySearch` |
| Board page (`src/frontend/src/app/boards/[boardId]/page.tsx`, streams of `api/tasks.py` and `api/approvals.py`) | the list of tasks, the list of approvals, cursors of the streams | load, stream, create, save, move, delete, decide, roll back | what is shown wrong has a known reason; an invented status goes away; an item is shown once | `BoardPage` |

Interactions: the desk's `flow` runtime runs the flow engine on a ticket, and a
flow files requests into the refund lane. The agent lifecycle and the webhook
deliveries are task types of the queue. Approvals gate the status of tasks, and
deleting a task deletes or detaches approvals. `Approvals` and `TaskGates` meet
in `TaskApprovals`: which tasks have a pending and which an approved approval,
and the row lock of the task, under which one becomes pending. The first
implements it, the second takes its steps as its environment.
The agents decide through the approvals what they may do to tasks. The board
page changes tasks and approvals by requests and learns of others' changes by
event streams, one for each list.

The remaining components (boards, organizations, users, gateway RPC, memory,
onboarding, metrics, connectors, marketplace, tags, MCP server, migrations,
the other pages of the frontend, deployment) are listed in `PROJECT.json` with the reason they are not
modelled: they are CRUD in single transactions, reads, or I/O whose outcome is
an input of the models.

### Hard behaviour

* **Stale copies.** Handlers read, await an external call, and write:
  `refunds.py:80-106`, `cs_loop.py:84-89`, `lifecycle_reconcile.py:36-90`,
  `api/approvals.py:446-471`, `api/tasks.py:237-300`.
* **Overlap.** Cron and the realtime webhook both run the loop
  (`api/ecom_webhooks.py:62`); nothing excludes two runs.
* **Effects before commits.** E-mails and refunds leave before the commit that
  records them; a run that is cut off in between is repeated.
* **Locks.** `run_lifecycle` holds a row lock across a gateway call; approvals
  lock the rows of several tasks one after the other.
* **Two commits.** A task is reopened in one transaction and its dependents are
  reset in a second; a task's event is committed after the task.
* **Optimistic page.** A move shows its result at once and puts the whole list
  back when it fails; answers, stream and rollbacks write one list, and nothing
  compares their stamps.
* **Queue.** Draining is three Redis commands; a popped task is only in memory.
* **Retries.** Generations, deadlines and attempt counters decide whether a
  retried task still means anything.

`PROJECT.json`, "hazards", has each of them at its line with the properties
that watch it.

## 2. The modules

**OrmRow** is the rule of section 1 as one operator.

**RefundLane.** `status` is the column, `call` what each endpoint call stands
before with the copy of the status it loaded, `paid` what Shopify posted,
`approvals` a history of committed approvals. Approving is `BeginApprove` (load
and guard), `CommitApproval` (first commit), one of `ExecutorRefunds`,
`ExecutorRefuses`, `ExecutorAnswerLost`, and `RecordOutcome` (second commit).
Rejecting is `BeginReject`, `CommitReject`. `Restart` is the process dying:
calls vanish, the rows stay.

**CSDesk.** A worker is a call of `run_cs_loop` or of `POST /tickets/ingest`. It
lists the newest `ListLimit` messages (`Start`; 25 in the code, and nothing is
ever marked as read, so that a message leaves the listing when as many came after
it), and for each message looks it up (`LookUp`: candidate,
seen, open ticket), then appends it (`AppendReply`) or opens a ticket
(`CreateTicket`); then it selects the actionable tickets (`SelectActionable`)
and handles each (`Take`, `Claim` or `EscalateUnmatched`, `SendReply`,
`Finish`). `held` is each session's copy of each ticket's status: the identity
map refers to rows weakly, so a copy lives as long as the run keeps the object.
Messages carry the provider's id, by which `Seen` knows them.
`Runtime` selects the guard of each runtime. The steps of a flow are an outcome
chosen here; FlowEngine has them. `TicketLanes` says what the desk promises of a
ticket without runs or sessions; `KeepsLanes` is the refinement, with
`LaneOf` and `PlaceOf` as mapping.

**FlowEngine.** One ticket, one flow, and a run as a program counter over the
flow's steps: `Begin`, `Resume`, `SendAcceptance`, `Walk`, `Send`, `Complete`,
`Finish` (`_persist_and_finish`). `UpdateFlow` replaces the steps at any time; a
run keeps its own copy. `asked` is a history: the last e-mail, the steps it was
sent by, and whether the ticket was recorded to wait for its answer. `Abort` cuts a run off between an e-mail (which commits
by itself) and the commit that records the step. `MCFlowEngine` has the two
seeded flows and others a merchant can save.

**AgentLifecycle.** One agent. `row` is the committed row, `held` each session's
copy, `lock` the holder of the row lock, `gw` the token in the gateway's files,
`queue` the reconcile tasks. A run is `Lock`, `Deliver`, `Complete`, `Enqueue`;
a worker's `Take` decides as `process_lifecycle_queue_task` does (stale,
checked in, too early, exhausted, run again). `EditLoad`/`EditMint` are
`update_agent` before its run, `SyncLoad` the template sync, `Ask`, `Touch`,
`Heartbeat` the agent's requests; `GatewayError`, `Timeout`, `Crash` and
`DrainedTwice` are the failures. `crossed` is a history: a call took its token
while an update or a sync was handing over another, or a run failed. Time is
compared and never measured.

**TaskQueue.** `ready` is the list, `scheduled` and `due` the sorted set, in
which the order of the scores is left open: a reading takes any of the due
members, as many as a batch may have. A worker's round is `ReadDue`, `Push`, `Unschedule`, `Pop`, then `Succeed` or
`Fail`; `Cut` ends it between any two commands. `Persist`, `Enqueue` and
`IngestCut` are the webhook ingest. `TaskFates` says what those who file and
handle tasks may rely on, without list, schedule and workers: a task is open
until its fate is known, its attempts are made one after the other, and each of
its fates has a reason. `KeepsFates` is the refinement.

**Approvals.** `status` and `tasks` of each approval (its links, or its
`task_id` where it has none), `live` tasks, `lock` of each task's row, `call`
what each endpoint call stands before with its copy. Creating is `AskCreate`,
`Lock`, `Check`, `Insert`; deciding and reopening `AskUpdate`, `Lock`, `Check`
(a reopening only), `Write`, `Refresh`, `Tell`. `DeleteTask` is
`delete_task_and_related_records`. `Miss` is a statement that finds its row
deleted, `Abort` a failure; both roll back. `TaskApprovals` says what approvals
are to tasks, without rows, copies and calls: the two sets of tasks that have a
pending, an approved approval, and how filing, approving, rejecting and deleting
may change them; `KeepsTasks` is the refinement.

**TaskGates.** `status` and `assignee` of each task, `deps` the edges of the
dependency graph, `lock` the row locks, `call` what each call of `update_task`
stands before, with its copy of the task and what it decided. A request may name a
status and an assignee; what comes to review goes to the lead, or stays with
nobody where the board has none (`Holders`). A call is `Ask`
(load), `Rules` (those of a user, a worker or the lead, with `DepsAllowed` for
edits of dependencies), `Flush`, `Gates`, `Commit`, and for users and workers
`Refresh`, `Toggle` and `Reset`, the second transaction that sends dependents
of a reopened task back to the inbox; `Refuse` and `Abort` roll back. `Flush` is
a step because the first query of a gate makes SQLAlchemy send the UPDATE, which
takes the row lock that approvals need: that is what keeps an approval from
being filed between gate and commit, and the mutant `FlushLate` shows it.
`ApprovalStep` is any of the steps `File`, `Approve` and `Reject` of
`TaskApprovals`, where the rows that calls on approvals may hold are those no
call of `update_task` holds. `DependencySearch` is the depth-first search of
`_has_cycle`, with its visited set and its stack, as a recursive function over
the states of its loops. `MCTaskGates` has the requests and the scenarios.

**BoardPage.** One list of the page, of tasks or of approvals (`kind`), and the
rows behind it. `shown` has the cards of each item, `current` those of the last
render, which is what handlers and streams read (`tasksRef`), `stream` the
server's end of the event stream (its cursor and `seen_ids`), `wire` what is under
way, `req` the requests of this page and of others. `Load` takes the snapshot,
which lists no more than `MaxListed` approvals, while others write; `Render`
brings `current` up to date. `Connect`, `Poll`, `Deliver` and `Break` are the
stream; a write is `Stamped`, `Commit`, `Record`, `Tell` on the server. Nothing
orders the stamps of one row by its commits: a PATCH without a new status returns
from every gate before a query (`api/tasks.py:228`, `252`, `285`) and is stamped
(`2688`) before anything is flushed or locked, and a dependent that is reset is
stamped likewise (`505`). So a row with an older stamp may be committed over one
with a newer stamp, and events may be committed out of order too. `Send`, `Move`,
`Answered` and `Failed` are the handlers of the page. `history` names why an item
may be shown wrong for good.

**`*_proofs`** extend a module with the theorems of section 4. Definitions
called "Variant" are deviations a plausible bug would make; a mutant run puts
one in the place of the definition behind it, and the property must then fail.

## 3. The runs

| Run | Module | Instance | States | Shows |
|---|---|---|---|---|
| `RefundConcurrent` | RefundLane | 1 request, 3 calls, 3 approvals, 1 restart | 116 000 | `ExecutedWasPaid`, `PaidWithinApprovals`, `SettledIsFinal`, `ApprovedGetsOutcome` |
| `CSOneLoop` | MCCSDesk | flow runtime, 1 loop, listings of 2, 3 messages of 3 kinds, or 2 and 1 abort | 81 000 | `FiledOnce`, `NoReplyOverlooked`, `StickyEscalation`, `NoMailOverRep`, `KeepsLanes`, `MailGetsFiled`, `TicketsGetHandled` |
| `CSOverlap` | MCCSDesk | tool-use runtime, 2 overlapping calls, 1 message, 1 abort | 142 000 | `ResolvedWasAnswered`, `FiledOncePerWorker`, `StickyOnceQuiet` |
| `CSStickyOverlap` | MCCSDesk | 2 overlapping loops, 1 message | | violates `StickyEscalation` |
| `FlowForward` | MCFlowEngine | 7 flows, 3 replies, 2 saves, 1 abort | 325 000 | `RefundsWithinAborts`, `RefundIsHandedOver`, `RefundOnlyAfterBothOffers`, `EmailsWithinAborts`, `AnswersWhatWasAsked`, `WalkEnds` |
| `AgentRetries` | AgentLifecycle | 1 flaky mortal worker, 1 update or sync, 2 requests, limit 2, 5 wakes | 1 200 000 | `WakesBounded`, `TokenSplitNeedsCrossing` |
| `AgentConverges` | AgentLifecycle | 2 workers, 1 editor, limit 2, 7 wakes, 1 task drained twice | 76 000 | `Converges`, `TokenHeals` |
| `AgentRetryIsObsolete` | AgentLifecycle | 1 worker, 1 gateway error | | violates `Converges` |
| `QueueWorkers` | TaskQueue | 3 tasks (one without handler), 2 workers, 1 retry, 1 fault | 109 000 | `Accounted`, `RunsBounded`, `KeepsFates`, `Settles` |
| `ApprovalsOverlap` | MCApprovals | 2 approvals, 2 tasks, 2 calls, of which 1 may reject 1 approval | 177 000 | `OnePendingPerTask`, `DecisionsAreTold`, `CallsEnd`, `KeepsTasks` |
| `TaskGatesOverlap` | MCTaskGates | all rules on; 2 tasks, 2 calls, approvals of 1 task, or 3 tasks in a row, 3 calls, 2 at a time | 808 000 | `PendingHoldsStatus`, `DoneWasJustified`, `BlockedWorkIsKnown`, `CircleNeedsOverlap`, `SearchIsExact` |
| `BoardPageLive` | MCBoardPage | 2 items, tasks and approvals, of which a snapshot lists 1, 2 own requests, 1 of others, 5 stamps, 1 fault | 2 600 000 | `WrongIsKnown`, `PhantomNeedsOverlap`, `ShownOnce` |

Every module with state of its own has a type invariant. It is proved in section
4, so the runs do not repeat it.

**Why the bounds are enough.** The hazards are races of two handlers about one
row, and failures between two steps of one of them. Two actors (three for
refunds, where two approvals and a rejection meet), one or two rows, and one
failure reach them; two approvals about two tasks are the least instance in
which calls can conflict about one task, share another and lock in two orders.
One message more than the tickets that wait lets a reply, a follow-up and mail
of an automated sender meet in the desk. A retry limit of 1 or 2 gives a first
attempt, a retry and the step over the limit. Listings of 2 with 3 messages let
one of them leave the listing before it is filed. `MaxWakes` lies beyond what the
limit admits, so that the bound cannot be what stops the wakes; the same holds
of `MaxApprovals`, and of `MaxMailed` against the e-mails of a step. Two tasks
and two overlapping edits are the least that closes a circle, and the initial
states have every status and older dependency that a call could have left. Three
tasks in a row are the least in which a reset reopens a task that others wait
for: `MCTaskGates` has both scenarios in one instance, and asks nothing of the
third task in the first one.
`SearchIsExact` also looks at every graph of three nodes, where a search can
meet a node again without a circle; `HasCycleIsExact` is about every finite one.
On the page two moves and one other writer
let a rollback, a late answer and the stream meet on one card, and a second item
stands beside it that the rollback must not touch; one reading of the stream under
way at a time is enough, because payloads are applied in order, and the five
stamps, two of which are the items' own, serve a write with its event and
another that is committed between or behind them, also with an older stamp. In a
flow, two saves let the steps be replaced and put back under a waiting ticket. Where
liveness made an instance too large, `MCCSDesk` and `MCApprovals` bound it: no
run is cut off where a third message is written (`CutEarly`), and one call may reject one of
the approvals, since a rejection locks and reads what an approval does; the
invariants of both runs are proved without these bounds. Each mutant fails under
the same bounds, so the cases happen.

**Fairness.** Only what the code's scheduling gives: a handler that has begun
is carried on by the event loop; external calls have timeouts; workers loop for
ever; time passes; cron starts the loop again and again. Users, customers and
agents need not act, and nothing fair is asked of failures. Calls of Approvals
have strong fairness, because PostgreSQL serves waiters of a row lock in turn.
`Converges` and `TokenHeals` are checked where no gateway call fails and no
process dies, and without template syncs; section 5 says what happens otherwise.

**Deadlock** is checked except where the system really comes to rest: an agent
that has checked in or is offline, a ticket that no reply reopens, approvals
whose ids are used up, updates of tasks and requests of the page that are spent.

## 4. What is proved

All theorems hold for every value of the constants; the assumptions in the
modules say that bounds are numbers, that sentinels are no elements, that a
board has finitely many tasks, and that tasks and the items of the page are
numbered as they come. Every safety and action property a run checks is stated
by one of them, under the assumptions the table names.

| Theorem | States | Argument |
|---|---|---|
| `RefundLane_proofs!ExecutedMeansPaid` | `ExecutedWasPaid` | a call that will record "executed" has seen Shopify post; nothing takes a payment back |
| `RefundLane_proofs!PaymentsCoveredByApprovals` | `PaidWithinApprovals` | strengthened: payments plus calls in `execute` are at most the approvals, by cardinality of the set of those calls |
| `RefundLane_proofs!SettledForGood` | `SettledIsFinal` | action property, by cases on `Next` |
| `CSDesk_proofs!StickyWhenQuiet` | `StickyOnceQuiet` | invariant `IInv`: a worker that works on a ticket holds a copy that is not frozen; so with no older copy about nobody is at work on an escalated ticket |
| `CSDesk_proofs!StickyForOneWorker`, `NoMailForOneWorker` | `StickyEscalation`, `NoMailOverRep` | assume one worker: then an escalated ticket is always quiet |
| `CSDesk_proofs!ClosedWasAnswered` | `ResolvedWasAnswered` | assumes a runtime other than `flow`, and a count of e-mails that is not capped at 0: who will close a ticket has sent its reply |
| `CSDesk_proofs!FiledOnceByEach` | `FiledOncePerWorker` | assumes finitely many workers; see below |
| `CSDesk_proofs!FiledOnceForOneWorker` | `FiledOnce` | assumes one worker; from `FiledOnceByEach` |
| `CSDesk_proofs!RepliesReadForOneWorker` | `NoReplyOverlooked` | assumes one worker: an open reply is on a ticket that is actionable, or of which the worker has no older copy |
| `CSDesk_proofs!DeskKeepsLanes` | `KeepsLanes` | refinement, assumes one worker; see below |
| `FlowEngine_proofs!RefundRequestsBounded` | `RefundsWithinAborts` | invariant `IInv`: a request was either cut off, or its run is on its way to escalation, or the ticket is frozen |
| `FlowEngine_proofs!RefundReachesRep` | `RefundIsHandedOver` | the same invariant |
| `FlowEngine_proofs!RepliesAnswerTheQuestion` | `AnswersWhatWasAsked` | for all edits and cuts; `Answering`: what a ticket is recorded to wait for is the step that was mailed last, and a run that resumes under the same steps stands at it |
| `FlowEngine_proofs!EmailsBounded` | `EmailsWithinAborts` | for all edits and cuts; assumes that gotos lead forward and that ids are unique in a flow: what a run has before it was mailed no more often than runs were cut and steps saved (`Frugal`), and a run that starts anew does so after a save |
| `FlowEngine_proofs!RefundIsLastResort` | `RefundOnlyAfterBothOffers` | for the seeded refund flow, assumes that e-mails are counted (`MaxMailed # 0`): who stands at an offer or beyond it has passed the ones before it |
| `AgentLifecycle_proofs!TokensStayInSync` | `TokenSplitNeedsCrossing` | for any updates, syncs and failures; the holder of the lock has the row's and the gateway's token in hand, and as long as no call crossed another, so has the one update or sync that waits for it |
| `AgentLifecycle_proofs!WakesStayBounded` | `WakesBounded` | assumes one worker, and failures in it only; counts the wakes in the committed row, the runs under way, and the tasks that are not stale |
| `Approvals_proofs!OnePendingForEachTask` | `OnePendingPerTask` | see below |
| `Approvals_proofs!DecisionsToldInFlight` | `DecisionsAreTold` | a decision that was committed and not told is the one some call will find in its refreshed copy |
| `TaskQueue_proofs!QueuedAreAccounted` | `Accounted` | see below |
| `Approvals_proofs!ApprovalsKeepTasks` | `KeepsTasks` | refinement; see below |
| `TaskQueue_proofs!GivenUpAfterRetries` | a task with a handler is given up only after every attempt (`DroppedAfterRetries`, which no run repeats, as `KeepsFates` implies it) | `AttemptsMade`: whoever is at a later attempt, in list, schedule, batch or hand, has made the earlier ones |
| `TaskQueue_proofs!RunsStayBounded` | `RunsBounded` | assumes finitely many workers; see below |
| `TaskQueue_proofs!QueueKeepsFates` | `KeepsFates` | refinement; see below |
| `TaskGates_proofs!PendingHolds` | `PendingHoldsStatus` | see below; action property |
| `TaskGates_proofs!DoneIsJustified` | `DoneWasJustified` | what is approved or in review is in the history; a call about to commit "done" has found it so by its copy or at its gate |
| `TaskGates_proofs!BlockedWorkIsExplained` | `BlockedWorkIsKnown` | see below |
| `TaskGates_proofs!HasCycleIsExact` | the search answers "circle" exactly where the graph has one | for every finite graph; see below |
| `TaskGates_proofs!SearchFindsCircles` | `SearchIsExact` | from `HasCycleIsExact` |
| `TaskGates_proofs!CirclesNeedOverlap` | `CircleNeedsOverlap` | from `HasCycleIsExact`: without an overlap, the graph a call has checked is the one it commits |
| `BoardPage_proofs!PhantomsNeedOverlap` | `PhantomNeedsOverlap` | `KeptIsKnown`: the list a move keeps for its rollback has an unconfirmed card only if two moves were under way or the last change was not rendered, and a duplicate only of an item this page created |
| `BoardPage_proofs!ShownOnceUnlessCreatedHere` | `ShownOnce` | the same invariant |
| `BoardPage_proofs!WrongIsExplained` | `WrongIsKnown` | see below |
| `TypeCorrect` (each module) | `TypeOK` | inductive, with what each step's record needs |

`OnePendingPerTask` is not inductive: nothing in it keeps a call from writing
"pending" over what another call has just filed. `IInv` of `Approvals_proofs`
adds (1) `HoldsLocks`: from its check to its commit a call that will make an
approval pending holds the locks of its tasks that still exist; (2)
`StaysClear`: what it found in the check stays true; (3) `KnowsTasks`: an
approval has no more tasks than when the call loaded it. (2) survives another
call's commit because that call would have to hold the same lock, or because it
writes "pending" over a status that was pending in its copy, which writes
nothing (`Flushed`). Deleting a task only takes approvals and links away and
waits for its lock. The mutant `WriteAlways` shows that the last point matters:
if the status were written whatever the copy says, the property would fail.

`Accounted` is not inductive: a worker that stands before `zrem` may remove a
member another worker has just scheduled again. `IInv` of `TaskQueue_proofs`
adds `PushedFirst`: of what a worker is about to remove, the task has been
pushed with at least these attempts, or is in a hand with them, or waits for a
later attempt, or is done with. The case "waits for a later attempt" could lead
in a circle when that later member is removed as well; the proof takes the
member of the task with the greatest attempts (`GreatestAttempt`, from the
well-founded order of the naturals), for which only the other cases are left.
Attempts grow with every round through the schedule (`Onward`), so a retry never
looks like the member being removed.

`PendingHoldsStatus` rests on `HoldsRow` (from the flush of its UPDATE to its
commit a call holds its task's row) and `StaysClear` (so what the pending gate
found stays true, since filing an approval needs that row); `UnaskedIsInbox`
says that a status nobody asked for is the inbox. The theorem holds for any
requests and any rules of the board.

What those proofs assume of approvals, `ApprovalsKeepTasks` proves of them: each
step of `Approvals` is a step of `TaskApprovals` or changes nothing that tasks
can see. In one module `held` is the rows a call on approvals has locked, in the
other those no call of `update_task` has, so that the lock is all they share.
`OneRow` says what the sets of tasks with a pending, an approved approval become
when one row changes; that nobody else's approval of a task is pending comes
from `OnePendingPerTask`, and that the lock is held, from `HoldsLocks`. The
attempt to prove it showed that `TaskGates` had been too narrow in what it let
approvals do: one is also filed as approved (`api/approvals.py:410`), approved
after it was rejected, reopened after it was decided (`api/approvals.py:446-470`),
and about several tasks at once. `TaskGates` now takes its steps from
`TaskApprovals`, and its theorems hold with them.

`RunsBounded` is not inductive, since it says nothing of the pushes that are
still to come. `RInv` counts them. What has been pushed of an attempt (`Pushed`:
handled, or in the list) and who may push it once more (`Pushers`: workers that
have read it, or can read it) is its `Demand`; when the attempt before it ends,
every worker may push it, so an attempt that is in hand has that demand reserved
(`RetryIsPaid`). A worker that pushes turns a pusher into an entry; one that
unschedules takes the entry away from all who have not read it; one that is cut
off may read again, which the failure pays for. The lemmas `Positions...` say
how often an entry is in a list after a push or a pop; `Budget` is the
arithmetic of the three ways in which a step changes both sides. The bound is
stated against the handling of the attempt before, not as a power of the number
of workers: that form is sharper, and it needs no induction over attempts.

`QueueKeepsFates` maps a step of a worker to a step of `TaskFates` or a stutter:
`Pop` of a task with a handler is `Try`, of one without is `GiveUp`, and drains
are invisible. A task is open if it is somewhere and has no fate, which changes
with every move of an entry; `OpenIsQueued` says that it is open exactly if it
was queued and has no fate, of which nothing but `Enqueue` and the three fates
change anything. One half of it is `Accounted`; the other is `OnlyQueued`, that
nothing is in Redis or in hand that nobody queued. The grounds of each fate come
from `AttemptsMade`. `Try` is also taken of a task that is settled, since
overlapping drains repeat a retry: `TaskFates` admits it, because the code does.

`BlockedWorkIsKnown` needs to know why a call that is about to commit does not
put blocked work to work: either it decided by the dependencies as they are, or
`history.overtaken` has it. `JInv` says that of a call that has decided, `WInv`
of one that will reset dependents. The attempt to prove this found a case which
neither the property nor its run had: a reset may reopen a dependent that was
done meanwhile, and the dependents of that one are not read
(`api/tasks.py:456-501`). It takes three tasks in a chain, and the run had two.
`Reset` now records it, the property names it, and `TaskGatesOverlap` has the
three tasks.

`HasCycleIsExact` is about a recursive function, and needs no induction: the
argument takes the least query (the nodes to come, visited and on the stack)
for which a claim fails, by `Size`, which counts the nodes that are not visited
first and those to come second; each query the loop asks on the way is smaller
(`GoingOnIsSmaller`). Three claims are shown so. A function that does what the
definition says exists, and it never forgets a visited node (`SearchAnswers`;
`DfsIsLocal` and `LoopIsLocal` say that an answer rests on smaller queries
alone). What is found is a circle (`FoundIsCircle`), since all on the stack lead
to what is to come (`Stacked`). Where nothing is found, all that was looked at
lies in a set that is closed under edges and has no circle (`NotFoundIsDone`;
`LeavingIsClosed` adds a node that leads into the set only). This removed from
`CirclesNeedOverlap` the assumption that the search overlooks no circle.

`CirclesNeedOverlap` also has to know that tasks start without a circle. A
dependency is older than its task, so a circle would have no least member
(`WFMin`, from the well-founded order of the naturals).

`FiledOncePerWorker` counts the filings of a message and the workers that stand
before filing it: together they are never more than the workers. Who looks the
message up goes on to file it only where it is filed nowhere, so that all that
counts then are workers; and filing turns one of them into a filing.

`DeskKeepsLanes` maps each step of the desk to a step of `TicketLanes` or a
stutter, from the invariants of one worker: its copies are current, what it
will file is filed nowhere, and what it handles was taken from the actionable
tickets. With two workers the refinement fails, as `CSStickyOverlap` shows.

`WrongIsKnown` says nothing of what is under way to the page, nor of stamps that
come in another order than commits. `WInv` of `BoardPage_proofs` says of each
item that what is under way for a live one ends with its row, unless its event
is still to come or the gap is known (`Coming`); that a live one with nothing
under way is right, unless a rollback will make it so (`Settled`); and that the
cards of a deleted one are known to stay, or about to be deleted (`Buried`).
They rest on grounds of their own. Since no lock orders the stamps, a card may be
newer than its row, and the proof never compares the two; it uses that each write
of a task has a stamp of its own and that nobody has seen it before its commit
(`Unique`, `Carried`, `Moved`), that the stamp of an event to come is new
(`Fresh`), that nothing the page knows carries a stamp of the future (`Dated`), and
that the cursor lies in the past and `seen_ids` can be told by it (`StreamOK`). So
a payload that differs from the row was read before a write whose event is still to
come, or has been; and that event is read from the log with whatever the row is by
then. Approvals have none of this but the stamps, and need none: they have no
moves, and their row is their entry. A payload that is still to come explains
nothing of a card the page writes in the meantime, so each answer and each
rollback is shown to bring the row as it is, or a row that a later payload or event
corrects, or to be put down in `history`. Most steps touch one item; `Undisturbed`
says what the others need. An earlier version assumed that the row is locked from
the stamp to the commit; the code does not lock it, and the proof does without.

Only model-checked is liveness: `ApprovedGetsOutcome`, `MailGetsFiled`,
`TicketsGetHandled`, `WalkEnds`, `Converges`, `TokenHeals`, `Settles` and
`CallsEnd`, since fairness and ENABLED are beyond the prover.

The prover has no induction over data. Where an argument needs one over
numbers, or over the calls of a recursive function, the proofs take a least or
greatest element instead.

## 5. Where code and documents disagree

Checked as violation runs, with traces:

* `CSStickyOverlap`: two overlapping runs of the tool-use runtime; one
  escalates, the other resolves the ticket from its older copy and mails the
  customer (`agent_runtime/llm.py:337`), though "once `status == needs_rep`, the
  CS loop never re-triggers autonomous handling" (`models/tickets.py:3-4`).
* `AgentRetryIsObsolete`: a gateway error commits the new generation
  (`lifecycle_orchestrator.py:126`), so the retried task is dropped as stale and
  the agent is neither woken again nor set offline.

Seen while modelling; the models have this behaviour, and properties are
stated so that they do not hide it:

* `reject_refund` takes a request in any status (`refunds.py:63`): one that was
  executed can be recorded as rejected.
* An answer to an e-mail about a rep's ticket has a new conversation id; the
  fallback looks for `awaiting_customer` only (`tickets.py:162`), so it opens a
  ticket of its own, which the loop handles.
* A sweep lists the newest 25 messages and marks none of them as read
  (`tickets.py:209-216`), so that mail beyond them is never filed, and no later
  sweep comes back to it. `MailGetsFiled` says so: a message is filed, or as many
  came after it as a listing has.
* A message without an id is never seen (`tickets.py:57`) and would be filed on
  every sweep. The mail provider gives each an id; the model has no others.
* Two overlapping sweeps can file one message twice: `FiledOnce` is checked for
  one loop, `FiledOncePerWorker` says what is left of it when they overlap.
* A flow whose messages' gotos lead back to each other mails without end
  (`flow_engine.py:152`). `WalkEnds` is checked for gotos that lead forward.
* `_inbound_body` reads the last reply only: an escalation keyword in an earlier
  one of the same turn is not seen (`flow_engine.py:476`).
* A template sync while an agent is awaited ends the watch over it
  (`lifecycle_orchestrator.py:96`); giving up writes without the lock
  (`lifecycle_reconcile.py:83`); a check-in that overlaps a wake leaves its
  counter and deadline (`provisioning_db.py:1439`).
* `update_agent` commits a token hash before it waits for the lock
  (`provisioning_db.py:1635`); a reconciliation in between leaves the agent with
  a token that is not the stored one, until a reconciliation heals it
  (`TokenHeals`). So does a sync that read the token before a reconciliation
  handed over another. `TokenSplitNeedsCrossing` names these crossings, and
  failed runs, as the only causes.
* A worker that dies between the gateway call and the commit leaves the gateway
  with a token the database never stored (`lifecycle_orchestrator.py:155`);
  `AgentRetries` has this crash.
* `run_lifecycle` ignores whether its reconcile task was enqueued
  (`lifecycle_orchestrator.py:158`): with Redis unreachable the agent is woken
  and not watched. AgentLifecycle's enqueue succeeds unless the process dies.
* `enqueue_webhook_delivery` ignores the result of `enqueue_task`
  (`webhooks/queue.py:76`), so the ingest call never takes its fallback: with
  Redis unreachable a stored delivery is neither queued nor told to the lead.
* Two overlapping decisions on one approval are both told, and the lead's last
  message may be the older one (`api/approvals.py:471`).

In the tasks of a board:

* "Prevent status transitions while any linked approval is in pending state"
  (`boards/[boardId]/edit/page.tsx`) holds for what is asked for. A task with a
  pending approval still goes back to the inbox when a dependency is reopened
  (`api/tasks.py:501`) or a user gives it one, since no gate is asked there.
* Blocked work stays at work when the lead adds a dependency to it, when a call
  decided before the dependency was reopened or another call overtook it, when
  the dependency was reopened from a copy that did not say done (two users at
  once) or by a reset that reached it after it was done, or when the process dies
  between the two commits. `BlockedWorkIsKnown` lists exactly these.
* The cycle check reads the graph without a lock (`task_dependencies.py:187`):
  two edits at once can close a circle, whose tasks can never be done.
* An approval withdrawn between gate and commit does not stop the task from
  being done: deciding takes no lock (`api/approvals.py:446`). `DoneWasJustified`
  says "was approved".

On the board page:

* A move that fails puts back the whole list as it was (`page.tsx:2861`): what
  was streamed, saved, created or deleted meanwhile is undone, and after two
  moves at once a status may stay that the server never had.
* A move keeps the list as last rendered (`page.tsx:2806`, `1313`), so that its
  rollback may also undo what was shown since.
* The snapshot lists 200 approvals (`board_snapshot.py:143`); older ones are not
  on the page until they change.
* Two PATCHes of one task stamp it before they lock it (`api/tasks.py:2688`): the
  older stamp may be committed last, and the card then carries it.
* An answer is applied when it comes, over a newer card the stream has brought
  (`page.tsx:2855`); a created task that the stream brought first is shown twice
  (`page.tsx:2027`), and later payloads replace the first card only.
* Events and approvals are stamped before they are committed; one committed
  behind the cursor of a stream is never sent (`api/tasks.py:1429`), and a page
  that reconnects takes its cursor from the newest card, past events it missed.
* Deletions are not told to other pages. A reopened approval keeps its stamps,
  so a page that connects later than its decision does not hear of it.

## 6. Not modelled, and the plan

Left out on purpose: wording of mail and messages, amounts, order data and
discount codes, audits and evidence, listings; migrations from older schemas;
locks that single statements take for themselves (foreign keys, UPDATE), where
PostgreSQL ends one call of a circle, except where `TaskGates` and `BoardPage`
depend on them; `rotate_tokens` of the template sync; creation and deletion of
agents. In `TaskGates`: the comment a review may require, tags, custom fields,
notifications, and deletion, which is in `Approvals`. In `BoardPage`: the detail
panel with comments, chat, agents and live feed, the length of the backoff, and
that a cursor loses what is below a millisecond on its way through the browser,
so that an event of the same millisecond may be sent again.

Most of the TypeScript of this repository is outside what a model can say
anything about. Of its 72 000 lines 33 000 are the API client generated from the
OpenAPI schema, and most of the rest is forms, tables, dialogs and layout over
one request each. What has state that several actors write is the board page,
and its two lists are modelled; the pages of agents and board groups keep
streams of the same form. The state this system must keep right is in the Python
backend, and that is where the models are.

`PROJECT.json` names the reason for each component that is not modelled. What a
later version could add:

1. `CSDesk` composed with `RefundLane` through a flow's refund request, and
   `BoardPage` with `TaskGates` through the moves of a card, as `Approvals` and
   `TaskGates` are through `TaskApprovals`.
2. Agent creation and deletion in `AgentLifecycle`; onboarding sessions;
   acceptance of invites.
