--------------------------- MODULE AgentLifecycle ---------------------------
(***************************************************************************)
(* The lifecycle of one agent on its gateway: the row in agents, runs of   *)
(* the lifecycle that provision and wake it, its check-ins, and the        *)
(* reconcile tasks that wake it again when it stays silent.                *)
(*                                                                         *)
(* Source: services/openclaw/lifecycle_orchestrator.py, _reconcile.py,     *)
(* _queue.py, db_agent_state.py, update_agent, template sync and           *)
(* commit_heartbeat in provisioning_db.py, core/agent_auth.py.             *)
(*                                                                         *)
(* A run holds the row lock (SELECT ... FOR UPDATE) across the call to the *)
(* gateway; every other writer of the row waits for it.  The lock does not *)
(* refresh the copy a session has already loaded (OrmRow).                 *)
(*                                                                         *)
(* Times are compared, never measured: `clock` counts the wakes, a         *)
(* timestamp is its value, and the deadlines of the wakes up to `past` are *)
(* over.  Texts, files and sessions on the gateway are left out, its token *)
(* file is kept.                                                           *)
(***************************************************************************)
EXTENDS Naturals, FiniteSets, OrmRow

CONSTANTS
    Editor,     \* concurrent calls of update_agent
    Syncer,     \* concurrent template syncs (without rotate_tokens)
    Worker,     \* queue workers
    Beat,       \* concurrent requests of the agent: heartbeats and polls
    Flaky,      \* the processes whose gateway calls may fail or time out
    Mortal,     \* the processes that may die
    NoOne,      \* nobody holds the row lock
    MAX_WAKE_ATTEMPTS_WITHOUT_CHECKIN,
    MaxRetries, \* rq_dispatch_max_retries
    MaxWakes,   \* bound: wakes
    MaxEdits,   \* bound: updates and syncs
    MaxBeats,   \* bound: requests of the agent
    MaxFaults   \* bound: gateway errors, timeouts, crashes, tasks drained twice

Process == Editor \cup Syncer \cup Worker
Session == Process \cup Beat

ASSUME SessionsAssumption ==
    /\ Editor \cap (Syncer \cup Worker \cup Beat) = {} /\ Syncer \cap (Worker \cup Beat) = {}
    /\ Worker \cap Beat = {} /\ NoOne \notin Session
    /\ Flaky \subseteq Process /\ Mortal \subseteq Process
ASSUME BoundsAssumption ==
    /\ MAX_WAKE_ATTEMPTS_WITHOUT_CHECKIN \in Nat \ {0} /\ MaxRetries \in Nat /\ MaxWakes \in Nat
    /\ MaxEdits \in Nat /\ MaxBeats \in Nat /\ MaxFaults \in Nat

Status == {"updating", "online", "offline"}
Step == {"idle", "mint", "lock", "call", "delivered", "enqueue", "giveup", "touch", "heartbeat"}
None == 0

\* The columns of agents that lifecycle code reads and writes.
Row == [status : Status, gen : Nat, wakes : Nat, seen : Nat, wakeAt : Nat, deadline : Nat,
        token : Nat]
Task == [gen : Nat, stamp : Nat, due : Nat, attempts : Nat,
         copy : {0, 1}]

VARIABLES
    row,        \* the committed row
    held,       \* the copy of each session; of the lock holder, the row in its transaction
    at,         \* what a session stands before
    tok,        \* the token a run hands to the gateway
    asked,      \* when a request of the agent arrived
    task,       \* the task a worker has in hand
    lock,       \* the holder of the row lock
    queue,      \* lifecycle tasks in Redis, ready or scheduled
    gw,         \* the token in the gateway's files
    minted,     \* tokens minted so far
    clock, past,
    edits, beats, faults,
    retries,    \* history: wakes by reconciliation since the last check-in or update
    crossed     \* history: a run failed, or another took its token while one was handed over

timeVars == <<clock, past>>
runVars == <<tok, task, lock>>
countVars == <<edits, beats, faults>>
historyVars == <<retries, crossed>>
vars == <<row, held, at, tok, asked, task, lock, queue, gw, minted, clock, past, edits, beats,
          faults, retries, crossed>>

\* The agent has been provisioned, and has not checked in yet.
FirstRow == [status |-> "online", gen |-> 1, wakes |-> 1, seen |-> None, wakeAt |-> 1,
             deadline |-> 1, token |-> 1]
FirstTask == [gen |-> 1, stamp |-> 1, due |-> 1, attempts |-> 0, copy |-> 0]

Init ==
    /\ row = FirstRow /\ held = [s \in Session |-> FirstRow]
    /\ at = [s \in Session |-> "idle"]
    /\ tok = [p \in Process |-> 1] /\ asked = [b \in Beat |-> 1]
    /\ task = [w \in Worker |-> FirstTask]
    /\ lock = NoOne /\ queue = {FirstTask}
    /\ gw = 1 /\ minted = 1 /\ clock = 1 /\ past = 0
    /\ edits = 0 /\ beats = 0 /\ faults = 0 /\ retries = 0 /\ crossed = FALSE

\* What the row holds when a session that loaded `loaded` and assigned
\* `assigned` flushes.
Written(loaded, assigned) ==
    [c \in DOMAIN row |-> Flushed(loaded[c], assigned[c], row[c])]

Free == lock = NoOne
CheckedIn(r) == r.seen # None /\ r.seen >= r.wakeAt     \* _has_checked_in_since_wake
Goto(s, step) == at' = [at EXCEPT ![s] = step]

\* A call has the token it will hand to the gateway, and waits for the row lock.
HandingOver(calls) == \E p \in calls : at[p] = "lock"

-----------------------------------------------------------------------------
(* Callers of run_lifecycle. *)

\* update_agent commits its changes and refreshes its copy ...
EditLoad(e) ==
    /\ e \in Editor /\ at[e] = "idle" /\ edits < MaxEdits /\ Free
    /\ held' = [held EXCEPT ![e] = row]
    /\ Goto(e, "mint")
    /\ edits' = edits + 1
    /\ UNCHANGED <<row, runVars, asked, queue, gw, minted, timeVars, beats, faults, historyVars>>

\* ... then commits the hash of a new token and refreshes again.
EditMint(e) ==
    LET new == Written(held[e], [held[e] EXCEPT !.token = minted + 1]) IN
    /\ at[e] = "mint" /\ Free
    /\ minted' = minted + 1
    /\ tok' = [tok EXCEPT ![e] = minted + 1]
    /\ row' = new
    /\ held' = [held EXCEPT ![e] = new]
    /\ Goto(e, "lock")
    /\ crossed' = (crossed \/ HandingOver((Editor \cup Syncer) \ {e}))
    /\ UNCHANGED <<asked, task, lock, queue, gw, timeVars, countVars, retries>>

\* A sync reads the token from the gateway's file and hands it back.
SyncLoad(s) ==
    /\ s \in Syncer /\ at[s] = "idle" /\ edits < MaxEdits
    /\ held' = [held EXCEPT ![s] = row]
    /\ tok' = [tok EXCEPT ![s] = gw]
    /\ Goto(s, "lock")
    /\ edits' = edits + 1
    /\ crossed' = (crossed \/ ~Free \/ HandingOver(Editor))
    /\ UNCHANGED <<row, asked, task, lock, queue, gw, minted, timeVars, beats, faults, retries>>

\* The deadline that a task watches.
Deadline(k) == IF row.deadline # None THEN row.deadline ELSE k.stamp

Obsolete(k) == row.gen # k.gen \/ CheckedIn(row)

\* Variant: one wake more.
ExhaustedLate(r) == r.wakes > MAX_WAKE_ATTEMPTS_WITHOUT_CHECKIN

Exhausted(r) == r.wakes >= MAX_WAKE_ATTEMPTS_WITHOUT_CHECKIN

\* process_lifecycle_queue_task up to its decision, all taken on one read.
Take(w, k) ==
    /\ w \in Worker /\ at[w] = "idle" /\ k \in queue /\ k.due <= past
    /\ held' = [held EXCEPT ![w] = row]
    /\ task' = [task EXCEPT ![w] = k]
    /\ \/ /\ Obsolete(k)
          /\ queue' = queue \ {k} /\ UNCHANGED at
       \/ /\ ~Obsolete(k) /\ past < Deadline(k)
          /\ queue' = (queue \ {k}) \cup {[k EXCEPT !.due = Deadline(k)]} /\ UNCHANGED at
       \/ /\ ~Obsolete(k) /\ Deadline(k) <= past
          /\ queue' = queue \ {k} /\ Goto(w, IF Exhausted(row) THEN "giveup" ELSE "lock")
    /\ UNCHANGED <<row, tok, asked, lock, gw, minted, timeVars, countVars, historyVars>>

\* Variant: the agent is given up, and nobody is told.
GiveUpQuietly(w) ==
    /\ at[w] = "giveup" /\ Free
    /\ row' = Written(held[w], [held[w] EXCEPT !.deadline = None])
    /\ Goto(w, "idle")
    /\ UNCHANGED <<held, runVars, asked, queue, gw, minted, timeVars, countVars, historyVars>>

\* The last wake went unanswered, too.
GiveUp(w) ==
    /\ at[w] = "giveup" /\ Free
    /\ row' = Written(held[w], [held[w] EXCEPT !.status = "offline", !.deadline = None])
    /\ Goto(w, "idle")
    /\ UNCHANGED <<held, runVars, asked, queue, gw, minted, timeVars, countVars, historyVars>>

-----------------------------------------------------------------------------
(* run_lifecycle. *)

\* Variant: a worker's run sends a token whose hash it does not store.
RequestedUnhashed(p) ==
    LET run == [held[p] EXCEPT !.status = "updating", !.gen = @ + 1]
    IN  IF p \in Syncer THEN [run EXCEPT !.deadline = None]
        ELSE [run EXCEPT !.wakes = @ + 1, !.wakeAt = clock + 1, !.deadline = clock + 1]

\* What a run assigns: a worker's has a token of its own, a sync does not wake.
Requested(p) ==
    LET run == [held[p] EXCEPT !.status = "updating", !.gen = @ + 1,
                               !.token = IF p \in Worker THEN minted + 1 ELSE @]
    IN  IF p \in Syncer THEN [run EXCEPT !.deadline = None]
        ELSE [run EXCEPT !.wakes = @ + 1, !.wakeAt = clock + 1, !.deadline = clock + 1]

\* Lock the row, assign, flush.
Lock(p) ==
    /\ at[p] = "lock" /\ Free
    /\ lock' = p
    /\ held' = [held EXCEPT ![p] = Written(held[p], Requested(p))]
    /\ IF p \in Syncer THEN UNCHANGED clock ELSE clock < MaxWakes /\ clock' = clock + 1
    /\ IF p \in Worker THEN minted' = minted + 1 /\ tok' = [tok EXCEPT ![p] = minted + 1]
                       ELSE UNCHANGED <<minted, tok>>
    /\ Goto(p, "call")
    /\ crossed' = (crossed \/ (p \in Worker /\ HandingOver(Editor \cup Syncer)))
    /\ UNCHANGED <<row, asked, task, queue, gw, past, countVars, retries>>

\* The gateway has written the files and, unless it is a sync, sent the wake.
Deliver(p) ==
    /\ at[p] = "call"
    /\ gw' = tok[p]
    /\ retries' = IF p \in Worker THEN retries + 1 ELSE IF p \in Editor THEN 0 ELSE retries
    /\ Goto(p, "delivered")
    /\ UNCHANGED <<row, held, runVars, asked, queue, minted, timeVars, countVars, crossed>>

\* Success, in one commit.
Complete(p) ==
    /\ at[p] = "delivered"
    /\ row' = [held[p] EXCEPT !.status = "online"]
    /\ lock' = NoOne
    /\ Goto(p, IF p \in Syncer THEN "idle" ELSE "enqueue")
    /\ UNCHANGED <<held, tok, asked, task, queue, gw, minted, timeVars, countVars, historyVars>>

\* Variant: the task is only enqueued for the wake of an update.
EnqueueFirstOnly(p) ==
    /\ at[p] = "enqueue"
    /\ queue' = IF p \in Worker \/ row.deadline = None THEN queue
                ELSE queue \cup {[gen |-> row.gen, stamp |-> row.deadline, due |-> row.deadline,
                                  attempts |-> 0, copy |-> 0]}
    /\ Goto(p, "idle")
    /\ UNCHANGED <<row, held, runVars, asked, gw, minted, timeVars, countVars, historyVars>>

\* Refresh, and the reconcile task of this wake.
Enqueue(p) ==
    /\ at[p] = "enqueue"
    /\ queue' = IF row.deadline = None THEN queue
                ELSE queue \cup {[gen |-> row.gen, stamp |-> row.deadline, due |-> row.deadline,
                                  attempts |-> 0, copy |-> 0]}
    /\ Goto(p, "idle")
    /\ UNCHANGED <<row, held, runVars, asked, gw, minted, timeVars, countVars, historyVars>>

-----------------------------------------------------------------------------
(* Requests of the agent. *)

\* Authenticated with the token in its files; the copy is loaded here.
Ask(b, request) ==
    /\ request \in {"touch", "heartbeat"}
    /\ b \in Beat /\ at[b] = "idle" /\ beats < MaxBeats /\ gw = row.token
    /\ held' = [held EXCEPT ![b] = row]
    /\ asked' = [asked EXCEPT ![b] = clock]
    /\ beats' = beats + 1
    /\ Goto(b, request)
    /\ UNCHANGED <<row, runVars, queue, gw, minted, timeVars, edits, faults, historyVars>>

\* _touch_agent_presence: any GET of the agent.
Touch(b) ==
    LET r == held[b] IN
    /\ at[b] = "touch" /\ Free
    /\ row' = Written(r, [r EXCEPT !.seen = asked[b],
                                   !.status = IF @ = "updating" THEN @ ELSE "online"])
    /\ Goto(b, "idle")
    /\ UNCHANGED <<held, runVars, asked, queue, gw, minted, timeVars, countVars, historyVars>>

\* commit_heartbeat, with a status in the payload or without; the time it
\* writes is read before or after it has waited for the lock.
Heartbeat(b) ==
    LET r == held[b] IN
    /\ at[b] = "heartbeat" /\ Free
    /\ \E status \in {r.status, "online"}, seen \in asked[b]..clock :
          row' = Written(r, [r EXCEPT !.status = status, !.seen = seen, !.wakes = 0,
                                      !.deadline = None])
    /\ retries' = 0
    /\ Goto(b, "idle")
    /\ UNCHANGED <<held, runVars, asked, queue, gw, minted, timeVars, countVars, crossed>>

-----------------------------------------------------------------------------
(* Failures and time. *)

Fault == faults < MaxFaults /\ faults' = faults + 1
Released(p) == IF lock = p THEN NoOne ELSE lock

\* flush_queue requeues the task the worker had in hand, as it was.
Requeued(p) ==
    IF p \in Worker /\ task[p].attempts < MaxRetries
    THEN queue \cup {[task[p] EXCEPT !.attempts = @ + 1, !.due = 0]} ELSE queue

\* The gateway call raises: what the run has flushed is committed all the same.
GatewayError(p) ==
    /\ p \in Flaky /\ at[p] \in {"call", "delivered"} /\ Fault
    /\ row' = held[p]
    /\ lock' = NoOne
    /\ queue' = Requeued(p)
    /\ Goto(p, "idle")
    /\ crossed' = TRUE
    /\ UNCHANGED <<held, tok, asked, task, gw, minted, timeVars, edits, beats, retries>>

\* The reconcile handler gives up after 60 seconds: what is not committed is
\* rolled back.
Timeout(w) ==
    /\ w \in Flaky \cap Worker /\ at[w] \in {"lock", "call", "delivered", "enqueue"} /\ Fault
    /\ lock' = Released(w)
    /\ queue' = Requeued(w)
    /\ Goto(w, "idle")
    /\ crossed' = TRUE
    /\ UNCHANGED <<row, held, tok, asked, task, gw, minted, timeVars, edits, beats, retries>>

\* The process dies, or (at "enqueue") Redis refuses the task and nobody minds.
Crash(p) ==
    /\ p \in Mortal /\ at[p] # "idle" /\ Fault
    /\ lock' = Released(p)
    /\ Goto(p, "idle")
    /\ crossed' = TRUE
    /\ UNCHANGED <<row, held, tok, asked, task, queue, gw, minted, timeVars, edits, beats, retries>>

\* Two workers that drain the schedule at once push a due task twice
\* (queue.py, _drain_ready_scheduled_tasks).
DrainedTwice(k) ==
    /\ Cardinality(Worker) > 1 /\ k \in queue /\ k.copy = 0 /\ k.due <= past /\ Fault
    /\ queue' = queue \cup {[k EXCEPT !.copy = 1]}
    /\ UNCHANGED <<row, held, at, runVars, asked, gw, minted, timeVars, edits, beats, historyVars>>

DeadlinePasses ==
    /\ past < clock
    /\ past' = past + 1
    /\ UNCHANGED <<row, held, at, runVars, asked, queue, gw, minted, clock, countVars, historyVars>>

RunStep(p) == Lock(p) \/ Deliver(p) \/ Complete(p) \/ Enqueue(p)

Next ==
    \/ \E e \in Editor : EditLoad(e) \/ EditMint(e)
    \/ \E s \in Syncer : SyncLoad(s)
    \/ \E w \in Worker, k \in queue : Take(w, k)
    \/ \E w \in Worker : GiveUp(w) \/ Timeout(w)
    \/ \E p \in Process : RunStep(p) \/ GatewayError(p) \/ Crash(p)
    \/ \E b \in Beat : Ask(b, "touch") \/ Ask(b, "heartbeat") \/ Touch(b) \/ Heartbeat(b)
    \/ \E k \in queue : DrainedTwice(k)
    \/ DeadlinePasses

\* Handlers under way go on, workers take what is due, and time passes.  An
\* operator need not update, nor the agent check in.
Fairness ==
    /\ WF_vars(DeadlinePasses)
    /\ \A p \in Process : WF_vars(RunStep(p))
    /\ \A e \in Editor : WF_vars(EditMint(e))
    /\ \A w \in Worker : WF_vars(GiveUp(w)) /\ WF_vars(\E k \in queue : Take(w, k))

Spec == Init /\ [][Next]_vars
FairSpec == Spec /\ Fairness

-----------------------------------------------------------------------------
(* Properties. *)

TypeOK ==
    /\ row \in Row /\ held \in [Session -> Row] /\ at \in [Session -> Step]
    /\ tok \in [Process -> Nat] /\ asked \in [Beat -> Nat] /\ task \in [Worker -> Task]
    /\ lock \in Process \cup {NoOne} /\ queue \subseteq Task
    /\ gw \in Nat /\ minted \in Nat /\ clock \in Nat /\ past \in Nat
    /\ edits \in Nat /\ beats \in Nat /\ faults \in Nat /\ retries \in Nat
    /\ crossed \in BOOLEAN

\* However updates, check-ins, retried tasks and lost copies of the row fall
\* together, reconciliation wakes a silent agent no more than the maximal
\* number of times, and once more for each failure of a run.
WakesBounded == retries <= MAX_WAKE_ATTEMPTS_WITHOUT_CHECKIN + faults

\* Outside the runs, the gateway's files hold the token whose hash the row
\* holds: the agent can authenticate (lifecycle_orchestrator.py: "Provision or
\* update any agent under a per-agent lock").
TokenInSync == Free /\ ~HandingOver(Editor) => row.token = gw

\* The files come apart from the hash only by a run that failed, or by an update
\* or a sync that had its token already when another call took one: the lock is
\* not held from the token to its delivery.  Check-ins, workers that overlap, tasks
\* drained twice and calls that do not cross leave them together, however many.
TokenSplitNeedsCrossing == ~crossed => TokenInSync

\* An agent that has been woken checks in or is, in the end, set offline
\* (constants.py: "allow up to 3 wake attempts before giving up").
Converges == ~CheckedIn(row) ~> (CheckedIn(row) \/ row.status = "offline")

\* An agent whose token has come apart from the row's is given a new one, or
\* given up.
TokenHeals == row.token # gw ~> (row.token = gw \/ row.status = "offline")
=============================================================================
