------------------------------ MODULE TaskQueue ------------------------------
(***************************************************************************)
(* The Redis-backed task queue and its workers.                            *)
(*                                                                         *)
(* Source: services/queue.py, services/queue_worker.py, and the producer   *)
(* that must not lose a delivery, services/webhooks/queue.py with the      *)
(* ingest endpoint of api/board_webhooks.py.                               *)
(*                                                                         *)
(* A task in Redis is its JSON: which task it is and its attempts.  The    *)
(* ready list is popped at its right end, here its head.  The schedule is  *)
(* a sorted set, so it holds a JSON once; its members whose time has come  *)
(* are `due`, and in which order their scores put them is left open.       *)
(* Handlers are left abstract: they succeed or raise.  The re-scheduling   *)
(* of a lifecycle task that is too early is in AgentLifecycle.             *)
(***************************************************************************)
EXTENDS Naturals, Sequences, FiniteSets

CONSTANTS
    Task,       \* tasks, one for each delivery
    Handled,    \* the tasks whose type has a handler
    Worker,
    NoTask,     \* no task in hand
    MaxRetries, \* rq_dispatch_max_retries
    BatchSize,  \* _DRY_RUN_BATCH_SIZE
    MaxFaults   \* bound: failures of Redis and crashes

ASSUME HandledAssumption == Handled \subseteq Task
ASSUME NoTaskAssumption == NoTask \notin [task : Task, attempts : Nat]
ASSUME BoundsAssumption ==
    MaxRetries \in Nat /\ BatchSize \in Nat \ {0} /\ MaxFaults \in Nat

Entry == [task : Task, attempts : 0..MaxRetries]

Members(q) == {q[i] : i \in DOMAIN q}

VARIABLES
    filed,      \* where the ingest call of a delivery stands
    told,       \* deliveries of which the agent was told in the ingest call
    ready,      \* the list
    scheduled,  \* members of the sorted set that are not due ...
    due,        \* ... and those that are
    at,         \* what a worker stands before
    batch,      \* the due members a worker has read
    hand,       \* the task a worker has popped
    faults,
    queued, finished, dropped, lost, \* history: what became of the tasks
    runs        \* history: how often an attempt was handled

ingestVars == <<filed, told, queued>>
redisVars == <<ready, scheduled, due>>
fateVars == <<finished, dropped, lost, runs>>
vars == <<filed, told, ready, scheduled, due, at, batch, hand, faults, queued, finished, dropped,
          lost, runs>>

Init ==
    /\ filed = [t \in Task |-> "absent"] /\ told = {}
    /\ ready = <<>> /\ scheduled = {} /\ due = {}
    /\ at = [w \in Worker |-> "idle"] /\ batch = [w \in Worker |-> <<>>]
    /\ hand = [w \in Worker |-> NoTask]
    /\ faults = 0
    /\ queued = {} /\ finished = {} /\ dropped = {} /\ lost = {}
    /\ runs = [t \in Task |-> [a \in 0..MaxRetries |-> 0]]

Fault == faults < MaxFaults /\ faults' = faults + 1

-----------------------------------------------------------------------------
(* Ingest. *)

\* The payload is stored and committed.
Persist(t) ==
    /\ filed[t] = "absent"
    /\ filed' = [filed EXCEPT ![t] = "persisted"]
    /\ UNCHANGED <<told, redisVars, at, batch, hand, faults, queued, fateVars>>

\* What enqueue_webhook_delivery returns when enqueue_task returned `ok`.
EnqueueReturned(ok) == TRUE

\* ... then queued; the agent is told at once if that returned False.
Enqueue(t) ==
    /\ filed[t] = "persisted"
    /\ filed' = [filed EXCEPT ![t] = "answered"]
    /\ \/ /\ ready' = Append(ready, [task |-> t, attempts |-> 0])
          /\ queued' = queued \cup {t}
          /\ told' = IF EnqueueReturned(TRUE) THEN told ELSE told \cup {t}
          /\ UNCHANGED faults
       \/ /\ Fault     \* Redis cannot be reached
          /\ told' = IF EnqueueReturned(FALSE) THEN told ELSE told \cup {t}
          /\ UNCHANGED <<ready, queued>>
    /\ UNCHANGED <<scheduled, due, at, batch, hand, fateVars>>

\* The process dies after the commit.
IngestCut(t) ==
    /\ filed[t] = "persisted" /\ Fault
    /\ filed' = [filed EXCEPT ![t] = "cut"]
    /\ UNCHANGED <<told, redisVars, at, batch, hand, queued, fateVars>>

-----------------------------------------------------------------------------
(* One round of flush_queue. *)

BecomesDue(e) ==
    /\ e \in scheduled
    /\ scheduled' = scheduled \ {e}
    /\ due' = due \cup {e}
    /\ UNCHANGED <<ingestVars, ready, at, batch, hand, faults, fateVars>>

\* zrangebyscore with num: as many of the due members as a batch may have.
Readings ==
    LET n == IF Cardinality(due) < BatchSize THEN Cardinality(due) ELSE BatchSize
    IN  {q \in [1..n -> due] : \A i, j \in 1..n : q[i] = q[j] => i = j}

\* _drain_ready_scheduled_tasks is three commands to Redis.
ReadDue(w) ==
    /\ at[w] = "idle"
    /\ \E q \in Readings :
          /\ batch' = [batch EXCEPT ![w] = q]
          /\ at' = [at EXCEPT ![w] = IF q = <<>> THEN "pop" ELSE "push"]
    /\ UNCHANGED <<ingestVars, redisVars, hand, faults, fateVars>>

Push(w) ==
    /\ at[w] = "push"
    /\ ready' = ready \o batch[w]
    /\ at' = [at EXCEPT ![w] = "remove"]
    /\ UNCHANGED <<ingestVars, scheduled, due, batch, hand, faults, fateVars>>

\* Variant: what was read stays in the schedule.
UnscheduleNothing(w) ==
    /\ at[w] = "remove"
    /\ at' = [at EXCEPT ![w] = "pop"]
    /\ batch' = [batch EXCEPT ![w] = <<>>]
    /\ UNCHANGED <<ingestVars, redisVars, hand, faults, fateVars>>

\* Variant: whatever is due by now is removed.
UnscheduleAllDue(w) ==
    /\ at[w] = "remove"
    /\ due' = {}
    /\ at' = [at EXCEPT ![w] = "pop"]
    /\ batch' = [batch EXCEPT ![w] = <<>>]
    /\ UNCHANGED <<ingestVars, ready, scheduled, hand, faults, fateVars>>

Unschedule(w) ==
    LET read == Members(batch[w]) IN
    /\ at[w] = "remove"
    /\ due' = due \ read
    /\ scheduled' = scheduled \ read
    /\ at' = [at EXCEPT ![w] = "pop"]
    /\ batch' = [batch EXCEPT ![w] = <<>>]
    /\ UNCHANGED <<ingestVars, ready, hand, faults, fateVars>>

\* brpop, or its timeout; a task of an unknown type is dropped here.
Pop(w) ==
    /\ at[w] = "pop"
    /\ IF ready = <<>> THEN at' = [at EXCEPT ![w] = "idle"] /\ UNCHANGED <<ready, hand, dropped, runs>>
       ELSE LET e == Head(ready) IN
            /\ ready' = Tail(ready)
            /\ IF e.task \in Handled
               THEN /\ at' = [at EXCEPT ![w] = "run"]
                    /\ hand' = [hand EXCEPT ![w] = e]
                    /\ runs' = [runs EXCEPT ![e.task][e.attempts] = @ + 1]
                    /\ UNCHANGED dropped
               ELSE /\ at' = [at EXCEPT ![w] = "idle"]
                    /\ dropped' = dropped \cup {e.task}
                    /\ UNCHANGED <<hand, runs>>
    /\ UNCHANGED <<ingestVars, scheduled, due, batch, faults, finished, lost>>

PutDown(w) ==
    /\ at' = [at EXCEPT ![w] = "idle"]
    /\ hand' = [hand EXCEPT ![w] = NoTask]

Succeed(w) ==
    /\ at[w] = "run"
    /\ finished' = finished \cup {hand[w].task}
    /\ PutDown(w)
    /\ UNCHANGED <<ingestVars, redisVars, batch, faults, dropped, lost, runs>>

\* zadd: a member that is there already gets the new score.
Schedule(e) ==
    /\ scheduled' = scheduled \cup {e}
    /\ due' = due \ {e}

\* Variant: the last retry is not made.
FailEarly(w) ==
    LET t == hand[w].task  a == hand[w].attempts + 1 IN
    /\ at[w] = "run"
    /\ IF a >= MaxRetries THEN dropped' = dropped \cup {t} /\ UNCHANGED <<scheduled, due>>
       ELSE Schedule([task |-> t, attempts |-> a]) /\ UNCHANGED dropped
    /\ PutDown(w)
    /\ UNCHANGED <<ingestVars, ready, batch, faults, finished, lost, runs>>

\* The handler raises; requeue_if_failed drops the task or schedules a retry.
Fail(w) ==
    LET t == hand[w].task  a == hand[w].attempts + 1 IN
    /\ at[w] = "run"
    /\ IF a > MaxRetries THEN dropped' = dropped \cup {t} /\ UNCHANGED <<scheduled, due>>
       ELSE Schedule([task |-> t, attempts |-> a]) /\ UNCHANGED dropped
    /\ PutDown(w)
    /\ UNCHANGED <<ingestVars, ready, batch, faults, finished, lost, runs>>

\* The process dies, or Redis raises: in the drain, in the pop, or when the
\* task in hand should be scheduled again.
Cut(w) ==
    /\ at[w] # "idle" /\ Fault
    /\ lost' = IF at[w] = "run" THEN lost \cup {hand[w].task} ELSE lost
    /\ batch' = [batch EXCEPT ![w] = <<>>]
    /\ PutDown(w)
    /\ UNCHANGED <<ingestVars, redisVars, finished, dropped, runs>>

Round(w) == ReadDue(w) \/ Push(w) \/ Unschedule(w) \/ Pop(w) \/ Succeed(w) \/ Fail(w)

Next ==
    \/ \E t \in Task : Persist(t) \/ Enqueue(t) \/ IngestCut(t)
    \/ \E e \in scheduled : BecomesDue(e)
    \/ \E w \in Worker : Round(w) \/ Cut(w)

\* Workers loop for ever, a handler ends (its calls have timeouts), and time
\* passes.
Fairness ==
    /\ \A w \in Worker : WF_vars(Round(w))
    /\ WF_vars(\E e \in scheduled : BecomesDue(e))

Spec == Init /\ [][Next]_vars
FairSpec == Spec /\ Fairness

-----------------------------------------------------------------------------
(* Properties. *)

TypeOK ==
    /\ filed \in [Task -> {"absent", "persisted", "answered", "cut"}]
    /\ told \subseteq Task
    /\ ready \in Seq(Entry) /\ scheduled \subseteq Entry /\ due \subseteq Entry
    /\ at \in [Worker -> {"idle", "push", "remove", "pop", "run"}]
    /\ batch \in [Worker -> Seq(Entry)] /\ hand \in [Worker -> Entry \cup {NoTask}]
    /\ faults \in Nat
    /\ queued \subseteq Task /\ finished \subseteq Task /\ dropped \subseteq Task
    /\ lost \subseteq Task /\ runs \in [Task -> [0..MaxRetries -> Nat]]

Held(t) ==
    \/ \E e \in Members(ready) \cup scheduled \cup due : e.task = t
    \/ \E w \in Worker : at[w] = "run" /\ hand[w].task = t

\* However drains, duplicates and retries of several workers interleave, and
\* wherever one is cut off, a queued task is in Redis or in hand until it has
\* been handled or given up; only one that was in hand at a failure is lost.
Accounted == \A t \in queued : Held(t) \/ t \in finished \cup dropped \cup lost

\* A drain is not atomic, so workers that drain at once duplicate what is due;
\* and so does a failure between its commands.  A first attempt is handled once;
\* a retry as often as every worker can push it each time it is scheduled, and
\* once more for each failure.
RunsBounded ==
    \A t \in Task :
        /\ runs[t][0] <= 1
        /\ \A a \in 1..MaxRetries : runs[t][a] <= Cardinality(Worker) * runs[t][a - 1] + faults

\* What those who file tasks may rely on, however drains interleave and wherever
\* workers are cut off: a task is open until its fate is known, its attempts are
\* made in order, and no failure costs more than the task in hand.
TF == INSTANCE TaskFates WITH
          open <- {t \in Task : Held(t)} \ (finished \cup dropped \cup lost),
          tried <- {e \in Entry : runs[e.task][e.attempts] > 0}
KeepsFates == TF!Spec

\* Every queued task is handled, given up, or was in hand at a failure.
Settles == \A t \in Task : t \in queued ~> t \in finished \cup dropped \cup lost
=============================================================================
