----------------------------- MODULE TaskFates -----------------------------
(***************************************************************************)
(* What the task queue is to those who file tasks and to the handlers of   *)
(* tasks, without list, schedule and workers: a task that is queued stays  *)
(* open until its fate is known, its attempts are made one after the       *)
(* other, though one may be made again, and it has no fate without a       *)
(* reason.  TaskQueue implements this.                                     *)
(***************************************************************************)
EXTENDS Naturals

CONSTANTS Task, Handled, MaxRetries

VARIABLES
    open,                       \* tasks that wait for an attempt or are in a worker's hand
    tried,                      \* the attempts that were made, as records of task and attempts
    finished, dropped, lost,    \* tasks that succeeded, were given up, went down with a worker
    faults

Settled == finished \cup dropped \cup lost
Known == open \cup Settled

Tried(t, a) == [task |-> t, attempts |-> a] \in tried

Init ==
    /\ open = {} /\ tried = {}
    /\ finished = {} /\ dropped = {} /\ lost = {}
    /\ faults = 0

Enqueue(t) ==
    /\ t \notin Known
    /\ open' = open \cup {t}
    /\ UNCHANGED <<tried, finished, dropped, lost, faults>>

\* Also of a task that is settled: drains that overlap repeat its attempts.
Try(t, a) ==
    /\ t \in Known \cap Handled /\ (a # 0 => Tried(t, a - 1))
    /\ tried' = tried \cup {[task |-> t, attempts |-> a]}
    /\ UNCHANGED <<open, finished, dropped, lost, faults>>

Close(t) == t \in Known /\ open' = open \ {t} /\ UNCHANGED tried

Succeed(t) ==
    /\ \E a \in 0..MaxRetries : Tried(t, a)
    /\ finished' = finished \cup {t}
    /\ Close(t)
    /\ UNCHANGED <<dropped, lost, faults>>

GiveUp(t) ==
    /\ t \in Handled => \A a \in 0..MaxRetries : Tried(t, a)
    /\ dropped' = dropped \cup {t}
    /\ Close(t)
    /\ UNCHANGED <<finished, lost, faults>>

Lose(t) ==
    /\ \E a \in 0..MaxRetries : Tried(t, a)
    /\ lost' = lost \cup {t} /\ faults' = faults + 1
    /\ Close(t)
    /\ UNCHANGED <<finished, dropped>>

\* A failure that costs no task.
Fault == faults' = faults + 1 /\ UNCHANGED <<open, tried, finished, dropped, lost>>

Next ==
    \/ \E t \in Task : \/ Enqueue(t) \/ Succeed(t) \/ GiveUp(t) \/ Lose(t)
                       \/ \E a \in 0..MaxRetries : Try(t, a)
    \/ Fault

Spec == Init /\ [][Next]_<<open, tried, finished, dropped, lost, faults>>
=============================================================================
