------------------------------ MODULE Approvals ------------------------------
(***************************************************************************)
(* The approvals of a board: agents and users file them for tasks, users   *)
(* decide them and may reopen them, and the board lead is told of each     *)
(* decision.  A task has at most one pending approval.                     *)
(*                                                                         *)
(* Source: api/approvals.py, services/approval_task_links.py and the task  *)
(* deletion of api/tasks.py.  Calls run in sessions of their own; the rows *)
(* of the tasks an approval is about are locked, one after the other in    *)
(* the order of their ids, before pending approvals are looked for.  An    *)
(* approval's tasks are its links, or its task_id where a row is older     *)
(* than the link table.                                                    *)
(***************************************************************************)
EXTENDS Naturals, FiniteSets, OrmRow

CONSTANTS
    Approval,
    Task,       \* tasks, by the order of their ids
    Call,       \* endpoint calls that may be under way at the same time
    NoApproval, \* a call that creates an approval has none yet
    NoOne,      \* nobody holds a lock
    Asked       \* bound: the statuses calls ask for

ASSUME TaskAssumption == Task \subseteq Nat
ASSUME NobodyAssumption == NoOne \notin Call /\ NoApproval \notin Approval

ApprovalStatus == {"pending", "approved", "rejected"}
Resolved == {"approved", "rejected"}

ASSUME AskedAssumption == Asked \subseteq ApprovalStatus

VARIABLES
    status,     \* approvals.status; "unused" before the row exists, "deleted" after
    tasks,      \* the tasks of an approval
    live,       \* the tasks that exist
    lock,       \* who holds the row lock of a task
    call,       \* each call: what it stands before, its approval, the status it has
                \* loaded and the one it is to write, the tasks it has read or was given
    untold      \* history: decisions nobody has told the lead

rowVars == <<status, tasks, live>>
vars == <<status, tasks, live, lock, call, untold>>

Exists(a) == status[a] \in ApprovalStatus

Idle == [at |-> "idle", ap |-> NoApproval, prior |-> "pending", want |-> "pending", about |-> {}]

Init ==
    /\ status = [a \in Approval |-> "unused"]
    /\ tasks = [a \in Approval |-> {}]
    /\ live = Task
    /\ lock = [t \in Task |-> NoOne]
    /\ call = [c \in Call |-> Idle]
    /\ untold = {}

-----------------------------------------------------------------------------
Goto(c, step) == call' = [call EXCEPT ![c].at = step]

\* The locks of a transaction end with it.
Unlocked(c) == [t \in Task |-> IF lock[t] = c THEN NoOne ELSE lock[t]]

Return(c) == call' = [call EXCEPT ![c] = Idle] /\ lock' = Unlocked(c)

Creates(c) == call[c].ap = NoApproval

\* Bound: there is a row left for every approval that is being created.
RowLeft == Cardinality({c \in Call : call[c].at # "idle" /\ Creates(c)})
              < Cardinality({a \in Approval : status[a] = "unused"})

\* create_approval up to the check: only a pending approval is checked.
AskCreate(c, ts, s) ==
    /\ call[c].at = "idle" /\ RowLeft
    /\ call' = [call EXCEPT ![c] =
          [at |-> IF s = "pending" /\ ts # {} THEN "lock" ELSE "insert",
           ap |-> NoApproval, prior |-> s, want |-> s, about |-> ts]]
    /\ UNCHANGED <<rowVars, lock, untold>>

\* update_approval up to the check: only a reopened approval is checked.
AskUpdate(c, a, s) ==
    /\ call[c].at = "idle" /\ Exists(a)
    /\ call' = [call EXCEPT ![c] =
          [at |-> IF s = "pending" /\ status[a] # "pending" /\ tasks[a] # {} THEN "lock" ELSE "write",
           ap |-> a, prior |-> status[a], want |-> s, about |-> tasks[a]]]
    /\ UNCHANGED <<rowVars, lock, untold>>

ToLock(c) == {t \in call[c].about \cap live : lock[t] # c}

\* Variant: the rows are locked in any order.
LockInAnyOrder(c) ==
    /\ call[c].at = "lock"
    /\ \/ /\ ToLock(c) = {}
          /\ Goto(c, "check")
          /\ UNCHANGED lock
       \/ \E t \in ToLock(c) :
          /\ lock[t] = NoOne
          /\ lock' = [lock EXCEPT ![t] = c]
          /\ UNCHANGED call
    /\ UNCHANGED <<rowVars, untold>>

\* lock_tasks_for_approval, row by row; tasks that were deleted are passed over.
Lock(c) ==
    /\ call[c].at = "lock"
    /\ \/ /\ ToLock(c) = {}
          /\ Goto(c, "check")
          /\ UNCHANGED lock
       \/ \E t \in ToLock(c) :
          /\ \A u \in ToLock(c) : t <= u
          /\ lock[t] = NoOne
          /\ lock' = [lock EXCEPT ![t] = c]
          /\ UNCHANGED call
    /\ UNCHANGED <<rowVars, untold>>

\* pending_approval_conflicts_by_task, without the approval that is reopened.
Conflicts(c) ==
    {a \in Approval : status[a] = "pending" /\ tasks[a] \cap call[c].about # {} /\ a # call[c].ap}

\* _ensure_no_pending_approval_conflicts; a conflict ends the call.
Check(c) ==
    /\ call[c].at = "check"
    /\ \/ Conflicts(c) # {} /\ Return(c)
       \/ /\ Conflicts(c) = {}
          /\ Goto(c, IF Creates(c) THEN "insert" ELSE "write")
          /\ UNCHANGED lock
    /\ UNCHANGED <<rowVars, untold>>

\* The approval and its links, under a new id, in one commit.
Insert(c, a) ==
    /\ call[c].at = "insert" /\ status[a] = "unused" /\ call[c].about \subseteq live
    /\ status' = [status EXCEPT ![a] = call[c].want]
    /\ tasks' = [tasks EXCEPT ![a] = call[c].about]
    /\ Return(c)
    /\ UNCHANGED <<live, untold>>

\* What the decisions nobody has told are once a's status is s.
UntoldAfter(a, s) ==
    IF s = status[a] THEN untold ELSE IF s \in Resolved THEN untold \cup {a} ELSE untold \ {a}

\* What an update still needs after its commit.
Committed(c) ==
    /\ call' = [call EXCEPT ![c] = [@ EXCEPT !.at = "refresh", !.want = "pending", !.about = {}]]
    /\ lock' = Unlocked(c)

\* Variant: the status is written whether or not it differs from the copy.
WriteAlways(c) ==
    LET a == call[c].ap IN
    /\ call[c].at = "write" /\ Exists(a)
    /\ status' = [status EXCEPT ![a] = call[c].want]
    /\ untold' = UntoldAfter(a, call[c].want)
    /\ Committed(c)
    /\ UNCHANGED <<tasks, live>>

\* The commit of update_approval.
Write(c) ==
    LET a == call[c].ap
        s == Flushed(call[c].prior, call[c].want, status[a])
    IN  /\ call[c].at = "write" /\ Exists(a)
        /\ status' = [status EXCEPT ![a] = s]
        /\ untold' = UntoldAfter(a, s)
        /\ Committed(c)
        /\ UNCHANGED <<tasks, live>>

\* Variant: only decisions of pending approvals are told.
RefreshPendingOnly(c) ==
    LET s == status[call[c].ap] IN
    /\ call[c].at = "refresh" /\ Exists(call[c].ap)
    /\ IF s \in Resolved /\ call[c].prior = "pending"
       THEN call' = [call EXCEPT ![c].at = "tell", ![c].want = s] /\ UNCHANGED lock
       ELSE Return(c)
    /\ UNCHANGED <<rowVars, untold>>

\* The row is read again: a later decision may be what the call goes on with.
Refresh(c) ==
    LET s == status[call[c].ap] IN
    /\ call[c].at = "refresh" /\ Exists(call[c].ap)
    /\ IF s \in Resolved /\ s # call[c].prior
       THEN call' = [call EXCEPT ![c].at = "tell", ![c].want = s] /\ UNCHANGED lock
       ELSE Return(c)
    /\ UNCHANGED <<rowVars, untold>>

\* _notify_lead_on_approval_resolution; that it may fail is logged, no more.
Tell(c) ==
    /\ call[c].at = "tell"
    /\ untold' = IF status[call[c].ap] = call[c].want THEN untold \ {call[c].ap} ELSE untold
    /\ Return(c)
    /\ UNCHANGED rowVars

\* The transaction is rolled back.  A decision that was committed stays untold
\* and is not counted any more.
Rollback(c) ==
    /\ untold' = IF call[c].at \in {"refresh", "tell"} THEN untold \ {call[c].ap} ELSE untold
    /\ Return(c)
    /\ UNCHANGED rowVars

\* A foreign key, an UPDATE or a refresh finds its row deleted.
Miss(c) ==
    /\ \/ call[c].at = "insert" /\ ~(call[c].about \subseteq live)
       \/ call[c].at \in {"write", "refresh"} /\ ~Exists(call[c].ap)
    /\ Rollback(c)

\* The database fails, or the process dies.
Abort(c) == call[c].at # "idle" /\ Rollback(c)

\* Variant: an approval about several tasks keeps its link to the deleted one.
DeleteTaskKeepsLinks(t) ==
    LET alone == {a \in Approval : Exists(a) /\ tasks[a] = {t}} IN
    /\ t \in live /\ lock[t] = NoOne
    /\ live' = live \ {t}
    /\ status' = [a \in Approval |-> IF a \in alone THEN "deleted" ELSE status[a]]
    /\ tasks' = [a \in Approval |-> IF a \in alone THEN {} ELSE tasks[a]]
    /\ untold' = untold \ alone
    /\ UNCHANGED <<lock, call>>

\* delete_task_and_related_records, in one commit: approvals about this task
\* alone go with it.  It waits for the lock of the row.
DeleteTask(t) ==
    LET alone == {a \in Approval : Exists(a) /\ tasks[a] = {t}} IN
    /\ t \in live /\ lock[t] = NoOne
    /\ live' = live \ {t}
    /\ status' = [a \in Approval |-> IF a \in alone THEN "deleted" ELSE status[a]]
    /\ tasks' = [a \in Approval |-> tasks[a] \ {t}]
    /\ untold' = untold \ alone
    /\ UNCHANGED <<lock, call>>

Step(c) ==
    \/ Lock(c) \/ Check(c) \/ Write(c) \/ Refresh(c) \/ Tell(c) \/ Miss(c)
    \/ \E a \in Approval : Insert(c, a)

Next ==
    \/ \E c \in Call, s \in Asked :
          \/ \E ts \in SUBSET live : AskCreate(c, ts, s)
          \/ \E a \in Approval : AskUpdate(c, a, s)
    \/ \E c \in Call : Step(c) \/ Abort(c)
    \/ \E t \in Task : DeleteTask(t)

\* A call that has begun goes on; who waits for a lock gets it in turn.
Fairness == \A c \in Call : SF_vars(Step(c))

Spec == Init /\ [][Next]_vars /\ Fairness

-----------------------------------------------------------------------------
(* Properties. *)

CallRecord == [at : {"idle", "lock", "check", "insert", "write", "refresh", "tell"},
               ap : Approval \cup {NoApproval}, prior : ApprovalStatus, want : ApprovalStatus,
               about : SUBSET Task]

\* In particular an approval is about tasks that exist.
TypeOK ==
    /\ status \in [Approval -> ApprovalStatus \cup {"unused", "deleted"}]
    /\ tasks \in [Approval -> SUBSET live]
    /\ live \subseteq Task
    /\ lock \in [Task -> Call \cup {NoOne}]
    /\ call \in [Call -> CallRecord]
    /\ untold \subseteq Approval

\* api/approvals.py: "Each task can have only one pending approval."  However
\* creations, decisions, reopenings and deletions overlap, and whatever copy a
\* call has loaded.
OnePendingPerTask ==
    \A a, b \in Approval :
        status[a] = "pending" /\ status[b] = "pending" /\ a # b => tasks[a] \cap tasks[b] = {}

\* What tasks, and the gates of update_task, may rely on: whatever copies the
\* calls hold, a task becomes pending under the lock of its row and only if it is
\* not yet, stays so until that approval is decided or the task deleted, and
\* nothing is left of a task that is deleted.
LinkedTo(s) == UNION {tasks[a] : a \in {b \in Approval : status[b] = s}}
TA == INSTANCE TaskApprovals WITH
          held <- {t \in Task : lock[t] # NoOne},
          pending <- LinkedTo("pending"), approved <- LinkedTo("approved")
KeepsTasks == TA!Spec

\* A decision is told to the lead: as long as it stands untold, a call that
\* has read it or will read it is under way, though calls on one approval may
\* overwrite each other's decisions.
DecisionsAreTold ==
    \A a \in untold : \E c \in Call : call[c].ap = a /\ call[c].at \in {"refresh", "tell"}

\* Calls do not wait for each other's tasks for ever: each one ends without
\* being cut off.  (Locks that single statements take for themselves, foreign
\* keys for one, are not modelled; PostgreSQL ends a call where they close a circle.)
CallsEnd == \A c \in Call : call[c].at # "idle" ~> call[c].at = "idle"
=============================================================================
