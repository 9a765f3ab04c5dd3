------------------------------ MODULE TaskGates ------------------------------
(***************************************************************************)
(* The status of a board's tasks: what users, workers and the board lead   *)
(* may make of it, the gates a change passes (dependencies, pending and    *)
(* approved approvals, review), and what becomes of dependents when a task *)
(* is reopened.                                                            *)
(*                                                                         *)
(* Source: update_task and what it calls in api/tasks.py, and              *)
(* services/task_dependencies.py, whose search is DependencySearch.  Calls *)
(* run in sessions of their own: a call loads its task once and decides by *)
(* that copy (OrmRow); its first gate that asks the database, or else the  *)
(* commit, flushes the UPDATE, and the row stays locked from there to the  *)
(* end of the commit.  Approvals take the same lock before a pending one   *)
(* is filed (module Approvals, whose steps TaskApprovals sums up).         *)
(***************************************************************************)
EXTENDS Naturals, OrmRow, DependencySearch

CONSTANTS
    Task,           \* tasks, in the order of their creation
    Call,           \* calls of update_task that may be under way at the same time
    NoOne,          \* nobody holds a lock
    Keep,           \* a field the payload does not name
    RequiresApproval, RequiresReview, BlocksWithPending,    \* the rules of the board
    Request,        \* what is asked for: records of who, want, wantDeps and gives
    MaxCalls,       \* bound: calls in all
    Decidable       \* bound: the tasks approvals are filed for

ASSUME TaskAssumption ==
    IsFiniteSet(Task) /\ Task \subseteq Nat /\ Task # {} /\ Decidable \subseteq Task

Status == {"inbox", "in_progress", "review", "done"}
AtWork == {"in_progress", "review"}
Actor == {"user", "worker", "lead"}
Assignee == {"nobody", "worker", "lead"}

ASSUME NobodyAssumption == NoOne \notin Call /\ Keep \notin Status \cup Assignee
ASSUME RequestAssumption ==
    Request \subseteq [who : Actor, want : Status \cup {Keep}, wantDeps : (SUBSET Task) \cup {Keep},
                 gives : Assignee \cup {Keep}]

VARIABLES
    status, assignee,   \* of each task
    deps,               \* task_dependencies: <<task, the task it depends on>>
    pending, approved,  \* the tasks a pending, an approved approval is linked to
    lock,               \* who holds the row lock of a task
    call,               \* each call: see CallRecord
    asked,              \* calls so far
    history             \* what has been: tasks that were approved, tasks that were in review,
                        \* calls another one overtook, tasks known to be at work though
                        \* blocked, and whether edits of dependencies have overlapped

rowVars == <<status, assignee, deps>>
approvalVars == <<pending, approved>>
vars == <<rowVars, approvalVars, lock, call, asked, history>>

EdgesOf(t, ds) == {t} \X ds
Blocked(t, E) == \E u \in Task : <<t, u>> \in E /\ status[u] # "done"
BlockedWork == {t \in Task : status[t] \in AtWork /\ Blocked(t, deps)}

Idle == [at |-> "idle", who |-> "user", task |-> CHOOSE t \in Task : TRUE, prev |-> "inbox",
         had |-> "nobody", want |-> Keep, wantDeps |-> Keep, gives |-> Keep, next |-> "inbox",
         goes |-> "nobody", cut |-> {}, add |-> {}, reset |-> {}, free |-> {}]

\* Tasks as create_task leaves them: a task depends on older ones, and starts
\* in the inbox where one of them is not done.
Init ==
    /\ status \in [Task -> Status]
    /\ assignee = [t \in Task |-> "nobody"]
    /\ deps \in SUBSET {e \in Task \X Task : e[2] < e[1]}
    /\ \A t \in Task : Blocked(t, deps) => status[t] = "inbox"
    /\ pending = {} /\ approved = {}
    /\ lock = [t \in Task |-> NoOne]
    /\ call = [c \in Call |-> Idle]
    /\ asked = 0
    /\ history = [approved |-> {}, reviewed |-> {t \in Task : status[t] = "review"},
                  overtaken |-> {}, known |-> {}, crossed |-> FALSE]

-----------------------------------------------------------------------------
Unlocked(c) == [t \in Task |-> IF lock[t] = c THEN NoOne ELSE lock[t]]

Return(c) == call' = [call EXCEPT ![c] = Idle] /\ lock' = Unlocked(c)

\* The call is refused, or fails: its transaction is rolled back.
Refuse(c) ==
    /\ Return(c)
    /\ history' = [history EXCEPT !.overtaken = @ \ {c}]
    /\ UNCHANGED <<rowVars, approvalVars>>

\* update_task: the row is loaded, the copy stays.
Ask(c, t, r) ==
    /\ call[c].at = "idle" /\ asked < MaxCalls
    /\ call' = [call EXCEPT ![c] = [Idle EXCEPT !.at = "rules", !.who = r.who, !.task = t,
                   !.prev = status[t], !.had = assignee[t], !.want = r.want, !.wantDeps = r.wantDeps,
                   !.gives = r.gives]]
    /\ asked' = asked + 1
    /\ UNCHANGED <<rowVars, approvalVars, lock, history>>

\* The dependencies the call asks for, or those of its task.
Effective(c) ==
    LET t == call[c].task
    IN  IF call[c].wantDeps = Keep THEN {u \in Task : <<t, u>> \in deps} ELSE call[c].wantDeps

\* Variant: the graph is checked without the edit that is asked for.
DepsAllowedBefore(c) ==
    LET k == call[c]
    IN  k.wantDeps # Keep =>
            k.prev # "done" /\ k.task \notin k.wantDeps /\ (k.wantDeps # {} => ~HasCycle(Task, deps))

\* replace_task_dependencies, with the check of the board's whole graph.
DepsAllowed(c) ==
    LET k == call[c]
        E == {e \in deps : e[1] # k.task} \cup EdgesOf(k.task, k.wantDeps)
    IN  k.wantDeps # Keep =>
            k.prev # "done" /\ k.task \notin k.wantDeps /\ (k.wantDeps # {} => ~HasCycle(Task, E))

BlockedBy(c) == Blocked(call[c].task, EdgesOf(call[c].task, Effective(c)))

\* The call goes on to write status s and assignee a, and its dependencies.
Decide(c, s, a) ==
    LET t == call[c].task
        given == call[c].wantDeps # Keep
        added == EdgesOf(t, Effective(c))
    IN  call' = [call EXCEPT ![c] = [@ EXCEPT !.at = "flush", !.next = s, !.goes = a,
                    !.cut = IF given THEN {e \in deps : e[1] = t} ELSE {},
                    !.add = IF given THEN added ELSE {}]]

\* Who has the task, the payload's choice before the rule's.
Given(k, a) == IF k.gives = Keep THEN a ELSE k.gives

\* A task that comes to review goes to the lead, if the board has one
\* (_assign_review_task_to_lead).
Holders(c, s, a) == IF s = "review" /\ call[c].prev # "review" THEN {"lead", a} ELSE {a}

\* _apply_admin_task_rules: a blocked task goes back to the inbox, whatever was asked.
UserRules(c) ==
    LET k == call[c]
        target == IF k.want = Keep THEN k.prev ELSE k.want
        forced == BlockedBy(c) /\ ~(k.prev = "done" /\ target = "done")
        chosen == Given(k, IF k.want \in {"inbox", "review"} THEN "nobody" ELSE k.had)
    IN  \/ forced /\ Decide(c, "inbox", "nobody")
        \/ ~forced /\ \E a \in Holders(c, target, chosen) : Decide(c, target, a)

\* _apply_non_lead_agent_task_rules: whose task it is and, by its new status, becomes.
WorkerRules(c) ==
    LET k == call[c]
        chosen == IF k.want \in {"inbox", "review"} THEN "nobody" ELSE "worker"
    IN  \/ k.want = Keep /\ Decide(c, k.prev, k.had)
        \/ k.want # Keep /\ \E a \in Holders(c, k.want, chosen) : Decide(c, k.want, a)

\* What a lead may ask for (_lead_apply_status): to close or return what is in
\* review, to assign and start what is in the inbox.
LeadMay(k) ==
    \/ k.prev = "review" /\ k.want \in {"done", "inbox"}
    \/ k.prev = "inbox" /\ k.want = "in_progress" /\ k.gives = "worker"

\* A returned task goes to the worker who brought it to review, if one did.
LeadRules(c) ==
    LET k == call[c] IN
    \/ k.want \in {Keep, "done", "in_progress"}
          /\ Decide(c, IF k.want = Keep THEN k.prev ELSE k.want, Given(k, k.had))
    \/ k.want = "inbox" /\ \E a \in {"worker", "nobody"} : Decide(c, "inbox", a)

\* A worker touches no dependencies and no task of someone else, and assigns
\* nobody; a lead does not assign itself.  Workers and leads do not move a
\* blocked task, nor leads assign it, but that a worker may return it to the inbox.
Forbidden(c) ==
    LET k == call[c] IN
    \/ k.who = "worker" /\ (k.wantDeps # Keep \/ k.gives # Keep)
    \/ ~DepsAllowed(c)
    \/ /\ k.who = "worker" /\ k.want # Keep
       /\ k.had = "lead" \/ (k.want # "inbox" /\ BlockedBy(c))
    \/ k.who = "lead" /\ (k.gives = "lead" \/ (k.gives # Keep /\ BlockedBy(c)))
    \/ k.who = "lead" /\ k.want # Keep /\ (BlockedBy(c) \/ ~LeadMay(k))

\* The rules of the actor, by the copy and by the dependencies as they stand.
Rules(c) ==
    /\ call[c].at = "rules"
    /\ \/ Forbidden(c) /\ Refuse(c)
       \/ /\ ~Forbidden(c)
          /\ \/ call[c].who = "user" /\ UserRules(c)
             \/ call[c].who = "worker" /\ WorkerRules(c)
             \/ call[c].who = "lead" /\ LeadRules(c)
          /\ UNCHANGED <<rowVars, approvalVars, lock, history>>

\* Variant: the UPDATE is not flushed before the gates (no autoflush).
FlushLate(c) ==
    /\ call[c].at = "flush"
    /\ call' = [call EXCEPT ![c].at = "gates"]
    /\ UNCHANGED <<rowVars, approvalVars, lock, history>>

\* The first query of a gate flushes the UPDATE and so locks the row; where no
\* gate asks the commit does, and nothing of the call comes in between.
Flush(c) ==
    /\ call[c].at = "flush" /\ lock[call[c].task] = NoOne
    /\ lock' = [lock EXCEPT ![call[c].task] = c]
    /\ call' = [call EXCEPT ![c].at = "gates"]
    /\ UNCHANGED <<rowVars, approvalVars, history>>

\* status_requested, and the status differs from the copy.
PendingGate(c) ==
    LET k == call[c]
    IN  k.want \notin {Keep, k.prev} /\ k.next # k.prev /\ BlocksWithPending => k.task \notin pending

DoneGates(c) ==
    LET k == call[c]
    IN  k.next = "done" /\ k.prev # "done" =>
            /\ RequiresReview => k.prev = "review"
            /\ RequiresApproval => k.task \in approved

\* The gates of the board's rules, in one step: the first cannot change while
\* the row is locked.
Gates(c) ==
    /\ call[c].at = "gates"
    /\ \/ /\ PendingGate(c) /\ DoneGates(c)
          /\ call' = [call EXCEPT ![c].at = "commit"]
          /\ UNCHANGED <<rowVars, approvalVars, lock, history>>
       \/ ~(PendingGate(c) /\ DoneGates(c)) /\ Refuse(c)

\* Calls that decide, or have decided, by an older copy of t's row and edges,
\* and those that have decided on a task which depends on u.
Deciding == {c \in Call : call[c].at \in {"flush", "gates", "commit"}}
HoldingCopyOf(t) == {c \in Call : call[c].task = t /\ (call[c].at = "rules" \/ c \in Deciding)}
DecidingBy(u) == {c \in Deciding : <<call[c].task, u>> \in deps \cup call[c].add}

\* What the history says of tasks at work, when k of them are newly known to be blocked.
Known(k) == (history.known \cup k) \cap BlockedWork'

\* Tasks at work that wait for t again.
Waiting(t) == {d \in Task : <<d, t>> \in deps' /\ status'[d] \in AtWork}

\* The commit of the task's own row and edges, as the history sees it.
Remember(c) ==
    LET k == call[c]
        t == k.task
        reopened == status[t] = "done" /\ status'[t] # "done"
        silent == reopened /\ k.prev # "done"
        onPurpose == k.who = "lead" /\ k.want = Keep /\ k.wantDeps # Keep
    IN  history' = [history EXCEPT
          !.reviewed = IF status'[t] = "review" THEN @ \cup {t} ELSE @,
          !.overtaken = (@ \cup HoldingCopyOf(t) \cup (IF reopened THEN DecidingBy(t) ELSE {})) \ {c},
          !.known = Known((IF c \in history.overtaken \/ onPurpose THEN {t} ELSE {})
                          \cup (IF silent THEN Waiting(t) ELSE {})),
          !.crossed = @ \/ /\ k.wantDeps # Keep
                           /\ \E d \in Deciding \ {c} : call[d].wantDeps # Keep]

\* Edges that another call has inserted meanwhile are there already: the
\* unique constraint refuses them.
CommitFits(c) == call[c].add \cap (deps \ call[c].cut) = {}

\* The first commit, which is the last one of a lead: leads do not reopen
\* tasks, and for one that is done the dependents get an event, no more.
Commit(c) ==
    LET k == call[c]
        t == k.task
    IN  /\ k.at = "commit"
        /\ \/ /\ CommitFits(c)
              /\ status' = [status EXCEPT ![t] = Flushed(k.prev, k.next, @)]
              /\ assignee' = [assignee EXCEPT ![t] = Flushed(k.had, k.goes, @)]
              /\ deps' = (deps \ k.cut) \cup k.add
              /\ Remember(c)
              /\ IF k.who = "lead" THEN Return(c)
                 ELSE /\ call' = [call EXCEPT ![c] = [Idle EXCEPT !.at = "refresh", !.who = k.who,
                                                         !.task = t, !.prev = k.prev]]
                      /\ lock' = Unlocked(c)
              /\ UNCHANGED approvalVars
           \/ ~CommitFits(c) /\ Refuse(c)

\* The row is read again: what the task became is compared with the copy.
Refresh(c) ==
    LET k == call[c] IN
    /\ k.at = "refresh"
    /\ IF k.prev = "done" /\ status[k.task] # "done"
       THEN call' = [call EXCEPT ![c].at = "toggle"] /\ UNCHANGED lock
       ELSE Return(c)
    /\ UNCHANGED <<rowVars, approvalVars, history>>

\* Variant: dependents in review are passed over.
ToggleInProgress(c) ==
    LET dependents == {d \in Task : <<d, call[c].task>> \in deps /\ status[d] = "in_progress"} IN
    /\ call[c].at = "toggle"
    /\ call' = [call EXCEPT ![c].at = "reset", ![c].reset = dependents, ![c].free = dependents]
    /\ UNCHANGED <<rowVars, approvalVars, lock, history>>

\* _reconcile_dependents_for_dependency_toggle reads the dependents of a task
\* that was reopened: those not done are to go back to the inbox.
Toggle(c) ==
    LET dependents == {d \in Task : <<d, call[c].task>> \in deps /\ status[d] # "done"} IN
    /\ call[c].at = "toggle"
    /\ call' = [call EXCEPT ![c].at = "reset",
                    ![c].reset = {d \in dependents : status[d] # "inbox"},
                    ![c].free = {d \in dependents : assignee[d] # "nobody"}]
    /\ UNCHANGED <<rowVars, approvalVars, lock, history>>

\* Calls that hold copies of what is reset, or go by a dependency that is.
OvertakenByReset(c) ==
    {x \in Call : \E d \in call[c].reset :
        x \in HoldingCopyOf(d) \/ (status[d] = "done" /\ x \in DecidingBy(d))}

\* The second commit, which waits for the rows it writes; no gate is asked.  A
\* dependent that was done meanwhile is reopened, and its dependents are not read.
Reset(c) ==
    LET k == call[c] IN
    /\ k.at = "reset"
    /\ \A d \in k.reset \cup k.free : lock[d] = NoOne
    /\ UNCHANGED <<deps, approvalVars>>
    /\ status' = [d \in Task |-> IF d \in k.reset THEN "inbox" ELSE status[d]]
    /\ assignee' = [d \in Task |-> IF d \in k.free THEN "nobody" ELSE assignee[d]]
    /\ history' = [history EXCEPT
          !.known = Known(UNION {Waiting(d) : d \in {u \in k.reset : status[u] = "done"}}),
          !.overtaken = @ \cup OvertakenByReset(c)]
    /\ Return(c)

\* The database fails or the process dies.  After the first commit that leaves
\* the dependents as they are.
Abort(c) ==
    /\ call[c].at # "idle"
    /\ Return(c)
    /\ history' = [history EXCEPT !.overtaken = @ \ {c},
          !.known = IF call[c].at \in {"refresh", "toggle", "reset"} /\ call[c].prev = "done"
                    THEN @ \cup {d \in BlockedWork : <<d, call[c].task>> \in deps} ELSE @]
    /\ UNCHANGED <<rowVars, approvalVars>>

Step(c) == Rules(c) \/ Flush(c) \/ Gates(c) \/ Commit(c) \/ Refresh(c) \/ Toggle(c) \/ Reset(c)

-----------------------------------------------------------------------------
(* The approvals, as TaskApprovals has them.  A call on approvals may hold   *)
(* the rows no call of update_task holds.                                    *)

TA == INSTANCE TaskApprovals WITH live <- Task, held <- {t \in Task : lock[t] = NoOne}

File(T) == TA!File(T)
Approve(T) == TA!Approve(T)
Reject(T) == TA!Reject(T)

ApprovalStep(T) ==
    /\ File(T) \/ Approve(T) \/ Reject(T)
    /\ history' = [history EXCEPT !.approved = @ \cup approved']
    /\ UNCHANGED <<rowVars, lock, call>>

Next ==
    \/ \E c \in Call, t \in Task, r \in Request : Ask(c, t, r)
    \/ \E c \in Call : (Step(c) \/ Abort(c)) /\ UNCHANGED asked
    \/ \E T \in SUBSET Decidable : ApprovalStep(T) /\ UNCHANGED asked

Spec == Init /\ [][Next]_vars

-----------------------------------------------------------------------------
(* Properties. *)

CallRecord == [at : {"idle", "rules", "flush", "gates", "commit", "refresh", "toggle", "reset"},
               who : Actor, task : Task, prev : Status, had : Assignee,
               want : Status \cup {Keep}, wantDeps : (SUBSET Task) \cup {Keep},
               gives : Assignee \cup {Keep}, next : Status, goes : Assignee,
               cut : SUBSET (Task \X Task), add : SUBSET (Task \X Task),
               reset : SUBSET Task, free : SUBSET Task]

TypeOK ==
    /\ status \in [Task -> Status] /\ assignee \in [Task -> Assignee]
    /\ deps \subseteq Task \X Task
    /\ pending \subseteq Task /\ approved \subseteq Task
    /\ lock \in [Task -> Call \cup {NoOne}]
    /\ call \in [Call -> CallRecord]
    /\ asked \in Nat

\* What a call changes without having been asked: it resets a dependent of the
\* task it reopened, or sends a blocked task back to the inbox.
Unasked(c, t) ==
    \/ t \in call[c].reset
    \/ call[c].task = t /\ call[c].want \in {Keep, call[c].prev}

\* "Prevent status transitions while any linked approval is in pending state"
\* (boards/[boardId]/edit/page.tsx): whatever copies the calls hold, and
\* however approvals are filed meanwhile, a task with a pending approval is
\* only ever sent back to the inbox because of a dependency.
PendingHoldsStatus ==
    [][\A t \in pending :
          BlocksWithPending /\ status'[t] # status[t] =>
              status'[t] = "inbox" /\ \E c \in Call : Unasked(c, t)]_vars

\* The rules on being done: a task becomes done only if it was approved and was
\* in review at some time, also by calls whose copy says that it is done
\* already and which pass no gate.
DoneWasJustified ==
    [][\A t \in Task :
          status[t] # "done" /\ status'[t] = "done" =>
              /\ RequiresApproval => t \in history.approved
              /\ RequiresReview => t \in history.reviewed]_vars

\* "The UI models dependencies as a DAG": a circle, whose tasks can never be
\* done, takes two overlapping edits.
CircleNeedsOverlap == Circle(Task, deps) => history.crossed

\* _has_cycle finds a circle exactly where there is one: in every graph the
\* edits lead to and, looked at before the first of them, in all of three nodes.
SearchIsExact ==
    /\ HasCycle(Task, deps) <=> Circle(Task, deps)
    /\ asked = 0 => \A E \in SUBSET ((1 .. 3) \X (1 .. 3)) :
                        HasCycle(1 .. 3, E) <=> Circle(1 .. 3, E)

\* _reconcile_dependents_for_dependency_toggle: a blocked task is not at work,
\* unless a call will still reset it or the reason is one of these: the lead
\* gave it the dependency while it was at work, a call decided before the
\* dependency was reopened, the dependency was reopened from a copy that did
\* not say done or by a reset of its own, or a call was cut off between its two
\* commits.
BlockedWorkIsKnown ==
    \A d \in BlockedWork :
        \/ d \in history.known
        \/ \E c \in Call :
              \/ call[c].at \in {"refresh", "toggle"} /\ call[c].prev = "done"
                    /\ <<d, call[c].task>> \in deps
              \/ call[c].at = "reset" /\ d \in call[c].reset
=============================================================================
