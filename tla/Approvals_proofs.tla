--------------------------- MODULE Approvals_proofs ---------------------------
(***************************************************************************)
(* Proofs about Approvals for any number of approvals, tasks and calls.    *)
(***************************************************************************)
EXTENDS Approvals, TLAPS

\* A call that is about to make an approval pending: it files one, or it
\* reopens one that it has loaded as resolved.
Reserves(c) ==
    \/ call[c].at = "insert" /\ call[c].want = "pending"
    \/ call[c].at = "write" /\ call[c].want = "pending" /\ call[c].prior # "pending"

\* From its check to its commit such a call holds the locks of its tasks ...
HoldsLocks ==
    \A c \in Call : call[c].at = "check" \/ Reserves(c) =>
        \A t \in call[c].about \cap live : lock[t] = c

\* ... and what it has found in the check stays true.
StaysClear == \A c \in Call : Reserves(c) => Conflicts(c) = {}

\* A call that stands at or behind an update has an approval ...
Named ==
    \A c \in Call : /\ call[c].at = "insert" => call[c].ap = NoApproval
                    /\ call[c].at \in {"write", "refresh", "tell"} => call[c].ap \in Approval

\* ... whose row exists or did, and has gained no task since it was loaded.
KnowsTasks ==
    \A c \in Call : call[c].at # "idle" /\ call[c].ap \in Approval =>
        /\ status[call[c].ap] # "unused"
        /\ call[c].at \in {"lock", "check", "write"} => tasks[call[c].ap] \subseteq call[c].about

IInv == TypeOK /\ Named /\ HoldsLocks /\ StaysClear /\ KnowsTasks /\ OnePendingPerTask

-----------------------------------------------------------------------------
(* Types. *)

LEMMA IdleType == Idle \in CallRecord
  BY DEF Idle, CallRecord, ApprovalStatus

\* Letting locks go, and ending a call, keep the types.
LEMMA ReturnType ==
    ASSUME TypeOK, NEW c \in Call
    PROVE  /\ Unlocked(c) \in [Task -> Call \cup {NoOne}]
           /\ Return(c) => call' \in [Call -> CallRecord] /\ lock' \in [Task -> Call \cup {NoOne}]
  BY IdleType DEF TypeOK, Unlocked, Return

\* Going to another step keeps them, too.
LEMMA GotoType ==
    ASSUME TypeOK, NEW c \in Call, Goto(c, "check") \/ Goto(c, "insert") \/ Goto(c, "write")
    PROVE  call' \in [Call -> CallRecord]
  BY DEF TypeOK, Goto, CallRecord

\* The step a call takes changes its own record only.
LEMMA OwnRecord ==
    ASSUME TypeOK, NEW c \in Call, NEW d \in Call, d # c, Step(c) \/ Abort(c)
    PROVE  call'[d] = call[d]
  BY DEF Step, Abort, Lock, Check, Write, Refresh, Tell, Miss, Rollback, Insert, Goto, Return,
         Committed, TypeOK

LEMMA NextNamed == TypeOK /\ Named /\ [Next]_vars => Named'
  <1> SUFFICES ASSUME TypeOK, Named, [Next]_vars PROVE Named'
    OBVIOUS
  <1> USE DEF TypeOK, Named, CallRecord
  <1>1. ASSUME NEW c \in Call, NEW s \in ApprovalStatus, NEW ts \in SUBSET live, AskCreate(c, ts, s)
        PROVE  Named'
    BY <1>1 DEF AskCreate
  <1>2. ASSUME NEW c \in Call, NEW s \in ApprovalStatus, NEW a \in Approval, AskUpdate(c, a, s)
        PROVE  Named'
    BY <1>2 DEF AskUpdate
  <1>3. ASSUME NEW c \in Call, Lock(c) PROVE Named'
    BY <1>3 DEF Lock, Goto
  <1>4. ASSUME NEW c \in Call, Check(c) PROVE Named'
    BY <1>4 DEF Check, Goto, Return, Idle, Creates
  <1>5. ASSUME NEW c \in Call, NEW a \in Approval, Insert(c, a) PROVE Named'
    BY <1>5 DEF Insert, Return, Idle
  <1>6. ASSUME NEW c \in Call, Write(c) PROVE Named'
    BY <1>6 DEF Write, Committed
  <1>7. ASSUME NEW c \in Call, Refresh(c) PROVE Named'
    BY <1>7 DEF Refresh, Return, Idle
  <1>8. ASSUME NEW c \in Call, Tell(c) \/ Rollback(c) PROVE Named'
    BY <1>8 DEF Tell, Rollback, Return, Idle
  <1>9. ASSUME NEW t \in Task, DeleteTask(t) PROVE Named'
    BY <1>9 DEF DeleteTask
  <1>10. CASE UNCHANGED vars
    BY <1>10 DEF vars
  <1> QED
    BY <1>1, <1>2, <1>3, <1>4, <1>5, <1>6, <1>7, <1>8, <1>9, <1>10, AskedAssumption
    DEF Next, Step, Miss, Abort

LEMMA NextType == TypeOK /\ Named /\ [Next]_vars => TypeOK'
  <1> SUFFICES ASSUME TypeOK, Named, [Next]_vars PROVE TypeOK'
    OBVIOUS
  <1>1. ASSUME NEW c \in Call, NEW s \in ApprovalStatus, NEW ts \in SUBSET live, AskCreate(c, ts, s)
        PROVE  TypeOK'
    <2>1. [at |-> IF s = "pending" /\ ts # {} THEN "lock" ELSE "insert",
           ap |-> NoApproval, prior |-> s, want |-> s, about |-> ts] \in CallRecord
      BY DEF CallRecord, TypeOK
    <2> QED
      BY <1>1, <2>1 DEF AskCreate, TypeOK, rowVars
  <1>2. ASSUME NEW c \in Call, NEW s \in ApprovalStatus, NEW a \in Approval, AskUpdate(c, a, s)
        PROVE  TypeOK'
    <2>1. [at |-> IF s = "pending" /\ status[a] # "pending" /\ tasks[a] # {} THEN "lock" ELSE "write",
           ap |-> a, prior |-> status[a], want |-> s, about |-> tasks[a]] \in CallRecord
      BY <1>2 DEF AskUpdate, Exists, CallRecord, TypeOK
    <2> QED
      BY <1>2, <2>1 DEF AskUpdate, TypeOK, rowVars
  <1>3. ASSUME NEW c \in Call, Lock(c) PROVE TypeOK'
    <2>1. CASE Goto(c, "check") /\ UNCHANGED lock
      BY <1>3, <2>1, GotoType DEF Lock, TypeOK, rowVars
    <2>2. CASE UNCHANGED call /\ \E t \in ToLock(c) : lock' = [lock EXCEPT ![t] = c]
      BY <1>3, <2>2 DEF Lock, ToLock, TypeOK, rowVars
    <2> QED
      BY <1>3, <2>1, <2>2 DEF Lock
  <1>4. ASSUME NEW c \in Call, Check(c) PROVE TypeOK'
    <2>1. CASE Return(c)
      BY <1>4, <2>1, ReturnType DEF Check, TypeOK, rowVars
    <2>2. CASE Goto(c, IF Creates(c) THEN "insert" ELSE "write") /\ UNCHANGED lock
      BY <1>4, <2>2, GotoType DEF Check, TypeOK, rowVars
    <2> QED
      BY <1>4, <2>1, <2>2 DEF Check
  <1>5. ASSUME NEW c \in Call, NEW a \in Approval, Insert(c, a) PROVE TypeOK'
    <2>1. call[c].want \in ApprovalStatus /\ call[c].about \in SUBSET live
      BY <1>5 DEF Insert, TypeOK, CallRecord
    <2> QED
      BY <1>5, <2>1, ReturnType DEF Insert, TypeOK
  <1>6. ASSUME NEW c \in Call, Write(c) PROVE TypeOK'
    <2>1. call[c].want \in ApprovalStatus /\ call[c].ap \in Approval
      BY <1>6 DEF Write, Named, TypeOK, CallRecord
    <2>2. /\ status' \in [Approval -> ApprovalStatus \cup {"unused", "deleted"}]
          /\ untold' \subseteq Approval
      BY <1>6, <2>1 DEF Write, Flushed, UntoldAfter, TypeOK
    <2>3. [call[c] EXCEPT !.at = "refresh", !.want = "pending", !.about = {}] \in CallRecord
      BY DEF TypeOK, CallRecord, ApprovalStatus
    <2>4. call' \in [Call -> CallRecord]
      BY <1>6, <2>3 DEF Write, Committed, TypeOK
    <2> QED
      BY <1>6, <2>2, <2>4, ReturnType DEF Write, Committed, TypeOK
  <1>7. ASSUME NEW c \in Call, Refresh(c) PROVE TypeOK'
    <2>1. CASE Return(c)
      BY <1>7, <2>1, ReturnType DEF Refresh, TypeOK, rowVars
    <2>2. CASE ~Return(c)
      <3>1. PICK s \in ApprovalStatus : call' = [call EXCEPT ![c].at = "tell", ![c].want = s]
        BY <1>7, <2>2 DEF Refresh, Exists
      <3>3. call[c] \in CallRecord
        BY DEF TypeOK
      <3>4. [call[c] EXCEPT !.at = "tell", !.want = s] \in CallRecord
        BY <3>3 DEF CallRecord
      <3>2. call' \in [Call -> CallRecord]
        BY <3>1, <3>4 DEF TypeOK
      <3> QED
        BY <1>7, <2>2, <3>2 DEF Refresh, TypeOK, rowVars
    <2> QED
      BY <2>1, <2>2
  <1>8. ASSUME NEW c \in Call, Tell(c) PROVE TypeOK'
    BY <1>8, ReturnType DEF Tell, TypeOK, rowVars
  <1>9. ASSUME NEW c \in Call, Rollback(c) PROVE TypeOK'
    BY <1>9, ReturnType DEF Rollback, TypeOK, rowVars
  <1>10. ASSUME NEW t \in Task, DeleteTask(t) PROVE TypeOK'
    BY <1>10 DEF DeleteTask, TypeOK
  <1>11. CASE UNCHANGED vars
    BY <1>11 DEF vars, TypeOK
  <1> QED
    BY <1>1, <1>2, <1>3, <1>4, <1>5, <1>6, <1>7, <1>8, <1>9, <1>10, <1>11, AskedAssumption
    DEF Next, Step, Miss, Abort

LEMMA InitBase == Init => TypeOK /\ Named
  BY IdleType DEF Init, TypeOK, Named, Idle

\* The variables stay in their domains, and every approval is about tasks that
\* exist: deleting a task takes its links with it.
THEOREM TypeCorrect == Spec => []TypeOK
  BY InitBase, NextType, NextNamed, PTL DEF Spec

-----------------------------------------------------------------------------
(* One pending approval per task. *)

Unharmed == HoldsLocks /\ StaysClear /\ KnowsTasks /\ OnePendingPerTask

\* A call that ends and writes nothing harms no other.
LEMMA ReturnSafe ==
    ASSUME IInv, NEW c \in Call, Return(c), UNCHANGED rowVars
    PROVE  Unharmed'
  <1>1. call'[c].at = "idle" /\ ~Reserves(c)'
    BY DEF IInv, TypeOK, Return, Idle, Reserves
  <1>2. \A d \in Call \ {c} : call'[d] = call[d] /\ \A t \in Task : lock[t] = d => lock'[t] = d
    BY DEF IInv, TypeOK, Return, Unlocked
  <1>3. HoldsLocks'
    BY <1>1, <1>2 DEF IInv, TypeOK, HoldsLocks, Reserves, rowVars
  <1>4. StaysClear'
    BY <1>1, <1>2 DEF IInv, StaysClear, Reserves, Conflicts, rowVars
  <1>5. KnowsTasks'
    BY <1>1, <1>2 DEF IInv, KnowsTasks, rowVars
  <1>6. OnePendingPerTask'
    BY DEF IInv, OnePendingPerTask, rowVars
  <1> QED
    BY <1>3, <1>4, <1>5, <1>6 DEF Unharmed

\* A call that begins has not found anything yet, or is about no task.
LEMMA AskSafe ==
    ASSUME IInv, NEW c \in Call, UNCHANGED <<rowVars, lock>>,
           NEW r, call' = [call EXCEPT ![c] = r],
           r.at \in {"lock", "insert", "write"},
           r.at = "lock" \/ r.about = {} \/ r.want # "pending" \/ (r.at = "write" /\ r.prior = "pending"),
           r.ap \in Approval => status[r.ap] # "unused" /\ tasks[r.ap] \subseteq r.about
    PROVE  Unharmed'
  <1>1. call'[c] = r /\ \A d \in Call \ {c} : call'[d] = call[d]
    BY DEF IInv, TypeOK
  <1>2. r.about = {} \/ ~(r.at = "check" \/ Reserves(c)')
    BY <1>1 DEF Reserves
  <1>3. HoldsLocks'
    BY <1>1, <1>2 DEF IInv, HoldsLocks, Reserves, rowVars
  <1>4. StaysClear'
    BY <1>1, <1>2 DEF IInv, StaysClear, Reserves, Conflicts, rowVars
  <1>5. KnowsTasks'
    BY <1>1 DEF IInv, KnowsTasks, rowVars
  <1>6. OnePendingPerTask'
    BY DEF IInv, OnePendingPerTask, rowVars
  <1> QED
    BY <1>3, <1>4, <1>5, <1>6 DEF Unharmed

LEMMA LockSafe == ASSUME IInv, NEW c \in Call, Lock(c) PROVE Unharmed'
  <1>1. \A d \in Call \ {c} : call'[d] = call[d] /\ \A t \in Task : lock[t] = d => lock'[t] = d
    BY NobodyAssumption DEF IInv, TypeOK, Lock, Goto, ToLock
  <1>2. /\ call'[c].at \in {"lock", "check"} /\ call'[c].ap = call[c].ap
        /\ call'[c].about = call[c].about /\ call[c].at = "lock"
    BY DEF IInv, TypeOK, CallRecord, Lock, Goto
  <1>3. call'[c].at = "check" => \A t \in call[c].about \cap live : lock'[t] = c
    BY <1>2 DEF Lock, ToLock
  <1>4. ~Reserves(c)'
    BY <1>2 DEF Reserves
  <1>5. HoldsLocks'
    BY <1>1, <1>2, <1>3, <1>4 DEF IInv, TypeOK, HoldsLocks, Reserves, Lock, rowVars
  <1>6. StaysClear'
    BY <1>1, <1>4 DEF IInv, StaysClear, Reserves, Conflicts, Lock, rowVars
  <1>7. KnowsTasks'
    BY <1>1, <1>2 DEF IInv, KnowsTasks, Lock, rowVars
  <1>8. OnePendingPerTask'
    BY DEF IInv, OnePendingPerTask, Lock, rowVars
  <1> QED
    BY <1>5, <1>6, <1>7, <1>8 DEF Unharmed

LEMMA CheckSafe == ASSUME IInv, NEW c \in Call, Check(c) PROVE Unharmed'
  <1>1. CASE Return(c)
    BY <1>1, ReturnSafe DEF Check
  <1>2. CASE /\ Conflicts(c) = {} /\ UNCHANGED lock
             /\ Goto(c, IF Creates(c) THEN "insert" ELSE "write")
    <2>1. \A d \in Call \ {c} : call'[d] = call[d]
      BY <1>2 DEF IInv, TypeOK, Goto
    <2>2. /\ call[c].at = "check" /\ call'[c].at # "check" /\ call'[c].ap = call[c].ap
          /\ call'[c].about = call[c].about
      BY <1>2 DEF Check, IInv, TypeOK, CallRecord, Goto
    <2>3. UNCHANGED <<status, tasks, live, lock>>
      BY <1>2 DEF Check, rowVars
    <2>4. HoldsLocks'
      BY <2>1, <2>2, <2>3 DEF IInv, HoldsLocks, Reserves
    <2>5. Conflicts(c)' = {}
      BY <1>2, <2>2, <2>3 DEF Conflicts
    <2>6. StaysClear'
      BY <2>1, <2>3, <2>5 DEF IInv, StaysClear, Reserves, Conflicts
    <2>7. KnowsTasks'
      BY <2>1, <2>2, <2>3 DEF IInv, KnowsTasks
    <2>8. OnePendingPerTask'
      BY <2>3 DEF IInv, OnePendingPerTask
    <2> QED
      BY <2>4, <2>6, <2>7, <2>8 DEF Unharmed
  <1> QED
    BY <1>1, <1>2 DEF Check

\* Two calls that would each make an approval for a task pending cannot both
\* hold the lock of the task.
LEMMA OneReserves ==
    ASSUME IInv, NEW c \in Call, NEW d \in Call, c # d, Reserves(c), Reserves(d)
    PROVE  call[c].about \cap call[d].about \cap live = {}
  BY DEF IInv, HoldsLocks

LEMMA InsertSafe ==
    ASSUME IInv, NEW c \in Call, NEW a \in Approval, Insert(c, a)
    PROVE  Unharmed'
  <1>1. call'[c].at = "idle" /\ ~Reserves(c)'
    BY DEF IInv, TypeOK, Insert, Return, Idle, Reserves
  <1>2. \A d \in Call \ {c} : call'[d] = call[d] /\ \A t \in Task : lock[t] = d => lock'[t] = d
    BY DEF IInv, TypeOK, Insert, Return, Unlocked
  <1>3. \A b \in Approval \ {a} : status'[b] = status[b] /\ tasks'[b] = tasks[b]
    BY DEF IInv, TypeOK, Insert
  <1>4. /\ status'[a] = call[c].want /\ tasks'[a] = call[c].about /\ live' = live
        /\ status[a] = "unused" /\ call[c].at = "insert" /\ call[c].about \subseteq live
    BY DEF IInv, TypeOK, Insert
  <1>5. status'[a] = "pending" => Reserves(c)
    BY <1>4 DEF Reserves
  <1>6. HoldsLocks'
    BY <1>1, <1>2, <1>4 DEF IInv, TypeOK, HoldsLocks, Reserves
  <1>7. StaysClear'
    <2> SUFFICES ASSUME NEW d \in Call, Reserves(d)', NEW b \in Approval, b \in Conflicts(d)'
                 PROVE  FALSE
      BY DEF StaysClear, Conflicts
    <2>1. d # c /\ call'[d] = call[d] /\ Reserves(d)
      BY <1>1, <1>2 DEF Reserves
    <2>2. CASE b = a
      BY <1>4, <1>5, <2>1, <2>2, OneReserves DEF Conflicts
    <2>3. CASE b # a
      BY <1>3, <2>1, <2>3 DEF IInv, StaysClear, Conflicts
    <2> QED
      BY <2>2, <2>3
  <1>8. KnowsTasks'
    BY <1>1, <1>2, <1>3, <1>4 DEF IInv, KnowsTasks
  <1>9. OnePendingPerTask'
    <2>1. call[c].ap \notin Approval
      BY <1>4, NobodyAssumption DEF IInv, Named
    <2>2. status'[a] = "pending" =>
            \A b \in Approval : status[b] = "pending" => tasks[b] \cap tasks'[a] = {}
      BY <1>4, <1>5, <2>1 DEF IInv, StaysClear, Conflicts
    <2> QED
      BY <1>3, <2>2 DEF IInv, OnePendingPerTask
  <1> QED
    BY <1>6, <1>7, <1>8, <1>9 DEF Unharmed

LEMMA WriteSafe == ASSUME IInv, NEW c \in Call, Write(c) PROVE Unharmed'
  <1> DEFINE a == call[c].ap
  <1>1. a \in Approval /\ call[c].at = "write"
    BY DEF IInv, Named, Write
  <1>2. /\ call'[c].at = "refresh" /\ call'[c].ap = a /\ ~Reserves(c)'
        /\ \A d \in Call \ {c} : call'[d] = call[d] /\ \A t \in Task : lock[t] = d => lock'[t] = d
    BY DEF IInv, TypeOK, CallRecord, Write, Committed, Unlocked, Reserves
  <1>3. /\ \A b \in Approval \ {a} : status'[b] = status[b]
        /\ UNCHANGED <<tasks, live>>
    BY DEF IInv, TypeOK, Write
  <1>4. status'[a] # "unused" /\ (status'[a] = "pending" /\ status[a] # "pending" => Reserves(c))
    BY <1>1 DEF IInv, TypeOK, CallRecord, ApprovalStatus, Exists, Write, Flushed, Reserves
  <1>5. tasks[a] \subseteq call[c].about /\ tasks[a] \subseteq live
    BY <1>1 DEF IInv, KnowsTasks, TypeOK
  <1> HIDE DEF a
  <1>6. HoldsLocks'
    BY <1>2, <1>3 DEF IInv, TypeOK, HoldsLocks, Reserves
  <1>7. StaysClear'
    <2> SUFFICES ASSUME NEW d \in Call, Reserves(d)', NEW b \in Approval, b \in Conflicts(d)'
                 PROVE  FALSE
      BY DEF StaysClear, Conflicts
    <2>1. d # c /\ call'[d] = call[d] /\ Reserves(d)
      BY <1>2 DEF Reserves
    <2>2. CASE b = a /\ status[a] # "pending"
      BY <1>3, <1>4, <1>5, <2>1, <2>2, OneReserves DEF Conflicts
    <2>3. CASE b # a \/ status[a] = "pending"
      BY <1>3, <2>1, <2>3 DEF IInv, StaysClear, Conflicts
    <2> QED
      BY <2>2, <2>3
  <1>8. KnowsTasks'
    BY <1>1, <1>2, <1>3, <1>4 DEF IInv, KnowsTasks
  <1>9. OnePendingPerTask'
    <2>1. status'[a] = "pending" /\ status[a] # "pending" =>
            \A b \in Approval \ {a} : status[b] = "pending" => tasks[b] \cap tasks[a] = {}
      BY <1>4, <1>5 DEF a, IInv, StaysClear, Conflicts
    <2> QED
      BY <1>3, <2>1 DEF IInv, OnePendingPerTask
  <1> QED
    BY <1>6, <1>7, <1>8, <1>9 DEF Unharmed

LEMMA RefreshSafe == ASSUME IInv, NEW c \in Call, Refresh(c) PROVE Unharmed'
  <1>1. CASE Return(c)
    BY <1>1, ReturnSafe DEF Refresh
  <1>2. CASE ~Return(c)
    <2>1. /\ call'[c].at = "tell" /\ call'[c].ap = call[c].ap /\ call[c].at = "refresh"
          /\ \A d \in Call \ {c} : call'[d] = call[d]
      BY <1>2 DEF IInv, TypeOK, CallRecord, Refresh
    <2>2. UNCHANGED <<status, tasks, live, lock>>
      BY <1>2 DEF Refresh, rowVars
    <2>3. HoldsLocks'
      BY <2>1, <2>2 DEF IInv, HoldsLocks, Reserves
    <2>4. StaysClear'
      BY <2>1, <2>2 DEF IInv, StaysClear, Reserves, Conflicts
    <2>5. KnowsTasks'
      BY <2>1, <2>2 DEF IInv, KnowsTasks
    <2>6. OnePendingPerTask'
      BY <2>2 DEF IInv, OnePendingPerTask
    <2> QED
      BY <2>3, <2>4, <2>5, <2>6 DEF Unharmed
  <1> QED
    BY <1>1, <1>2

\* A deleted task takes approvals and links away, and no lock is held on it.
LEMMA DeleteSafe == ASSUME IInv, NEW t \in Task, DeleteTask(t) PROVE Unharmed'
  <1>1. live' \subseteq live /\ UNCHANGED <<lock, call>>
    BY DEF DeleteTask
  <1>2. \A a \in Approval :
          /\ status'[a] = status[a] \/ status'[a] = "deleted"
          /\ tasks'[a] \subseteq tasks[a]
    BY DEF DeleteTask, IInv, TypeOK
  <1>3. HoldsLocks'
    BY <1>1 DEF IInv, HoldsLocks, Reserves
  <1>4. StaysClear'
    BY <1>1, <1>2 DEF IInv, StaysClear, Reserves, Conflicts
  <1>5. KnowsTasks'
    BY <1>1, <1>2 DEF IInv, KnowsTasks
  <1>6. OnePendingPerTask'
    BY <1>2 DEF IInv, OnePendingPerTask
  <1> QED
    BY <1>3, <1>4, <1>5, <1>6 DEF Unharmed

LEMMA NextUnharmed == IInv /\ [Next]_vars => Unharmed'
  <1> SUFFICES ASSUME IInv, [Next]_vars PROVE Unharmed'
    OBVIOUS
  <1>1. ASSUME NEW c \in Call, NEW s \in ApprovalStatus, NEW ts \in SUBSET live, AskCreate(c, ts, s)
        PROVE  Unharmed'
    <2> DEFINE r == [at |-> IF s = "pending" /\ ts # {} THEN "lock" ELSE "insert",
                     ap |-> NoApproval, prior |-> s, want |-> s, about |-> ts]
    <2>1. /\ r.at = IF s = "pending" /\ ts # {} THEN "lock" ELSE "insert"
          /\ r.ap = NoApproval /\ r.want = s /\ r.about = ts
      OBVIOUS
    <2>2. call' = [call EXCEPT ![c] = r] /\ UNCHANGED <<rowVars, lock>>
      BY <1>1 DEF AskCreate
    <2> HIDE DEF r
    <2>3. r.at \in {"lock", "insert", "write"} /\ r.ap \notin Approval
      BY <2>1, NobodyAssumption
    <2>4. r.at = "lock" \/ r.about = {} \/ r.want # "pending" \/ (r.at = "write" /\ r.prior = "pending")
      BY <2>1
    <2>5. r.ap \in Approval => status[r.ap] # "unused" /\ tasks[r.ap] \subseteq r.about
      BY <2>3
    <2> QED
      BY <2>2, <2>3, <2>4, <2>5, AskSafe, Zenon
  <1>2. ASSUME NEW c \in Call, NEW s \in ApprovalStatus, NEW a \in Approval, AskUpdate(c, a, s)
        PROVE  Unharmed'
    <2> DEFINE r == [at |-> IF s = "pending" /\ status[a] # "pending" /\ tasks[a] # {}
                            THEN "lock" ELSE "write",
                     ap |-> a, prior |-> status[a], want |-> s, about |-> tasks[a]]
    <2>1. /\ r.at = IF s = "pending" /\ status[a] # "pending" /\ tasks[a] # {} THEN "lock" ELSE "write"
          /\ r.ap = a /\ r.prior = status[a] /\ r.want = s /\ r.about = tasks[a]
      OBVIOUS
    <2>2. call' = [call EXCEPT ![c] = r] /\ UNCHANGED <<rowVars, lock>>
      BY <1>2 DEF AskUpdate
    <2> HIDE DEF r
    <2>3. r.at \in {"lock", "insert", "write"}
      BY <2>1
    <2>4. r.at = "lock" \/ r.about = {} \/ r.want # "pending" \/ (r.at = "write" /\ r.prior = "pending")
      BY <2>1
    <2>5. r.ap \in Approval => status[r.ap] # "unused" /\ tasks[r.ap] \subseteq r.about
      BY <1>2, <2>1 DEF AskUpdate, Exists, ApprovalStatus
    <2> QED
      BY <2>2, <2>3, <2>4, <2>5, AskSafe, Zenon
  <1>3. ASSUME NEW c \in Call, Tell(c) \/ Rollback(c) PROVE Unharmed'
    BY <1>3, ReturnSafe DEF Tell, Rollback
  <1>4. CASE UNCHANGED vars
    BY <1>4 DEF vars, rowVars, IInv, Unharmed, HoldsLocks, StaysClear, KnowsTasks,
                OnePendingPerTask, Reserves, Conflicts
  <1> QED
    BY <1>1, <1>2, <1>3, <1>4, LockSafe, CheckSafe, InsertSafe, WriteSafe, RefreshSafe, DeleteSafe,
       AskedAssumption
    DEF Next, Step, Miss, Abort

LEMMA InitInv == Init => IInv
  <1> SUFFICES ASSUME Init PROVE IInv
    OBVIOUS
  <1>1. \A c \in Call : call[c].at = "idle"
    BY DEF Init, Idle
  <1>2. \A a \in Approval : status[a] = "unused"
    BY DEF Init
  <1> QED
    BY <1>1, <1>2, InitBase
    DEF IInv, HoldsLocks, StaysClear, KnowsTasks, OnePendingPerTask, Reserves

\* However calls overlap, a task has at most one pending approval.
THEOREM OnePendingForEachTask == Spec => []OnePendingPerTask
  <1>1. IInv /\ [Next]_vars => IInv'
    BY NextType, NextNamed, NextUnharmed DEF IInv, Unharmed
  <1>2. IInv => OnePendingPerTask
    BY DEF IInv
  <1> QED
    BY InitInv, <1>1, <1>2, PTL DEF Spec

-----------------------------------------------------------------------------
(* Decisions are told. *)

\* A call that will tell the lead of the decision that stands: it finds it when
\* it reads the row again, or it has found it.
Telling(c, a) ==
    /\ call[c].ap = a
    /\ \/ call[c].at = "refresh" /\ call[c].prior # status[a]
       \/ call[c].at = "tell" /\ call[c].want = status[a]

\* An untold decision stands, and some call will tell it.
SomeoneTells == \A a \in untold : status[a] \in Resolved /\ \E c \in Call : Telling(c, a)

\* What leaves a decision and the call that tells it alone leaves it told.
LEMMA StillTelling ==
    ASSUME SomeoneTells, NEW c \in Call, NEW a \in untold,
           \A d \in Call \ {c} : call'[d] = call[d],
           status'[a] = status[a], ~Telling(c, a)
    PROVE  status'[a] \in Resolved /\ \E d \in Call : Telling(d, a)'
  <1>1. PICK d \in Call : Telling(d, a)
    BY DEF SomeoneTells
  <1>2. d # c /\ call'[d] = call[d]
    BY <1>1
  <1> QED
    BY <1>1, <1>2 DEF SomeoneTells, Telling

\* A step of a call that stands neither before its refresh nor before telling,
\* and that changes the status of no untold decision.
LEMMA TellingElsewhere ==
    ASSUME SomeoneTells, NEW c \in Call, call[c].at \notin {"refresh", "tell"},
           \A d \in Call \ {c} : call'[d] = call[d],
           untold' \subseteq untold, \A a \in untold' : status'[a] = status[a]
    PROVE  SomeoneTells'
  <1> SUFFICES ASSUME NEW a \in untold'
               PROVE  status'[a] \in Resolved /\ \E d \in Call : Telling(d, a)'
    BY DEF SomeoneTells
  <1>1. a \in untold /\ status'[a] = status[a] /\ ~Telling(c, a)
    BY DEF Telling
  <1> QED
    BY <1>1, StillTelling

LEMMA WriteTells ==
    ASSUME TypeOK, Named, SomeoneTells, NEW c \in Call, Write(c)
    PROVE  SomeoneTells'
  <1>0. PICK b \in Approval : b = call[c].ap
    BY DEF Named, Write
  <1>1. PICK s : s = Flushed(call[c].prior, call[c].want, status[b])
    OBVIOUS
  <1>2. /\ call[c].at = "write" /\ status' = [status EXCEPT ![b] = s]
        /\ untold' = UntoldAfter(b, s)
    BY <1>0, <1>1 DEF Write
  <1>3. /\ call'[c].at = "refresh" /\ call'[c].ap = b /\ call'[c].prior = call[c].prior
        /\ \A d \in Call \ {c} : call'[d] = call[d]
    BY <1>0 DEF Write, Committed, TypeOK, CallRecord
  <1>4. CASE s = status[b]
    BY <1>2, <1>3, <1>4, TellingElsewhere DEF UntoldAfter, TypeOK
  <1>5. CASE s # status[b]
    <2> SUFFICES ASSUME NEW a \in untold'
                 PROVE  status'[a] \in Resolved /\ \E d \in Call : Telling(d, a)'
      BY DEF SomeoneTells
    <2>1. CASE a = b
      <3>1. status'[b] = s /\ s \in Resolved
        BY <1>2, <1>5, <2>1 DEF UntoldAfter, TypeOK
      <3>2. call'[c].prior # s
        BY <1>1, <1>3, <1>5 DEF Flushed
      <3> QED
        BY <1>3, <2>1, <3>1, <3>2 DEF Telling
    <2>2. CASE a # b
      <3>1. a \in untold /\ status'[a] = status[a] /\ ~Telling(c, a)
        BY <1>2, <2>2 DEF UntoldAfter, TypeOK, Telling
      <3> QED
        BY <1>3, <3>1, StillTelling
    <2> QED
      BY <2>1, <2>2
  <1> QED
    BY <1>4, <1>5

LEMMA RefreshTells ==
    ASSUME TypeOK, SomeoneTells, NEW c \in Call, Refresh(c)
    PROVE  SomeoneTells'
  <1>0. PICK b : b = call[c].ap
    OBVIOUS
  <1> SUFFICES ASSUME NEW a \in untold
               PROVE  status'[a] \in Resolved /\ \E d \in Call : Telling(d, a)'
    BY DEF SomeoneTells, Refresh
  <1>1. /\ call[c].at = "refresh" /\ status' = status
        /\ \A d \in Call \ {c} : call'[d] = call[d]
    BY DEF Refresh, Return, TypeOK, rowVars
  <1>2. CASE Telling(c, a)
    <2>1. a = b /\ status[b] \in Resolved /\ status[b] # call[c].prior
      BY <1>0, <1>1, <1>2 DEF Telling, SomeoneTells
    <2>2. call' = [call EXCEPT ![c].at = "tell", ![c].want = status[b]]
      BY <1>0, <2>1 DEF Refresh
    <2>3. call'[c].at = "tell" /\ call'[c].want = status[b] /\ call'[c].ap = b
      BY <1>0, <2>2 DEF TypeOK, CallRecord
    <2> QED
      BY <1>1, <2>1, <2>3 DEF Telling
  <1>3. CASE ~Telling(c, a)
    BY <1>1, <1>3, StillTelling
  <1> QED
    BY <1>2, <1>3

\* Whoever tells takes the decision that stands off the list; whoever is rolled
\* back, too.
LEMMA EndTells ==
    ASSUME TypeOK, SomeoneTells, NEW c \in Call, Tell(c) \/ Rollback(c)
    PROVE  SomeoneTells'
  <1> SUFFICES ASSUME NEW a \in untold'
               PROVE  status'[a] \in Resolved /\ \E d \in Call : Telling(d, a)'
    BY DEF SomeoneTells
  <1>1. status' = status /\ \A d \in Call \ {c} : call'[d] = call[d]
    BY DEF Tell, Rollback, Return, TypeOK, rowVars
  <1>2. a \in untold /\ ~Telling(c, a)
    BY DEF Tell, Rollback, Telling
  <1> QED
    BY <1>1, <1>2, StillTelling

LEMMA NextTells == TypeOK /\ Named /\ SomeoneTells /\ [Next]_vars => SomeoneTells'
  <1> SUFFICES ASSUME TypeOK, Named, SomeoneTells, [Next]_vars PROVE SomeoneTells'
    OBVIOUS
  <1>1. ASSUME NEW c \in Call, NEW s \in Asked,
               \/ \E ts \in SUBSET live : AskCreate(c, ts, s)
               \/ \E a \in Approval : AskUpdate(c, a, s)
        PROVE  SomeoneTells'
    BY <1>1, TellingElsewhere DEF AskCreate, AskUpdate, TypeOK, rowVars
  <1>2. ASSUME NEW c \in Call, Lock(c) \/ Check(c) PROVE SomeoneTells'
    BY <1>2, TellingElsewhere DEF Lock, Check, Goto, Return, TypeOK, rowVars
  <1>3. ASSUME NEW c \in Call, NEW a \in Approval, Insert(c, a) PROVE SomeoneTells'
    <2>1. status[a] \notin Resolved
      BY <1>3 DEF Insert, Resolved
    <2> QED
      BY <1>3, <2>1, TellingElsewhere DEF Insert, Return, TypeOK, SomeoneTells
  <1>4. ASSUME NEW t \in Task, DeleteTask(t) PROVE SomeoneTells'
    <2>1. \A a \in untold' : a \in untold /\ status'[a] = status[a] /\ call' = call
      BY <1>4 DEF DeleteTask, TypeOK
    <2> QED
      BY <2>1 DEF SomeoneTells, Telling
  <1>5. CASE UNCHANGED vars
    BY <1>5 DEF vars, rowVars, SomeoneTells, Telling
  <1> QED
    BY <1>1, <1>2, <1>3, <1>4, <1>5, WriteTells, RefreshTells, EndTells DEF Next, Step, Miss, Abort

\* However calls overlap and overwrite each other's decisions: a decision that
\* stands untold has a call under way that will tell it.
THEOREM DecisionsToldInFlight == Spec => []DecisionsAreTold
  <1>1. Init => SomeoneTells
    BY DEF Init, SomeoneTells
  <1>2. SomeoneTells => DecisionsAreTold
    BY DEF SomeoneTells, Telling, DecisionsAreTold
  <1> QED
    BY InitBase, NextType, NextNamed, NextTells, <1>1, <1>2, PTL DEF Spec

-----------------------------------------------------------------------------
(* What the approvals are to the tasks: every step is one of TaskApprovals,  *)
(* or none.                                                                  *)

\* Where only the row of one approval changes, the tasks linked to a status
\* are those the others link to, before and after, and its own.
LEMMA OneRow ==
    ASSUME NEW a \in Approval, NEW s,
           \A b \in Approval \ {a} : status'[b] = status[b] /\ tasks'[b] = tasks[b]
    PROVE  \E O : /\ LinkedTo(s) = O \cup (IF status[a] = s THEN tasks[a] ELSE {})
                  /\ LinkedTo(s)' = O \cup (IF status'[a] = s THEN tasks'[a] ELSE {})
                  /\ \A t \in O : \E b \in Approval \ {a} : status[b] = s /\ t \in tasks[b]
  <1> DEFINE O == UNION {tasks[b] : b \in {d \in Approval \ {a} : status[d] = s}}
  <1>1. LinkedTo(s) = O \cup (IF status[a] = s THEN tasks[a] ELSE {})
    BY DEF LinkedTo
  <1>2. LinkedTo(s)' = O \cup (IF status'[a] = s THEN tasks'[a] ELSE {})
    BY DEF LinkedTo
  <1>3. \A t \in O : \E b \in Approval \ {a} : status[b] = s /\ t \in tasks[b]
    OBVIOUS
  <1> QED
    BY <1>1, <1>2, <1>3

\* The status of an approval for the tasks T changes, or its row is new: one
\* that becomes pending holds the locks, and has found no other.
LEMMA OneRowSteps ==
    ASSUME OnePendingPerTask, AskedAssumption, NEW a \in Approval, NEW T \in SUBSET live,
           live \subseteq Task, live' = live, status'[a] \in ApprovalStatus,
           tasks'[a] = T, tasks[a] = T \/ status[a] = "unused",
           \A b \in Approval \ {a} : status'[b] = status[b] /\ tasks'[b] = tasks[b],
           status'[a] = "pending" /\ status[a] # "pending" =>
               \A t \in T : lock[t] # NoOne /\ t \notin LinkedTo("pending")
    PROVE  TA!Next \/ UNCHANGED <<live, LinkedTo("pending"), LinkedTo("approved")>>
  <1>1. PICK P : /\ LinkedTo("pending") = P \cup (IF status[a] = "pending" THEN tasks[a] ELSE {})
                 /\ LinkedTo("pending")' = P \cup (IF status'[a] = "pending" THEN T ELSE {})
                 /\ \A t \in P : \E b \in Approval \ {a} : status[b] = "pending" /\ t \in tasks[b]
    BY OneRow
  <1>2. PICK Q : /\ LinkedTo("approved") = Q \cup (IF status[a] = "approved" THEN tasks[a] ELSE {})
                 /\ LinkedTo("approved")' = Q \cup (IF status'[a] = "approved" THEN T ELSE {})
    BY OneRow
  <1>3. T \subseteq Task
    OBVIOUS
  <1>4. CASE status'[a] = status[a] \/ T = {}
    BY <1>1, <1>2, <1>4
  <1>5. CASE status'[a] = "pending" /\ status[a] # "pending" /\ T # {}
    <2>1. T \subseteq {t \in Task : lock[t] # NoOne} \ LinkedTo("pending")
      BY <1>3, <1>5
    <2>2. LinkedTo("pending")' = LinkedTo("pending") \cup T
      BY <1>1, <1>5
    <2>3. \E A \in SUBSET T : LinkedTo("approved")' = LinkedTo("approved") \ A
      <3>1. LinkedTo("approved")' = Q /\ (LinkedTo("approved") = Q \/ LinkedTo("approved") = Q \cup T)
        BY <1>2, <1>5
      <3>2. LinkedTo("approved")' = LinkedTo("approved") \ (T \ Q) \/ LinkedTo("approved")' = LinkedTo("approved") \ {}
        BY <3>1
      <3> QED
        BY <3>2
    <2>4. TA!File(T)
      BY <1>5, <2>1, <2>2, <2>3 DEF TA!File, TA!Disapproved
    <2> QED
      BY <1>3, <2>4 DEF TA!Next
  <1>6. status[a] = "pending" => T \cap P = {}
    BY <1>1 DEF OnePendingPerTask
  <1>7. CASE status'[a] = "approved" /\ status[a] # "approved" /\ T # {}
    <2>1. \/ T \subseteq LinkedTo("pending") /\ LinkedTo("pending")' = LinkedTo("pending") \ T
          \/ UNCHANGED LinkedTo("pending")
      BY <1>1, <1>6, <1>7
    <2>2. LinkedTo("approved")' = LinkedTo("approved") \cup T
      BY <1>2, <1>7
    <2>3. TA!Approve(T)
      BY <1>7, <2>1, <2>2 DEF TA!Approve
    <2> QED
      BY <1>3, <2>3 DEF TA!Next
  <1>8. CASE status'[a] = "rejected" /\ status[a] = "pending" /\ T # {}
    <2>1. T \subseteq LinkedTo("pending") /\ LinkedTo("pending")' = LinkedTo("pending") \ T
      BY <1>1, <1>6, <1>8
    <2>2. UNCHANGED LinkedTo("approved")
      BY <1>2, <1>8
    <2>3. TA!Reject(T)
      BY <1>8, <2>1, <2>2 DEF TA!Reject
    <2> QED
      BY <1>3, <2>3 DEF TA!Next
  <1>9. CASE status'[a] = "rejected" /\ status[a] = "approved" /\ T # {}
    <2>1. T \subseteq LinkedTo("approved") /\ LinkedTo("approved")' = LinkedTo("approved") \ (T \ Q)
      BY <1>2, <1>9
    <2>2. UNCHANGED LinkedTo("pending")
      BY <1>1, <1>9
    <2>3. TA!Reject(T)
      BY <1>9, <2>1, <2>2 DEF TA!Reject, TA!Disapproved
    <2> QED
      BY <1>3, <2>3 DEF TA!Next
  <1>10. CASE status'[a] = "rejected" /\ status[a] \notin {"pending", "approved"}
    BY <1>1, <1>2, <1>10
  <1> QED
    BY <1>4, <1>5, <1>7, <1>8, <1>9, <1>10 DEF ApprovalStatus

LEMMA InsertKeeps ==
    ASSUME IInv, NEW c \in Call, NEW a \in Approval, Insert(c, a)
    PROVE  TA!Next \/ UNCHANGED <<live, LinkedTo("pending"), LinkedTo("approved")>>
  <1>1. PICK T : T = call[c].about
    OBVIOUS
  <1>2. /\ status'[a] = call[c].want /\ tasks'[a] = T /\ live' = live /\ status[a] = "unused"
        /\ call[c].at = "insert" /\ T \in SUBSET live /\ call[c].want \in ApprovalStatus
        /\ \A b \in Approval \ {a} : status'[b] = status[b] /\ tasks'[b] = tasks[b]
    BY <1>1 DEF IInv, TypeOK, CallRecord, Insert
  <1>3. ASSUME status'[a] = "pending", NEW t \in T
        PROVE  lock[t] # NoOne /\ t \notin LinkedTo("pending")
    <2>1. Reserves(c) /\ call[c].ap \notin Approval
      BY <1>2, <1>3, NobodyAssumption DEF Reserves, IInv, Named
    <2>2. lock[t] = c
      BY <1>1, <1>2, <2>1 DEF IInv, HoldsLocks
    <2>3. t \notin LinkedTo("pending")
      BY <1>1, <2>1 DEF LinkedTo, IInv, StaysClear, Conflicts
    <2> QED
      BY <2>2, <2>3, NobodyAssumption
  <1>4. OnePendingPerTask /\ live \subseteq Task
    BY DEF IInv, TypeOK
  <1> QED
    BY <1>2, <1>3, <1>4, AskedAssumption, OneRowSteps

LEMMA WriteKeeps ==
    ASSUME IInv, NEW c \in Call, Write(c)
    PROVE  TA!Next \/ UNCHANGED <<live, LinkedTo("pending"), LinkedTo("approved")>>
  <1>1. PICK a \in Approval : a = call[c].ap
    BY DEF IInv, Named, Write
  <1>2. PICK T : T = tasks[a]
    OBVIOUS
  <1>3. /\ tasks'[a] = T /\ live' = live /\ call[c].at = "write" /\ T \in SUBSET live
        /\ \A b \in Approval \ {a} : status'[b] = status[b] /\ tasks'[b] = tasks[b]
    BY <1>1, <1>2 DEF IInv, TypeOK, Write
  <1>4. /\ status'[a] \in ApprovalStatus
        /\ status'[a] = "pending" /\ status[a] # "pending" => Reserves(c)
    BY <1>1 DEF IInv, TypeOK, CallRecord, Exists, Write, Flushed, Reserves
  <1>5. ASSUME status'[a] = "pending", status[a] # "pending", NEW t \in T
        PROVE  lock[t] # NoOne /\ t \notin LinkedTo("pending")
    <2>1. t \in call[c].about
      BY <1>1, <1>2, <1>3 DEF IInv, KnowsTasks
    <2>2. lock[t] = c
      BY <1>3, <1>4, <1>5, <2>1 DEF IInv, HoldsLocks
    <2>3. t \notin LinkedTo("pending")
      BY <1>1, <1>4, <1>5, <2>1 DEF LinkedTo, IInv, StaysClear, Conflicts
    <2> QED
      BY <2>2, <2>3, NobodyAssumption
  <1>6. OnePendingPerTask /\ live \subseteq Task
    BY DEF IInv, TypeOK
  <1> QED
    BY <1>2, <1>3, <1>4, <1>5, <1>6, AskedAssumption, OneRowSteps

\* An approval that goes with its task was about no other.
LEMMA DeleteKeeps ==
    ASSUME IInv, NEW t \in Task, DeleteTask(t)
    PROVE  TA!Delete(t)
  <1>1. ASSUME NEW s \in ApprovalStatus PROVE LinkedTo(s)' = LinkedTo(s) \ {t}
    <2>1. ASSUME NEW u \in LinkedTo(s)' PROVE u \in LinkedTo(s) \ {t}
      BY <2>1 DEF LinkedTo, DeleteTask, ApprovalStatus
    <2>2. ASSUME NEW u \in LinkedTo(s), u # t PROVE u \in LinkedTo(s)'
      BY <2>2 DEF LinkedTo, DeleteTask
    <2> QED
      BY <2>1, <2>2
  <1>2. /\ LinkedTo("pending")' = LinkedTo("pending") \ {t}
        /\ LinkedTo("approved")' = LinkedTo("approved") \ {t}
    BY <1>1 DEF ApprovalStatus
  <1>3. t \in live \ {u \in Task : lock[u] # NoOne} /\ live' = live \ {t}
    BY DEF DeleteTask
  <1> QED
    BY <1>2, <1>3 DEF TA!Delete

LEMMA StepKeepsTasks ==
    IInv /\ [Next]_vars => [TA!Next]_<<live, LinkedTo("pending"), LinkedTo("approved")>>
  <1> SUFFICES ASSUME IInv, [Next]_vars
               PROVE  TA!Next \/ UNCHANGED <<live, LinkedTo("pending"), LinkedTo("approved")>>
    OBVIOUS
  <1>1. CASE UNCHANGED rowVars
    BY <1>1 DEF rowVars, LinkedTo
  <1>2. ASSUME NEW t \in Task, DeleteTask(t) PROVE TA!Next
    BY <1>2, DeleteKeeps DEF TA!Next
  <1> QED
    BY <1>1, <1>2, InsertKeeps, WriteKeeps
    DEF Next, Step, AskCreate, AskUpdate, Lock, Check, Refresh, Tell, Miss, Abort, Rollback, vars, rowVars

\* Approvals implements what TaskApprovals states of them, whatever copies the
\* calls hold and however they overlap.
THEOREM ApprovalsKeepTasks == Spec => KeepsTasks
  <1>1. Init => TA!Init
    BY DEF Init, TA!Init, LinkedTo
  <1>2. IInv /\ [Next]_vars => IInv'
    BY NextType, NextNamed, NextUnharmed DEF IInv, Unharmed
  <1> QED
    BY InitInv, StepKeepsTasks, <1>1, <1>2, PTL DEF Spec, KeepsTasks, TA!Spec
=============================================================================
