--------------------------- MODULE TaskGates_proofs ---------------------------
(***************************************************************************)
(* Proofs about TaskGates for any number of tasks and calls and any        *)
(* requests, and about its check of the graph.                             *)
(***************************************************************************)
EXTENDS TaskGates, FiniteSetTheorems, WellFoundedInduction, TLAPS

\* From the flush of its UPDATE to its commit a call holds its task's row ...
HoldsRow == \A c \in Call : call[c].at \in {"gates", "commit"} => lock[call[c].task] = c

\* ... so that what the pending gate has found stays true.
StaysClear == \A c \in Call : call[c].at = "commit" => PendingGate(c)

\* A status nobody asked for is the inbox.
UnaskedIsInbox ==
    \A c \in Call : call[c].at \in {"flush", "gates", "commit"} =>
        (call[c].want \in {Keep, call[c].prev} /\ call[c].next # call[c].prev => call[c].next = "inbox")

IInv == TypeOK /\ HoldsRow /\ StaysClear /\ UnaskedIsInbox

-----------------------------------------------------------------------------
(* Types. *)

LEMMA IdleType == Idle \in CallRecord
  BY TaskAssumption DEF Idle, CallRecord, Status, Actor, Assignee

LEMMA ReturnType ==
    ASSUME TypeOK, NEW c \in Call, Return(c)
    PROVE  call' \in [Call -> CallRecord] /\ lock' \in [Task -> Call \cup {NoOne}]
  BY IdleType DEF TypeOK, Unlocked, Return

LEMMA RefuseType == ASSUME TypeOK, NEW c \in Call, Refuse(c), UNCHANGED asked PROVE TypeOK'
  BY ReturnType DEF Refuse, TypeOK, rowVars, approvalVars

LEMMA DecideType ==
    ASSUME TypeOK, NEW c \in Call, NEW s \in Status, NEW a \in Assignee, Decide(c, s, a)
    PROVE  call' \in [Call -> CallRecord]
  <1> DEFINE t == call[c].task
             given == call[c].wantDeps # Keep
             cutting == IF given THEN {e \in deps : e[1] = t} ELSE {}
             adding == IF given THEN EdgesOf(t, Effective(c)) ELSE {}
             new == [call[c] EXCEPT !.at = "flush", !.next = s, !.goes = a,
                                    !.cut = cutting, !.add = adding]
  <1>1. given => Effective(c) \subseteq Task
    BY DEF Effective, TypeOK, CallRecord
  <1>2. adding \subseteq Task \X Task
    BY <1>1 DEF EdgesOf, TypeOK, CallRecord
  <1>3. cutting \subseteq Task \X Task
    BY DEF TypeOK
  <1>4. call[c] \in CallRecord
    BY DEF TypeOK
  <1>6. call' = [call EXCEPT ![c] = new]
    BY DEF Decide
  <1> HIDE DEF cutting, adding
  <1>5. new \in CallRecord
    BY <1>2, <1>3, <1>4 DEF CallRecord
  <1> HIDE DEF new
  <1> QED
    BY <1>5, <1>6 DEF TypeOK

\* What a step of the approvals leaves alone, and what becomes of the sets.
LEMMA ApprovalChanges ==
    ASSUME TypeOK, NEW T \in SUBSET Decidable, ApprovalStep(T)
    PROVE  /\ UNCHANGED <<rowVars, lock, call>>
           /\ \A t \in pending' : t \in Task /\ (t \in pending \/ lock[t] = NoOne)
           /\ approved' \subseteq Task
           /\ history' = [history EXCEPT !.approved = @ \cup approved']
  <1>1. T \subseteq Task
    BY TaskAssumption
  <1>2. CASE File(T)
    BY <1>1, <1>2 DEF ApprovalStep, File, TA!File, TA!Disapproved, TypeOK
  <1>3. CASE Approve(T)
    BY <1>1, <1>3 DEF ApprovalStep, Approve, TA!Approve, TypeOK
  <1>4. CASE Reject(T)
    BY <1>1, <1>4 DEF ApprovalStep, Reject, TA!Reject, TA!Disapproved, TypeOK
  <1> QED
    BY <1>2, <1>3, <1>4 DEF ApprovalStep

LEMMA MovesOn ==
    ASSUME NEW k \in CallRecord, NEW p, p \in {"gates", "commit", "toggle"}
    PROVE  [k EXCEPT !.at = p] \in CallRecord
  BY DEF CallRecord

LEMMA GivenType ==
    ASSUME TypeOK, NEW c \in Call, NEW a \in Assignee
    PROVE  Given(call[c], a) \in Assignee
  BY DEF Given, TypeOK, CallRecord

LEMMA HoldersType ==
    ASSUME NEW c \in Call, NEW s, NEW a \in Assignee
    PROVE  Holders(c, s, a) \subseteq Assignee
  BY DEF Holders, Assignee

LEMMA RulesInbox ==
    ASSUME TypeOK, NEW c \in Call, Rules(c), ~Refuse(c)
    PROVE  \E s \in Status, a \in Assignee :
              /\ Decide(c, s, a)
              /\ call[c].want \in {Keep, call[c].prev} /\ s # call[c].prev => s = "inbox"
  <1> DEFINE k == call[c]
             Fits(s) == k.want \in {Keep, k.prev} /\ s # k.prev => s = "inbox"
  <1>1. k.prev \in Status /\ k.want \in Status \cup {Keep} /\ k.had \in Assignee
    BY DEF TypeOK, CallRecord
  <1>2. "nobody" \in Assignee /\ "worker" \in Assignee /\ "inbox" \in Status /\ Keep \notin Status
    BY NobodyAssumption DEF Assignee, Status
  <1>3. CASE UserRules(c)
    <2> DEFINE target == IF k.want = Keep THEN k.prev ELSE k.want
               chosen == Given(k, IF k.want \in {"inbox", "review"} THEN "nobody" ELSE k.had)
    <2>1. target \in Status /\ Fits(target) /\ Fits("inbox")
      BY <1>1
    <2>2. Holders(c, target, chosen) \subseteq Assignee
      BY <1>1, <1>2, GivenType, HoldersType
    <2>3. Decide(c, "inbox", "nobody") \/ \E a \in Holders(c, target, chosen) : Decide(c, target, a)
      BY <1>3 DEF UserRules
    <2> HIDE DEF target, chosen, Fits
    <2>4. \E s \in Status, a \in Assignee : Decide(c, s, a) /\ Fits(s)
      BY <1>2, <2>1, <2>2, <2>3
    <2> QED
      BY <2>4 DEF Fits
  <1>4. CASE WorkerRules(c)
    <2> DEFINE chosen == IF k.want \in {"inbox", "review"} THEN "nobody" ELSE "worker"
    <2>1. chosen \in Assignee
      BY <1>2
    <2>2. Holders(c, k.want, chosen) \subseteq Assignee
      BY <2>1, HoldersType
    <2>3. \/ Decide(c, k.prev, k.had)
          \/ k.want # Keep /\ \E a \in Holders(c, k.want, chosen) : Decide(c, k.want, a)
      BY <1>4 DEF WorkerRules
    <2>4. Fits(k.prev) /\ (k.want # Keep => Fits(k.want))
      OBVIOUS
    <2> HIDE DEF chosen, Fits
    <2>5. \E s \in Status, a \in Assignee : Decide(c, s, a) /\ Fits(s)
      BY <1>1, <2>2, <2>3, <2>4
    <2> QED
      BY <2>5 DEF Fits
  <1>5. CASE LeadRules(c)
    <2> DEFINE target == IF k.want = Keep THEN k.prev ELSE k.want
    <2>1. target \in Status /\ Fits(target) /\ Fits("inbox") /\ Given(k, k.had) \in Assignee
      BY <1>1, GivenType
    <2>2. Decide(c, target, Given(k, k.had)) \/ \E a \in {"worker", "nobody"} : Decide(c, "inbox", a)
      BY <1>5 DEF LeadRules
    <2> HIDE DEF target, Fits
    <2>3. \E s \in Status, a \in Assignee : Decide(c, s, a) /\ Fits(s)
      BY <1>2, <2>1, <2>2
    <2> QED
      BY <2>3 DEF Fits
  <1> QED
    BY <1>3, <1>4, <1>5 DEF Rules

LEMMA RulesDecide ==
    ASSUME TypeOK, NEW c \in Call, Rules(c), ~Refuse(c)
    PROVE  \E s \in Status, a \in Assignee : Decide(c, s, a)
  BY RulesInbox

LEMMA FlushedType ==
    ASSUME NEW S, NEW x \in S, NEW y \in S, NEW z \in S
    PROVE  Flushed(x, y, z) \in S /\ (Flushed(x, y, z) # z => Flushed(x, y, z) = y /\ y # x)
  BY DEF Flushed

LEMMA NextType == TypeOK /\ [Next]_vars => TypeOK'
  <1> SUFFICES ASSUME TypeOK, [Next]_vars PROVE TypeOK'
    OBVIOUS
  <1>1. ASSUME NEW c \in Call, NEW t \in Task, NEW r \in Request, Ask(c, t, r) PROVE TypeOK'
    <2>1. r \in [who : Actor, want : Status \cup {Keep}, wantDeps : (SUBSET Task) \cup {Keep},
                 gives : Assignee \cup {Keep}]
      BY RequestAssumption
    <2>2. status[t] \in Status /\ assignee[t] \in Assignee
      BY DEF TypeOK
    <2>3. [Idle EXCEPT !.at = "rules", !.who = r.who, !.task = t, !.prev = status[t],
               !.had = assignee[t], !.want = r.want, !.wantDeps = r.wantDeps,
               !.gives = r.gives] \in CallRecord
      BY <2>1, <2>2, IdleType DEF CallRecord
    <2> QED
      BY <1>1, <2>3 DEF Ask, TypeOK, rowVars, approvalVars
  <1>2. ASSUME NEW c \in Call, Rules(c), UNCHANGED asked PROVE TypeOK'
    <2>1. CASE Refuse(c)
      BY <2>1, <1>2, RefuseType
    <2>2. CASE ~Refuse(c)
      BY <2>2, <1>2, RulesDecide, DecideType DEF Rules, TypeOK, rowVars, approvalVars
    <2> QED
      BY <2>1, <2>2
  <1>3. ASSUME NEW c \in Call, Flush(c), UNCHANGED asked PROVE TypeOK'
    BY <1>3, MovesOn DEF Flush, TypeOK, rowVars, approvalVars
  <1>4. ASSUME NEW c \in Call, Gates(c), UNCHANGED asked PROVE TypeOK'
    <2>1. CASE Refuse(c)
      BY <2>1, <1>4, RefuseType
    <2>2. CASE ~Refuse(c)
      BY <2>2, <1>4, MovesOn DEF Gates, TypeOK, rowVars, approvalVars
    <2> QED
      BY <2>1, <2>2
  <1>5. ASSUME NEW c \in Call, Commit(c), UNCHANGED asked PROVE TypeOK'
    <2>1. CASE Refuse(c)
      BY <2>1, <1>5, RefuseType
    <2>2. CASE ~Refuse(c)
      <3> DEFINE k == call[c]
                 new == [Idle EXCEPT !.at = "refresh", !.who = k.who, !.task = k.task, !.prev = k.prev]
      <3>1. k \in CallRecord
        BY DEF TypeOK
      <3>2. status' \in [Task -> Status] /\ assignee' \in [Task -> Assignee]
        BY <1>5, <2>2, <3>1 DEF Commit, TypeOK, CallRecord, Flushed
      <3>3. deps' \subseteq Task \X Task
        BY <1>5, <2>2, <3>1 DEF Commit, TypeOK, CallRecord
      <3>4. new \in CallRecord
        BY <3>1, IdleType DEF CallRecord
      <3>5. \/ Return(c)
            \/ call' = [call EXCEPT ![c] = new] /\ lock' = Unlocked(c)
        BY <1>5, <2>2 DEF Commit
      <3> HIDE DEF new
      <3>6. call' \in [Call -> CallRecord] /\ lock' \in [Task -> Call \cup {NoOne}]
        BY <3>4, <3>5, ReturnType DEF TypeOK, Unlocked
      <3> QED
        BY <1>5, <2>2, <3>2, <3>3, <3>6 DEF Commit, TypeOK, approvalVars
    <2> QED
      BY <2>1, <2>2
  <1>6. ASSUME NEW c \in Call, Refresh(c), UNCHANGED asked PROVE TypeOK'
    <2>1. CASE Return(c)
      BY <2>1, <1>6, ReturnType DEF Refresh, TypeOK, rowVars, approvalVars
    <2>2. CASE call' = [call EXCEPT ![c].at = "toggle"] /\ UNCHANGED lock
      BY <2>2, <1>6, MovesOn DEF Refresh, TypeOK, rowVars, approvalVars
    <2> QED
      BY <2>1, <2>2, <1>6 DEF Refresh
  <1>7. ASSUME NEW c \in Call, Toggle(c), UNCHANGED asked PROVE TypeOK'
    <2> DEFINE dependents == {d \in Task : <<d, call[c].task>> \in deps /\ status[d] # "done"}
               R == {d \in dependents : status[d] # "inbox"}
               F == {d \in dependents : assignee[d] # "nobody"}
               new == [call[c] EXCEPT !.at = "reset", !.reset = R, !.free = F]
    <2>1. call[c] \in CallRecord
      BY DEF TypeOK
    <2>2. R \subseteq Task /\ F \subseteq Task
      OBVIOUS
    <2>3. call' = [call EXCEPT ![c] = new]
      BY <1>7 DEF Toggle
    <2> HIDE DEF R, F
    <2>4. new \in CallRecord
      BY <2>1, <2>2 DEF CallRecord
    <2> HIDE DEF new
    <2>5. call' \in [Call -> CallRecord]
      BY <2>3, <2>4 DEF TypeOK
    <2>6. UNCHANGED <<rowVars, approvalVars, lock>>
      BY <1>7 DEF Toggle
    <2> QED
      BY <1>7, <2>5, <2>6 DEF TypeOK, rowVars, approvalVars
  <1>8. ASSUME NEW c \in Call, Reset(c), UNCHANGED asked PROVE TypeOK'
    <2>1. call' \in [Call -> CallRecord] /\ lock' \in [Task -> Call \cup {NoOne}]
      BY <1>8, ReturnType DEF Reset
    <2> QED
      BY <1>8, <2>1 DEF Reset, TypeOK, approvalVars, Status, Assignee
  <1>9. ASSUME NEW c \in Call, Abort(c), UNCHANGED asked PROVE TypeOK'
    BY <1>9, ReturnType DEF Abort, TypeOK, rowVars, approvalVars
  <1>10. ASSUME NEW T \in SUBSET Decidable, ApprovalStep(T), UNCHANGED asked
         PROVE  TypeOK'
    BY <1>10, ApprovalChanges DEF TypeOK, rowVars
  <1>11. CASE UNCHANGED vars
    BY <1>11 DEF vars, rowVars, approvalVars, TypeOK
  <1> QED
    BY <1>1, <1>2, <1>3, <1>4, <1>5, <1>6, <1>7, <1>8, <1>9, <1>10, <1>11 DEF Next, Step

-----------------------------------------------------------------------------
(* The row lock, and what it keeps true. *)

\* A call's record is changed by its own steps only.
LEMMA OthersStay ==
    ASSUME TypeOK, NEW c \in Call, NEW d \in Call, d # c, Step(c) \/ Abort(c)
    PROVE  call'[d] = call[d]
  BY DEF Step, Abort, Rules, UserRules, WorkerRules, LeadRules, Decide, Flush, Gates, Commit,
         Refresh, Toggle, Reset, Refuse, Return, TypeOK

\* Nor do they let go of another call's locks.
LEMMA LocksStay ==
    ASSUME TypeOK, NEW c \in Call, NEW d \in Call, d # c, Step(c) \/ Abort(c), NEW t \in Task,
           lock[t] = d
    PROVE  lock'[t] = d
  BY NobodyAssumption DEF Step, Abort, Rules, Flush, Gates, Commit, Refresh, Toggle, Reset,
         Refuse, Return, Unlocked, TypeOK

\* Where a call stands after a step of its own.
LEMMA OwnStep ==
    ASSUME IInv, NEW c \in Call, Step(c) \/ Abort(c)
    PROVE  /\ call'[c].at \in {"gates", "commit"} => lock'[call'[c].task] = c
           /\ call'[c].at = "commit" => PendingGate(c)'
           /\ call'[c].at \in {"flush", "gates", "commit"} =>
                 (call'[c].want \in {Keep, call'[c].prev} /\ call'[c].next # call'[c].prev
                      => call'[c].next = "inbox")
  <1> USE DEF IInv, TypeOK, CallRecord
  <1>1. CASE call' = [call EXCEPT ![c] = Idle]
    BY <1>1 DEF Idle
  <1>2. CASE Rules(c) /\ ~Refuse(c)
    <2>1. PICK s \in Status, a \in Assignee :
             /\ Decide(c, s, a)
             /\ call[c].want \in {Keep, call[c].prev} /\ s # call[c].prev => s = "inbox"
      BY <1>2, RulesInbox
    <2> QED
      BY <2>1 DEF Decide
  <1>3. CASE Flush(c)
    BY <1>3 DEF Flush, UnaskedIsInbox
  <1>4. CASE Gates(c) /\ ~Refuse(c)
    <2>1. call[c].at = "gates" /\ call' = [call EXCEPT ![c].at = "commit"] /\ PendingGate(c)
          /\ lock' = lock /\ pending' = pending
      BY <1>4 DEF Gates, approvalVars
    <2>2. call'[c] = [call[c] EXCEPT !.at = "commit"]
      BY <2>1
    <2>3. call[c] \in CallRecord
      OBVIOUS
    <2>4. /\ call'[c].at = "commit" /\ call'[c].task = call[c].task /\ call'[c].want = call[c].want
          /\ call'[c].prev = call[c].prev /\ call'[c].next = call[c].next
      BY <2>2, <2>3
    <2>5. PendingGate(c)'
      BY <2>1, <2>4 DEF PendingGate
    <2> QED
      BY <2>1, <2>4, <2>5 DEF HoldsRow, UnaskedIsInbox
  <1>5. CASE call' = [call EXCEPT ![c] = [Idle EXCEPT !.at = "refresh", !.who = call[c].who,
                                             !.task = call[c].task, !.prev = call[c].prev]]
    BY <1>5 DEF Idle
  <1>6. CASE Refresh(c) /\ ~Return(c)
    BY <1>6 DEF Refresh
  <1>7. CASE Toggle(c)
    <2>1. call'[c].at = "reset"
      BY <1>7 DEF Toggle
    <2> QED
      BY <2>1
  <1> QED
    BY <1>1, <1>2, <1>3, <1>4, <1>5, <1>6, <1>7 DEF Step, Abort, Rules, Gates, Commit, Refresh, Reset,
       Refuse, Return

LEMMA StepKeeps ==
    ASSUME IInv, NEW c \in Call, Step(c) \/ Abort(c)
    PROVE  HoldsRow' /\ StaysClear' /\ UnaskedIsInbox'
  <1>1. pending' = pending
    BY DEF Step, Abort, Rules, Flush, Gates, Commit, Refresh, Toggle, Reset, Refuse, approvalVars
  <1>2. ASSUME NEW d \in Call, d # c
        PROVE  /\ call'[d].at \in {"gates", "commit"} => lock'[call'[d].task] = d
               /\ call'[d].at = "commit" => PendingGate(d)'
    BY <1>1, <1>2, OthersStay, LocksStay DEF IInv, HoldsRow, StaysClear, PendingGate, TypeOK, CallRecord
  <1>3. ASSUME NEW d \in Call, d # c
        PROVE  call'[d].at \in {"flush", "gates", "commit"} =>
                 (call'[d].want \in {Keep, call'[d].prev} /\ call'[d].next # call'[d].prev
                      => call'[d].next = "inbox")
    BY <1>3, OthersStay DEF IInv, UnaskedIsInbox
  <1> QED
    BY <1>2, <1>3, OwnStep DEF HoldsRow, StaysClear, UnaskedIsInbox

\* A pending approval is filed for tasks no call holds.
LEMMA ApprovalKeeps ==
    ASSUME IInv, NEW T \in SUBSET Decidable, ApprovalStep(T)
    PROVE  HoldsRow' /\ StaysClear' /\ UnaskedIsInbox'
  <1>1. UNCHANGED <<call, lock>> /\ \A t \in pending' : t \in pending \/ lock[t] = NoOne
    BY ApprovalChanges DEF IInv
  <1> QED
    BY <1>1, NobodyAssumption DEF IInv, HoldsRow, StaysClear, UnaskedIsInbox, PendingGate

LEMMA AskKeeps ==
    ASSUME IInv, NEW c \in Call, NEW t \in Task, NEW r \in Request, Ask(c, t, r)
    PROVE  HoldsRow' /\ StaysClear' /\ UnaskedIsInbox'
  BY DEF Ask, approvalVars, IInv, TypeOK, HoldsRow, StaysClear, UnaskedIsInbox, PendingGate, Idle

LEMMA InductiveStep == IInv /\ [Next]_vars => IInv'
  <1> SUFFICES ASSUME IInv, [Next]_vars PROVE IInv'
    OBVIOUS
  <1>1. TypeOK'
    BY NextType DEF IInv
  <1>2. CASE UNCHANGED vars
    BY <1>2, <1>1 DEF vars, approvalVars, IInv, HoldsRow, StaysClear, UnaskedIsInbox, PendingGate
  <1> QED
    BY <1>1, <1>2, StepKeeps, ApprovalKeeps, AskKeeps DEF IInv, Next

LEMMA InitialState == Init => IInv
  <1> SUFFICES ASSUME Init PROVE IInv
    OBVIOUS
  <1>1. TypeOK
    BY IdleType DEF Init, TypeOK, Status, Assignee
  <1> QED
    BY <1>1 DEF Init, Idle, IInv, HoldsRow, StaysClear, UnaskedIsInbox

THEOREM Invariant == Spec => []IInv
  BY InitialState, InductiveStep, PTL DEF Spec

\* Type correctness.
THEOREM TypeCorrect == Spec => []TypeOK
  BY Invariant, PTL DEF IInv

\* Only a commit and a reset change a status: the one changes it to what its
\* call has decided on, the other puts the inbox there.
LEMMA StatusWrites ==
    ASSUME IInv, [Next]_vars, NEW t \in Task, status'[t] # status[t]
    PROVE  \E c \in Call :
              \/ t \in call[c].reset /\ status'[t] = "inbox"
              \/ /\ call[c].at = "commit" /\ call[c].task = t
                 /\ call[c].next # call[c].prev /\ status'[t] = call[c].next
  <1>1. PICK c \in Call : Commit(c) \/ Reset(c)
    BY DEF Next, Step, Ask, Abort, Rules, UserRules, Flush, Gates, Refresh, Toggle, Refuse, ApprovalStep, vars, rowVars
  <1>2. CASE Commit(c)
    BY <1>2 DEF Commit, Refuse, rowVars, Flushed, IInv, TypeOK, CallRecord
  <1>3. CASE Reset(c)
    BY <1>3 DEF Reset, IInv, TypeOK
  <1> QED
    BY <1>1, <1>2, <1>3

\* A status changes over a pending approval only to the inbox, and unasked:
\* the row lock keeps the approval out from the gate to the commit.
THEOREM PendingHolds == Spec => PendingHoldsStatus
  <1>1. IInv /\ [Next]_vars =>
            [\A t \in pending : BlocksWithPending /\ status'[t] # status[t] =>
                status'[t] = "inbox" /\ \E c \in Call : Unasked(c, t)]_vars
    <2> SUFFICES ASSUME IInv, [Next]_vars, NEW t \in pending, BlocksWithPending,
                        status'[t] # status[t]
                 PROVE  status'[t] = "inbox" /\ \E c \in Call : Unasked(c, t)
      OBVIOUS
    <2>1. t \in Task
      BY DEF IInv, TypeOK
    <2>2. PICK c \in Call :
              \/ t \in call[c].reset /\ status'[t] = "inbox"
              \/ /\ call[c].at = "commit" /\ call[c].task = t
                 /\ call[c].next # call[c].prev /\ status'[t] = call[c].next
      BY <2>1, StatusWrites
    <2>3. CASE t \in call[c].reset /\ status'[t] = "inbox"
      BY <2>3 DEF Unasked
    <2>4. CASE /\ call[c].at = "commit" /\ call[c].task = t
               /\ call[c].next # call[c].prev /\ status'[t] = call[c].next
      <3>1. call[c].want \in {Keep, call[c].prev}
        BY <2>4 DEF IInv, StaysClear, PendingGate
      <3> QED
        BY <2>4, <3>1 DEF IInv, UnaskedIsInbox, Unasked
    <2> QED
      BY <2>2, <2>3, <2>4
  <1> QED
    BY <1>1, Invariant, PTL DEF Spec, PendingHoldsStatus

-----------------------------------------------------------------------------
(* Done. *)

HistoryType == history \in [approved : SUBSET Task, reviewed : SUBSET Task, overtaken : SUBSET Call,
                            known : SUBSET Task, crossed : BOOLEAN]

\* What is, has been ...
Recorded ==
    /\ approved \subseteq history.approved
    /\ \A t \in Task : status[t] = "review" => t \in history.reviewed
    /\ \A c \in Call : call[c].at \in {"rules", "flush", "gates", "commit"} /\ call[c].prev = "review"
           => call[c].task \in history.reviewed

\* ... and a call that is to make a task done has found it so, though the
\* approval may be withdrawn before the commit.
Justified ==
    \A c \in Call : call[c].at = "commit" /\ call[c].next = "done" /\ call[c].prev # "done" =>
        /\ RequiresApproval => call[c].task \in history.approved
        /\ RequiresReview => call[c].task \in history.reviewed

JInv == IInv /\ HistoryType /\ Recorded /\ Justified

\* Nothing that has been is forgotten.
LEMMA HistoryGrows ==
    ASSUME TypeOK, HistoryType, [Next]_vars
    PROVE  /\ HistoryType'
           /\ history.approved \subseteq history'.approved
           /\ history.reviewed \subseteq history'.reviewed
  <1> USE DEF TypeOK, HistoryType
  <1>1. CASE UNCHANGED history
    BY <1>1
  <1>2. ASSUME NEW c \in Call, Commit(c), ~Refuse(c) PROVE
           /\ HistoryType'
           /\ history.approved \subseteq history'.approved
           /\ history.reviewed \subseteq history'.reviewed
    <2> DEFINE t == call[c].task
               R == IF status'[t] = "review" THEN history.reviewed \cup {t} ELSE history.reviewed
               O == history'.overtaken
               K == history'.known
               X == history'.crossed
    <2>1. t \in Task
      BY DEF CallRecord
    <2>2. Remember(c)
      BY <1>2 DEF Commit
    <2>3. history' = [history EXCEPT !.reviewed = R, !.overtaken = O, !.known = K, !.crossed = X]
      BY <2>2 DEF Remember
    <2>4. /\ O = (history.overtaken \cup HoldingCopyOf(t)
                   \cup (IF status[t] = "done" /\ status'[t] # "done" THEN DecidingBy(t) ELSE {})) \ {c}
          /\ X \in BOOLEAN
      BY <2>2 DEF Remember
    <2>5. O \in SUBSET Call
      BY <2>4 DEF HoldingCopyOf, DecidingBy, Deciding
    <2>6. \E k : K = Known(k)
      BY <2>2 DEF Remember
    <2>7. K \in SUBSET Task
      BY <2>6 DEF Known, BlockedWork
    <2>8. R \in SUBSET Task /\ history.reviewed \subseteq R
      BY <2>1
    <2> HIDE DEF R, O, K, X
    <2> QED
      BY <2>3, <2>4, <2>5, <2>7, <2>8
  <1>3. ASSUME NEW c \in Call, Reset(c) PROVE
           /\ HistoryType'
           /\ history.approved \subseteq history'.approved
           /\ history.reviewed \subseteq history'.reviewed
    <2> DEFINE O == history'.overtaken
               K == history'.known
    <2>1. history' = [history EXCEPT !.overtaken = O, !.known = K]
      BY <1>3 DEF Reset
    <2>2. \E k : history' = [history EXCEPT !.known = Known(k),
                                            !.overtaken = history.overtaken \cup OvertakenByReset(c)]
      BY <1>3 DEF Reset
    <2>3. OvertakenByReset(c) \subseteq Call
      BY DEF OvertakenByReset
    <2>4. O \in SUBSET Call
      BY <2>2, <2>3
    <2>5. \E k : K = Known(k)
      BY <2>2
    <2>6. K \in SUBSET Task
      BY <2>5 DEF Known, BlockedWork
    <2> HIDE DEF O, K
    <2> QED
      BY <2>1, <2>4, <2>6
  <1>4. ASSUME NEW c \in Call, Abort(c) PROVE
           /\ HistoryType'
           /\ history.approved \subseteq history'.approved
           /\ history.reviewed \subseteq history'.reviewed
    BY <1>4 DEF Abort, BlockedWork
  <1>5. ASSUME NEW T \in SUBSET Decidable, ApprovalStep(T) PROVE
           /\ HistoryType'
           /\ history.approved \subseteq history'.approved
           /\ history.reviewed \subseteq history'.reviewed
    BY <1>5, ApprovalChanges
  <1>6. ASSUME NEW c \in Call, Refuse(c) PROVE
           /\ HistoryType'
           /\ history.approved \subseteq history'.approved
           /\ history.reviewed \subseteq history'.reviewed
    BY <1>6 DEF Refuse
  <1> QED
    BY <1>1, <1>2, <1>3, <1>4, <1>5, <1>6 DEF Next, Step, Ask, Rules, UserRules, WorkerRules, LeadRules, Flush,
       Gates, Commit, Refresh, Toggle, vars

\* What a step leaves a call with, as far as being done goes.
LEMMA OwnJustification ==
    ASSUME JInv, HistoryType', history.approved \subseteq history'.approved,
           history.reviewed \subseteq history'.reviewed, NEW c \in Call, Step(c) \/ Abort(c)
    PROVE  /\ call'[c].at \in {"rules", "flush", "gates", "commit"} /\ call'[c].prev = "review"
                  => call'[c].task \in history'.reviewed
           /\ call'[c].at = "commit" /\ call'[c].next = "done" /\ call'[c].prev # "done" =>
                  /\ RequiresApproval => call'[c].task \in history'.approved
                  /\ RequiresReview => call'[c].task \in history'.reviewed
  <1> USE DEF JInv, IInv, TypeOK, CallRecord, Recorded, Justified
  <1>1. CASE call' = [call EXCEPT ![c] = Idle]
    BY <1>1 DEF Idle
  <1>2. CASE Rules(c) /\ ~Refuse(c)
    <2>1. PICK s \in Status, a \in Assignee : Decide(c, s, a)
      BY <1>2, RulesDecide
    <2> QED
      BY <1>2, <2>1 DEF Decide, Rules
  <1>3. CASE Flush(c)
    BY <1>3 DEF Flush
  <1>4. CASE Gates(c) /\ ~Refuse(c)
    BY <1>4 DEF Gates, DoneGates
  <1>5. CASE call' = [call EXCEPT ![c] = [Idle EXCEPT !.at = "refresh", !.who = call[c].who,
                                             !.task = call[c].task, !.prev = call[c].prev]]
    BY <1>5 DEF Idle
  <1>6. CASE Refresh(c) /\ ~Return(c)
    BY <1>6 DEF Refresh
  <1>7. CASE Toggle(c)
    <2>1. call'[c].at = "reset"
      BY <1>7 DEF Toggle
    <2> QED
      BY <2>1
  <1> QED
    BY <1>1, <1>2, <1>3, <1>4, <1>5, <1>6, <1>7 DEF Step, Abort, Rules, Gates, Commit, Refresh, Reset,
       Refuse, Return

\* A status that becomes "review" is remembered with the same step.
LEMMA ReviewIsRemembered ==
    ASSUME JInv, [Next]_vars, NEW t \in Task, status'[t] = "review"
    PROVE  t \in history'.reviewed
  <1>0. history.reviewed \subseteq history'.reviewed
    BY HistoryGrows DEF JInv, IInv
  <1>1. CASE status'[t] = status[t]
    BY <1>0, <1>1 DEF JInv, Recorded
  <1>2. CASE status'[t] # status[t]
    <2>1. PICK c \in Call : Commit(c) \/ Reset(c)
      BY <1>2 DEF Next, Step, Ask, Abort, Rules, UserRules, Flush, Gates, Refresh, Toggle, Refuse, ApprovalStep, vars, rowVars
    <2>2. ~Reset(c)
      BY <1>2 DEF Reset, JInv, IInv, TypeOK
    <2>3. call[c].task = t /\ Remember(c)
      BY <1>2, <2>1, <2>2 DEF Commit, Refuse, rowVars, JInv, IInv, TypeOK
    <2>4. history'.reviewed = history.reviewed \cup {t}
      <3>1. PICK o, k, x : history' = [history EXCEPT !.reviewed = @ \cup {t}, !.overtaken = o,
                                                     !.known = k, !.crossed = x]
        BY <2>3 DEF Remember
      <3> QED
        BY <3>1 DEF JInv, HistoryType
    <2> QED
      BY <2>4
  <1> QED
    BY <1>1, <1>2

LEMMA JustifiedStep == JInv /\ [Next]_vars => JInv'
  <1> SUFFICES ASSUME JInv, [Next]_vars PROVE JInv'
    OBVIOUS
  <1>1. IInv' /\ HistoryType' /\ history.approved \subseteq history'.approved
             /\ history.reviewed \subseteq history'.reviewed
    BY InductiveStep, HistoryGrows DEF JInv, IInv
  <1>2. approved' \subseteq history'.approved
    BY <1>1 DEF JInv, Recorded, HistoryType, Next, Step, Ask, Abort, Rules, UserRules, WorkerRules,
       LeadRules, Flush, Gates, Commit, Refresh, Toggle, Reset, Refuse, ApprovalStep, vars,
       approvalVars
  <1>3. ASSUME NEW c \in Call
        PROVE /\ call'[c].at \in {"rules", "flush", "gates", "commit"} /\ call'[c].prev = "review"
                  => call'[c].task \in history'.reviewed
              /\ call'[c].at = "commit" /\ call'[c].next = "done" /\ call'[c].prev # "done" =>
                  /\ RequiresApproval => call'[c].task \in history'.approved
                  /\ RequiresReview => call'[c].task \in history'.reviewed
    <2>1. CASE call'[c] = call[c]
      BY <1>1, <2>1 DEF JInv, Recorded, Justified
    <2>2. CASE Step(c) \/ Abort(c)
      BY <1>1, <2>2, OwnJustification
    <2>3. ASSUME NEW t \in Task, NEW r \in Request, Ask(c, t, r)
          PROVE call'[c].at = "rules" /\ call'[c].task = t /\ call'[c].prev = status[t]
      BY <2>3 DEF Ask, Idle, JInv, IInv, TypeOK
    <2>4. ASSUME NEW d \in Call, d # c, NEW t \in Task, NEW r \in Request, Ask(d, t, r)
          PROVE call'[c] = call[c]
      BY <2>4 DEF Ask, JInv, IInv, TypeOK
    <2>5. ASSUME NEW d \in Call, d # c, Step(d) \/ Abort(d) PROVE call'[c] = call[c]
      BY <2>5, OthersStay DEF JInv, IInv
    <2>6. ASSUME NEW T \in SUBSET Decidable, ApprovalStep(T) PROVE call'[c] = call[c]
      BY <2>6 DEF ApprovalStep
    <2> QED
      BY <1>1, <2>1, <2>2, <2>3, <2>4, <2>5, <2>6 DEF Next, vars, JInv, Recorded
  <1> QED
    BY <1>1, <1>2, <1>3, ReviewIsRemembered DEF JInv, Recorded, Justified

\* A task becomes done with an approval and a review behind it: a call whose
\* copy says done passes no gate, but does not write the status either.
THEOREM DoneIsJustified == Spec => DoneWasJustified
  <1>1. Init => JInv
    BY InitialState DEF Init, JInv, HistoryType, Recorded, Justified, Idle
  <1>2. JInv /\ [Next]_vars =>
            [\A t \in Task : status[t] # "done" /\ status'[t] = "done" =>
                /\ RequiresApproval => t \in history.approved
                /\ RequiresReview => t \in history.reviewed]_vars
    BY StatusWrites DEF JInv, Justified
  <1> QED
    BY <1>1, <1>2, JustifiedStep, PTL DEF Spec, DoneWasJustified

-----------------------------------------------------------------------------
(* Blocked work. *)

\* A call edits the dependencies of its own task, and makes no task wait for itself.
EditsItsOwn(c) ==
    c \in Deciding => /\ \A e \in call[c].cut : e[1] = call[c].task
                      /\ \A e \in call[c].add : e[1] = call[c].task /\ e[1] # e[2]

\* A copy that nobody has overtaken says what the row says.
CopyIsCurrent(c) ==
    call[c].at = "rules" \/ c \in Deciding => call[c].prev = status[call[c].task]

\* What the commit of a call will leave of its task.
StatusAfter(c) == Flushed(call[c].prev, call[c].next, status[call[c].task])
DepsAfter(c) == (deps \ call[c].cut) \cup call[c].add
OnPurpose(c) == call[c].who = "lead" /\ call[c].want = Keep /\ call[c].wantDeps # Keep
StandsStill(c) == call[c].next = call[c].prev /\ call[c].cut = {} /\ call[c].add = {}

\* A decision that nobody has overtaken puts no blocked task to work.
DecidedUnblocked(c) ==
    c \in Deciding =>
        \/ OnPurpose(c) \/ StandsStill(c)
        \/ StatusAfter(c) \notin AtWork
        \/ ~Blocked(call[c].task, DepsAfter(c))

\* Leads reopen nothing, and dependents are reset only for a task that was done.
LeadKeepsDone(c) == c \in Deciding /\ call[c].who = "lead" /\ call[c].prev = "done" => call[c].next = "done"
ToggledWasDone(c) == call[c].at \in {"toggle", "reset"} => call[c].prev = "done"

InOrder(c) ==
    /\ EditsItsOwn(c) /\ LeadKeepsDone(c) /\ ToggledWasDone(c)
    /\ c \notin history.overtaken => CopyIsCurrent(c) /\ DecidedUnblocked(c)

\* Why d may be at work while u, which it waits for, is not done.
Resets(c, d, u) ==
    /\ call[c].prev = "done" /\ call[c].task = u
    /\ call[c].at \in {"refresh", "toggle"} \/ (call[c].at = "reset" /\ d \in call[c].reset)
Covered(d, u) == d \in history.known \/ \E c \in Call : Resets(c, d, u)
AtRisk(d, u) == <<d, u>> \in deps /\ status[d] \in AtWork /\ status[u] # "done"

WorkIsCovered == \A d, u \in Task : AtRisk(d, u) => Covered(d, u)
NoneWaitsForItself == \A e \in deps : e[1] # e[2]

WInv == NoneWaitsForItself /\ WorkIsCovered /\ \A c \in Call : InOrder(c)

\* What the rules of the actor decide on.
LEMMA RulesUnblock ==
    ASSUME TypeOK, NEW c \in Call, Rules(c), ~Refuse(c)
    PROVE  \E s, a :
              /\ Decide(c, s, a)
              /\ call[c].who = "lead" /\ call[c].prev = "done" => s = "done"
              /\ call[c].prev = status[call[c].task] =>
                    \/ OnPurpose(c)
                    \/ s = call[c].prev /\ call[c].wantDeps = Keep
                    \/ Flushed(call[c].prev, s, status[call[c].task]) \notin AtWork
                    \/ ~BlockedBy(c)
  <1> USE DEF AtWork, Flushed
  <1>1. ~Forbidden(c)
    BY DEF Rules
  <1>2. CASE call[c].who = "user" /\ UserRules(c)
    BY <1>2 DEF UserRules
  <1>3. CASE call[c].who = "worker" /\ WorkerRules(c)
    <2>1. call[c].wantDeps = Keep
      BY <1>1, <1>3 DEF Forbidden
    <2>2. call[c].want \in {Keep, "inbox"} \/ ~BlockedBy(c)
      BY <1>1, <1>3 DEF Forbidden
    <2> QED
      BY <1>3, <2>1, <2>2 DEF WorkerRules
  <1>4. CASE call[c].who = "lead" /\ LeadRules(c)
    <2>1. call[c].want = Keep \/ (~BlockedBy(c) /\ LeadMay(call[c]))
      BY <1>1, <1>4 DEF Forbidden
    <2>2. CASE call[c].want = Keep
      <3>1. \E a : Decide(c, call[c].prev, a)
        BY <1>4, <2>2, NobodyAssumption DEF LeadRules, Status
      <3> QED
        BY <1>4, <2>2, <3>1 DEF OnPurpose
    <2>3. CASE ~BlockedBy(c) /\ LeadMay(call[c])
      <3>1. call[c].prev # "done" /\ \E s, a : Decide(c, s, a)
        BY <1>4, <2>3 DEF LeadMay, LeadRules
      <3> QED
        BY <2>3, <3>1
    <2> QED
      BY <2>1, <2>2, <2>3
  <1> QED
    BY <1>2, <1>3, <1>4 DEF Rules

\* A decision makes a task wait for what the rules have looked at.
LEMMA DecideDeps ==
    ASSUME TypeOK, NEW c \in Call, NEW s, NEW a, Decide(c, s, a), DepsAllowed(c), UNCHANGED <<status, deps>>
    PROVE  /\ call'[c].at = "flush" /\ call'[c].next = s
           /\ call'[c].task = call[c].task /\ call'[c].prev = call[c].prev
           /\ call'[c].who = call[c].who /\ call'[c].want = call[c].want
           /\ call'[c].wantDeps = call[c].wantDeps
           /\ EditsItsOwn(c)'
           /\ call[c].wantDeps = Keep => call'[c].cut = {} /\ call'[c].add = {}
           /\ Blocked(call[c].task, DepsAfter(c))' => BlockedBy(c)
  <1> DEFINE t == call[c].task
             C == IF call[c].wantDeps # Keep THEN {e \in deps : e[1] = t} ELSE {}
             A == IF call[c].wantDeps # Keep THEN EdgesOf(t, Effective(c)) ELSE {}
             new == [call[c] EXCEPT !.at = "flush", !.next = s, !.goes = a, !.cut = C, !.add = A]
  <1>1. call' = [call EXCEPT ![c] = new]
    BY DEF Decide
  <1>2. call[c] \in CallRecord /\ t \in Task
    BY DEF TypeOK, CallRecord
  <1>3. A \subseteq {t} \X Effective(c) /\ (call[c].wantDeps # Keep => Effective(c) = call[c].wantDeps)
    BY DEF EdgesOf, Effective
  <1>4. \A e \in A : e[1] = t /\ e[1] # e[2]
    BY <1>3 DEF DepsAllowed
  <1>5. \A e \in C : e[1] = t
    OBVIOUS
  <1>6. \A u \in Task : <<t, u>> \in (deps \ C) \cup A => <<t, u>> \in EdgesOf(t, Effective(c))
    BY <1>2 DEF EdgesOf, Effective
  <1> HIDE DEF C, A
  <1>7. /\ call'[c].at = "flush" /\ call'[c].next = s
        /\ call'[c].task = t /\ call'[c].prev = call[c].prev
        /\ call'[c].who = call[c].who /\ call'[c].want = call[c].want
        /\ call'[c].wantDeps = call[c].wantDeps
        /\ call'[c].cut = C /\ call'[c].add = A
    BY <1>1, <1>2 DEF TypeOK, CallRecord
  <1>8. call[c].wantDeps = Keep => C = {} /\ A = {}
    BY DEF C, A
  <1>9. Blocked(t, DepsAfter(c))' => BlockedBy(c)
    BY <1>6, <1>7 DEF Blocked, BlockedBy, DepsAfter
  <1>10. EditsItsOwn(c)'
    BY <1>4, <1>5, <1>7 DEF EditsItsOwn
  <1> QED
    BY <1>7, <1>8, <1>9, <1>10

\* Steps of others that touch no row leave a call as it was.
LEMMA InOrderStays ==
    ASSUME NEW d \in Call, InOrder(d), call'[d] = call[d], UNCHANGED <<status, deps>>,
           d \in history.overtaken => d \in history'.overtaken
    PROVE  InOrder(d)'
  <1>1. d \in Deciding' <=> d \in Deciding
    BY DEF Deciding
  <1>2. StatusAfter(d)' = StatusAfter(d) /\ DepsAfter(d)' = DepsAfter(d)
    BY DEF StatusAfter, DepsAfter
  <1>3. Blocked(call[d].task, DepsAfter(d))' <=> Blocked(call[d].task, DepsAfter(d))
    BY <1>2 DEF Blocked
  <1>4. DecidedUnblocked(d) => DecidedUnblocked(d)'
    BY <1>1, <1>2, <1>3 DEF DecidedUnblocked, OnPurpose, StandsStill
  <1>5. CopyIsCurrent(d) => CopyIsCurrent(d)'
    BY <1>1 DEF CopyIsCurrent
  <1>6. EditsItsOwn(d)' /\ LeadKeepsDone(d)' /\ ToggledWasDone(d)'
    BY <1>1 DEF InOrder, EditsItsOwn, LeadKeepsDone, ToggledWasDone
  <1> QED
    BY <1>4, <1>5, <1>6 DEF InOrder

\* A call that is through.
LEMMA InOrderIdle ==
    ASSUME NEW c \in Call, call'[c].at \in {"idle", "refresh"}
    PROVE  InOrder(c)'
  BY DEF InOrder, EditsItsOwn, LeadKeepsDone, ToggledWasDone, CopyIsCurrent, DecidedUnblocked, Deciding

\* A call that goes on with what it has decided.
LEMMA InOrderGoesOn ==
    ASSUME TypeOK, NEW c \in Call, InOrder(c), c \in Deciding, NEW l \in {"gates", "commit"},
           call' = [call EXCEPT ![c].at = l], UNCHANGED <<status, deps, history>>
    PROVE  InOrder(c)'
  <1>1. /\ call'[c].at = l /\ call'[c].task = call[c].task /\ call'[c].prev = call[c].prev
        /\ call'[c].next = call[c].next /\ call'[c].cut = call[c].cut /\ call'[c].add = call[c].add
        /\ call'[c].who = call[c].who /\ call'[c].want = call[c].want
        /\ call'[c].wantDeps = call[c].wantDeps
    BY DEF TypeOK, CallRecord
  <1>2. StatusAfter(c)' = StatusAfter(c) /\ DepsAfter(c)' = DepsAfter(c)
    BY <1>1 DEF StatusAfter, DepsAfter
  <1>3. Blocked(call[c].task, DepsAfter(c))' <=> Blocked(call[c].task, DepsAfter(c))
    BY <1>1, <1>2 DEF Blocked
  <1>4. DecidedUnblocked(c) => DecidedUnblocked(c)'
    BY <1>1, <1>2, <1>3 DEF DecidedUnblocked, OnPurpose, StandsStill
  <1>5. CopyIsCurrent(c) => CopyIsCurrent(c)'
    BY <1>1 DEF CopyIsCurrent
  <1>6. EditsItsOwn(c)' /\ LeadKeepsDone(c)' /\ ToggledWasDone(c)'
    BY <1>1 DEF InOrder, EditsItsOwn, LeadKeepsDone, ToggledWasDone, Deciding
  <1> QED
    BY <1>4, <1>5, <1>6 DEF InOrder

LEMMA InOrderRules ==
    ASSUME TypeOK, NEW c \in Call, InOrder(c), Rules(c), ~Refuse(c)
    PROVE  InOrder(c)'
  <1>1. PICK s, a :
           /\ Decide(c, s, a)
           /\ call[c].who = "lead" /\ call[c].prev = "done" => s = "done"
           /\ call[c].prev = status[call[c].task] =>
                 \/ OnPurpose(c)
                 \/ s = call[c].prev /\ call[c].wantDeps = Keep
                 \/ Flushed(call[c].prev, s, status[call[c].task]) \notin AtWork
                 \/ ~BlockedBy(c)
    BY RulesUnblock
  <1>2. call[c].at = "rules" /\ DepsAllowed(c) /\ UNCHANGED <<status, deps, history>>
    BY DEF Rules, Forbidden, rowVars
  <1>3. /\ call'[c].at = "flush" /\ call'[c].next = s
        /\ call'[c].task = call[c].task /\ call'[c].prev = call[c].prev
        /\ call'[c].who = call[c].who /\ call'[c].want = call[c].want
        /\ call'[c].wantDeps = call[c].wantDeps
        /\ EditsItsOwn(c)'
        /\ call[c].wantDeps = Keep => call'[c].cut = {} /\ call'[c].add = {}
        /\ Blocked(call[c].task, DepsAfter(c))' => BlockedBy(c)
    BY <1>1, <1>2, DecideDeps
  <1>4. CopyIsCurrent(c) => CopyIsCurrent(c)' /\ call[c].prev = status[call[c].task]
    BY <1>2, <1>3 DEF CopyIsCurrent
  <1>5. LeadKeepsDone(c)' /\ ToggledWasDone(c)'
    BY <1>1, <1>3 DEF LeadKeepsDone, ToggledWasDone
  <1>6. call[c].prev = status[call[c].task] => DecidedUnblocked(c)'
    <2>1. StatusAfter(c)' = Flushed(call[c].prev, s, status[call[c].task])
      BY <1>2, <1>3 DEF StatusAfter
    <2>2. OnPurpose(c) => OnPurpose(c)'
      BY <1>3 DEF OnPurpose
    <2> QED
      BY <1>1, <1>3, <2>1, <2>2 DEF DecidedUnblocked, StandsStill
  <1> QED
    BY <1>2, <1>3, <1>4, <1>5, <1>6 DEF InOrder

\* Asked, and the copy is as new as can be.
LEMMA InOrderAsk ==
    ASSUME TypeOK, NEW c \in Call, NEW t \in Task, NEW r \in Request, Ask(c, t, r)
    PROVE  InOrder(c)'
  <1>1. call'[c].at = "rules" /\ call'[c].task = t /\ call'[c].prev = status[t] /\ status' = status
    BY DEF Ask, TypeOK, rowVars, Idle
  <1> QED
    BY <1>1 DEF InOrder, EditsItsOwn, LeadKeepsDone, ToggledWasDone, CopyIsCurrent, DecidedUnblocked,
                Deciding

\* The steps of a call that touch no row.
LEMMA InOrderOwn ==
    ASSUME JInv, NEW c \in Call, InOrder(c), Step(c) \/ Abort(c)
    PROVE  InOrder(c)'
  <1> USE DEF JInv, IInv
  <1>1. CASE Return(c)
    BY <1>1, InOrderIdle DEF Return, Idle, TypeOK
  <1>2. CASE Rules(c) /\ ~Refuse(c)
    BY <1>2, InOrderRules
  <1>3. CASE Flush(c)
    BY <1>3, InOrderGoesOn DEF Flush, Deciding, rowVars
  <1>4. CASE Gates(c) /\ ~Refuse(c)
    BY <1>4, InOrderGoesOn DEF Gates, Deciding, rowVars
  <1>5. CASE Commit(c) /\ ~Return(c)
    <2>1. call' = [call EXCEPT ![c] = [Idle EXCEPT !.at = "refresh", !.who = call[c].who,
                                          !.task = call[c].task, !.prev = call[c].prev]]
      BY <1>5 DEF Commit, Refuse
    <2>2. call'[c].at = "refresh"
      BY <2>1 DEF Idle, TypeOK
    <2> QED
      BY <2>2, InOrderIdle
  <1>6. CASE Refresh(c) /\ ~Return(c)
    <2>1. call'[c].at = "toggle" /\ call'[c].prev = call[c].prev /\ call[c].prev = "done"
      BY <1>6 DEF Refresh, TypeOK, CallRecord
    <2> QED
      BY <2>1 DEF InOrder, EditsItsOwn, LeadKeepsDone, ToggledWasDone, CopyIsCurrent, DecidedUnblocked,
                  Deciding
  <1>7. CASE Toggle(c)
    <2>0. PICK R, F : call[c].at = "toggle"
                      /\ call' = [call EXCEPT ![c].at = "reset", ![c].reset = R, ![c].free = F]
      BY <1>7, Zenon DEF Toggle
    <2>1. call'[c].at = "reset" /\ call'[c].prev = call[c].prev /\ call[c].at = "toggle"
      BY <2>0 DEF TypeOK, CallRecord
    <2> QED
      BY <2>1 DEF InOrder, EditsItsOwn, LeadKeepsDone, ToggledWasDone, CopyIsCurrent, DecidedUnblocked,
                  Deciding
  <1> QED
    BY <1>1, <1>2, <1>3, <1>4, <1>5, <1>6, <1>7 DEF Step, Abort, Reset, Refuse

\* What a commit writes.
LEMMA CommitWrites ==
    ASSUME JInv, NEW c \in Call, Commit(c), ~Refuse(c), EditsItsOwn(c)
    PROVE  /\ call[c].at = "commit" /\ c \in Deciding /\ call[c].task \in Task
           /\ \A u \in Task \ {call[c].task} : status'[u] = status[u]
           /\ status'[call[c].task] = StatusAfter(c)
           /\ deps' = DepsAfter(c)
           /\ \A e : e[1] # call[c].task => (e \in deps' <=> e \in deps)
           /\ Remember(c)
  <1> USE DEF JInv, IInv, TypeOK, CallRecord
  <1>1. call[c].at = "commit" /\ Remember(c) /\ deps' = DepsAfter(c)
    BY DEF Commit, DepsAfter
  <1>2. status' = [status EXCEPT ![call[c].task] = StatusAfter(c)]
    BY DEF Commit, StatusAfter
  <1>3. c \in Deciding
    BY <1>1 DEF Deciding
  <1>4. \A e : e[1] # call[c].task => (e \in deps' <=> e \in deps)
    BY <1>1, <1>3 DEF EditsItsOwn, DepsAfter
  <1> QED
    BY <1>1, <1>2, <1>3, <1>4

\* Whom a commit overtakes.
LEMMA CommitOvertakes ==
    ASSUME JInv, NEW c \in Call, Remember(c), NEW d \in Call, d # c, d \notin history'.overtaken
    PROVE  /\ d \notin history.overtaken /\ d \notin HoldingCopyOf(call[c].task)
           /\ status[call[c].task] = "done" /\ status'[call[c].task] # "done"
                 => d \notin DecidingBy(call[c].task)
  <1> DEFINE t == call[c].task
             O == (history.overtaken \cup HoldingCopyOf(t)
                     \cup (IF status[t] = "done" /\ status'[t] # "done" THEN DecidingBy(t) ELSE {})) \ {c}
  <1>1. history'.overtaken = O
    BY DEF Remember, JInv, HistoryType
  <1>2. t = call[c].task
    OBVIOUS
  <1> QED
    BY <1>1, <1>2

\* A call whose task is not written, and whose dependencies are not reopened.
LEMMA InOrderUntouched ==
    ASSUME TypeOK, TypeOK', NEW d \in Call, InOrder(d), call'[d] = call[d],
           d \notin history'.overtaken => d \notin history.overtaken,
           d \notin history'.overtaken /\ (call[d].at = "rules" \/ d \in Deciding) =>
              /\ status'[call[d].task] = status[call[d].task]
              /\ \A u \in Task : <<call[d].task, u>> \in deps' => <<call[d].task, u>> \in deps
              /\ \A u \in Task : d \in DecidingBy(u) /\ status[u] = "done" => status'[u] = "done"
    PROVE  InOrder(d)'
  <1>1. d \in Deciding' <=> d \in Deciding
    BY DEF Deciding
  <1>2. EditsItsOwn(d)' /\ LeadKeepsDone(d)' /\ ToggledWasDone(d)'
    BY <1>1 DEF InOrder, EditsItsOwn, LeadKeepsDone, ToggledWasDone
  <1>3. ASSUME d \notin history'.overtaken PROVE CopyIsCurrent(d)'
    BY <1>1, <1>3 DEF InOrder, CopyIsCurrent
  <1>4. ASSUME d \notin history'.overtaken, d \in Deciding PROVE DecidedUnblocked(d)'
    <2>1. StatusAfter(d)' = StatusAfter(d)
      BY <1>4 DEF StatusAfter
    <2>2. ASSUME Blocked(call[d].task, DepsAfter(d))' PROVE Blocked(call[d].task, DepsAfter(d))
      <3>1. PICK u \in Task : <<call[d].task, u>> \in DepsAfter(d)' /\ status'[u] # "done"
        BY <2>2 DEF Blocked
      <3>2. <<call[d].task, u>> \in DepsAfter(d)
        BY <1>4, <3>1 DEF DepsAfter
      <3>3. d \in DecidingBy(u)
        BY <1>4, <3>2 DEF DecidingBy, DepsAfter
      <3> QED
        BY <1>4, <3>1, <3>2, <3>3 DEF Blocked
    <2> QED
      BY <1>1, <1>4, <2>1, <2>2 DEF InOrder, DecidedUnblocked, OnPurpose, StandsStill
  <1> QED
    BY <1>1, <1>2, <1>3, <1>4 DEF InOrder, DecidedUnblocked

LEMMA InOrderCommit ==
    ASSUME JInv, TypeOK', NEW c \in Call, EditsItsOwn(c), Commit(c), ~Refuse(c),
           NEW d \in Call, d # c, InOrder(d)
    PROVE  InOrder(d)'
  <1> USE DEF JInv, IInv
  <1>1. /\ call[c].at = "commit" /\ c \in Deciding /\ call[c].task \in Task
        /\ \A u \in Task \ {call[c].task} : status'[u] = status[u]
        /\ \A e : e[1] # call[c].task => (e \in deps' <=> e \in deps)
        /\ Remember(c)
    BY CommitWrites
  <1>2. d \notin history'.overtaken =>
           /\ d \notin history.overtaken /\ d \notin HoldingCopyOf(call[c].task)
           /\ status[call[c].task] = "done" /\ status'[call[c].task] # "done"
                 => d \notin DecidingBy(call[c].task)
    BY <1>1, CommitOvertakes
  <1>3. call'[d] = call[d]
    BY OthersStay DEF Step
  <1>4. ASSUME d \notin history'.overtaken, call[d].at = "rules" \/ d \in Deciding
        PROVE  /\ status'[call[d].task] = status[call[d].task]
               /\ \A u \in Task : <<call[d].task, u>> \in deps' => <<call[d].task, u>> \in deps
               /\ \A u \in Task : d \in DecidingBy(u) /\ status[u] = "done" => status'[u] = "done"
    <2>1. call[d].task # call[c].task /\ call[d].task \in Task
      BY <1>2, <1>4 DEF HoldingCopyOf, TypeOK, CallRecord
    <2> QED
      BY <1>1, <1>2, <1>4, <2>1
  <1> QED
    BY <1>2, <1>3, <1>4, InOrderUntouched

LEMMA InOrderReset ==
    ASSUME JInv, TypeOK', NEW c \in Call, Reset(c), NEW d \in Call, d # c, InOrder(d)
    PROVE  InOrder(d)'
  <1> USE DEF JInv, IInv
  <1>1. /\ deps' = deps
        /\ \A u \in Task : status'[u] = IF u \in call[c].reset THEN "inbox" ELSE status[u]
    BY DEF Reset
  <1>2. history'.overtaken = history.overtaken \cup OvertakenByReset(c)
    <2>1. PICK k : history' = [history EXCEPT !.known = k, !.overtaken = @ \cup OvertakenByReset(c)]
      BY DEF Reset
    <2> QED
      BY <2>1 DEF HistoryType
  <1>3. call'[d] = call[d]
    BY OthersStay DEF Step
  <1>4. call[c].reset \subseteq Task
    BY DEF TypeOK, CallRecord
  <1>5. ASSUME d \notin history'.overtaken, call[d].at = "rules" \/ d \in Deciding
        PROVE  /\ status'[call[d].task] = status[call[d].task]
               /\ \A u \in Task : <<call[d].task, u>> \in deps' => <<call[d].task, u>> \in deps
               /\ \A u \in Task : d \in DecidingBy(u) /\ status[u] = "done" => status'[u] = "done"
    <2>1. call[d].task \notin call[c].reset /\ call[d].task \in Task
      BY <1>2, <1>5 DEF OvertakenByReset, HoldingCopyOf, TypeOK, CallRecord
    <2>2. \A u \in call[c].reset : status[u] = "done" => d \notin DecidingBy(u)
      BY <1>2, <1>5 DEF OvertakenByReset
    <2> QED
      BY <1>1, <1>4, <2>1, <2>2
  <1> QED
    BY <1>2, <1>3, <1>5, InOrderUntouched

\* The steps that write no row.
Quiet(c) ==
    /\ UNCHANGED <<status, deps>>
    /\ \A d \in Call \ {c} : d \in history.overtaken => d \in history'.overtaken
    /\ history.known \subseteq history'.known

LEMMA QuietSteps ==
    ASSUME JInv, NEW c \in Call, Step(c) \/ Abort(c), Commit(c) => Refuse(c), ~Reset(c)
    PROVE  Quiet(c)
  <1> USE DEF JInv, HistoryType, Quiet
  <1>1. CASE Refuse(c)
    BY <1>1 DEF Refuse, rowVars
  <1>2. CASE Abort(c)
    BY <1>2 DEF Abort, rowVars
  <1>3. CASE UNCHANGED <<rowVars, history>>
    BY <1>3 DEF rowVars
  <1> QED
    BY <1>1, <1>2, <1>3 DEF Step, Rules, Flush, Gates, Refresh, Toggle

LEMMA InOrderStep ==
    ASSUME JInv, JInv', [Next]_vars, \A c \in Call : InOrder(c), NEW d \in Call
    PROVE  InOrder(d)'
  <1> USE DEF JInv, IInv
  <1>1. ASSUME NEW c \in Call, Step(c) \/ Abort(c), d # c PROVE InOrder(d)'
    <2>1. CASE Commit(c) /\ ~Refuse(c)
      <3>1. EditsItsOwn(c)
        BY DEF InOrder
      <3> QED
        BY <1>1, <2>1, <3>1, InOrderCommit
    <2>2. CASE Reset(c)
      BY <1>1, <2>2, InOrderReset
    <2>3. CASE (Commit(c) => Refuse(c)) /\ ~Reset(c)
      <3>1. Quiet(c)
        BY <1>1, <2>3, QuietSteps
      <3>2. call'[d] = call[d]
        BY <1>1, OthersStay
      <3> QED
        BY <1>1, <3>1, <3>2, InOrderStays DEF Quiet
    <2> QED
      BY <2>1, <2>2, <2>3
  <1>2. ASSUME Step(d) \/ Abort(d) PROVE InOrder(d)'
    BY <1>2, InOrderOwn
  <1>3. ASSUME NEW c \in Call, NEW t \in Task, NEW r \in Request, Ask(c, t, r) PROVE InOrder(d)'
    <2>1. CASE d = c
      BY <1>3, <2>1, InOrderAsk
    <2>2. CASE d # c
      <3>1. call'[d] = call[d] /\ UNCHANGED <<status, deps, history>>
        BY <1>3, <2>2 DEF Ask, TypeOK, rowVars
      <3> QED
        BY <3>1, InOrderStays
    <2> QED
      BY <2>1, <2>2
  <1>4. ASSUME NEW T \in SUBSET Decidable, ApprovalStep(T) PROVE InOrder(d)'
    <2>1. call'[d] = call[d] /\ UNCHANGED <<status, deps>> /\ history'.overtaken = history.overtaken
      BY <1>4 DEF ApprovalStep, rowVars, HistoryType
    <2> QED
      BY <2>1, InOrderStays
  <1>5. CASE UNCHANGED vars
    BY <1>5, InOrderStays DEF vars, rowVars
  <1> QED
    BY <1>1, <1>2, <1>3, <1>4, <1>5 DEF Next

-----------------------------------------------------------------------------
(* Who waits, and why. *)

LEMMA RiskIsBlocked == ASSUME NEW d \in Task, NEW u \in Task, AtRisk(d, u)' PROVE d \in BlockedWork'
  BY DEF AtRisk, BlockedWork, Blocked

\* A reason is kept by every step of another call that does not forget it.
LEMMA CoveredStays ==
    ASSUME NEW d, NEW u, Covered(d, u), d \in history.known => d \in history'.known,
           \A c \in Call : Resets(c, d, u) => call'[c] = call[c]
    PROVE  Covered(d, u)'
  BY DEF Covered, Resets

\* A call that is to reset a dependent does, or it is cut off.
LEMMA CoveredByOwnStep ==
    ASSUME JInv, NEW c \in Call, Step(c) \/ Abort(c), ~Reset(c), NEW d \in Task, NEW u \in Task,
           AtRisk(d, u), Resets(c, d, u)
    PROVE  Covered(d, u)'
  <1> USE DEF JInv, IInv, TypeOK, CallRecord, Resets
  <1>1. CASE Refresh(c)
    <2>1. call' = [call EXCEPT ![c].at = "toggle"]
      BY <1>1 DEF Refresh, AtRisk
    <2> QED
      BY <2>1 DEF Covered
  <1>2. CASE Toggle(c)
    <2> DEFINE dependents == {e \in Task : <<e, call[c].task>> \in deps /\ status[e] # "done"}
               S == {e \in dependents : status[e] # "inbox"}
               F == {e \in dependents : assignee[e] # "nobody"}
    <2>1. d \in S
      BY DEF AtRisk, AtWork
    <2>2. call' = [call EXCEPT ![c].at = "reset", ![c].reset = S, ![c].free = F]
      BY <1>2 DEF Toggle
    <2> HIDE DEF S, F
    <2>3. call'[c].at = "reset" /\ call'[c].prev = call[c].prev /\ call'[c].task = call[c].task
          /\ d \in call'[c].reset
      BY <2>1, <2>2
    <2> QED
      BY <2>3 DEF Covered
  <1>3. CASE Abort(c)
    <2>1. d \in BlockedWork /\ <<d, call[c].task>> \in deps
      BY DEF AtRisk, BlockedWork, Blocked
    <2>2. history'.known = history.known \cup {e \in BlockedWork : <<e, call[c].task>> \in deps}
      BY <1>3 DEF Abort, HistoryType
    <2> QED
      BY <2>1, <2>2 DEF Covered
  <1> QED
    BY <1>1, <1>2, <1>3 DEF Step, Rules, Flush, Gates, Commit

LEMMA CoveredQuiet ==
    ASSUME JInv, NEW c \in Call, Step(c) \/ Abort(c), Commit(c) => Refuse(c), ~Reset(c),
           WorkIsCovered, NEW d \in Task, NEW u \in Task, AtRisk(d, u)'
    PROVE  Covered(d, u)'
  <1> USE DEF JInv, IInv
  <1>1. Quiet(c)
    BY QuietSteps
  <1>2. AtRisk(d, u)
    BY <1>1 DEF Quiet, AtRisk
  <1>3. Covered(d, u)
    BY <1>2 DEF WorkIsCovered
  <1>4. CASE Resets(c, d, u)
    BY <1>2, <1>4, CoveredByOwnStep
  <1>5. CASE ~Resets(c, d, u)
    <2>1. \A x \in Call : Resets(x, d, u) => call'[x] = call[x]
      BY <1>5, OthersStay
    <2>2. d \in history.known => d \in history'.known
      BY <1>1 DEF Quiet
    <2> QED
      BY <1>3, <2>1, <2>2, CoveredStays
  <1> QED
    BY <1>4, <1>5

\* What is reset is in the inbox, and who waits for what was done is known.
LEMMA CoveredReset ==
    ASSUME JInv, NEW c \in Call, Reset(c), WorkIsCovered, NEW d \in Task, NEW u \in Task, AtRisk(d, u)'
    PROVE  Covered(d, u)'
  <1> USE DEF JInv, IInv
  <1> DEFINE W == UNION {Waiting(e) : e \in {x \in call[c].reset : status[x] = "done"}}
  <1>1. /\ deps' = deps /\ call[c].at = "reset"
        /\ \A x \in Task : status'[x] = IF x \in call[c].reset THEN "inbox" ELSE status[x]
    BY DEF Reset
  <1>2. history'.known = Known(W)
    BY DEF Reset, HistoryType
  <1>3. d \in BlockedWork'
    BY RiskIsBlocked
  <1>4. d \in history.known \/ d \in W => d \in history'.known
    BY <1>2, <1>3 DEF Known
  <1>5. d \notin call[c].reset /\ status'[d] = status[d]
    BY <1>1 DEF AtRisk, AtWork
  <1>6. CASE status[u] = "done"
    <2>1. u \in call[c].reset
      BY <1>1, <1>6 DEF AtRisk
    <2>2. d \in Waiting(u)
      BY DEF AtRisk, Waiting
    <2> QED
      BY <1>4, <1>6, <2>1, <2>2 DEF Covered
  <1>7. CASE status[u] # "done"
    <2>1. Covered(d, u)
      BY <1>1, <1>5, <1>7 DEF AtRisk, WorkIsCovered
    <2>2. \A x \in Call : Resets(x, d, u) => call'[x] = call[x]
      BY <1>1, <1>5, OthersStay DEF Resets, Step
    <2> QED
      BY <1>4, <2>1, <2>2, CoveredStays
  <1> QED
    BY <1>6, <1>7

\* A commit that puts a blocked task to work, or reopens a dependency, says why.
LEMMA CoveredCommit ==
    ASSUME JInv, NEW c \in Call, InOrder(c), Commit(c), ~Refuse(c), WorkIsCovered,
           NoneWaitsForItself', NEW d \in Task, NEW u \in Task, AtRisk(d, u)'
    PROVE  Covered(d, u)'
  <1> USE DEF JInv, IInv
  <1> DEFINE t == call[c].task
             silent == status[t] = "done" /\ status'[t] # "done" /\ call[c].prev # "done"
             K == (IF c \in history.overtaken \/ OnPurpose(c) THEN {t} ELSE {})
                  \cup (IF silent THEN Waiting(t) ELSE {})
  <1>1. /\ call[c].at = "commit" /\ c \in Deciding /\ t \in Task
        /\ \A x \in Task \ {t} : status'[x] = status[x]
        /\ status'[t] = StatusAfter(c) /\ deps' = DepsAfter(c)
        /\ \A e : e[1] # t => (e \in deps' <=> e \in deps)
        /\ Remember(c)
    BY CommitWrites DEF InOrder
  <1>2. history'.known = Known(K)
    BY <1>1 DEF Remember, HistoryType, OnPurpose
  <1>3. d \in BlockedWork'
    BY RiskIsBlocked
  <1>4. d \in history.known \/ d \in K => d \in history'.known
    BY <1>2, <1>3 DEF Known
  <1>5. AtRisk(d, u) => Covered(d, u)'
    <2>1. AtRisk(d, u) => Covered(d, u)
      BY DEF WorkIsCovered
    <2>2. \A x \in Call : Resets(x, d, u) => call'[x] = call[x]
      BY <1>1, OthersStay DEF Resets, Step
    <2> HIDE DEF K
    <2> QED
      BY <1>4, <2>1, <2>2, CoveredStays
  <1>6. d # u
    BY DEF NoneWaitsForItself, AtRisk
  <1>7. CASE d = t
    <2>1. status[u] # "done"
      BY <1>1, <1>6, <1>7 DEF AtRisk
    <2>2. Blocked(t, DepsAfter(c)) /\ StatusAfter(c) \in AtWork
      BY <1>1, <1>7, <2>1 DEF AtRisk, Blocked
    <2>3. CASE c \in history.overtaken \/ OnPurpose(c)
      BY <1>4, <1>7, <2>3 DEF Covered
    <2>4. CASE c \notin history.overtaken /\ ~OnPurpose(c)
      <3>1. StandsStill(c)
        BY <1>1, <2>2, <2>4 DEF InOrder, DecidedUnblocked
      <3>2. status'[t] = status[t] /\ deps' = deps
        BY <1>1, <3>1 DEF StandsStill, StatusAfter, DepsAfter, Flushed
      <3> QED
        BY <1>5, <1>7, <2>1, <3>2 DEF AtRisk
    <2> QED
      BY <2>3, <2>4
  <1>8. CASE d # t /\ u = t
    <2>1. <<d, t>> \in deps /\ status[d] \in AtWork
      BY <1>1, <1>8 DEF AtRisk
    <2>2. CASE status[t] # "done"
      BY <1>5, <1>8, <2>1, <2>2 DEF AtRisk
    <2>3. CASE status[t] = "done" /\ call[c].prev # "done"
      <3>1. silent /\ d \in Waiting(t)
        BY <1>8, <2>3 DEF AtRisk, Waiting
      <3> QED
        BY <1>4, <3>1 DEF Covered
    <2>4. CASE status[t] = "done" /\ call[c].prev = "done"
      <3>1. call[c].who # "lead"
        <4>1. status'[t] # "done"
          BY <1>8 DEF AtRisk
        <4> QED
          BY <1>1, <2>4, <4>1 DEF InOrder, LeadKeepsDone, StatusAfter, Flushed
      <3>2. call' = [call EXCEPT ![c] = [Idle EXCEPT !.at = "refresh", !.who = call[c].who,
                                            !.task = t, !.prev = call[c].prev]]
        BY <3>1 DEF Commit, Refuse
      <3>3. call'[c].at = "refresh" /\ call'[c].prev = "done" /\ call'[c].task = t
        BY <2>4, <3>2 DEF Idle, TypeOK
      <3> QED
        BY <1>8, <3>3 DEF Covered, Resets
    <2> QED
      BY <2>2, <2>3, <2>4
  <1>9. CASE d # t /\ u # t
    BY <1>1, <1>5, <1>9 DEF AtRisk
  <1> QED
    BY <1>7, <1>8, <1>9

LEMMA WaitingStep == JInv /\ WInv /\ [Next]_vars => JInv' /\ WInv'
  <1> SUFFICES ASSUME JInv, WInv, [Next]_vars PROVE JInv' /\ WInv'
    OBVIOUS
  <1>1. JInv'
    BY JustifiedStep
  <1>2. \A c \in Call : InOrder(c)'
    BY <1>1, InOrderStep DEF WInv
  <1>3. NoneWaitsForItself'
    <2>1. CASE deps' = deps
      BY <2>1 DEF WInv, NoneWaitsForItself
    <2>2. ASSUME NEW c \in Call, Commit(c), ~Refuse(c) PROVE NoneWaitsForItself'
      <3>1. EditsItsOwn(c)
        BY DEF WInv, InOrder
      <3>2. c \in Deciding /\ deps' = DepsAfter(c)
        BY <2>2, <3>1, CommitWrites
      <3> QED
        BY <3>1, <3>2 DEF WInv, NoneWaitsForItself, EditsItsOwn, DepsAfter
    <2> QED
      BY <2>1, <2>2 DEF Next, Step, Ask, Abort, Rules, UserRules, WorkerRules, LeadRules, Flush, Gates,
         Commit, Refresh, Toggle, Reset, Refuse, ApprovalStep, vars, rowVars
  <1>4. WorkIsCovered'
    <2> SUFFICES ASSUME NEW d \in Task, NEW u \in Task, AtRisk(d, u)' PROVE Covered(d, u)'
      BY DEF WorkIsCovered
    <2>1. ASSUME NEW c \in Call, Step(c) \/ Abort(c) PROVE Covered(d, u)'
      <3>1. CASE Commit(c) /\ ~Refuse(c)
        BY <1>3, <3>1, CoveredCommit DEF WInv
      <3>2. CASE Reset(c)
        BY <3>2, CoveredReset DEF WInv
      <3>3. CASE (Commit(c) => Refuse(c)) /\ ~Reset(c)
        BY <2>1, <3>3, CoveredQuiet DEF WInv
      <3> QED
        BY <3>1, <3>2, <3>3
    <2>2. ASSUME UNCHANGED <<status, deps>>, history'.known = history.known,
                 \A c \in Call : call[c].at # "idle" => call'[c] = call[c]
          PROVE  Covered(d, u)'
      <3>1. Covered(d, u)
        BY <2>2 DEF WInv, WorkIsCovered, AtRisk
      <3> QED
        BY <2>2, <3>1 DEF Covered, Resets
    <2>3. ASSUME NEW c \in Call, NEW t \in Task, NEW r \in Request, Ask(c, t, r)
          PROVE  Covered(d, u)'
      BY <2>2, <2>3 DEF Ask, rowVars, JInv, IInv, TypeOK
    <2>4. ASSUME NEW T \in SUBSET Decidable, ApprovalStep(T) PROVE Covered(d, u)'
      BY <2>2, <2>4 DEF ApprovalStep, rowVars, JInv, HistoryType
    <2>5. CASE UNCHANGED vars
      BY <2>2, <2>5 DEF vars, rowVars
    <2> QED
      BY <2>1, <2>3, <2>4, <2>5 DEF Next
  <1> QED
    BY <1>1, <1>2, <1>3, <1>4 DEF WInv

LEMMA WaitingStarts == Init => JInv /\ WInv
  <1> SUFFICES ASSUME Init PROVE JInv /\ WInv
    OBVIOUS
  <1>1. JInv
    BY InitialState DEF Init, JInv, HistoryType, Recorded, Justified, Idle
  <1>2. NoneWaitsForItself
    <2> SUFFICES ASSUME NEW e \in deps PROVE e[1] # e[2]
      BY DEF NoneWaitsForItself
    <2>1. e[1] \in Nat /\ e[2] \in Nat /\ e[2] < e[1]
      BY TaskAssumption DEF Init
    <2> QED
      BY <2>1
  <1>3. \A c \in Call : InOrder(c)
    BY DEF Init, Idle, InOrder, EditsItsOwn, LeadKeepsDone, ToggledWasDone, CopyIsCurrent,
           DecidedUnblocked, Deciding
  <1>4. WorkIsCovered
    BY DEF Init, WorkIsCovered, AtRisk, AtWork, Blocked
  <1> QED
    BY <1>1, <1>2, <1>3, <1>4 DEF WInv

\* A blocked task at work has a call that will reset it, or one of the reasons
\* of BlockedWorkIsKnown: no other interleaving of calls, rules, gates, resets
\* and failures puts one there.
THEOREM BlockedWorkIsExplained == Spec => []BlockedWorkIsKnown
  <1>1. JInv /\ WInv => BlockedWorkIsKnown
    <2> SUFFICES ASSUME JInv, WInv, NEW d \in BlockedWork, d \notin history.known
                 PROVE  \E c \in Call :
                           \/ call[c].at \in {"refresh", "toggle"} /\ call[c].prev = "done"
                                 /\ <<d, call[c].task>> \in deps
                           \/ call[c].at = "reset" /\ d \in call[c].reset
      BY DEF BlockedWorkIsKnown
    <2>1. PICK u \in Task : AtRisk(d, u)
      BY DEF BlockedWork, Blocked, AtRisk
    <2>2. PICK c \in Call : Resets(c, d, u)
      BY <2>1 DEF WInv, WorkIsCovered, Covered, BlockedWork
    <2> QED
      BY <2>1, <2>2 DEF Resets, AtRisk
  <1> QED
    BY <1>1, WaitingStarts, WaitingStep, PTL DEF Spec

-----------------------------------------------------------------------------
(* The search.  There is a function that does what its definition says, and *)
(* it finds a circle exactly where there is one.  Both are shown for the    *)
(* least query for which they could fail.                                   *)

\* Queries to which the answer to q leads have fewer nodes to visit, or the same and
\* fewer to look at.
Size(N, q) == Cardinality(N \ q.visited) * Cardinality(N) + Cardinality(q.todo)

\* Nothing visited is forgotten.
Sane(N, q, r) == r \in [found : BOOLEAN, visited : SUBSET N] /\ q.visited \subseteq r.visited

LEMMA Sizes ==
    ASSUME NEW N, IsFiniteSet(N), NEW q \in Query(N)
    PROVE  /\ Cardinality(N) \in Nat /\ Cardinality(N \ q.visited) \in 0..Cardinality(N)
           /\ Cardinality(q.todo) \in 0..Cardinality(N) /\ Size(N, q) \in Nat
           /\ q.todo # {} => Cardinality(q.todo) > 0
           /\ IsFiniteSet(q.todo) /\ IsFiniteSet(N \ q.visited)
  <1>1. q.todo \subseteq N /\ q.visited \subseteq N
    BY DEF Query
  <1>2. /\ IsFiniteSet(q.todo) /\ Cardinality(q.todo) <= Cardinality(N)
        /\ IsFiniteSet(N \ q.visited) /\ Cardinality(N \ q.visited) <= Cardinality(N)
    BY <1>1, FS_Subset
  <1>3. Cardinality(N) \in Nat /\ Cardinality(q.todo) \in Nat /\ Cardinality(N \ q.visited) \in Nat
    BY <1>2, FS_CardinalityType
  <1>4. q.todo # {} => Cardinality(q.todo) # 0
    BY <1>2, FS_EmptySet
  <1>5. \A a, b, c \in Nat : a * b + c \in Nat
    OBVIOUS
  <1> QED
    BY <1>2, <1>3, <1>4, <1>5 DEF Size

LEMMA Product ==
    ASSUME NEW a \in Nat, NEW b \in Nat, NEW n \in Nat, a < b
    PROVE  a * n + n <= b * n
  <1>1. PICK e \in Nat : b = a + 1 + e
    <2>1. b - a - 1 \in Nat /\ b = a + 1 + (b - a - 1)
      OBVIOUS
    <2> QED
      BY <2>1
  <1>2. b * n = a * n + n + e * n
    BY <1>1
  <1>3. e * n \in Nat /\ a * n \in Nat /\ b * n \in Nat
    OBVIOUS
  <1> QED
    BY <1>2, <1>3

\* A node that is visited for the first time makes the query smaller ...
LEMMA EnteringIsSmaller ==
    ASSUME NEW N, IsFiniteSet(N), NEW q \in Query(N), NEW p \in Query(N),
           q.todo # {}, NEW x \in N \ q.visited, p.visited = q.visited \cup {x}
    PROVE  Size(N, p) < Size(N, q)
  <1> DEFINE n == Cardinality(N)
             b == Cardinality(N \ q.visited)
             a == Cardinality(N \ p.visited)
             s == Cardinality(p.todo)
             t == Cardinality(q.todo)
  <1>1. n \in Nat /\ a \in Nat /\ b \in Nat /\ s \in Nat /\ t \in Nat /\ t > 0 /\ s <= n
    BY Sizes
  <1>2. a < b
    <2>1. N \ p.visited = (N \ q.visited) \ {x}
      OBVIOUS
    <2>2. IsFiniteSet(N \ q.visited)
      BY Sizes
    <2>3. Cardinality((N \ q.visited) \ {x}) = Cardinality(N \ q.visited) - 1
      BY <2>2, FS_RemoveElement
    <2>4. a = b - 1
      BY <2>1, <2>3
    <2> QED
      BY <1>1, <2>4
  <1> HIDE DEF n, a, b, s, t
  <1>3. a * n + n <= b * n /\ a * n \in Nat /\ b * n \in Nat
    BY <1>1, <1>2, Product
  <1>4. a * n + s < b * n + t
    BY <1>1, <1>3
  <1> QED
    BY <1>4 DEF Size, n, a, b, s, t

\* ... and so does one that is done with, if no node is forgotten.
LEMMA GoingOnIsSmaller ==
    ASSUME NEW N, IsFiniteSet(N), NEW q \in Query(N), NEW p \in Query(N),
           NEW x \in q.todo, p.todo = q.todo \ {x}, q.visited \subseteq p.visited
    PROVE  Size(N, p) < Size(N, q)
  <1> DEFINE n == Cardinality(N)
             b == Cardinality(N \ q.visited)
             a == Cardinality(N \ p.visited)
             s == Cardinality(p.todo)
             t == Cardinality(q.todo)
  <1>1. n \in Nat /\ a \in Nat /\ b \in Nat /\ s \in Nat /\ t \in Nat
    <2>1. a \in Nat /\ s \in Nat
      <3>1. \A r \in Query(N) : Cardinality(N \ r.visited) \in Nat /\ Cardinality(r.todo) \in Nat
        BY Sizes
      <3> QED
        BY <3>1, Zenon
    <2>2. n \in Nat /\ b \in Nat /\ t \in Nat
      BY Sizes
    <2> QED
      BY <2>1, <2>2
  <1>2. a <= b
    <2>1. (N \ p.visited) \in SUBSET (N \ q.visited)
      OBVIOUS
    <2>2. IsFiniteSet(N \ q.visited)
      BY Sizes
    <2> QED
      BY <2>1, <2>2, FS_Subset
  <1>3. s = t - 1
    <2>1. IsFiniteSet(q.todo)
      BY Sizes
    <2>2. Cardinality(q.todo \ {x}) = Cardinality(q.todo) - 1
      BY <2>1, FS_RemoveElement
    <2> QED
      BY <2>2
  <1> HIDE DEF n, a, b, s, t
  <1>4. a * n <= b * n /\ a * n \in Nat /\ b * n \in Nat
    <2>1. CASE a = b
      BY <1>1, <2>1
    <2>2. CASE a < b
      BY <1>1, <2>2, Product
    <2> QED
      BY <1>1, <1>2, <2>1, <2>2
  <1>5. a * n + s < b * n + t
    BY <1>1, <1>3, <1>4
  <1> QED
    BY <1>5 DEF Size, n, a, b, s, t

\* A set of numbers has a least one.
LEMMA Least ==
    ASSUME NEW S, S \subseteq Nat, S # {}
    PROVE  \E x \in S : \A y \in S : ~(y < x)
  <1> DEFINE Less == {s \in Nat \X Nat : s[1] < s[2]}
  <1>1. IsWellFoundedOn(Less, Nat)
    BY NatLessThanWellFounded, Zenon DEF OpToRel
  <1>2. \E x \in S : \A y \in S : ~(<<y, x>> \in Less)
    BY <1>1, WFMin
  <1>3. \A x, y \in Nat : y < x => <<y, x>> \in Less
    OBVIOUS
  <1> QED
    BY <1>2, <1>3

\* Where some queries fail, there is one of which the smaller ones do not.
LEMMA LeastQuery ==
    ASSUME NEW N, IsFiniteSet(N), NEW S, S \subseteq Query(N), S # {}
    PROVE  \E q \in S : \A p \in Query(N) : Size(N, p) < Size(N, q) => p \notin S
  <1> DEFINE Z == {Size(N, q) : q \in S}
  <1>1. Z \subseteq Nat /\ Z # {}
    BY Sizes
  <1>2. PICK z \in Z : \A y \in Z : ~(y < z)
    BY <1>1, Least
  <1> QED
    BY <1>2

Entered(E, q, x) ==
    [todo |-> After(x, E), visited |-> q.visited \cup {x}, stack |-> q.stack \cup {x}]
Rest(q, x, r) == [todo |-> q.todo \ {x}, visited |-> r.visited, stack |-> q.stack]

LEMMA EnteredQuery ==
    ASSUME NEW N, IsFiniteSet(N), NEW E \in SUBSET (N \X N), NEW q \in Query(N),
           NEW x \in q.todo, x \notin q.visited
    PROVE  Entered(E, q, x) \in Query(N) /\ Size(N, Entered(E, q, x)) < Size(N, q)
  <1>1. x \in N \ q.visited
    BY DEF Query
  <1>2. After(x, E) \subseteq N
    BY DEF After
  <1>3. Entered(E, q, x) \in Query(N)
    BY <1>1, <1>2 DEF Query, Entered
  <1>4. Entered(E, q, x).visited = q.visited \cup {x} /\ q.todo # {}
    BY DEF Entered
  <1> QED
    BY <1>1, <1>3, <1>4, EnteringIsSmaller

LEMMA RestQuery ==
    ASSUME NEW N, IsFiniteSet(N), NEW q \in Query(N), NEW x \in q.todo, NEW r, Sane(N, q, r)
    PROVE  Rest(q, x, r) \in Query(N) /\ Size(N, Rest(q, x, r)) < Size(N, q)
  <1>1. Rest(q, x, r) \in Query(N)
    BY DEF Query, Sane, Rest
  <1>2. Rest(q, x, r).todo = q.todo \ {x} /\ q.visited \subseteq Rest(q, x, r).visited
    BY DEF Sane, Rest
  <1> QED
    BY <1>1, <1>2, GoingOnIsSmaller

\* Functions that answer smaller queries alike, and forget nothing.
Agree(N, q, f, g) ==
    \A p \in Query(N) : Size(N, p) < Size(N, q) => f[p] = g[p] /\ Sane(N, p, f[p])

\* An answer rests on the answers to smaller queries alone.
LEMMA DfsIsLocal ==
    ASSUME NEW N, IsFiniteSet(N), NEW E \in SUBSET (N \X N), NEW q \in Query(N),
           NEW f, NEW g, Agree(N, q, f, g), NEW x \in q.todo
    PROVE  Dfs(f, E, q, x) = Dfs(g, E, q, x) /\ Sane(N, q, Dfs(f, E, q, x))
  <1>1. q.visited \subseteq N
    BY DEF Query
  <1>2. CASE OnStack(x, q) \/ x \in q.visited
    BY <1>1, <1>2 DEF Dfs, Sane
  <1>3. CASE ~OnStack(x, q) /\ x \notin q.visited
    <2>1. Dfs(f, E, q, x) = f[Entered(E, q, x)] /\ Dfs(g, E, q, x) = g[Entered(E, q, x)]
      BY <1>3 DEF Dfs, Entered
    <2>2. f[Entered(E, q, x)] = g[Entered(E, q, x)] /\ Sane(N, Entered(E, q, x), f[Entered(E, q, x)])
      BY <1>3, EnteredQuery DEF Agree
    <2>3. q.visited \subseteq Entered(E, q, x).visited
      BY DEF Entered
    <2> QED
      BY <2>1, <2>2, <2>3 DEF Sane
  <1> QED
    BY <1>2, <1>3

LEMMA LoopIsLocal ==
    ASSUME NEW N, IsFiniteSet(N), NEW E \in SUBSET (N \X N), NEW q \in Query(N),
           NEW f, NEW g, Agree(N, q, f, g)
    PROVE  Loop(f, E, q) = Loop(g, E, q) /\ Sane(N, q, Loop(f, E, q))
  <1>1. CASE q.todo = {}
    BY <1>1 DEF Loop, Sane, Query
  <1>2. CASE q.todo # {}
    <2> DEFINE x == CHOOSE n \in q.todo : TRUE
               r == Dfs(f, E, q, x)
    <2>1. x \in q.todo
      BY <1>2
    <2> HIDE DEF x
    <2>2. r = Dfs(g, E, q, x) /\ Sane(N, q, r)
      BY <2>1, DfsIsLocal
    <2>3. Loop(f, E, q) = IF r.found THEN r ELSE f[Rest(q, x, r)]
      BY <1>2 DEF Loop, Rest, x
    <2>4. Loop(g, E, q) = IF r.found THEN r ELSE g[Rest(q, x, r)]
      BY <1>2, <2>2 DEF Loop, Rest, x
    <2> HIDE DEF r
    <2>5. Rest(q, x, r) \in Query(N) /\ Size(N, Rest(q, x, r)) < Size(N, q)
      BY <2>1, <2>2, RestQuery
    <2>6. f[Rest(q, x, r)] = g[Rest(q, x, r)] /\ Sane(N, Rest(q, x, r), f[Rest(q, x, r)])
      BY <2>5 DEF Agree
    <2>7. q.visited \subseteq Rest(q, x, r).visited
      BY <2>2 DEF Rest, Sane
    <2> QED
      BY <2>2, <2>3, <2>4, <2>6, <2>7 DEF Sane
  <1> QED
    BY <1>1, <1>2

\* A function that does as it should for queries below a size.
Answers(f, N, E, k) ==
    /\ f = [q \in Query(N) |-> f[q]]
    /\ \A q \in Query(N) : Size(N, q) < k => f[q] = Loop(f, E, q) /\ Sane(N, q, f[q])

LEMMA AnswersExist ==
    ASSUME NEW N, IsFiniteSet(N), NEW E \in SUBSET (N \X N)
    PROVE  \A k \in Nat : \E f : Answers(f, N, E, k)
  <1>0. \A q \in Query(N) : Size(N, q) \in Nat
    BY Sizes
  <1> DEFINE Z == {k \in Nat : ~\E f : Answers(f, N, E, k)}
  <1> SUFFICES ASSUME Z # {} PROVE FALSE
    OBVIOUS
  <1>1. PICK k \in Z : \A y \in Z : ~(y < k)
    BY Least
  <1>2. k # 0
    <2>1. \A q \in Query(N) : ~(Size(N, q) < 0)
      BY <1>0
    <2>2. Answers([q \in Query(N) |-> 0], N, E, 0)
      BY <2>1 DEF Answers
    <2> QED
      BY <2>2
  <1>3. k - 1 \in Nat /\ k - 1 < k
    BY <1>2
  <1>4. PICK f : Answers(f, N, E, k - 1)
    BY <1>1, <1>3
  <1> DEFINE g == [q \in Query(N) |-> IF Size(N, q) < k - 1 THEN f[q] ELSE Loop(f, E, q)]
  <1>5. ASSUME NEW q \in Query(N), Size(N, q) < k PROVE g[q] = Loop(g, E, q) /\ Sane(N, q, g[q])
    <2>1. ASSUME NEW p \in Query(N), Size(N, p) < Size(N, q) PROVE f[p] = g[p] /\ Sane(N, p, f[p])
      <3>1. Size(N, p) < k - 1
        BY <1>0, <1>1, <1>5, <2>1
      <3> QED
        BY <1>4, <3>1 DEF Answers
    <2>2. Loop(f, E, q) = Loop(g, E, q) /\ Sane(N, q, Loop(f, E, q))
      <3> HIDE DEF g
      <3>1. Agree(N, q, f, g)
        BY <2>1 DEF Agree
      <3> QED
        BY <3>1, LoopIsLocal
    <2>3. g[q] = Loop(f, E, q)
      BY <1>4 DEF Answers
    <2> QED
      BY <2>2, <2>3
  <1>6. Answers(g, N, E, k)
    <2>1. g = [q \in Query(N) |-> g[q]]
      OBVIOUS
    <2> HIDE DEF g
    <2> QED
      BY <1>5, <2>1 DEF Answers
  <1> QED
    BY <1>6

\* The search answers every query by its definition.
LEMMA SearchAnswers ==
    ASSUME NEW N, IsFiniteSet(N), NEW E \in SUBSET (N \X N), NEW q \in Query(N)
    PROVE  /\ Search(N, E)[q] = Loop(Search(N, E), E, q)
           /\ Agree(N, q, Search(N, E), Search(N, E))
  <1> DEFINE c == Cardinality(N)
             k == c * c + c + 1
  <1>1. \A p \in Query(N) : Size(N, p) < k
    <2> SUFFICES ASSUME NEW p \in Query(N) PROVE Size(N, p) < k
      OBVIOUS
    <2> DEFINE b == Cardinality(N \ p.visited)
               t == Cardinality(p.todo)
    <2>1. c \in Nat /\ b \in Nat /\ t \in Nat /\ b <= c /\ t <= c
      BY Sizes
    <2> HIDE DEF b, t, c
    <2>2. b * c <= c * c /\ b * c \in Nat /\ c * c \in Nat
      <3>1. b = c \/ b < c
        BY <2>1
      <3>2. c * c \in Nat /\ b * c \in Nat
        BY <2>1
      <3>3. b < c => b * c + c <= c * c
        BY <2>1, Product
      <3> QED
        BY <2>1, <3>1, <3>2, <3>3
    <2>3. b * c + t < c * c + c + 1
      BY <2>1, <2>2
    <2> QED
      BY <2>3 DEF Size, b, t, c
  <1>2. k \in Nat
    <2>1. c \in Nat
      BY FS_CardinalityType
    <2> HIDE DEF c
    <2>2. c * c \in Nat
      BY <2>1
    <2> QED
      BY <2>1, <2>2
  <1> HIDE DEF k
  <1>3. PICK f : Answers(f, N, E, k)
    BY <1>2, AnswersExist
  <1>4. f = [p \in Query(N) |-> Loop(f, E, p)]
    BY <1>1, <1>3 DEF Answers
  <1>5. Search(N, E) = [p \in Query(N) |-> Loop(Search(N, E), E, p)]
    BY <1>4 DEF Search
  <1>6. \A p \in Query(N) : Search(N, E)[p] = Loop(Search(N, E), E, p)
    BY <1>5
  <1> DEFINE d == Search(N, E)
             Z == {p \in Query(N) : ~Sane(N, p, d[p])}
  <1> HIDE DEF d
  <1>7. Z = {}
    <2> SUFFICES ASSUME Z # {} PROVE FALSE
      OBVIOUS
    <2>1. PICK z \in Z : \A p \in Query(N) : Size(N, p) < Size(N, z) => p \notin Z
      <3>1. Z \subseteq Query(N)
        OBVIOUS
      <3> QED
        BY <3>1, LeastQuery
    <2>2. Agree(N, z, d, d)
      BY <2>1 DEF Agree
    <2>3. Sane(N, z, Loop(d, E, z))
      BY <2>2, LoopIsLocal
    <2>4. d[z] = Loop(d, E, z)
      BY <1>6 DEF d
    <2> QED
      BY <2>3, <2>4
  <1>8. Agree(N, q, d, d)
    BY <1>7 DEF Agree
  <1> QED
    BY <1>6, <1>8 DEF d

-----------------------------------------------------------------------------
(* What it finds. *)

\* From s each task of P waits for one of P, or for t.
Leads(P, E, s, t) == s \in P /\ \A x \in P : \E y \in P \cup {t} : <<x, y>> \in E

\* Every node on the stack leads to every node still to come.
Stacked(N, E, q) == \A s \in q.stack, t \in q.todo : \E P \in SUBSET N : Leads(P, E, s, t)

\* A node on the stack that is met again lies on a circle.
LEMMA FoundIsCircle ==
    ASSUME NEW N, IsFiniteSet(N), NEW E \in SUBSET (N \X N), NEW q \in Query(N), Stacked(N, E, q),
           Search(N, E)[q].found
    PROVE  Circle(N, E)
  <1> DEFINE d == Search(N, E)
             Z == {p \in Query(N) : Stacked(N, E, p) /\ d[p].found}
  <1> SUFFICES ASSUME ~Circle(N, E) PROVE FALSE
    OBVIOUS
  <1> HIDE DEF d
  <1>1. q \in Z /\ Z \subseteq Query(N)
    BY DEF d
  <1>2. PICK z \in Z : \A p \in Query(N) : Size(N, p) < Size(N, z) => p \notin Z
    BY <1>1, LeastQuery
  <1>3. d[z] = Loop(d, E, z) /\ Agree(N, z, d, d)
    BY SearchAnswers DEF d
  <1>4. z.todo # {}
    BY <1>2, <1>3 DEF Loop
  <1> DEFINE x == CHOOSE n \in z.todo : TRUE
             r == Dfs(d, E, z, x)
  <1>5. x \in z.todo /\ x \in N
    BY <1>4 DEF Query
  <1> HIDE DEF x
  <1>6. Sane(N, z, r)
    BY <1>3, <1>5, DfsIsLocal
  <1>7. d[z] = IF r.found THEN r ELSE d[Rest(z, x, r)]
    BY <1>3, <1>4 DEF Loop, Rest, x
  <1>8. ~r.found
    <2> SUFFICES ASSUME r.found PROVE FALSE
      OBVIOUS
    <2>1. CASE OnStack(x, z)
      <3>1. PICK P \in SUBSET N : Leads(P, E, x, x)
        BY <1>2, <1>5, <2>1 DEF OnStack, Stacked
      <3>2. Circle(N, E)
        BY <3>1 DEF Leads, Circle
      <3> QED
        BY <3>2
    <2>2. CASE ~OnStack(x, z) /\ x \in z.visited
      BY <2>2 DEF Dfs
    <2>3. CASE ~OnStack(x, z) /\ x \notin z.visited
      <3> DEFINE p == Entered(E, z, x)
      <3>1. r = d[p]
        BY <2>3 DEF Dfs, Entered
      <3>2. p \in Query(N) /\ Size(N, p) < Size(N, z)
        BY <1>5, <2>3, EnteredQuery
      <3>3. Stacked(N, E, p)
        <4> SUFFICES ASSUME NEW s \in z.stack \cup {x}, NEW t \in After(x, E)
                     PROVE  \E P \in SUBSET N : Leads(P, E, s, t)
          BY DEF Stacked, Entered
        <4>1. <<x, t>> \in E
          BY DEF After
        <4>2. CASE s = x
          <5>1. Leads({x}, E, s, t)
            BY <4>1, <4>2 DEF Leads
          <5> QED
            BY <1>5, <5>1
        <4>3. CASE s \in z.stack
          <5>1. PICK P \in SUBSET N : Leads(P, E, s, x)
            BY <1>2, <1>5, <4>3 DEF Stacked
          <5>2. Leads(P \cup {x}, E, s, t)
            BY <4>1, <5>1 DEF Leads
          <5> QED
            BY <1>5, <5>2
        <4> QED
          BY <4>2, <4>3
      <3> HIDE DEF p
      <3> QED
        BY <1>2, <3>1, <3>2, <3>3
    <2> QED
      BY <2>1, <2>2, <2>3
  <1> HIDE DEF r
  <1>9. Rest(z, x, r) \in Query(N) /\ Size(N, Rest(z, x, r)) < Size(N, z)
    BY <1>5, <1>6, RestQuery
  <1>10. Stacked(N, E, Rest(z, x, r))
    BY <1>2 DEF Stacked, Rest
  <1> QED
    BY <1>2, <1>7, <1>8, <1>9, <1>10

\* Nodes that were left: they lead to no others, and not in a circle.
Closed(D, E) == (\A x \in D : After(x, E) \subseteq D) /\ ~Circle(D, E)

LEMMA LeavingIsClosed ==
    ASSUME NEW D, NEW E, NEW x, Closed(D, E), After(x, E) \subseteq D, x \notin D
    PROVE  Closed(D \cup {x}, E)
  <1>1. \A y \in D \cup {x} : After(y, E) \subseteq D
    BY DEF Closed
  <1>2. ~Circle(D \cup {x}, E)
    <2> SUFFICES ASSUME NEW S \in SUBSET (D \cup {x}), S # {}, \A t \in S : \E u \in S : <<t, u>> \in E
                 PROVE  FALSE
      BY DEF Circle
    <2>1. ASSUME NEW t \in S PROVE \E u \in S : <<t, u>> \in E /\ u \in D
      <3>1. PICK u \in S : <<t, u>> \in E
        OBVIOUS
      <3>2. u \in After(t, E)
        <4>1. <<t, u>>[1] = t /\ <<t, u>>[2] = u
          OBVIOUS
        <4> QED
          BY <3>1, <4>1 DEF After
      <3> QED
        BY <1>1, <3>1, <3>2
    <2> DEFINE T == S \ {x}
    <2>2. T \in SUBSET D /\ T # {} /\ \A t \in T : \E u \in T : <<t, u>> \in E
      <3>1. ASSUME NEW t \in S PROVE \E u \in T : <<t, u>> \in E
        <4>1. PICK u \in S : <<t, u>> \in E /\ u \in D
          BY <2>1
        <4>2. u \in T
          BY <4>1
        <4> QED
          BY <4>1, <4>2
      <3>2. PICK s \in S : TRUE
        OBVIOUS
      <3>3. T # {}
        BY <3>1, <3>2
      <3> QED
        BY <3>1, <3>3
    <2>3. Circle(D, E)
      <3> HIDE DEF T
      <3> QED
        BY <2>2 DEF Circle
    <2> QED
      BY <2>3 DEF Closed
  <1> QED
    BY <1>1, <1>2 DEF Closed

\* What was left before the query, and what is left after it.
Sound(E, q) == q.stack \subseteq q.visited /\ Closed(q.visited \ q.stack, E)
Done(E, q, r) == Closed(r.visited \ q.stack, E) /\ q.todo \subseteq r.visited \ q.stack

\* Where nothing is found, all that was looked at is left.
LEMMA NotFoundIsDone ==
    ASSUME NEW N, IsFiniteSet(N), NEW E \in SUBSET (N \X N), NEW q \in Query(N), Sound(E, q),
           ~Search(N, E)[q].found
    PROVE  Done(E, q, Search(N, E)[q])
  <1> DEFINE d == Search(N, E)
             Z == {p \in Query(N) : Sound(E, p) /\ ~d[p].found /\ ~Done(E, p, d[p])}
  <1> SUFFICES ASSUME ~Done(E, q, Search(N, E)[q]) PROVE FALSE
    OBVIOUS
  <1> HIDE DEF d
  <1>1. q \in Z /\ Z \subseteq Query(N)
    BY DEF d
  <1>2. PICK z \in Z : \A p \in Query(N) : Size(N, p) < Size(N, z) => p \notin Z
    BY <1>1, LeastQuery
  <1>3. d[z] = Loop(d, E, z) /\ Agree(N, z, d, d)
    BY SearchAnswers DEF d
  <1>4. z.todo # {}
    <2> SUFFICES ASSUME z.todo = {} PROVE FALSE
      OBVIOUS
    <2>1. d[z].visited = z.visited
      BY <1>3 DEF Loop
    <2> QED
      BY <1>2, <2>1 DEF Done, Sound
  <1> DEFINE x == CHOOSE n \in z.todo : TRUE
             r == Dfs(d, E, z, x)
  <1>5. x \in z.todo /\ x \in N
    BY <1>4 DEF Query
  <1> HIDE DEF x
  <1>6. Sane(N, z, r)
    BY <1>3, <1>5, DfsIsLocal
  <1>7. d[z] = IF r.found THEN r ELSE d[Rest(z, x, r)]
    BY <1>3, <1>4 DEF Loop, Rest, x
  <1>8. ~r.found /\ d[z] = d[Rest(z, x, r)]
    BY <1>2, <1>7
  <1>9. ~OnStack(x, z)
    BY <1>8 DEF Dfs
  <1>10. Closed(r.visited \ z.stack, E) /\ x \in r.visited \ z.stack
    <2>1. CASE x \in z.visited
      <3>1. r.visited = z.visited
        BY <1>9, <2>1 DEF Dfs
      <3> QED
        BY <1>2, <1>9, <2>1, <3>1 DEF Sound, OnStack
    <2>2. CASE x \notin z.visited
      <3> DEFINE p == Entered(E, z, x)
      <3>1. r = d[p]
        BY <1>9, <2>2 DEF Dfs, Entered
      <3>2. p \in Query(N) /\ Size(N, p) < Size(N, z)
        BY <1>5, <2>2, EnteredQuery
      <3>3. /\ p.todo = After(x, E) /\ p.visited = z.visited \cup {x} /\ p.stack = z.stack \cup {x}
        BY DEF Entered
      <3> HIDE DEF p, r
      <3>4. Sound(E, p)
        <4>1. p.visited \ p.stack = z.visited \ z.stack
          BY <2>2, <3>3
        <4> QED
          BY <1>2, <3>3, <4>1 DEF Sound
      <3>5. Done(E, p, r)
        BY <1>2, <1>8, <3>1, <3>2, <3>4
      <3>6. Sane(N, p, r)
        BY <1>3, <3>1, <3>2 DEF Agree
      <3> DEFINE D == r.visited \ p.stack
      <3>7. r.visited \ z.stack = D \cup {x} /\ x \notin D
        BY <1>9, <3>3, <3>6 DEF Sane, OnStack
      <3>8. Closed(D, E) /\ After(x, E) \subseteq D
        BY <3>3, <3>5 DEF Done
      <3> HIDE DEF D
      <3>9. Closed(D \cup {x}, E)
        BY <3>7, <3>8, LeavingIsClosed
      <3> QED
        BY <3>7, <3>9
    <2> QED
      BY <2>1, <2>2
  <1> HIDE DEF r
  <1> DEFINE p == Rest(z, x, r)
  <1>11. p \in Query(N) /\ Size(N, p) < Size(N, z)
    BY <1>5, <1>6, RestQuery
  <1>12. p.todo = z.todo \ {x} /\ p.visited = r.visited /\ p.stack = z.stack
    BY DEF Rest
  <1> HIDE DEF p
  <1>13. Sound(E, p)
    BY <1>2, <1>6, <1>10, <1>12 DEF Sound, Sane
  <1>14. Done(E, p, d[p]) /\ d[z] = d[p]
    BY <1>2, <1>8, <1>11, <1>13 DEF p
  <1>15. Sane(N, p, d[p])
    BY <1>3, <1>11 DEF Agree
  <1>16. Done(E, z, d[z])
    BY <1>10, <1>12, <1>14, <1>15 DEF Done, Sane
  <1> QED
    BY <1>2, <1>16

\* _has_cycle finds a circle exactly where there is one, in every finite graph,
\* and whichever node of a set it looks at first.
THEOREM HasCycleIsExact ==
    ASSUME NEW N, IsFiniteSet(N), NEW E \in SUBSET (N \X N)
    PROVE  HasCycle(N, E) <=> Circle(N, E)
  <1> DEFINE q == [todo |-> N, visited |-> {}, stack |-> {}]
  <1>1. q \in Query(N) /\ q.todo = N /\ q.visited = {} /\ q.stack = {}
    BY DEF Query
  <1>2. HasCycle(N, E) = Search(N, E)[q].found
    BY DEF HasCycle
  <1> HIDE DEF q
  <1>3. Stacked(N, E, q)
    BY <1>1 DEF Stacked
  <1>4. Sound(E, q)
    BY <1>1 DEF Sound, Closed, Circle
  <1>5. Search(N, E)[q].found => Circle(N, E)
    BY <1>1, <1>3, FoundIsCircle
  <1>6. ASSUME ~Search(N, E)[q].found PROVE ~Circle(N, E)
    <2>1. Done(E, q, Search(N, E)[q])
      BY <1>1, <1>4, <1>6, NotFoundIsDone
    <2> DEFINE D == Search(N, E)[q].visited \ q.stack
    <2>2. Closed(D, E) /\ N \subseteq D
      BY <1>1, <2>1 DEF Done
    <2> HIDE DEF D
    <2> QED
      BY <2>2 DEF Closed, Circle
  <1>7. Search(N, E)[q].found \in BOOLEAN
    <2>1. Sane(N, q, Search(N, E)[q])
      <3>1. Search(N, E)[q] = Loop(Search(N, E), E, q) /\ Agree(N, q, Search(N, E), Search(N, E))
        BY <1>1, SearchAnswers
      <3> QED
        BY <1>1, <3>1, LoopIsLocal
    <2> QED
      BY <2>1 DEF Sane
  <1> QED
    BY <1>2, <1>5, <1>6, <1>7

-----------------------------------------------------------------------------
(* Circles. *)

\* The check of the graph, as the rules use it.
LEMMA SearchFinds == \A E \in SUBSET (Task \X Task) : HasCycle(Task, E) <=> Circle(Task, E)
  BY TaskAssumption, HasCycleIsExact

\* The search overlooks no circle and sees none where there is none, in whatever
\* graph the edits of any number of tasks lead to.
THEOREM SearchFindsCircles == Spec => []SearchIsExact
  <1>1. TypeOK => SearchIsExact
    <2>1. TypeOK => deps \in SUBSET (Task \X Task)
      BY DEF TypeOK
    <2>2. 1 \in Int /\ 3 \in Int
      OBVIOUS
    <2>3. IsFiniteSet(1 .. 3)
      BY <2>2, FS_Interval
    <2> QED
      BY <2>1, <2>3, SearchFinds, HasCycleIsExact DEF SearchIsExact
  <1> QED
    BY <1>1, TypeCorrect, PTL

\* A call that names no dependencies leaves the graph as it is ...
KeepsGraph(c) ==
    c \in Deciding /\ call[c].wantDeps = Keep => call[c].cut = {} /\ call[c].add = {}

\* ... and one that does has checked the graph that it makes.
MakesNoCircle(c) ==
    c \in Deciding /\ call[c].wantDeps # Keep => ~Circle(Task, DepsAfter(c))

NoCircleYet == ~Circle(Task, deps) /\ \A c \in Call : MakesNoCircle(c)

CInv == (\A c \in Call : KeepsGraph(c)) /\ (history.crossed \/ NoCircleYet)

\* The least of a circle waits for no older one.
LEMMA OlderMakeNoCircle ==
    ASSUME NEW E, \A e \in E : e[2] < e[1]
    PROVE  ~Circle(Task, E)
  <1> SUFFICES ASSUME NEW S \in SUBSET Task, S # {}, \A t \in S : \E u \in S : <<t, u>> \in E
               PROVE  FALSE
    BY DEF Circle
  <1>1. PICK x \in S : \A y \in S : ~(y < x)
    BY Least, TaskAssumption
  <1>2. PICK u \in S : <<x, u>> \in E
    OBVIOUS
  <1>3. <<x, u>>[2] < <<x, u>>[1]
    BY <1>2
  <1> QED
    BY <1>1, <1>3

\* Taking edges away makes no circle.
LEMMA FewerEdges ==
    ASSUME NEW E, NEW F, F \subseteq E, Circle(Task, F)
    PROVE  Circle(Task, E)
  BY DEF Circle

\* The rules pass an edit on only if the graph has no circle with it.
LEMMA RulesCheckGraph ==
    ASSUME TypeOK, NEW c \in Call, Rules(c), ~Refuse(c)
    PROVE  KeepsGraph(c)' /\ (~Circle(Task, deps) => MakesNoCircle(c)')
  <1> DEFINE t == call[c].task
             C == IF call[c].wantDeps # Keep THEN {e \in deps : e[1] = t} ELSE {}
             A == IF call[c].wantDeps # Keep THEN EdgesOf(t, Effective(c)) ELSE {}
             new(s, a) == [call[c] EXCEPT !.at = "flush", !.next = s, !.goes = a, !.cut = C, !.add = A]
             E == {e \in deps : e[1] # t} \cup EdgesOf(t, call[c].wantDeps)
  <1>1. PICK s \in Status, a \in Assignee : Decide(c, s, a)
    BY RulesDecide
  <1>2. call' = [call EXCEPT ![c] = new(s, a)]
    BY <1>1 DEF Decide
  <1>3. call[c] \in CallRecord /\ deps' = deps /\ DepsAllowed(c)
    BY DEF TypeOK, Rules, Forbidden, rowVars
  <1> HIDE DEF C, A
  <1>4. call'[c].wantDeps = call[c].wantDeps /\ call'[c].cut = C /\ call'[c].add = A
    BY <1>2, <1>3 DEF TypeOK, CallRecord
  <1>5. KeepsGraph(c)'
    BY <1>4 DEF KeepsGraph, C, A
  <1>6. ASSUME ~Circle(Task, deps), call[c].wantDeps # Keep PROVE ~Circle(Task, DepsAfter(c)')
    <2>1. DepsAfter(c)' = E
      BY <1>3, <1>4, <1>6 DEF DepsAfter, C, A, Effective
    <2>2. CASE call[c].wantDeps = {}
      <3>1. E \subseteq deps
        BY <2>2 DEF EdgesOf
      <3> QED
        BY <1>6, <2>1, <3>1, FewerEdges
    <2>3. CASE call[c].wantDeps # {}
      <3>1. ~HasCycle(Task, E)
        BY <1>3, <1>6, <2>3 DEF DepsAllowed
      <3>2. call[c].wantDeps \subseteq Task /\ t \in Task
        BY <1>3, <1>6 DEF CallRecord
      <3>3. E \in SUBSET (Task \X Task)
        BY <3>2 DEF TypeOK, EdgesOf
      <3> QED
        BY <2>1, <3>1, <3>3, SearchFinds
    <2> QED
      BY <2>2, <2>3
  <1> QED
    BY <1>4, <1>5, <1>6 DEF MakesNoCircle

\* What a call has decided on stands until its commit.
LEMMA OwnGraph ==
    ASSUME JInv, NEW c \in Call, Step(c) \/ Abort(c), KeepsGraph(c)
    PROVE  KeepsGraph(c)' /\ (NoCircleYet => MakesNoCircle(c)')
  <1> USE DEF JInv, IInv
  <1>1. CASE Rules(c) /\ ~Refuse(c)
    BY <1>1, RulesCheckGraph DEF NoCircleYet
  <1>2. ASSUME NEW l \in {"gates", "commit"}, call' = [call EXCEPT ![c].at = l], deps' = deps, c \in Deciding
        PROVE  KeepsGraph(c)' /\ (NoCircleYet => MakesNoCircle(c)')
    <2>1. /\ call'[c].cut = call[c].cut /\ call'[c].add = call[c].add
          /\ call'[c].wantDeps = call[c].wantDeps
      BY <1>2 DEF TypeOK, CallRecord
    <2>2. DepsAfter(c)' = DepsAfter(c)
      BY <1>2, <2>1 DEF DepsAfter
    <2> QED
      BY <1>2, <2>1, <2>2 DEF KeepsGraph, MakesNoCircle, NoCircleYet
  <1>3. CASE Flush(c)
    BY <1>2, <1>3 DEF Flush, Deciding, rowVars
  <1>4. CASE Gates(c) /\ ~Refuse(c)
    BY <1>2, <1>4 DEF Gates, Deciding, rowVars
  <1>5. ASSUME call'[c].at \in {"idle", "refresh", "toggle", "reset"}
        PROVE  KeepsGraph(c)' /\ (NoCircleYet => MakesNoCircle(c)')
    BY <1>5 DEF KeepsGraph, MakesNoCircle, Deciding
  <1>6. CASE Return(c)
    BY <1>5, <1>6 DEF Return, Idle, TypeOK
  <1>7. CASE Commit(c) /\ ~Return(c)
    <2>1. call' = [call EXCEPT ![c] = [Idle EXCEPT !.at = "refresh", !.who = call[c].who,
                                          !.task = call[c].task, !.prev = call[c].prev]]
      BY <1>7 DEF Commit, Refuse
    <2> QED
      BY <1>5, <2>1 DEF Idle, TypeOK
  <1>8. CASE Refresh(c) /\ ~Return(c)
    BY <1>5, <1>8 DEF Refresh, TypeOK, CallRecord
  <1>9. CASE Toggle(c)
    <2>1. call'[c].at = "reset"
      BY <1>9 DEF Toggle, TypeOK, CallRecord
    <2> QED
      BY <1>5, <2>1
  <1> QED
    BY <1>1, <1>3, <1>4, <1>6, <1>7, <1>8, <1>9 DEF Step, Abort, Reset, Refuse

\* An edit is committed: either it was alone, or edits have overlapped.
LEMMA CommitGraph ==
    ASSUME JInv, NEW c \in Call, Commit(c), ~Refuse(c), EditsItsOwn(c), KeepsGraph(c)
    PROVE  /\ c \in Deciding /\ deps' = DepsAfter(c)
           /\ call[c].wantDeps = Keep => deps' = deps
           /\ history'.crossed = (history.crossed \/ (/\ call[c].wantDeps # Keep
                                    /\ \E d \in Deciding \ {c} : call[d].wantDeps # Keep))
  <1>1. c \in Deciding /\ deps' = DepsAfter(c) /\ Remember(c)
    BY CommitWrites
  <1>2. call[c].wantDeps = Keep => deps' = deps
    BY <1>1 DEF KeepsGraph, DepsAfter
  <1> DEFINE X == history.crossed \/ (/\ call[c].wantDeps # Keep
                                      /\ \E d \in Deciding \ {c} : call[d].wantDeps # Keep)
  <1>3. history'.crossed = X
    BY <1>1 DEF Remember, JInv, HistoryType
  <1> QED
    BY <1>1, <1>2, <1>3

LEMMA NoCircleStep ==
    ASSUME JInv, WInv, CInv, NEW c \in Call, Step(c) \/ Abort(c)
    PROVE  CInv'
  <1> USE DEF JInv, IInv
  <1>1. KeepsGraph(c)' /\ (NoCircleYet => MakesNoCircle(c)')
    BY OwnGraph DEF CInv
  <1>2. \A d \in Call \ {c} : call'[d] = call[d]
    BY OthersStay
  <1>3. \A d \in Call \ {c} : KeepsGraph(d)'
    BY <1>2 DEF CInv, KeepsGraph, Deciding
  <1>4. CASE deps' = deps /\ (history.crossed => history'.crossed)
    <2>1. ASSUME NEW d \in Call \ {c}, NoCircleYet PROVE MakesNoCircle(d)'
      <3>1. DepsAfter(d)' = DepsAfter(d) /\ (d \in Deciding' <=> d \in Deciding)
        BY <1>2, <1>4 DEF DepsAfter, Deciding
      <3> QED
        BY <1>2, <2>1, <3>1 DEF NoCircleYet, MakesNoCircle
    <2> QED
      BY <1>1, <1>3, <1>4, <2>1 DEF CInv, NoCircleYet
  <1>5. CASE Commit(c) /\ ~Refuse(c)
    <2>1. EditsItsOwn(c) /\ KeepsGraph(c)
      BY DEF WInv, InOrder, CInv
    <2>2. /\ c \in Deciding /\ deps' = DepsAfter(c)
          /\ call[c].wantDeps = Keep => deps' = deps
          /\ history'.crossed = (history.crossed \/ (/\ call[c].wantDeps # Keep
                                    /\ \E d \in Deciding \ {c} : call[d].wantDeps # Keep))
      BY <1>5, <2>1, CommitGraph
    <2>3. CASE call[c].wantDeps = Keep
      BY <1>4, <2>2, <2>3
    <2>4. CASE history'.crossed
      BY <1>1, <1>3, <2>4 DEF CInv
    <2>5. CASE call[c].wantDeps # Keep /\ ~history'.crossed
      <3>1. NoCircleYet
        BY <2>2, <2>5 DEF CInv
      <3>2. ~Circle(Task, deps')
        BY <2>2, <2>5, <3>1 DEF NoCircleYet, MakesNoCircle
      <3>3. \A d \in Call \ {c} : MakesNoCircle(d)'
        BY <1>2, <2>2, <2>5 DEF MakesNoCircle, Deciding
      <3> QED
        BY <1>1, <1>3, <3>1, <3>2, <3>3 DEF CInv, NoCircleYet
    <2> QED
      BY <2>3, <2>4, <2>5
  <1>6. CASE Refuse(c) \/ Abort(c)
    BY <1>4, <1>6 DEF Refuse, Abort, rowVars, HistoryType
  <1>7. CASE Reset(c)
    <2>1. history'.crossed = history.crossed
      BY <1>7 DEF Reset, HistoryType
    <2> QED
      BY <1>4, <1>7, <2>1 DEF Reset
  <1>8. CASE UNCHANGED <<rowVars, history>>
    BY <1>4, <1>8 DEF rowVars
  <1> QED
    BY <1>5, <1>6, <1>7, <1>8 DEF Step, Rules, Flush, Gates, Refresh, Toggle

\* The steps of no call.
LEMMA NoCircleElse ==
    ASSUME CInv, UNCHANGED deps, history.crossed => history'.crossed,
           \A c \in Call : call'[c] = call[c] \/ call'[c].at = "rules"
    PROVE  CInv'
  <1>1. ASSUME NEW c \in Call PROVE KeepsGraph(c)' /\ (NoCircleYet => MakesNoCircle(c)')
    <2>1. CASE call'[c].at = "rules"
      BY <2>1 DEF KeepsGraph, MakesNoCircle, Deciding
    <2>2. CASE call'[c] = call[c]
      <3>1. DepsAfter(c)' = DepsAfter(c) /\ (c \in Deciding' <=> c \in Deciding)
        BY <2>2 DEF DepsAfter, Deciding
      <3> QED
        BY <2>2, <3>1 DEF CInv, NoCircleYet, KeepsGraph, MakesNoCircle
    <2> QED
      BY <2>1, <2>2
  <1> QED
    BY <1>1 DEF CInv, NoCircleYet

\* No number of calls, on whatever tasks, makes a circle, unless two that edit
\* dependencies overlap.
THEOREM CirclesNeedOverlap == Spec => []CircleNeedsOverlap
  <1>1. Init => JInv /\ WInv /\ CInv
    <2> SUFFICES ASSUME Init PROVE CInv
      BY WaitingStarts
    <2>1. ~Circle(Task, deps)
      BY OlderMakeNoCircle DEF Init
    <2> QED
      BY <2>1 DEF Init, Idle, CInv, NoCircleYet, KeepsGraph, MakesNoCircle, Deciding
  <1>2. JInv /\ WInv /\ CInv /\ [Next]_vars => JInv' /\ WInv' /\ CInv'
    <2> SUFFICES ASSUME JInv, WInv, CInv, [Next]_vars PROVE CInv'
      BY WaitingStep
    <2>1. ASSUME NEW c \in Call, NEW t \in Task, NEW r \in Request, Ask(c, t, r) PROVE CInv'
      <3>1. \A d \in Call : call'[d] = call[d] \/ call'[d].at = "rules"
        BY <2>1 DEF Ask, Idle, JInv, IInv, TypeOK
      <3> QED
        BY <2>1, <3>1, NoCircleElse DEF Ask, rowVars
    <2>2. ASSUME NEW T \in SUBSET Decidable, ApprovalStep(T) PROVE CInv'
      BY <2>2, NoCircleElse DEF ApprovalStep, rowVars, JInv, HistoryType
    <2>3. CASE UNCHANGED vars
      BY <2>3, NoCircleElse DEF vars, rowVars
    <2> QED
      BY <2>1, <2>2, <2>3, NoCircleStep DEF Next
  <1>3. CInv => CircleNeedsOverlap
    BY DEF CInv, NoCircleYet, CircleNeedsOverlap
  <1> QED
    BY <1>1, <1>2, <1>3, PTL DEF Spec
=============================================================================
