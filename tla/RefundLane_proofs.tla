------------------------- MODULE RefundLane_proofs --------------------------
(***************************************************************************)
(* Theorems about RefundLane, for any set of requests, any finite set of   *)
(* concurrent calls and any bounds: the status column can be overwritten   *)
(* by stale calls, but the money that leaves stays within the approvals.   *)
(***************************************************************************)
EXTENDS RefundLane, FiniteSetTheorems, TLAPS

\* The calls that may still post one refund for r.
Executing(r) == {c \in Call : call[c].at = "execute" /\ call[c].refund = r}

\* A call about to record success has seen Shopify post the refund.
SuccessWasPaid ==
    \A c \in Call : call[c].at = "executed" => paid[call[c].refund] > 0

\* Each approval is spent at most once: by a refund that was posted or by the
\* call that is about to ask for it.
ApprovalsCover ==
    \A r \in Refund : paid[r] + Cardinality(Executing(r)) <= approvals[r]

IInv == TypeOK /\ ExecutedWasPaid /\ SuccessWasPaid /\ ApprovalsCover

\* The domains are kept by every step.
LEMMA TypeStep == TypeOK /\ [Next]_vars => TypeOK'
  <1> SUFFICES ASSUME TypeOK, [Next]_vars PROVE TypeOK'
    OBVIOUS
  <1> USE DEF TypeOK, Stage, REFUND_STATUSES, Flushed
  <1>1. ASSUME NEW r \in Refund, CreateRefundRequest(r) PROVE TypeOK'
    BY <1>1 DEF CreateRefundRequest
  <1>2. ASSUME NEW c \in Call, NEW r \in Refund, BeginReject(c, r) PROVE TypeOK'
    BY <1>2 DEF BeginReject
  <1>3. ASSUME NEW c \in Call, NEW r \in Refund, BeginApprove(c, r) PROVE TypeOK'
    BY <1>3 DEF BeginApprove
  <1>4. ASSUME NEW c \in Call, CommitReject(c) PROVE TypeOK'
    BY <1>4 DEF CommitReject
  <1>5. ASSUME NEW c \in Call, CommitApproval(c) PROVE TypeOK'
    BY <1>5 DEF CommitApproval
  <1>6. ASSUME NEW c \in Call, ExecutorRefunds(c) PROVE TypeOK'
    BY <1>6 DEF ExecutorRefunds
  <1>7. ASSUME NEW c \in Call, ExecutorRefuses(c) PROVE TypeOK'
    BY <1>7 DEF ExecutorRefuses
  <1>8. ASSUME NEW c \in Call, ExecutorAnswerLost(c) PROVE TypeOK'
    BY <1>8 DEF ExecutorAnswerLost
  <1>9. ASSUME NEW c \in Call, RecordOutcome(c) PROVE TypeOK'
    BY <1>9 DEF RecordOutcome
  <1>10. ASSUME Restart PROVE TypeOK'
    BY <1>10 DEF Restart
  <1>11. CASE UNCHANGED vars
    BY <1>11 DEF vars
  <1> QED
    BY <1>1, <1>2, <1>3, <1>4, <1>5, <1>6, <1>7, <1>8, <1>9, <1>10, <1>11
       DEF Next, ExecutorAnswers

\* "executed" is written only from a call that saw its refund posted, and
\* posted refunds are never taken back.
LEMMA PaidStep ==
    TypeOK /\ ExecutedWasPaid /\ SuccessWasPaid /\ [Next]_vars
        => ExecutedWasPaid' /\ SuccessWasPaid'
  <1> SUFFICES ASSUME TypeOK, ExecutedWasPaid, SuccessWasPaid, [Next]_vars
               PROVE  ExecutedWasPaid' /\ SuccessWasPaid'
    OBVIOUS
  <1> USE DEF TypeOK, Stage, REFUND_STATUSES, ExecutedWasPaid, SuccessWasPaid, Flushed
  <1>1. ASSUME NEW r \in Refund, CreateRefundRequest(r)
        PROVE  ExecutedWasPaid' /\ SuccessWasPaid'
    BY <1>1 DEF CreateRefundRequest
  <1>2. ASSUME NEW c \in Call, NEW r \in Refund, BeginReject(c, r)
        PROVE  ExecutedWasPaid' /\ SuccessWasPaid'
    BY <1>2 DEF BeginReject
  <1>3. ASSUME NEW c \in Call, NEW r \in Refund, BeginApprove(c, r)
        PROVE  ExecutedWasPaid' /\ SuccessWasPaid'
    BY <1>3 DEF BeginApprove
  <1>4. ASSUME NEW c \in Call, CommitReject(c)
        PROVE  ExecutedWasPaid' /\ SuccessWasPaid'
    BY <1>4 DEF CommitReject
  <1>5. ASSUME NEW c \in Call, CommitApproval(c)
        PROVE  ExecutedWasPaid' /\ SuccessWasPaid'
    BY <1>5 DEF CommitApproval
  <1>6. ASSUME NEW c \in Call, ExecutorRefunds(c)
        PROVE  ExecutedWasPaid' /\ SuccessWasPaid'
    BY <1>6 DEF ExecutorRefunds
  <1>7. ASSUME NEW c \in Call, ExecutorRefuses(c)
        PROVE  ExecutedWasPaid' /\ SuccessWasPaid'
    BY <1>7 DEF ExecutorRefuses
  <1>8. ASSUME NEW c \in Call, ExecutorAnswerLost(c)
        PROVE  ExecutedWasPaid' /\ SuccessWasPaid'
    BY <1>8 DEF ExecutorAnswerLost
  <1>9. ASSUME NEW c \in Call, RecordOutcome(c)
        PROVE  ExecutedWasPaid' /\ SuccessWasPaid'
    BY <1>9 DEF RecordOutcome
  <1>10. ASSUME Restart PROVE ExecutedWasPaid' /\ SuccessWasPaid'
    BY <1>10 DEF Restart
  <1>11. CASE UNCHANGED vars
    BY <1>11 DEF vars
  <1> QED
    BY <1>1, <1>2, <1>3, <1>4, <1>5, <1>6, <1>7, <1>8, <1>9, <1>10, <1>11
       DEF Next, ExecutorAnswers

\* The set of executing calls is finite, so its cardinality is a number.
LEMMA ExecutingFinite ==
    ASSUME NEW r \in Refund
    PROVE  IsFiniteSet(Executing(r)) /\ Cardinality(Executing(r)) \in Nat
  <1>1. IsFiniteSet(Executing(r))
    BY CallFinite, FS_Subset DEF Executing
  <1> QED
    BY <1>1, FS_CardinalityType

\* Taking one executing call out of the set frees one unit of its approval.
LEMMA ExecutingLess ==
    ASSUME NEW r \in Refund, NEW c \in Executing(r),
           Executing(r)' \subseteq Executing(r) \ {c}
    PROVE  Cardinality(Executing(r)') + 1 <= Cardinality(Executing(r))
  <1>1. IsFiniteSet(Executing(r) \ {c}) /\ Cardinality(Executing(r) \ {c}) = Cardinality(Executing(r)) - 1
    BY ExecutingFinite, FS_RemoveElement
  <1>2. Cardinality(Executing(r)') <= Cardinality(Executing(r) \ {c}) /\ Cardinality(Executing(r)') \in Nat
    BY <1>1, FS_Subset, FS_CardinalityType
  <1> QED
    BY <1>1, <1>2, ExecutingFinite

\* A step that lets nobody start executing r keeps the cover of r, provided
\* it posts nothing for r and withdraws no approval.
LEMMA ExecutingSame ==
    ASSUME NEW r \in Refund, Executing(r)' \subseteq Executing(r)
    PROVE  Cardinality(Executing(r)') \in Nat
           /\ Cardinality(Executing(r)') <= Cardinality(Executing(r))
  BY ExecutingFinite, FS_Subset, FS_CardinalityType

\* Posting a refund spends the approval of the call that posts it; the two
\* other answers of the executor give it up unspent.
LEMMA CoverStep == TypeOK /\ ApprovalsCover /\ [Next]_vars => ApprovalsCover'
  <1> SUFFICES ASSUME TypeOK, ApprovalsCover, [Next]_vars, NEW q \in Refund
               PROVE  paid'[q] + Cardinality(Executing(q)') <= approvals'[q]
    BY DEF ApprovalsCover
  <1> DEFINE Cover == paid'[q] + Cardinality(Executing(q)') <= approvals'[q]
  <1>0. /\ paid[q] + Cardinality(Executing(q)) <= approvals[q]
        /\ paid[q] \in Nat /\ approvals[q] \in Nat
    BY DEF ApprovalsCover, TypeOK
  <1>a. ASSUME Executing(q)' \subseteq Executing(q), paid'[q] = paid[q],
               approvals'[q] = approvals[q]
        PROVE  Cover
    BY <1>a, <1>0, ExecutingSame, ExecutingFinite
  <1>1. ASSUME NEW r \in Refund, CreateRefundRequest(r) PROVE Cover
    BY <1>1, <1>a DEF CreateRefundRequest, Executing, TypeOK
  <1>2. ASSUME NEW c \in Call, NEW r \in Refund, BeginReject(c, r) PROVE Cover
    BY <1>2, <1>a DEF BeginReject, Executing, TypeOK
  <1>3. ASSUME NEW c \in Call, NEW r \in Refund, BeginApprove(c, r) PROVE Cover
    BY <1>3, <1>a DEF BeginApprove, Executing, TypeOK
  <1>4. ASSUME NEW c \in Call, CommitReject(c) PROVE Cover
    BY <1>4, <1>a DEF CommitReject, Executing, TypeOK
  <1>5. ASSUME NEW c \in Call, CommitApproval(c) PROVE Cover
    <2>1. CASE call[c].refund # q
      BY <1>5, <1>a, <2>1 DEF CommitApproval, Executing, TypeOK
    <2>2. CASE call[c].refund = q
      <3>1. Executing(q)' \subseteq Executing(q) \cup {c}
        BY <1>5 DEF CommitApproval, Executing, TypeOK
      <3>2. /\ c \notin Executing(q)
            /\ approvals'[q] = approvals[q] + 1 /\ paid'[q] = paid[q]
        BY <1>5, <2>2 DEF CommitApproval, Executing, TypeOK
      <3>3. /\ IsFiniteSet(Executing(q) \cup {c})
            /\ Cardinality(Executing(q) \cup {c}) = Cardinality(Executing(q)) + 1
        BY <3>2, ExecutingFinite, FS_AddElement
      <3>4. /\ Cardinality(Executing(q)') \in Nat
            /\ Cardinality(Executing(q)') <= Cardinality(Executing(q)) + 1
        BY <3>1, <3>3, FS_Subset, FS_CardinalityType
      <3> QED
        BY <3>2, <3>4, <1>0, ExecutingFinite
    <2> QED
      BY <2>1, <2>2
  <1>6. ASSUME NEW c \in Call, ExecutorRefunds(c) \/ ExecutorAnswerLost(c) PROVE Cover
    <2>0. Executing(q)' \subseteq Executing(q) \ {c}
      BY <1>6 DEF ExecutorRefunds, ExecutorAnswerLost, Executing, TypeOK
    <2>1. CASE call[c].refund # q
      BY <1>6, <1>a, <2>0, <2>1 DEF ExecutorRefunds, ExecutorAnswerLost, TypeOK
    <2>2. CASE call[c].refund = q
      <3>1. /\ c \in Executing(q)
            /\ paid'[q] = paid[q] + 1 /\ approvals'[q] = approvals[q]
        BY <1>6, <2>2 DEF ExecutorRefunds, ExecutorAnswerLost, Executing, TypeOK
      <3>2. Cardinality(Executing(q)') + 1 <= Cardinality(Executing(q))
        BY <2>0, <3>1, ExecutingLess
      <3>3. Cardinality(Executing(q)') \in Nat
        BY <2>0, ExecutingSame
      <3> QED
        BY <3>1, <3>2, <3>3, <1>0, ExecutingFinite
    <2> QED
      BY <2>1, <2>2
  <1>7. ASSUME NEW c \in Call, ExecutorRefuses(c) PROVE Cover
    BY <1>7, <1>a DEF ExecutorRefuses, Executing, TypeOK
  <1>8. ASSUME NEW c \in Call, RecordOutcome(c) PROVE Cover
    BY <1>8, <1>a DEF RecordOutcome, Executing, TypeOK
  <1>9. ASSUME Restart PROVE Cover
    BY <1>9, <1>a DEF Restart, Executing, TypeOK
  <1>10. CASE UNCHANGED vars
    BY <1>10, <1>a DEF vars, Executing
  <1> QED
    BY <1>1, <1>2, <1>3, <1>4, <1>5, <1>6, <1>7, <1>8, <1>9, <1>10
       DEF Next, ExecutorAnswers

LEMMA InitInv == Init => IInv
  <1> SUFFICES ASSUME Init PROVE IInv
    OBVIOUS
  <1>1. TypeOK
    BY DEF Init, TypeOK, IdleCall, Stage, REFUND_STATUSES
  <1>2. ExecutedWasPaid /\ SuccessWasPaid
    BY DEF Init, ExecutedWasPaid, SuccessWasPaid, IdleCall
  <1>3. ASSUME NEW r \in Refund
        PROVE  paid[r] + Cardinality(Executing(r)) <= approvals[r]
    <2>1. Executing(r) = {}
      BY DEF Init, Executing, IdleCall
    <2>2. Cardinality({}) = 0
      BY FS_EmptySet
    <2> QED
      BY <2>1, <2>2 DEF Init
  <1> QED
    BY <1>1, <1>2, <1>3 DEF IInv, ApprovalsCover

\* The conjunction is inductive.
THEOREM Invariance == Spec => []IInv
  <1>1. IInv /\ [Next]_vars => IInv'
    BY TypeStep, PaidStep, CoverStep DEF IInv
  <1> QED
    BY <1>1, InitInv, PTL DEF Spec

\* Type correctness of the lane (services/refunds.py).
THEOREM TypeCorrect == Spec => []TypeOK
  BY Invariance, PTL DEF IInv

\* "executed" is only ever recorded for a refund Shopify posted, whatever
\* other calls on the same request do meanwhile.
THEOREM ExecutedMeansPaid == Spec => []ExecutedWasPaid
  BY Invariance, PTL DEF IInv

\* For any number of concurrent calls, lost answers and restarts: no more
\* refunds are posted for a request than humans approved.
THEOREM PaymentsCoveredByApprovals == Spec => []PaidWithinApprovals
  <1>1. IInv => PaidWithinApprovals
    <2> SUFFICES ASSUME IInv, NEW r \in Refund PROVE paid[r] <= approvals[r]
      BY DEF PaidWithinApprovals
    <2>1. paid[r] + Cardinality(Executing(r)) <= approvals[r]
      BY DEF IInv, ApprovalsCover
    <2>2. paid[r] \in Nat /\ approvals[r] \in Nat
      BY DEF IInv, TypeOK
    <2> QED
      BY <2>1, <2>2, ExecutingFinite
  <1> QED
    BY <1>1, Invariance, PTL

\* A settled request is out of every call's reach: neither its status nor the
\* money moves again, except that a rejection may still be written over it.
THEOREM SettledForGood == Spec => SettledIsFinal
  <1>1. TypeOK /\ [Next]_vars
          => [\A r \in Refund : Settled(r) => Settled(r)' /\ paid'[r] = paid[r]]_vars
    <2> SUFFICES ASSUME TypeOK, Next, NEW q \in Refund, Settled(q)
                 PROVE  Settled(q)' /\ paid'[q] = paid[q]
      OBVIOUS
    <2> USE DEF TypeOK, Settled, Approving, Flushed
    <2>1. ASSUME NEW r \in Refund, CreateRefundRequest(r)
          PROVE  Settled(q)' /\ paid'[q] = paid[q]
      BY <2>1 DEF CreateRefundRequest
    <2>2. ASSUME NEW c \in Call, NEW r \in Refund, BeginReject(c, r)
          PROVE  Settled(q)' /\ paid'[q] = paid[q]
      BY <2>2 DEF BeginReject
    <2>3. ASSUME NEW c \in Call, NEW r \in Refund, BeginApprove(c, r)
          PROVE  Settled(q)' /\ paid'[q] = paid[q]
      BY <2>3 DEF BeginApprove
    <2>4. ASSUME NEW c \in Call, CommitReject(c)
          PROVE  Settled(q)' /\ paid'[q] = paid[q]
      BY <2>4 DEF CommitReject
    <2>5. ASSUME NEW c \in Call, CommitApproval(c)
          PROVE  Settled(q)' /\ paid'[q] = paid[q]
      BY <2>5 DEF CommitApproval
    <2>6. ASSUME NEW c \in Call, ExecutorAnswers(c)
          PROVE  Settled(q)' /\ paid'[q] = paid[q]
      BY <2>6 DEF ExecutorAnswers, ExecutorRefunds, ExecutorRefuses, ExecutorAnswerLost
    <2>7. ASSUME NEW c \in Call, RecordOutcome(c)
          PROVE  Settled(q)' /\ paid'[q] = paid[q]
      BY <2>7 DEF RecordOutcome
    <2>8. ASSUME Restart PROVE Settled(q)' /\ paid'[q] = paid[q]
      BY <2>8 DEF Restart
    <2> QED
      BY <2>1, <2>2, <2>3, <2>4, <2>5, <2>6, <2>7, <2>8 DEF Next
  <1> QED
    BY <1>1, TypeCorrect, PTL DEF Spec, SettledIsFinal

=============================================================================
