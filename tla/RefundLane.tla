----------------------------- MODULE RefundLane -----------------------------
(***************************************************************************)
(* The refund approval lane (Invariant 2 of the product): a request is     *)
(* filed, a person approves or rejects it, and approving runs the          *)
(* separately scoped RefundExecutor against Shopify.                       *)
(*                                                                         *)
(* Source: services/refunds.py, services/connectors/refunds.py and the     *)
(* endpoints of api/ecom.py.  Every endpoint call is a handler of the one  *)
(* uvicorn process; handlers interleave at each await.  A call loads the   *)
(* request once and works on that copy (OrmRow).                           *)
(***************************************************************************)
EXTENDS Naturals, FiniteSets, OrmRow

CONSTANTS
    Refund,         \* refund requests that may be filed
    Call,           \* endpoint calls that may be in flight at the same time
    MaxApprovals,   \* bound: no approval of a request begins after this many were committed
    MaxRestarts     \* bound: restarts of the process

ASSUME CallFinite == IsFiniteSet(Call)
ASSUME BoundsAssumption == MaxApprovals \in Nat /\ MaxRestarts \in Nat

VARIABLES
    status,     \* refund_requests.status, "absent" before the row exists
    call,       \* each call: the statement it stands at, its request, its copy of status
    paid,       \* refunds Shopify has posted for a request
    approvals,  \* history: approvals committed for a request
    restarts    \* restarts so far

vars == <<status, call, paid, approvals, restarts>>

REFUND_STATUSES == {"pending", "approved", "rejected", "executed", "failed"}

\* Where a call stands: before the commit of reject_refund, before the first
\* commit of approve_refund, in executor.execute, or before the second commit
\* with the outcome it will record.
Stage == {"idle", "reject", "approve", "execute", "executed", "failed"}

IdleCall(r) == [at |-> "idle", refund |-> r, seen |-> "absent"]

Init ==
    /\ status = [r \in Refund |-> "absent"]
    /\ call \in [Call -> {IdleCall(r) : r \in Refund}]
    /\ paid = [r \in Refund |-> 0]
    /\ approvals = [r \in Refund |-> 0]
    /\ restarts = 0

-----------------------------------------------------------------------------
\* POST /refunds, or a flow step that asks for a refund.
CreateRefundRequest(r) ==
    /\ status[r] = "absent"
    /\ status' = [status EXCEPT ![r] = "pending"]
    /\ UNCHANGED <<call, paid, approvals, restarts>>

\* reject_refund up to its commit: any filed request is accepted, whatever its status.
BeginReject(c, r) ==
    /\ call[c].at = "idle"
    /\ status[r] # "absent"
    /\ call' = [call EXCEPT ![c] = [at |-> "reject", refund |-> r, seen |-> status[r]]]
    /\ UNCHANGED <<status, paid, approvals, restarts>>

CommitReject(c) ==
    LET r == call[c].refund IN
    /\ call[c].at = "reject"
    /\ status' = [status EXCEPT ![r] = Flushed(call[c].seen, "rejected", @)]
    /\ call' = [call EXCEPT ![c].at = "idle"]
    /\ UNCHANGED <<paid, approvals, restarts>>

\* Variant (a bug the properties must catch): approve_refund without its status test.
BeginApproveAnyStatus(c, r) ==
    /\ call[c].at = "idle"
    /\ status[r] # "absent"
    /\ approvals[r] < MaxApprovals
    /\ call' = [call EXCEPT ![c] = [at |-> "approve", refund |-> r, seen |-> status[r]]]
    /\ UNCHANGED <<status, paid, approvals, restarts>>

\* approve_refund up to its first commit; every other status is refused with ValueError.
BeginApprove(c, r) ==
    /\ call[c].at = "idle"
    /\ status[r] \in {"pending", "approved"}
    /\ approvals[r] < MaxApprovals
    /\ call' = [call EXCEPT ![c] = [at |-> "approve", refund |-> r, seen |-> status[r]]]
    /\ UNCHANGED <<status, paid, approvals, restarts>>

CommitApproval(c) ==
    LET r == call[c].refund IN
    /\ call[c].at = "approve"
    /\ status' = [status EXCEPT ![r] = Flushed(call[c].seen, "approved", @)]
    /\ call' = [call EXCEPT ![c] = [at |-> "execute", refund |-> r, seen |-> "approved"]]
    /\ approvals' = [approvals EXCEPT ![r] = @ + 1]
    /\ UNCHANGED <<paid, restarts>>

\* RefundExecutor.execute returns: Shopify posted the refund and said so.
ExecutorRefunds(c) ==
    /\ call[c].at = "execute"
    /\ paid' = [paid EXCEPT ![call[c].refund] = @ + 1]
    /\ call' = [call EXCEPT ![c].at = "executed"]
    /\ UNCHANGED <<status, approvals, restarts>>

\* Variant: the except branch falls through to the success assignment.
ExecutorRefusesUnnoticed(c) ==
    /\ call[c].at = "execute"
    /\ call' = [call EXCEPT ![c].at = "executed"]
    /\ UNCHANGED <<status, paid, approvals, restarts>>

\* ... raises before anything is posted: no token, no capturing transaction, an error status.
ExecutorRefuses(c) ==
    /\ call[c].at = "execute"
    /\ call' = [call EXCEPT ![c].at = "failed"]
    /\ UNCHANGED <<status, paid, approvals, restarts>>

\* Variant: a lost answer is retried inside the same approval.
ExecutorAnswerLostRetried(c) ==
    /\ call[c].at = "execute"
    /\ paid' = [paid EXCEPT ![call[c].refund] = @ + 1]
    /\ UNCHANGED <<status, call, approvals, restarts>>

\* ... raises although the refund was posted: the answer timed out or was unreadable.
ExecutorAnswerLost(c) ==
    /\ call[c].at = "execute"
    /\ paid' = [paid EXCEPT ![call[c].refund] = @ + 1]
    /\ call' = [call EXCEPT ![c].at = "failed"]
    /\ UNCHANGED <<status, approvals, restarts>>

\* Variant: a failure is logged and not recorded on the request.
RecordOutcomeOfSuccess(c) ==
    LET r == call[c].refund IN
    /\ call[c].at \in {"executed", "failed"}
    /\ status' = [status EXCEPT ![r] = IF call[c].at = "executed" THEN "executed" ELSE @]
    /\ call' = [call EXCEPT ![c].at = "idle"]
    /\ UNCHANGED <<paid, approvals, restarts>>

\* The second commit of approve_refund.
RecordOutcome(c) ==
    LET r == call[c].refund IN
    /\ call[c].at \in {"executed", "failed"}
    /\ status' = [status EXCEPT ![r] = Flushed(call[c].seen, call[c].at, @)]
    /\ call' = [call EXCEPT ![c].at = "idle"]
    /\ UNCHANGED <<paid, approvals, restarts>>

\* The process dies: every call in flight is gone, its session rolled back.
Restart ==
    /\ restarts < MaxRestarts
    /\ call' = [c \in Call |-> [call[c] EXCEPT !.at = "idle"]]
    /\ restarts' = restarts + 1
    /\ UNCHANGED <<status, paid, approvals>>

ExecutorAnswers(c) == ExecutorRefunds(c) \/ ExecutorRefuses(c) \/ ExecutorAnswerLost(c)

Next ==
    \/ \E r \in Refund : CreateRefundRequest(r)
    \/ \E c \in Call, r \in Refund : BeginReject(c, r) \/ BeginApprove(c, r)
    \/ \E c \in Call : CommitReject(c) \/ CommitApproval(c) \/ ExecutorAnswers(c)
                          \/ RecordOutcome(c)
    \/ Restart

\* A call that has begun is carried on by the event loop, and the HTTP client
\* gives up after its timeout, so that the executor answers or raises.
Fairness ==
    \A c \in Call : /\ WF_vars(CommitReject(c))
                    /\ WF_vars(CommitApproval(c))
                    /\ WF_vars(ExecutorAnswers(c))
                    /\ WF_vars(RecordOutcome(c))

Spec == Init /\ [][Next]_vars /\ Fairness

-----------------------------------------------------------------------------
\* Every variable stays in its domain, and a request somebody works on exists.
TypeOK ==
    /\ status \in [Refund -> REFUND_STATUSES \cup {"absent"}]
    /\ call \in [Call -> [at : Stage, refund : Refund,
                          seen : REFUND_STATUSES \cup {"absent"}]]
    /\ paid \in [Refund -> Nat]
    /\ approvals \in [Refund -> Nat]
    /\ restarts \in Nat

\* "executed" is never recorded for a request Shopify has not refunded,
\* however approvals, rejections and restarts of the process interleave.
ExecutedWasPaid == \A r \in Refund : status[r] = "executed" => paid[r] > 0

\* The money that leaves is covered by human decisions: one approval of a
\* request pays it at most once, and without an approval it is never paid.
PaidWithinApprovals == \A r \in Refund : paid[r] <= approvals[r]

Approving(c, r) == call[c].refund = r /\ call[c].at \in {"approve", "execute", "executed", "failed"}

\* Decided, and no approval of it is still in flight.
Settled(r) ==
    /\ status[r] \in {"rejected", "executed", "failed"}
    /\ \A c \in Call : ~Approving(c, r)

\* Once a request is settled, no later call, stale copy or restart pays it
\* again or makes it approvable again.
SettledIsFinal ==
    [][\A r \in Refund : Settled(r) => Settled(r)' /\ paid'[r] = paid[r]]_vars

\* An approval that was committed ends in a recorded decision: no request
\* stays "approved" for ever, unless the process died (nothing picks up an
\* approval that a restart has cut off).
ApprovedGetsOutcome ==
    \A r \in Refund :
        status[r] = "approved" ~> \/ status[r] \in {"executed", "failed", "rejected"}
                                  \/ restarts > 0
=============================================================================
