\* Three endpoint calls at a time on one request, and a restart of the process;
\* no symmetry, for liveness.
CONSTANTS
    Refund = {r1}
    Call = {c1, c2, c3}
    MaxApprovals = 3
    MaxRestarts = 1
SPECIFICATION Spec
INVARIANTS
    ExecutedWasPaid
    PaidWithinApprovals
PROPERTIES
    SettledIsFinal
    ApprovedGetsOutcome
