\* Two calls at a time on two approvals for two tasks, one
\* of which may be rejected.
CONSTANTS
    Approval = {a1, a2}
    Task = {1, 2}
    Call = {c1, c2}
    NoApproval = NoApproval
    NoOne = NoOne
    Asked = {"pending", "approved", "rejected"}
    Rejectable = {a1}
    Rejecting = {c1}
SPECIFICATION Spec
ACTION_CONSTRAINT FewRejections
INVARIANTS
    OnePendingPerTask
    DecisionsAreTold
PROPERTIES
    CallsEnd
    KeepsTasks
\* Every id of the instance may be used up.
CHECK_DEADLOCK FALSE
