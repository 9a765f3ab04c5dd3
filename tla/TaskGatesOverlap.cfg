\* Two overlapping calls on two tasks, and three calls on a row of three, two at
\* a time, every rule of the board switched on.
CONSTANTS
    Task = {1, 2, 3}
    Call = {c1, c2}
    NoOne = NoOne
    Keep = Keep
    RequiresApproval = TRUE
    RequiresReview = TRUE
    BlocksWithPending = TRUE
    Request <- AllRequests
    MaxCalls = 3
    Decidable = {1, 2}
SYMMETRY Interchangeable
SPECIFICATION ScenarioSpec
INVARIANTS
    BlockedWorkIsKnown
    CircleNeedsOverlap
    SearchIsExact
PROPERTIES
    PendingHoldsStatus
    DoneWasJustified
\* The calls are spent.
CHECK_DEADLOCK FALSE
