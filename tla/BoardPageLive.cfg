\* The tasks, or the approvals, of a page with two requests of its own under way,
\* and one of others; one stream broken, answer lost or process cut off.
CONSTANTS
    Item = {1, 2}
    Start = {1}
    Mine = {m1, m2}
    Theirs = {o1}
    Kinds = {"tasks", "approvals"}
    MaxListed = 1
    Hope = Hope
    MaxClock = 5
    MaxAsked = 2
    MaxWire = 1
    MaxFaults = 1
SPECIFICATION Spec
INVARIANTS
    WrongIsKnown
    PhantomNeedsOverlap
    ShownOnce
SYMMETRY Interchangeable
CHECK_DEADLOCK FALSE
