\* Two workers that drain at once and may be cut off; t3 has no handler.
CONSTANTS
    Task = {t1, t2, t3}
    Handled = {t1, t2}
    Worker = {w1, w2}
    NoTask = NoTask
    MaxRetries = 1
    BatchSize = 1
    MaxFaults = 1
SPECIFICATION FairSpec
INVARIANTS
    Accounted
    RunsBounded
PROPERTIES
    Settles
    KeepsFates
