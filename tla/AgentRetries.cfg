\* One worker that may fail or die, an update or a template sync, two requests of the agent.
CONSTANTS
    Editor = {e1}
    Syncer = {s1}
    Worker = {w1}
    Beat = {b1}
    Flaky = {w1}
    Mortal = {w1}
    NoOne = NoOne
    MAX_WAKE_ATTEMPTS_WITHOUT_CHECKIN = 2
    MaxRetries = 1
    MaxWakes = 5
    MaxEdits = 1
    MaxBeats = 2
    MaxFaults = 1
SPECIFICATION Spec
INVARIANTS
    WakesBounded
    TokenSplitNeedsCrossing
\* The lifecycle may come to rest.
CHECK_DEADLOCK FALSE
