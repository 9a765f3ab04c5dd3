\* The gateway fails once.
CONSTANTS
    Editor = {}
    Syncer = {}
    Worker = {w1}
    Beat = {}
    Flaky = {w1}
    Mortal = {}
    NoOne = NoOne
    MAX_WAKE_ATTEMPTS_WITHOUT_CHECKIN = 3
    MaxRetries = 2
    MaxWakes = 5
    MaxEdits = 0
    MaxBeats = 0
    MaxFaults = 1
SPECIFICATION FairSpec
PROPERTIES
    Converges
\* The lifecycle may come to rest.
CHECK_DEADLOCK FALSE
