\* Two workers that may drain a task twice, and one update: no other failures,
\* no requests of the agent.
CONSTANTS
    Editor = {e1}
    Syncer = {}
    Worker = {w1, w2}
    Beat = {}
    Flaky = {}
    Mortal = {}
    NoOne = NoOne
    MAX_WAKE_ATTEMPTS_WITHOUT_CHECKIN = 2
    MaxRetries = 2
    MaxWakes = 7
    MaxEdits = 1
    MaxBeats = 0
    MaxFaults = 1
SPECIFICATION FairSpec
PROPERTIES
    Converges
    TokenHeals
\* The lifecycle may come to rest.
CHECK_DEADLOCK FALSE
