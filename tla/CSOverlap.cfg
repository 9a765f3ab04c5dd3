\* Runs of the tool-use runtime (cron, webhook) or ingest calls overlap.
CONSTANTS
    Loop = {l1, l2}
    Sweep = {l1, l2}
    Customer = {alice}
    Runtime = "llm"
    Kind = {"known"}
    ListLimit = 1
    MaxMail = 1
    MaxTicket = 2
    MaxSent = 2
    MaxAborts = 1
SPECIFICATION Spec
INVARIANTS
    ResolvedWasAnswered
    FiledOncePerWorker
PROPERTIES
    StickyOnceQuiet
SYMMETRY Symmetry
