\* The flow runtime, run by cron alone, to the end of its work.
CONSTANTS
    Loop = {l1}
    Sweep = {}
    Customer = {alice}
    Runtime = "flow"
    Kind = {"known", "other", "automated"}
    ListLimit = 2
    MaxMail = 3
    MaxTicket = 3
    MaxSent = 1
    MaxAborts = 1
SPECIFICATION Spec
ACTION_CONSTRAINT CutEarly
INVARIANTS
    FiledOnce
    NoReplyOverlooked
PROPERTIES
    StickyEscalation
    NoMailOverRep
    KeepsLanes
    MailGetsFiled
    TicketsGetHandled
