\* Two overlapping runs of the tool-use runtime on one ticket.
CONSTANTS
    Loop = {l1, l2}
    Sweep = {}
    Customer = {alice}
    Runtime = "llm"
    Kind = {"known"}
    ListLimit = 1
    MaxMail = 1
    MaxTicket = 2
    MaxSent = 2
    MaxAborts = 0
SPECIFICATION Spec
PROPERTIES
    StickyEscalation
