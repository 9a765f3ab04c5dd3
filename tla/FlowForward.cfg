\* Flows whose gotos lead forward, replaced under the ticket, with runs cut off
\* anywhere.  The walk is over when no reply and no save is left.
CONSTANTS
    Flows <- Forward
    MaxReplies = 3
    MaxEdits = 2
    MaxAborts = 1
    MaxMailed = 5
SPECIFICATION Spec
INVARIANTS
    RefundsWithinAborts
    RefundIsHandedOver
    RefundOnlyAfterBothOffers
    EmailsWithinAborts
    AnswersWhatWasAsked
PROPERTIES
    WalkEnds
CHECK_DEADLOCK FALSE
