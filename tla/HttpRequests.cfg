\* One request of every kind, one at a time.
CONSTANTS
    NoAccept = NoAccept
    MaxBody = 2
    Requests <- MCRequests
SPECIFICATION Spec
INVARIANTS
    CallsAfterChecks
    AnswersAsDocumented
    BestRepresentation
    TruthfulAllow
    AnswerTellsEffect
CHECK_DEADLOCK FALSE
