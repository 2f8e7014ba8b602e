SPECIFICATION FairSpec
CONSTANTS
    Bounds <- MCBounds
    RefusalLimit = 2
    MaxQueries = 1
INVARIANTS
    TypeOK
    PendingHasAnswer
    AnswerIsOwn
    ConnectionsAgree
PROPERTIES
    AttemptsEnd
    ClosedReadersVanish
CHECK_DEADLOCK FALSE
