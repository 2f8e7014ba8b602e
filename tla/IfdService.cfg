SPECIFICATION FairSpec
CONSTANTS
    Readers = {"r1"}
    CardOps = {"transmit"}
    Bounds <- MCBounds
INVARIANTS
    TypeOK
    PasswordsOfThisClient
    CardAnswersWereAsked
PROPERTIES
    CardsAreReleased
CHECK_DEADLOCK FALSE
