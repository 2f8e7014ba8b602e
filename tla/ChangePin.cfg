SPECIFICATION FairSpec
CONSTANTS
    Setups <- MCSetups
INVARIANTS
    TypeOK
    PasswordsCleared
    OneAttemptPerEntry
    SuspendedPinNeedsCan
    ResultIsTruthful
PROPERTIES
    EnteredClean
    CancelledEnds
