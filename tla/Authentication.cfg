SPECIFICATION WorkflowFairSpec
CONSTANTS
    Setups <- MCSetups
    OwnUrls = {"own"}
    ForeignUrls = {"foreign"}
INVARIANTS
    TypeOK
    ResultIsTruthful
    RefreshIsVerified
    AssertionsHold
    SmartCommandsAreAwaited
PROPERTIES
    CancelledEnds
    InterruptedIsFinalized
