SPECIFICATION FairSpec
CONSTANTS
    auth = auth
    pin = pin
    selfAuth = selfAuth
    Requests <- MCRequests
    Action <- MCAction
    NoRequest = NoRequest
    NoUi = NoUi
    MaxTicks = 2
INVARIANTS
    TypeOK
    CompletionIsForActive
    ClaimMatchesDomination
    AuthWaitsForCompletion
PROPERTIES
    ImplementsSlots
    EnqueuedAuthenticationRuns
    ShutdownCompletes
