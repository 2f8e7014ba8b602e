SPECIFICATION Spec
CONSTANTS
    Newest = 1
    Setups <- MCSetups
INVARIANTS
    CancelStopsDownload
