SPECIFICATION Spec
CONSTANTS
    Setups <- SmallSetups
INVARIANTS
    SuccessMeansChanged
