SPECIFICATION FairSpec
CONSTANTS
    Setups <- SmallSetups
PROPERTIES
    KilledWorkflowEnds
