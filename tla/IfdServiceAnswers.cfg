SPECIFICATION Spec
CONSTANTS
    Readers = {"r1"}
    CardOps = {"transmit"}
    Bounds <- MCBounds
INVARIANTS
    WorkflowAnswersWereAsked
CHECK_DEADLOCK FALSE
