SPECIFICATION Spec
CONSTANTS
    Readers = {"r1"}
    CardOps = {"transmit"}
    Bounds <- MCBounds
INVARIANTS
    PaceHasPassword
CHECK_DEADLOCK FALSE
