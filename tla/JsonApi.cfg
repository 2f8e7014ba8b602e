SPECIFICATION Spec
CONSTANTS
    r1 = r1
    r2 = r2
    Readers <- TwoReaders
    Levels <- TwoLevels
    MaxRequests = 3
    MaxClients = 2
SYMMETRY Symmetry
INVARIANTS
    TypeOK
    ClientIsAsked
    SessionMatchesWorkflow
    DeveloperModeEnds
