CONSTANTS
    Total = 5
    MAX_SEQUENCE_NUM = 5
    BUFFER_SIZE = 3
    INIT_THREAD = 2
    Scale = 2
    MaxFaults = 5
SPECIFICATION Spec
INVARIANTS
    TypeOK
    QueuesAreWindow
    ForgottenIsWritten
    WrittenIsPrefix
    EarlyPacketsInPlace
    DatagramsHonest
    PhasesInOrder
    CopiedWhole
PROPERTIES
    ImplementsFileTransfer
    SendsWithinWindow
