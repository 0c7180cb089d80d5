CONSTANTS
    Total = 4
    MAX_SEQUENCE_NUM = 3
    BUFFER_SIZE = 3
    INIT_THREAD = 2
    Scale = 2
    MaxFaults = 0
SPECIFICATION Spec
INVARIANTS
    CopiedWhole
