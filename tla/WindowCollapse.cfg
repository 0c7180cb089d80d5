CONSTANTS
    Total = 4
    MAX_SEQUENCE_NUM = 4
    BUFFER_SIZE = 3
    INIT_THREAD = 2
    Scale = 2
    MaxFaults = 5
SPECIFICATION FairSpec
PROPERTIES
    SenderEnds
