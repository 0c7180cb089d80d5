CONSTANTS
    Scale = 4
    BUFFER_SIZE = 8
    INIT_THREAD = 4
SPECIFICATION Spec
INVARIANTS
    TypeOK
    WindowCapped
    SlowStartBelowThreshold
    SubPacketWindowOnlyInAvoidance
    DupAcksConsumed
