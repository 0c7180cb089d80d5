SPECIFICATION Spec
CONSTANTS
    Inputs <- MCInputs
    T = 40
INVARIANTS
    TypeOK
    ChannelHeld
    CollisionsOnlyAtStart
    WholePackets
PROPERTIES
    ImplementsSharedChannel
