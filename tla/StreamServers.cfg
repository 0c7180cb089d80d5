SPECIFICATION Spec

CONSTANTS
    Conns = {c1, c2}
    MaxFaults = 1
    Addresses = 2
    MAXDATASIZE = 2
    ClientBuffer = 4
    Contents <- MCContents

SYMMETRY ConnSymmetry

INVARIANTS
    TypeOK
    ZombiesNoticed
    OutputInOrder
    StrayExplained
    WholeFile

\* The server waits in accept when no more clients come.
CHECK_DEADLOCK FALSE
