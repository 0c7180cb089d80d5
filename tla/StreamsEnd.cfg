SPECIFICATION FairSpec

CONSTANTS
    Conns = {c1, c2}
    MaxFaults = 1
    Addresses = 1
    MAXDATASIZE = 2
    ClientBuffer = 4
    Contents <- MCBlock

PROPERTIES
    ConnectionsEnd

\* The server waits in accept when no more clients come.
CHECK_DEADLOCK FALSE
