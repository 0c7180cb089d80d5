SPECIFICATION FairSpec

CONSTANTS
    Ids = {1, 2, 3, 4}
    Costs = {1, 3}
    MAXCOST = 5

INVARIANTS
    TypeOK
    ConfirmedFinal
    LowestPredecessor
    HopsAddUp

PROPERTIES
    ImplementsRouting
    MessagesArrive
