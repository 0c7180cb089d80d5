SPECIFICATION FairSpec

CONSTANTS
    Ids = {1, 2, 3, 4}
    Costs = {1, 3}

INVARIANTS
    TypeOK
    EntriesBacked
    RoundsCover
    SymmetricCosts

PROPERTIES
    ImplementsRouting
    MessagesArrive
