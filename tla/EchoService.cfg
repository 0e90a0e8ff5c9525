CONSTANTS
    c1 = c1
    c2 = c2
    c3 = c3
    Clients <- MCClients
    Nobody = Nobody
    Rounds = 2
    Parts = 2
SPECIFICATION FairSpec
INVARIANTS
    IInv
    KilledByHaste
PROPERTIES
    KeepsEcho
    PrintsOldestFirst
    EveryClientEnds
