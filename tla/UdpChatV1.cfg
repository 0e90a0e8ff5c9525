CONSTANTS
    a = a
    b = b
    none = none
    Procs <- MCProcs
    Msgs <- MCMsgs
    NoMsg <- none
    MaxDup = 1
SPECIFICATION FairSpec
INVARIANTS
    IInv
    LatePrint
    ClosesItsOwn
PROPERTY
    CleanEnds
