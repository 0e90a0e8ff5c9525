CONSTANTS
    a = a
    b = b
    none = none
    Procs <- MCProcs
    Msgs <- MCOne
    NoMsg <- none
    MaxDup = 1
    Lossy = FALSE
    CloseWakesReceiver = FALSE
SPECIFICATION Spec
INVARIANTS
    IInv
    NothingLost
    
