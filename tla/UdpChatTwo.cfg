CONSTANTS
    a = a
    b = b
    none = none
    Procs <- MCProcs
    Msgs <- MCTwoOneWay
    NoMsg <- none
    MaxDup = 0
    Lossy = TRUE
    CloseWakesReceiver = FALSE
SPECIFICATION Spec
INVARIANTS
    IInv
    CountProvesDelivery
    OneUnanswered
PROPERTIES
    SilentPrint
    KeepsPromise
