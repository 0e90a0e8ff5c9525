CONSTANTS
    a = a
    b = b
    none = none
    Procs <- MCProcs
    Msgs <- MCOne
    NoMsg <- none
    MaxDup = 0
    Lossy = FALSE
    CloseWakesReceiver = FALSE
SPECIFICATION FairSpec
PROPERTIES
    StopEnds
    EventuallyConfirmed
