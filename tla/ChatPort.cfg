CONSTANTS
    a = a
    b = b
    c = c
    Procs <- MCProcs
    Rands <- MCRands
    Ephemeral <- MCEphemeral
SPECIFICATION Spec
CHECK_DEADLOCK FALSE
INVARIANTS
    AnnouncedReaches
    PrintedIdentifies
