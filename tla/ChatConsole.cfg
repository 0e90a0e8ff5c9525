CONSTANTS
    Lines <- MCLines
    MaxTyped = 2
SPECIFICATION FairSpec
INVARIANTS
    SentCoversText
    PrintedAsSent
PROPERTIES
    CrashExplained
    ExitIsRead
