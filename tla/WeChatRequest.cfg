CONSTANTS
    Words <- MCWords
    Replies <- MCReplies
    Pieces = 2
SPECIFICATION FairSpec
INVARIANTS
    IInv
    WholeOrNothing
    FatalExplained
PROPERTY
    QueryEnds
