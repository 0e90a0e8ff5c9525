CONSTANTS
    c1 = c1
    c2 = c2
    Clients <- MCClients
    Nobody = Nobody
    MaxAsk <- MCMaxAsk
    WordLengths <- MCWords
    AnswerLengths <- MCLengths
SPECIFICATION FairSpec
INVARIANTS
    IInv
    KilledByLength
PROPERTIES
    OneQuestionOneAnswer
    Answered
    Released
