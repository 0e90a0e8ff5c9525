CONSTANTS
    c1 = c1
    c2 = c2
    Clients <- MCClients
    Nobody = Nobody
    MaxAsk <- MCMaxAsk
    WordLengths <- MCWords
    AnswerLengths <- MCLengths
    Foul <- MCFoul
    Lifetimes <- MCLifetimes
    MaxTime = 3
SPECIFICATION SysFairSpec
INVARIANTS
    SysInv
    SignedInTime
PROPERTIES
    ImplementsRobot
    ThrownExplained
