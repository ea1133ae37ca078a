SPECIFICATION FairSpec
CHECK_DEADLOCK FALSE
CONSTANTS
    c1 = c1
    c2 = c2
    direct = direct
    group = group
    Call <- TwoCalls
    User <- ThreeUsers
    Chat <- Chats
    ChatOf <- CrossChat
    Caller <- MCCaller
    Members <- SamePair
    Joiner <- UserThree
    Leaver <- Nobody
    MaxHandlers = 1
    MaxTimers = 2
INVARIANTS
    NobodyDeadlocks
PROPERTIES
    ImplementsExchange
    LiveEnds
    DialEnds
