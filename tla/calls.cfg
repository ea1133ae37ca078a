SPECIFICATION Spec
CHECK_DEADLOCK FALSE
CONSTANTS
    c1 = c1
    c2 = c2
    direct = direct
    group = group
    Call <- TwoCalls
    User <- TwoUsers
    Chat <- Chats
    ChatOf <- SameChat
    Caller <- MCCaller
    Members <- SamePair
    Joiner <- Nobody
    Leaver <- UserOne
    MaxHandlers = 2
    MaxTimers = 2
INVARIANTS
    TypeOK
    OneLivePerChat
    NobodyAlone
    CardIsWritten
    CardTellsTruth
