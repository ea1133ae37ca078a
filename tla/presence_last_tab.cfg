SPECIFICATION PresenceSpec
CHECK_DEADLOCK FALSE
CONSTANTS
    Tab = {tab1, tab2}
    MaxTabs = 2
    CrashLimit = 0
    LateLimit = 0
INVARIANTS
    LastTabEndsCalls
