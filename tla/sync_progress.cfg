SPECIFICATION FairSpec
CHECK_DEADLOCK FALSE
CONSTANTS
    msg1 = msg1
    msg2 = msg2
    edit1 = edit1
    edit2 = edit2
    ack = ack
    note = note
    hint = hint
    mark = mark
    typing = typing
    ann = ann
    room = room
    Event <- AckAmongOthers
    Client <- OneClient
    ChatRoom <- room
    RoomsOf <- MCRoomsOf
    Persisted <- MCPersisted
    NumListeners <- MCNumListeners
    FaultLimit <- OneRollback
    PageLimit = 1
    MaxSteps = 1
INVARIANTS
    KnownNotAhead
PROPERTIES
    GapsDrain
    DeliveredIsHandled
