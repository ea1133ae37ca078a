SPECIFICATION ServicesSpec
CHECK_DEADLOCK FALSE
CONSTANTS
    msg1 = msg1
    msg2 = msg2
    ack = ack
    typing = typing
    ann = ann
    room = room
    Event <- MCEvent
    Client <- MCClient
    ChatRoom <- room
    RoomsOf <- MCRoomsOf
    Persisted <- MCPersisted
    FaultLimit <- OneOfEach

    Tab = {tab1, tab2}
    MaxTabs = 1
    CrashLimit = 1
    LateLimit = 2

    u1 = u1
    u2 = u2
    m1 = m1
    m2 = m2
    Member <- MCMember
    Message <- MCMessage
    AuthorOf <- MCAuthorOf
    Moderator = {}
    Edit = {e1, e2}
    Deletion = {d1}
    MaxEdits = 2

    Token = {k1, k2, k3}
    Refresher = {h1, h2}
    NoToken = NoToken

    MaxDemands = 2
    MaxLosses = 1
    DigestsInOrder = TRUE

    ClientCall = {out, in}
    Outgoing = {out}
    NoCall = NoCall
    MaxAccepts = 1
    MaxEvents = 1
    MaxOutages = 1

    Track = {1, 2, 3}
    MaxOperations = 2

    Thread = {t1, t2, t3, t4}
    MaxSize = 2

    ada = ada
    bob = bob
    eve = eve
    l1 = l1
    l2 = l2
    Person <- MCPerson
    FirstRoles <- OwnerAndAdmin
    Link <- MCLink
    FirstLinks <- OneActive
    MaxUses = 1
    MaxMembers = 3
    Task = {r1, r2, r3}

    chat1 = chat1
    chat2 = chat2
    Dialog <- MCDialog
    NoDialog = NoDialog
    Note = {1, 2}
    DialogOf <- AllInOne
    PageSize = 1
    MaxOpens = 3

    Report = {rep1}
    Worker = {w1, w2, w3}
    MaxAttempts = 2
INVARIANTS
    ServicesTypeOK
    LogGapFree
    StampedIsLogged
    TabCap
    VisibleIsConnected
    OneLiveToken
    SameExchange
    TalksWhenAnswered
    WaitIsTimed
    CaptureIsHeld
    PoolCount
    PoolWakes
    LinkPays
    OpenDialogLoads
PROPERTIES
    LogAppendOnly
    DeletedStays
    OneCase
    Exchanged
