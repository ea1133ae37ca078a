SPECIFICATION Spec
SYMMETRY HandlerSymmetry
CONSTANTS
    file = file
    h1 = h1
    h2 = h2
    None = None
    Request <- OneFile
    File <- OneFile
    Handler <- TwoHandlers
    StoreLimit = 2
    TimerLimit = 2
INVARIANTS
    TypeOK
    OneRow
    SentIsStored
    ToldOnce
PROPERTIES
    ImplementsDelivery
