SPECIFICATION ViewSpec
CHECK_DEADLOCK FALSE
CONSTANTS
    chat1 = chat1
    chat2 = chat2
    Dialog <- MCDialog
    NoDialog = NoDialog
    Note = {1, 2}
    DialogOf <- AllInOne
    PageSize = 1
    MaxOpens = 3
INVARIANTS
    OwnMessages
