SPECIFICATION ChangeSpec
CHECK_DEADLOCK FALSE
CONSTANTS
    u1 = u1
    u2 = u2
    m1 = m1
    m2 = m2
    Member <- MCMember
    Message <- MCMessage
    AuthorOf <- MCAuthorOf
    Moderator = {}
    Edit = {}
    Deletion = {d1}
    MaxEdits = 1
INVARIANTS
    ForMeIsForMe
