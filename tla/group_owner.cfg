SPECIFICATION GroupSpec
CHECK_DEADLOCK FALSE
CONSTANTS
    ada = ada
    bob = bob
    eve = eve
    l1 = l1
    l2 = l2
    Person <- MCPerson
    FirstRoles <- OwnerAndMember
    Link <- MCLink
    FirstLinks <- OneActive
    MaxUses = 1
    MaxMembers = 3
    Task = {r1, r2}
INVARIANTS
    GroupHasOwner
