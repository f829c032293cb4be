CONSTANTS
    a = a
    b = b
    Users = {a, b}
    Devices = {a, b}
    Admins = {a}
    Promotable = {b}
    Founder = a
    MemberLists <- MCMemberLists
    Rank <- MCRank
    KeyExpiry = 1
    MaxRekeys = 2
    MaxSupplements = 1
    MaxClock = 1
    MaxDumps = 1
    MaxRestarts = 1

SPECIFICATION Spec

INVARIANTS
    TypeOK
    KeysSaved

CHECK_DEADLOCK FALSE
