CONSTANTS
    a = a
    b = b
    Users = {a, b}
    Devices = {a, b}
    Admins = {a}
    Promotable = {b}
    Founder = a
    MemberLists <- MCMemberLists
    Rank <- MCRank
    KeyExpiry = 1
    MaxRekeys = 3
    MaxSupplements = 1
    MaxClock = 2
    MaxDumps = 0
    MaxRestarts = 0

SPECIFICATION Spec

INVARIANTS
    NewestKept
    DroppedWereSuperseded
    HeldKeptAlive
    ListedCurrent
    CollisionNoticed
    PendingNotBehind
