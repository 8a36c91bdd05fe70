CONSTANTS
    old = old
    new = new
    next = next
    Builds = {old, new, next}
    VersionOf <- MCVersionOf
    Sets = {s1}
    Servers = {server}
    Derives = {derive}
    Commands = {}
    None = None
    MaxStarts = 3
SPECIFICATION FairSpec
CHECK_DEADLOCK FALSE
INVARIANTS
    FingerprintTells
    SeedsReachTheirTargets
PROPERTIES
    ComesUp
