SPECIFICATION Spec
CONSTANTS
    d1 = d1  d2 = d2  d3 = d3  d4 = d4
    u1 = u1  u2 = u2  f1 = f1  f2 = f2  nofs = nofs
    Devs <- MCDevs
    Foreign = {d4}
    Uuids <- MCUuids
    FsVals <- MCFsVals
    NoFs = nofs
    DiskInits <- MCGoodDisks
    Faults = {}
    MaxClaims = 3
    MaxBoots = 0
INVARIANT
    ListedSlavesAgree
CHECK_DEADLOCK FALSE
