\* castle_init failing at castle_cache_init leaves the spindown timer armed.
SPECIFICATION CastleSpec
CONSTANTS
    d1 = d1  d2 = d2  d3 = d3  d4 = d4
    u1 = u1  u2 = u2  f1 = f1  f2 = f2  nofs = nofs  v1 = v1  v2 = v2
    Devs <- MCDevs
    Foreign = {d4}
    Uuids <- MCUuids
    FsVals <- MCFsVals
    NoFs = nofs
    DiskInits <- MCDisks
    Faults = {"alloc", "open", "sbread", "cache0", "cache1", "sysfs", "fsrest"}
    MaxClaims = 2
    MaxBoots = 1
    Versions = {v1}
    AllVersions = {v1, v2}
    Starts = {0, 1}
    Lengths = {0, 1, 2}
    RegionFaults = {"alloc", "sysfs"}
    MaxRegionOps = 2
    InitFaults = {"slaves", "cache", "versions", "btree", "da", "freespace", "attachments", "regions", "transfers", "control", "rxrpc", "sysfs"}
    MaxLoads = 2
    AttVersions = {v1}
    AttFaults = {"queue", "sysfs"}
    MaxAttOps = 2
    MaxOpens = 1
    MaxControlOps = 3
INVARIANT
    TimerOnlyWhileLoaded
\* Every behaviour ends once the bounds are used up.
CHECK_DEADLOCK FALSE
