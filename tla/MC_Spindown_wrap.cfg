\* A 32-bit jiffies that wraps a few ticks after the slaves are claimed,
\* one accessor.
SPECIFICATION Spec
CONSTANTS
    s1 = s1
    s2 = s2
    c1 = c1
    head = head
    a1 = a1
    a2 = a2
    SlaveList <- MCSlaveList
    Claims <- MCNoClaims
    NewDisks = {}
    Targets <- MCTargets
    ClaimFaults = {"read", "init"}
    ListHead = head
    Accessors <- MCOneAccessor
    HZ = 1
    Mod <- MCNarrowMod
    StartJiffies <- MCWrapStart
    MaxTicks = 17
    MaxAccesses = 2
PROPERTIES
    SpindownAfterQuietPeriod
\* Every behaviour ends once the tick bound is used up and the work is idle.
CHECK_DEADLOCK FALSE
