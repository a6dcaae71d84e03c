\* A claim of c1 while the spindown timer runs, with every way it can end.
SPECIFICATION Spec
CONSTANTS
    s1 = s1
    s2 = s2
    c1 = c1
    head = head
    a1 = a1
    a2 = a2
    SlaveList <- MCSlaveList
    Claims <- MCClaims
    NewDisks = {}
    Targets <- MCTargets
    ClaimFaults = {"read", "init"}
    ListHead = head
    Accessors <- MCOneAccessor
    HZ = 1
    Mod <- MCWideMod
    StartJiffies <- MCWideStart
    MaxTicks = 12
    MaxAccesses = 2
INVARIANTS
    NoWalkOops
\* Every behaviour ends once the tick bound is used up and the work is idle.
CHECK_DEADLOCK FALSE
