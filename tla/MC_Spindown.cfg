\* A jiffies that does not wrap within the bound (64-bit), one accessor, and
\* a claim of c1 that may fail at each step while the timer runs.
SPECIFICATION Spec
CONSTANTS
    s1 = s1
    s2 = s2
    c1 = c1
    head = head
    a1 = a1
    a2 = a2
    SlaveList <- MCSlaveList
    Claims <- MCClaims
    NewDisks = {}
    Targets <- MCTargets
    ClaimFaults = {"read", "init"}
    ListHead = head
    Accessors <- MCOneAccessor
    HZ = 1
    Mod <- MCWideMod
    StartJiffies <- MCWideStart
    MaxTicks = 12
    MaxAccesses = 2
INVARIANTS
    TypeOK
\* Every behaviour ends once the tick bound is used up and the work is idle.
CHECK_DEADLOCK FALSE
