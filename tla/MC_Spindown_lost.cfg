\* A jiffies that does not wrap within the bound, two accessors of one
\* slave storing last_access out of order.
SPECIFICATION Spec
CONSTANTS
    s1 = s1
    s2 = s2
    c1 = c1
    head = head
    a1 = a1
    a2 = a2
    SlaveList <- MCSlaveList
    Claims <- MCNoClaims
    NewDisks = {}
    Targets <- MCTargets
    ClaimFaults = {"read", "init"}
    ListHead = head
    Accessors <- MCAccessors
    HZ = 1
    Mod <- MCWideMod
    StartJiffies <- MCWideStart
    MaxTicks = 17
    MaxAccesses = 2
PROPERTIES
    NoEarlySpindown
\* Every behaviour ends once the tick bound is used up and the work is idle.
CHECK_DEADLOCK FALSE
