\* A crash during the exit writeback, no allocation failure.
SPECIFICATION Spec
CONSTANTS
    MaxDaLevel <- MCMaxDaLevel
    Versions <- MCVersions
    MaxMakes <- MCFaultMakes
    MaxBoots <- MCFaultBoots
    MaxReads <- MCFaultReads
    AllocMayFail = FALSE
    CrashInWriteback = TRUE
INVARIANTS
    StoreMountable
\* Every behaviour ends once the boot bound is used up and the module is down.
CHECK_DEADLOCK FALSE
