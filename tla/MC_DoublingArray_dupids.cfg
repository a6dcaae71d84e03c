\* Allocation failures, no crash during the exit writeback.
SPECIFICATION Spec
CONSTANTS
    MaxDaLevel <- MCMaxDaLevel
    Versions <- MCVersions
    MaxMakes <- MCFaultMakes
    MaxBoots <- MCFaultBoots
    MaxReads <- MCFaultReads
    AllocMayFail = TRUE
    CrashInWriteback = FALSE
INVARIANTS
    DaIdsUnique
\* Every behaviour ends once the boot bound is used up and the module is down.
CHECK_DEADLOCK FALSE
