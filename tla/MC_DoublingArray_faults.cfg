\* Allocation failures and crashes at any point, exit writeback included.
SPECIFICATION Spec
CONSTANTS
    MaxDaLevel <- MCMaxDaLevel
    Versions <- MCVersions
    MaxMakes <- MCFaultMakes
    MaxBoots <- MCFaultBoots
    MaxReads <- MCFaultReads
    AllocMayFail = TRUE
    CrashInWriteback = TRUE
INVARIANTS
    TypeOK
    TreeSeqsIdentifyTrees
\* Every behaviour ends once the boot bound is used up and the module is down.
CHECK_DEADLOCK FALSE
