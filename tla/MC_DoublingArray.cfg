\* Clean exits and crashes outside the exit writeback, no allocation failure.
SPECIFICATION Spec
CONSTANTS
    MaxDaLevel <- MCMaxDaLevel
    Versions <- MCVersions
    MaxMakes <- MCMaxMakes
    MaxBoots <- MCMaxBoots
    MaxReads <- MCMaxReads
    AllocMayFail = FALSE
    CrashInWriteback = FALSE
INVARIANTS
    TypeOK
    TreeSeqsIdentifyTrees
    DaIdsUnique
    StoreMountable
PROPERTIES
    RoundTrip
    ImplementsRegistry
\* Every behaviour ends once the boot bound is used up and the module is down.
CHECK_DEADLOCK FALSE
