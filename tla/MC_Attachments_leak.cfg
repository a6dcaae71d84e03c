\* castle_attachment_init, castle_device_init and castle_collection_init fail
\* after castle_version_attach without castle_version_detach.
SPECIFICATION ASpec
CONSTANTS
    v1 = v1  v2 = v2
    AttVersions <- MCAttVersions
    AttFaults = {"attach", "alloc", "disk", "queue", "sysfs"}
    MaxAttOps = 3
    MaxOpens = 1
INVARIANTS
    TypeOK
    GendisksOfListedDevices
    VersionAttachBalanced
CHECK_DEADLOCK FALSE
