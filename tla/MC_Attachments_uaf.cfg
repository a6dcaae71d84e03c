\* castle_device_free, or castle_device_init failing in castle_sysfs_device_add,
\* kfrees an attachment whose gendisk a user holds open.
SPECIFICATION ASpec
CONSTANTS
    v1 = v1  v2 = v2
    AttVersions <- MCAttVersions
    AttFaults = {"attach", "alloc", "disk", "queue", "sysfs"}
    MaxAttOps = 3
    MaxOpens = 1
INVARIANTS
    TypeOK
    GendisksOfListedDevices
    NoCloseAfterFree
CHECK_DEADLOCK FALSE
