-------------------------------- MODULE Castle --------------------------------
(***************************************************************************)
(* Slaves, regions, attachments and the module lifecycle together, as     *)
(* castle_main.c runs them.  Claims, fs inits, region and attachment calls *)
(* happen while the module is loaded; regions are created on listed       *)
(* slaves.  castle_exit is one step of all four: its teardown order       *)
(* (castle_transfers_free, castle_regions_free, castle_attachments_free,  *)
(* ..., castle_slaves_unlock, castle_cache_fini, castle_slaves_free), the *)
(* regions and attachments freed and the slaves released.  It cannot run  *)
(* while a castle gendisk is open or a control call is under way: both    *)
(* hold a reference on the module (castle_bd_ops.owner = THIS_MODULE).    *)
(* castle_init may then load the module again, with its statics reset, or *)
(* fail part way and unwind.                                              *)
(***************************************************************************)
EXTENDS Slaves

CONSTANTS Versions, AllVersions, Starts, Lengths, RegionFaults, MaxRegionOps

CONSTANTS InitFaults, MaxLoads

CONSTANTS AttVersions, AttFaults, MaxAttOps, MaxOpens

CONSTANT MaxControlOps  \* bound: region and attachment calls together

VARIABLES regions, regionId, transfers, regionOps,
          loaded, up, timer, finiOfDown, loads,
          atts, disks, pending, handles, freedOpen, uaf, minor, colId,
          attached, attOps

R == INSTANCE Regions

regionVars == <<regions, regionId, transfers, regionOps>>

L == INSTANCE Lifecycle

lifeVars == <<loaded, up, timer, finiOfDown, loads>>

A == INSTANCE Attachments

attVars == <<atts, disks, pending, handles, freedOpen, uaf, minor, colId,
             attached, attOps>>

ExitRegionsFirst == R!RegionsFree(transfers)
\* castle_exit: castle_transfers_free empties the transfer list, then
\* castle_regions_free runs; castle_init's static region_id starts again at 0.
ExitRegions == R!RegionsFree({})

ModuleExitRegions ==
    /\ transfers' = {}
    /\ regions' = ExitRegions
    /\ regionId' = 0
    /\ regionOps' = regionOps

\* castle_exit waits for no open castle gendisk and no control call; its
\* castle_attachments_free frees every attachment.
ModuleExitAttachments ==
    /\ pending = A!NoMinor
    /\ \A m \in A!Minors : handles[m] = 0
    /\ A!AttachmentsFreed
    /\ UNCHANGED <<pending, handles, uaf, minor, colId, attOps>>

\* Loading the module starts the statics of castle_device_init and
\* castle_collection_init again, and castle_versions_init has no version
\* attached.
ModuleInitAttachments ==
    /\ minor' = 0
    /\ colId' = A!FirstColId
    /\ attached' = A!Zeros(AttVersions)
    /\ UNCHANGED <<atts, disks, pending, handles, freedOpen, uaf, attOps>>

CastleInit == Init /\ R!RInit /\ L!LInit /\ A!AInit

\* Region and attachment calls come from the one control interface; they
\* share a bound.
ControlBudget == regionOps + attOps < MaxControlOps

\* Once an oops (bug # {}) has stopped the kernel nothing else runs.
CastleNext ==
    \/ /\ loaded
       /\ SlaveStep
       /\ UNCHANGED <<regionVars, lifeVars, attVars>>
    \/ /\ loaded /\ bug = {} /\ ControlBudget
       /\ R!RegionCall
       /\ UNCHANGED <<vars, lifeVars, attVars>>
    \/ /\ loaded /\ bug = {}
       /\ R!TransferStep
       /\ UNCHANGED <<vars, lifeVars, attVars>>
    \/ /\ loaded /\ bug = {} /\ ControlBudget
       /\ A!AttachmentCall
       /\ UNCHANGED <<vars, regionVars, lifeVars>>
    \/ /\ loaded /\ bug = {}
       /\ A!AttachmentEvent
       /\ UNCHANGED <<vars, regionVars, lifeVars>>
    \/ /\ L!ModuleExit
       /\ Reload
       /\ ModuleExitRegions
       /\ ModuleExitAttachments
    \/ /\ bug = {}
       /\ L!ModuleInit
       /\ ModuleInitAttachments
       /\ UNCHANGED <<vars, regionVars>>

CastleSpec ==
    CastleInit /\ [][CastleNext]_<<vars, regionVars, lifeVars, attVars>>

-----------------------------------------------------------------------------
\* No two listed regions of one slave overlap (castle_region_add's test).
NoOverlap == R!NoOverlap

\* No listed region names a slave that is no longer listed: castle_exit
\* frees the regions, once the transfers are gone, before castle_release
\* frees the slaves.
RegionsOnListedSlaves == R!RegionsOnListedSlaves

\* Every subsystem is up while the module is loaded and none is after
\* castle_exit or a castle_init that failed at any step.
AllUpOrAllDown == L!AllUpOrAllDown

\* A live castle gendisk always leads to a listed device, and a listed
\* device has its gendisk, through the window in which castle_device_init
\* has called add_disk and its castle_sysfs_device_add may still fail.
GendisksOfListedDevices == A!GendisksOfListedDevices

\* Nothing of the attachments outlives the module: after castle_exit or a
\* failed castle_init no attachment is listed and no castle gendisk is live
\* (its castle_bd_ops would point into unloaded code).
AttachmentsOnlyWhileLoaded == ~loaded => atts = {} /\ disks = {}

\* The spindown timer is armed only while the module is loaded.
TimerOnlyWhileLoaded == L!TimerOnlyWhileLoaded

\* No teardown in castle_init's unwinding runs on a subsystem that is not up.
NoFiniOfDown == L!NoFiniOfDown
====
