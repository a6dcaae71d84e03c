----------------------------- MODULE Attachments -----------------------------
(***************************************************************************)
(* The attachments of src/kernel/castle_main.c: block devices              *)
(* (castle_device_init/free, one gendisk per device, minor from a static   *)
(* counter) and object collections (castle_collection_init/free), each     *)
(* holding a castle_version_attach of its version; castle_open and         *)
(* castle_close from the block layer; castle_attachments_free at exit.     *)
(* castle_version_attach/detach, castle_sysfs and the control interface    *)
(* that calls init and free are not in the repository: attach may fail,    *)
(* sysfs may fail, and control calls run one at a time.  castle_device_init*)
(* is two steps: the gendisk is live from add_disk, so a user may open it  *)
(* before castle_sysfs_device_add returns.  The users field only decides   *)
(* check_disk_change and a printk, and is left out.                        *)
(***************************************************************************)
EXTENDS Integers, FiniteSets

CONSTANTS
    AttVersions,    \* versions a control call may name
    AttFaults,      \* subset of {"attach","alloc","disk","queue","sysfs"}
    MaxAttOps,      \* bound: control calls (inits and frees) in a load
    MaxOpens        \* bound: open handles at once

NoMinor == -1
Minors == 0 .. MaxAttOps - 1
FirstColId == 13    \* the static collection_id of castle_collection_init

VARIABLES
    atts,       \* castle_attachments.attachments: [kind, id, version] records
    disks,      \* minors whose gendisk is added and not yet deleted
    pending,    \* minor of a castle_device_init between add_disk and its end
    handles,      \* open handles per minor (the block layer's bd_openers)
    freedOpen,  \* minors whose attachment was kfree'd with handles open
    uaf,        \* ghost: castle_close ran on a kfree'd attachment
    minor,      \* static minor of castle_device_init
    colId,      \* static collection_id of castle_collection_init
    attached,   \* castle_version_attach calls minus castle_version_detach
    attOps      \* bound

avars == <<atts, disks, pending, handles, freedOpen, uaf, minor, colId,
           attached, attOps>>

Zeros(S) == [x \in S |-> 0]

AInit ==
    /\ atts = {}
    /\ disks = {}
    /\ pending = NoMinor
    /\ handles = Zeros(Minors)
    /\ freedOpen = {}
    /\ uaf = FALSE
    /\ minor = 0
    /\ colId = FirstColId
    /\ attached = Zeros(AttVersions)
    /\ attOps = 0

Fail(k) == k \in AttFaults

\* A control call: one at a time, none while a device init is under way.
Control ==
    /\ pending = NoMinor
    /\ attOps < MaxAttOps
    /\ attOps' = attOps + 1

\* The minors whose attachment is kfree'd now, with handles still open.
FreedWhileOpen(ms) == freedOpen \cup {m \in ms : handles[m] > 0}

\* castle_version_attach succeeded: one more attach of v.
Attach(v) == [attached EXCEPT ![v] = @ + 1]

(***************************************************************************)
(* castle_device_init up to add_disk.  castle_attachment_init attaches the *)
(* version first; every later failure (kmalloc, alloc_disk,                *)
(* blk_alloc_queue) frees what it got but never detaches.  minor++ happens *)
(* before blk_alloc_queue, so a failed init still uses up a minor.         *)
(***************************************************************************)
DeviceInit(v) ==
    /\ Control
    /\ UNCHANGED <<handles, freedOpen, uaf, colId>>
    /\ \/ /\ Fail("attach")
          /\ UNCHANGED <<atts, disks, pending, minor, attached>>
       \/ /\ Fail("alloc") \/ Fail("disk")
          /\ attached' = Attach(v)
          /\ UNCHANGED <<atts, disks, pending, minor>>
       \/ /\ attached' = Attach(v)
          /\ minor' = minor + 1
          /\ \/ /\ Fail("queue")
                /\ UNCHANGED <<atts, disks, pending>>
             \/ /\ atts' = atts \cup {[kind |-> "dev", id |-> minor, version |-> v]}
                /\ disks' = disks \cup {minor}
                /\ pending' = minor

SysfsErrDisksKept(m) == disks
\* The error path of castle_sysfs_device_add: del_gendisk.
SysfsErrDisks(m) == disks \ {m}

\* castle_device_init from castle_sysfs_device_add on.  On failure it
\* deletes the gendisk, unlinks and kfrees the attachment, and keeps the
\* version attached.
DeviceInitEnd ==
    /\ pending # NoMinor
    /\ pending' = NoMinor
    /\ UNCHANGED <<handles, uaf, minor, colId, attached, attOps>>
    /\ \/ /\ Fail("sysfs")
          /\ disks' = SysfsErrDisks(pending)
          /\ atts' = {a \in atts : a.kind # "dev" \/ a.id # pending}
          /\ freedOpen' = FreedWhileOpen({pending})
       \/ UNCHANGED <<atts, disks, freedOpen>>

\* castle_device_free: del_gendisk, list_del, kfree and castle_version_detach,
\* whatever the number of users.
DeviceFree(a) ==
    /\ Control
    /\ a \in atts /\ a.kind = "dev"
    /\ disks' = disks \ {a.id}
    /\ atts' = atts \ {a}
    /\ freedOpen' = FreedWhileOpen({a.id})
    /\ attached' = [attached EXCEPT ![a.version] = @ - 1]
    /\ UNCHANGED <<pending, handles, uaf, minor, colId>>

\* castle_collection_init: attach, kmalloc, collection_id++, list_add and
\* castle_sysfs_collection_add, whose failure unlinks and kfrees without
\* detaching.
CollectionInit(v) ==
    /\ Control
    /\ UNCHANGED <<disks, pending, handles, freedOpen, uaf, minor>>
    /\ \/ /\ Fail("attach")
          /\ UNCHANGED <<atts, colId, attached>>
       \/ /\ Fail("alloc")
          /\ attached' = Attach(v)
          /\ UNCHANGED <<atts, colId>>
       \/ /\ attached' = Attach(v)
          /\ colId' = colId + 1
          /\ \/ /\ Fail("sysfs")
                /\ UNCHANGED atts
             \/ atts' = atts \cup {[kind |-> "col", id |-> colId, version |-> v]}

\* castle_collection_free: list_del, kfree and castle_version_detach.
CollectionFree(a) ==
    /\ Control
    /\ a \in atts /\ a.kind = "col"
    /\ atts' = atts \ {a}
    /\ attached' = [attached EXCEPT ![a.version] = @ - 1]
    /\ UNCHANGED <<disks, pending, handles, freedOpen, uaf, minor, colId>>

\* castle_open, reached through a live gendisk.
Open(m) ==
    /\ m \in disks
    /\ handles[m] < MaxOpens
    /\ handles' = [handles EXCEPT ![m] = @ + 1]
    /\ UNCHANGED <<atts, disks, pending, freedOpen, uaf, minor, colId,
                   attached, attOps>>

\* castle_close: the block layer releases a handle and castle_close takes
\* dev->lock of bd_disk->private_data, which may have been kfree'd.
Close(m) ==
    /\ handles[m] > 0
    /\ handles' = [handles EXCEPT ![m] = @ - 1]
    /\ uaf' = (uaf \/ m \in freedOpen)
    /\ freedOpen' = IF handles[m] = 1 THEN freedOpen \ {m} ELSE freedOpen
    /\ UNCHANGED <<atts, disks, pending, minor, colId, attached, attOps>>

\* The versions the listed attachments hold, counted per version.
Held(as) == [v \in AttVersions |-> Cardinality({a \in as : a.version = v})]

AttachmentsFreedDevicesOnly ==
    /\ disks' = disks \ {a.id : a \in {b \in atts : b.kind = "dev"}}
    /\ freedOpen' = FreedWhileOpen({a.id : a \in {b \in atts : b.kind = "dev"}})
    /\ attached' = [v \in AttVersions |-> attached[v] - Held(atts)[v]]
    /\ atts' = {b \in atts : b.kind = "col"}
\* castle_attachments_free: castle_device_free or castle_collection_free of
\* every listed attachment.
AttachmentsFreed ==
    /\ disks' = disks \ {a.id : a \in {b \in atts : b.kind = "dev"}}
    /\ freedOpen' = FreedWhileOpen({a.id : a \in {b \in atts : b.kind = "dev"}})
    /\ attached' = [v \in AttVersions |-> attached[v] - Held(atts)[v]]
    /\ atts' = {}

\* The control calls, and what the block layer and the rest of a device
\* init do between them.
AttachmentCall ==
    \/ \E v \in AttVersions : DeviceInit(v) \/ CollectionInit(v)
    \/ \E a \in atts : DeviceFree(a) \/ CollectionFree(a)

AttachmentEvent ==
    \/ DeviceInitEnd
    \/ \E m \in Minors : Open(m) \/ Close(m)

AttachmentStep == AttachmentCall \/ AttachmentEvent

-----------------------------------------------------------------------------
TypeOK ==
    /\ atts \subseteq [kind : {"dev", "col"}, id : Nat, version : AttVersions]
    /\ disks \subseteq Minors
    /\ pending \in Minors \cup {NoMinor}
    /\ handles \in [Minors -> 0 .. MaxOpens]
    /\ freedOpen \subseteq {m \in Minors : handles[m] > 0}
    /\ uaf \in BOOLEAN
    /\ minor \in 0 .. MaxAttOps
    /\ attached \in [AttVersions -> Nat]

\* Every live gendisk belongs to a listed device and every listed device has
\* its gendisk: a castle_open through bd_disk->private_data always finds a
\* live attachment, on every error path of castle_device_init and after
\* castle_device_free and castle_attachments_free.
GendisksOfListedDevices ==
    disks = {a.id : a \in {b \in atts : b.kind = "dev"}}

\* No castle_close runs on an attachment that was kfree'd.
NoCloseAfterFree == ~uaf

\* Every castle_version_attach is matched by the attachment it was taken for:
\* each version is attached exactly as often as listed attachments hold it.
VersionAttachBalanced == attached = Held(atts)
====
