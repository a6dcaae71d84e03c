-------------------------------- MODULE Slaves --------------------------------
(***************************************************************************)
(* The slave disks of src/kernel/castle_main.c: castle_claim, the          *)
(* superblock cache and check, castle_fs_init, and the slave teardown of   *)
(* castle_exit followed by a new castle_init (a module reload).            *)
(*                                                                         *)
(* A disk carries a slave superblock (valid or not, with a uuid) and an fs  *)
(* superblock: the identity of the filesystem it belongs to (its magic,    *)
(* salt and pepper), or NoFs when the magic is wrong.  The kernel keeps,   *)
(* per device, castle's open_by_devnum references and its bd_claim's.     *)
(* Superblock pages live in castle_cache (not in the repository), keyed by  *)
(* the slave's uuid; a page nobody references may be evicted at any time. *)
(* A dirtied page is taken as written when it is put.  castle_claim and    *)
(* castle_fs_init come from the control interface one call at a time, so   *)
(* each action is one whole call.  A BUG_ON or an oops stops the kernel.   *)
(***************************************************************************)
EXTENDS Integers, FiniteSets

CONSTANTS
    Devs,           \* block devices that may be claimed
    Foreign,        \* devices another holder has bd_claim'ed
    Uuids,          \* slave uuids (get_random_bytes picks one for a new disk)
    FsVals,         \* filesystem identities (get_random_bytes salt and pepper)
    NoFs,           \* an fs superblock whose magic is wrong
    DiskInits,      \* what the disks may hold when castle first loads
    Faults,         \* which steps of castle_claim / castle_fs_init may fail
    MaxClaims,      \* bound: castle_claim calls in a behaviour
    MaxBoots        \* bound: module reloads in a behaviour

FaultKinds == {"alloc", "open", "sbread", "cache0", "cache1", "sysfs", "fsrest"}

\* struct castle_slave, as far as the properties tell apart.
SlaveRec == [dev : Devs, uuid : Uuids, new : BOOLEAN]
\* struct castle_slave_superblock (magic and uuid) and struct
\* castle_fs_superblock (magic, salt and pepper) as they stand on a disk.
DiskRec == [sb : BOOLEAN, uuid : Uuids, fs : FsVals \cup {NoFs}]

ASSUME /\ Foreign \subseteq Devs /\ Faults \subseteq FaultKinds
       /\ NoFs \notin FsVals /\ DiskInits \subseteq [Devs -> DiskRec]
       /\ MaxClaims \in Nat /\ MaxBoots \in Nat

VARIABLES
    disk,       \* what each device holds
    opens,      \* open_by_devnum references castle holds per device
    holds,      \* bd_claim's castle holds per device
    slaves,     \* castle_slaves.slaves
    inCache,    \* uuids whose superblock pages are up to date in the cache
    refd,       \* uuids whose superblock pages castle still references
    inited,     \* castle_fs_inited
    initDevs,   \* ghost: the devices the last successful castle_fs_init agreed on
    bug,        \* what stopped the kernel: {} or {"null"}, {"loop"}, {"uptodate"}
    claims,     \* bound
    boots       \* bound

vars == <<disk, opens, holds, slaves, inCache, refd, inited, initDevs, bug,
          claims, boots>>

Fail(k) == k \in Faults
Listed(d) == {s \in slaves : s.dev = d}

Init ==
    /\ disk \in DiskInits
    /\ opens = [d \in Devs |-> 0]
    /\ holds = [d \in Devs |-> 0]
    /\ slaves = {}
    /\ inCache = {}
    /\ refd = {}
    /\ inited = FALSE
    /\ initDevs = {}
    /\ bug = {}
    /\ claims = 0
    /\ boots = 0

-----------------------------------------------------------------------------
(* Helpers of castle_claim, each named for the function it stands for.     *)

\* castle_slave_superblock_read and the -EINVAL branch of castle_claim: a
\* valid slave superblock gives its uuid, an invalid one a new disk with the
\* random uuid u.
SlaveSuperblockRead(d, u) ==
    IF disk[d].sb THEN [dev |-> d, uuid |-> disk[d].uuid, new |-> FALSE]
                  ELSE [dev |-> d, uuid |-> u, new |-> TRUE]

\* castle_slave_add: -EINVAL when a listed slave has the uuid.
UuidTaken(u) == \E s \in slaves : s.uuid = u

\* castle_slave_superblocks_cache: what reading the two superblock pages ends
\* in.  BUG_ON(c2b_uptodate) when the page is still cached; a failed READ of
\* block i runs `for(j=0; j<=i; i++) unlock_c2b(*(c2bp[i]))`, which unlocks
\* the NULL fs_sblk (i = 0) or walks past c2bp[1] (i = 1).
SuperblocksCache(cs) ==
    IF cs.uuid \in inCache THEN {"uptodate"}
    ELSE {"ok"} \cup (IF Fail("cache0") \/ Fail("cache1") THEN {"loop"} ELSE {})

\* castle_slave_superblocks_init after the cache: a known disk's two
\* superblocks are validated; a new disk's slave superblock is written.  The
\* fs superblock of a new disk is left as it is.
SuperblocksValid(cs) == cs.new \/ disk[cs.dev].fs # NoFs
SuperblocksWrite(cs) ==
    IF cs.new THEN [disk EXCEPT ![cs.dev].sb = TRUE, ![cs.dev].uuid = cs.uuid]
              ELSE disk

ErrOutPutsListed(d, cached, cs) ==
    /\ opens' = opens
    /\ holds' = [holds EXCEPT ![d] = @ + 1]
    /\ refd' = refd \ {cs.uuid}
ErrOutDoublePut(d, cached, cs) ==
    /\ opens' = [opens EXCEPT ![d] = @ - 2]
    /\ holds' = [holds EXCEPT ![d] = @ + 1]
    /\ refd' = IF cached THEN refd \ {cs.uuid} ELSE refd
\* err_out of castle_claim once bd_claim succeeded: put_c2b of the pages it
\* got, blkdev_put of the open, and no bd_release.  list_del undoes a
\* list_add made in the same call, so the list is as before.
ErrOut(d, cached, cs) ==
    /\ opens' = opens
    /\ holds' = [holds EXCEPT ![d] = @ + 1]
    /\ refd' = IF cached THEN refd \ {cs.uuid} ELSE refd

(***************************************************************************)
(* castle_claim(d) with every way out, in the order the code takes them.  *)
(***************************************************************************)
Claim(d) ==
    /\ bug = {}
    /\ claims < MaxClaims
    /\ claims' = claims + 1
    /\ UNCHANGED <<inited, initDevs, boots>>
    /\ \/ /\ Fail("alloc")                       \* kzalloc; err_out reads cs->sblk
          /\ bug' = {"null"}
          /\ UNCHANGED <<disk, opens, holds, slaves, inCache, refd>>
       \/ /\ Fail("open")                        \* open_by_devnum
          /\ UNCHANGED <<disk, opens, holds, slaves, inCache, refd, bug>>
       \/ /\ d \in Foreign                       \* bd_claim; the open is kept
          /\ opens' = [opens EXCEPT ![d] = @ + 1]
          /\ UNCHANGED <<disk, holds, slaves, inCache, refd, bug>>
       \/ /\ d \notin Foreign
          /\ \E u \in Uuids :
             LET cs == SlaveSuperblockRead(d, u) IN
             \/ /\ Fail("sbread")                \* -EIO from the read
                /\ ErrOut(d, FALSE, cs)
                /\ UNCHANGED <<disk, slaves, inCache, bug>>
             \/ /\ UuidTaken(cs.uuid)            \* castle_slave_add
                /\ ErrOut(d, FALSE, cs)
                /\ UNCHANGED <<disk, slaves, inCache, bug>>
             \/ /\ ~UuidTaken(cs.uuid)
                /\ \E r \in SuperblocksCache(cs) :
                   \/ /\ r # "ok"
                      /\ bug' = {r}
                      /\ UNCHANGED <<disk, opens, holds, slaves, inCache, refd>>
                   \/ /\ r = "ok"
                      /\ inCache' = inCache \cup {cs.uuid}
                      /\ disk' = SuperblocksWrite(cs)
                      /\ bug' = bug
                      /\ \/ /\ ~SuperblocksValid(cs) \/ Fail("sysfs")
                            /\ ErrOut(d, TRUE, cs)
                            /\ slaves' = slaves
                         \/ /\ SuperblocksValid(cs)
                            /\ opens' = [opens EXCEPT ![d] = @ + 1]
                            /\ holds' = [holds EXCEPT ![d] = @ + 1]
                            /\ slaves' = slaves \cup {cs}
                            /\ refd' = refd \cup {cs.uuid}

\* castle_cache (not in the repository) may drop a page nobody references.
Evict(u) ==
    /\ bug = {}
    /\ u \in inCache \ refd
    /\ inCache' = inCache \ {u}
    /\ UNCHANGED <<disk, opens, holds, slaves, refd, inited, initDevs, bug,
                   claims, boots>>
-----------------------------------------------------------------------------
(***************************************************************************)
(* castle_fs_init.  The non-new slaves' fs superblocks must be equal; when  *)
(* there is none, castle_fs_superblocks_init makes a fresh one on every    *)
(* slave.  The superblock is then copied into every listed slave, which   *)
(* initialises the new ones.  castle_versions_zero_init, castle_versions_  *)
(* read and the DA create/read may still fail ("fsrest"), after the copy, *)
(* leaving castle_fs_inited 0 so that the call can be retried.            *)
(***************************************************************************)
\* castle_fs_superblock_init: fresh magic and random salt and pepper.
FreshFs == FsVals

FsCopyNone(f) == disk
\* castle_fs_superblocks_get / castle_fs_superblocks_put(sb, 1): f copied
\* into the fs superblock of every listed slave.
FsCopy(f) == [d \in Devs |-> IF Listed(d) # {} THEN [disk[d] EXCEPT !.fs = f]
                                                ELSE disk[d]]

FsInit ==
    /\ bug = {}
    /\ ~inited
    /\ slaves # {}
    /\ LET known == {disk[s.dev].fs : s \in {t \in slaves : ~t.new}} IN
       /\ Cardinality(known) <= 1              \* else memcmp: -EINVAL
       /\ \E f \in IF known = {} THEN FreshFs ELSE known :
             /\ disk' = FsCopy(f)
             /\ \/ /\ Fail("fsrest")
                   /\ UNCHANGED <<inited, initDevs>>
                \/ /\ inited' = TRUE
                   /\ initDevs' = {s.dev : s \in slaves}
    /\ UNCHANGED <<opens, holds, slaves, inCache, refd, bug, claims, boots>>

\* The memcmp mismatch: castle_fs_init returns -EINVAL having changed nothing.
FsInitMismatch ==
    /\ bug = {}
    /\ ~inited
    /\ Cardinality({disk[s.dev].fs : s \in {t \in slaves : ~t.new}}) > 1
    /\ UNCHANGED vars

(***************************************************************************)
(* castle_exit and the next castle_init, for the slaves: castle_slaves_   *)
(* unlock puts every superblock page, castle_cache_fini drops the cache,  *)
(* castle_slaves_free calls castle_release (bd_release, blkdev_put,        *)
(* list_del) on every slave, and castle_init sets castle_fs_inited = 0.    *)
(***************************************************************************)
\* castle_release of every listed slave: bd_release and blkdev_put of its
\* device, one each, then list_del.
Released(cnt) == [d \in Devs |-> cnt[d] - Cardinality(Listed(d))]

Reload ==
    /\ bug = {}
    /\ boots < MaxBoots
    /\ boots' = boots + 1
    /\ opens' = Released(opens)
    /\ holds' = Released(holds)
    /\ slaves' = {}
    /\ inCache' = {}
    /\ refd' = {}
    /\ inited' = FALSE
    /\ UNCHANGED <<disk, initDevs, bug, claims>>

\* The steps of a loaded module.
SlaveStep ==
    \/ \E d \in Devs : Claim(d)
    \/ \E u \in Uuids : Evict(u)
    \/ FsInit
    \/ FsInitMismatch

Next == SlaveStep \/ Reload

Spec == Init /\ [][Next]_vars

-----------------------------------------------------------------------------
(* Properties                                                              *)

\* Every count stays a natural number and every slave and disk well formed:
\* castle_claim's error paths give back exactly what they took.
TypeOK ==
    /\ disk \in [Devs -> DiskRec]
    /\ opens \in [Devs -> Nat] /\ holds \in [Devs -> Nat]
    /\ slaves \subseteq SlaveRec
    /\ inCache \subseteq Uuids /\ refd \subseteq inCache
    /\ inited \in BOOLEAN /\ initDevs \subseteq Devs
    /\ bug \subseteq {"null", "loop", "uptodate"}

\* The superblock pages of every listed slave stay referenced, so the cache
\* keeps them up to date and castle_slave_superblock_get's BUG_ON(!uptodate)
\* cannot fire: castle_claim's err_out puts only the pages its own call got,
\* never those of the listed slave a cloned disk or a repeated claim collides
\* with.
ListedSuperblocksCached ==
    \A s \in slaves : s.uuid \in refd

\* The devices the last successful castle_fs_init agreed on carry one valid
\* fs superblock on disk, through later claims, failed inits and reloads.
InitedSlavesAgree ==
    \E f \in FsVals : \A d \in initDevs : disk[d].sb /\ disk[d].fs = f

\* Once the fs is inited, every listed slave carries its fs superblock, so
\* that it is accepted again after a reload.  castle_claim of a new disk
\* writes only the slave superblock.
ListedSlavesAgree ==
    inited => \E f \in FsVals : \A s \in slaves : disk[s.dev].fs = f

\* Castle holds a bd_claim and an open on a device exactly while a listed
\* slave uses it: castle_claim's error paths release what they took.
DeviceHeldIffListed ==
    \A d \in Devs : holds[d] = Cardinality(Listed(d))
                    /\ opens[d] = Cardinality(Listed(d))

\* No castle_claim oopses or hits a BUG_ON.
NoOops == bug = {}
====
