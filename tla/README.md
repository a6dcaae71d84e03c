# TLA+ models of the castle block-device kernel module

This directory holds TLA+ models of the C sources under `src/kernel`. `castle_main.c` is the
block device, the slaves, the regions, the attachments and module init/exit. `castle_da.c` is
the doubling-array registry. Every module can be checked with TLC.
`PROJECT.json` records three things:
- the components and their status;
- every TLC run, each with one mutant per property it checks;
- the map from each TLA+ definition to the source lines it translates, the findings and the
  hazards.

The B-tree, the buffer cache, versions, freespace, the metadata store (mstore), control, sysfs,
events and rxrpc are headers only. Their code is not in the repository. Where the modelled code
calls them, the model takes their results as nondeterministic inputs.

## 1. Inventory

| Part | Code | State | Operations | Hard behaviour |
|---|---|---|---|---|
| Bio splitting | `castle_device_make_request` loop (main.c 953-988) | sector, last_block, j, c_bvecs | one iteration per bvec | off-by-one at block edges, the `bi_vcnt + 1` bound, the CBV_ONE2ONE flag |
| Bio request path | main.c 698-999 | c_bio count/err, c_bvec phase, c2b lock owner, c2b uptodate, page data | make_request, c_bvec_make, btree find result (io_end), io_do, c2b_update, data_copy, io_error, bio_get/put, bio_endio | c_bvecs of many bios run concurrently on workqueues and I/O completions; shared cache blocks locked by `lock_c2b`; READ failures; reference counting |
| DA registry | da.c whole file | hash of DAs, per-level CT lists, `castle_next_da_id`, `castle_next_tree_seq`, mstore records | init, create, read, make (+ct_make), fini (writeback + destroy) | persistence across module loads, crash during writeback, allocation failure in read, fs init retry |
| Slaves / fs init | main.c 44-525, 1177-1318 | slave list, superblocks (cached and locked c2bs), fs superblock agreement, bdev claim | claim, release, superblock cache/init, fs_init | error unwinding, superblock agreement |
| Spindown | main.c 1177-1243 | SPINNING flag, last_access, timer, work item | access, spindown work, timer, a claim running meanwhile | unlocked last_access store racing another access; jiffies wrap in `last_access + 5*HZ < jiffies`; the walk reaching a slave a claim has listed but not set up, or has freed |
| Regions | main.c 526-665 | region list, region_id | create/add, destroy, free | the overlap test; -EBUSY ignored at exit |
| Attachments | main.c 666-692, 1001-1175, 1320-1354 | attachments, live gendisks, minor and collection_id statics, version attach | attachment_init, device_init/free, collection_init/free, open/close, attachments_init/free | a disk opened before its init fails; attach without detach on error paths |
| Module lifecycle | main.c 1276-1294, 1356-1445 | which subsystems are up, the spindown timer | castle_init with goto unwinding, castle_exit | teardown order; a step skipped or repeated on an error path |

**How the parts interact.** A bio enters at `castle_device_make_request` of an attachment. It is
split into c_bvecs. Each c_bvec goes to `castle_btree_find`, which is not in the repository, and
comes back through `castle_bio_data_io_end`. Then `castle_bio_data_io_do` runs:
`castle_slave_access`, the cache block, `lock_c2b`, a READ if needed, the copy, and
`castle_bio_put`.

The DA registry is built at `castle_fs_init`. A fresh fs calls `castle_double_array_create`;
otherwise `castle_double_array_read` runs. The registry grows by `castle_double_array_make`,
which the control interface calls. It is written back by `castle_double_array_fini` from
`castle_exit`, or from the error path of `castle_init`.

## 2. Modules

### BioSplit (`BioSplit.tla`, `MC_BioSplit.tla`)

`SegmentStep` is one iteration of the `bio_for_each_segment` loop of
`castle_device_make_request`. It works on a record holding:
- the sector;
- last_block;
- the c_bvecs made, each with its block and its one-to-one flag;
- whether a `BUG_ON` fired.

`IsOne2One` and `EndBlock` are the two expressions of the loop: `one2one` at line 962, and the
block of the last sector at line 971. `SplitFrom` (RECURSIVE) runs the loop over a whole bio.
`CBvecs` is its result. `RefBlocks`, `Covered` and `FullyCovered` are reference definitions:
the blocks a sector range touches, and which of them it covers in full.

The state machine (`Init`, `Step`) steps the loop over every bio whose first sector lies in
`Starts` and which has 1 to `MaxSegs` segments of 1 to `SPB` sectors each. This is every shape
`castle_bio_validate` lets through, because a bvec is at most one page.

### BioRequest (`BioRequest.tla`, `MC_BioRequest.tla`)

**Setup.** Bios are model values. Their shape is a constant: direction, first sector, segment
lengths, and whether they are aligned. Their c_bvecs come from `BioSplit!CBvecs`, computed once
into constant tables.

**Variables and the code they stand for:**

| Variable | Code |
|---|---|
| `bst`, `nxt` | progress of `castle_device_make_request` and its loop index `j` |
| `count`, `err` | `c_bio->count`, `c_bio->err` |
| `endio`, `endErr` | calls of `bio_endio` and the error passed |
| `putErr` | the `err` local of a `castle_bio_put` in progress |
| `pc` | where each c_bvec is |
| `owner` | the holder of each cache block's lock |
| `uptodate` | `c2b_uptodate` |
| `cache`, `result` | page contents per sector, and what each read bio copied out |

**Values.** A sector's value is `Zero`, `Old` (on disk), `Garbage` (a page not yet read) or the
name of the write bio that wrote it.

**Ghosts.** `failed`, `logical` and `allowed` record, respectively: the c_bvecs that ended in
error, the value the last applied write left, and what a read may return.

**Actions.** Each is a whole handler:

| Action | Code |
|---|---|
| `MakeRequest` | validate, alloc, `fail_bio` |
| `MakeCbvec` | `castle_device_c_bvec_make` |
| `SubmitPutRead` / `SubmitPutDec` | the final `castle_bio_put` of make_request |
| `DataIoEnd` | `castle_bio_data_io_end` with the B-tree's answer: error, unmapped block or mapped block |
| `DataIoDo` | `castle_bio_data_io_do` once `lock_c2b` returns |
| `C2bUpdate` | the READ's `end_io` |
| `BioPutRead` / `BioPutDec` | `castle_bio_put`, split at its read of `err` and its `atomic_dec_and_test` |

`DataCopy` is `castle_bio_data_copy` and is part of the action that calls it.

### DoublingArray (`DoublingArray.tla`, `DARegistry.tla`, `MC_DoublingArray.tla`)

**Variables.**

| Variable | What it holds |
|---|---|
| `hash` | the DA objects in iteration order, each with its id, root version, mstore key and per-level CT lists |
| `nextDaId` / `nextTreeSeq` | the two globals |
| `daStore` / `ctStore` | the two mstores, as append-only sequences whose index is the record key (0 is `INVAL_MSTORE_KEY`) |
| `phase` | down / loaded / up / wb |
| `plan` | the writeback calls still to come |

**Actions.**

| Action | Code |
|---|---|
| `Load` | `castle_double_array_init` and the statics |
| `DaCreate` | `castle_double_array_create` (fresh fs) |
| `DaRead` | `castle_double_array_read`, including a kmalloc failure at any record and the missing-DA error |
| `DaMake(v)` | `castle_double_array_make` with `castle_da_ct_make`, and its failures |
| `FiniStart`, `WritebackStep`, `FiniEnd` | `castle_double_array_fini`, one mstore call per step, because it drops the spinlock around sleeping calls |
| `Crash` | a crash |

The ghost `lastClean` is the registry as it stood at the last completed exit of a mounted fs.

**Refinement (`DARegistry.tla`).** `DARegistry` states what the registry promises, with no hash,
keys or store records. While the fs is up there is a set of DAs in memory, each an id, a root
version and its trees (seq and level). A module exit saves that set in one step. A crash loses
memory and keeps what was saved. A mount gets back exactly what was saved. A new DA gets an id
and a tree seq that no DA in memory or saved has. `DoublingArray` maps onto it as follows.

| Abstract | Concrete |
|---|---|
| `state` | `phase`, with `wb` as `saving` |
| `mem` | the hash without keys (`Image(hash)`) |
| `saved` | the stores decoded: each DA record with the CT records naming its id (`StoreImage`). During the exit writeback of a mounted fs it is `Image(hash)`, since the abstract save happens at `FiniStart`. |
| `formatted` | `storesExist` |

The writeback steps are stuttering steps of the abstract spec. At `FiniEnd` the stores must decode
to the hash just written. `ImplementsRegistry == Registry!Spec` is checked in `da_lifecycle`.
The mapping does not hold under allocation failures: a failed read leaves a partly filled hash
(see `MC_DoublingArray_dupids.cfg`). It does not hold under a crash inside the writeback either: the exit is
not atomic (see `da_crash_writeback`). For both reasons the refinement is not a property of the
fault runs.

### Slaves (`Slaves.tla`, `MC_Slaves.tla`)

**Variables.**

| Variable | Code |
|---|---|
| `disk` | what each device holds: slave superblock valid or not, its uuid, and the fs superblock identity (or `NoFs`) |
| `opens`, `holds` | castle's `open_by_devnum` references and `bd_claim`s per device |
| `slaves` | `castle_slaves.slaves` (device, uuid, whether castle wrote a fresh superblock) |
| `inCache`, `refd` | superblock pages up to date in `castle_cache`, and those castle still references |
| `inited`, `initDevs` | `castle_fs_inited`, and (ghost) the devices the last successful fs init agreed on |
| `bug` | an oops or BUG_ON that stopped the kernel |

**Actions.** `Claim(d)` is the whole of `castle_claim`: every early exit to `err_out` in code order
(kzalloc, open, bd_claim, superblock read, uuid collision, superblock cache, superblock check,
sysfs), and `castle_slave_add`. Its helpers are `SlaveSuperblockRead`, `UuidTaken`,
`SuperblocksCache`, `SuperblocksValid`, `SuperblocksWrite` and `ErrOut`. `FsInit` and
`FsInitMismatch` are `castle_fs_init`: agreement of the fs superblocks, a fresh fs written to every
slave (`FsCopy`), and the later steps failing. `Evict(u)` is the cache dropping an unreferenced
page. `Reload` is the slave part of `castle_exit` and a new `castle_init`.

### Regions (`Regions.tla`)

`regions`, `regionId` and `transfers` are the region list, the static `region_id` and the versions of
the listed transfers. `RegionCreate` is `castle_region_create` with `castle_region_add`, including
each early exit and the id a failed create still uses up. `RegionDestroy` is
`castle_region_destroy`, which returns -EBUSY while a transfer of the version is listed.
`TransferStart`/`TransferEnd` are the transfer code, which is not in the repository.
`RegionsFree` is `castle_regions_free`. The slave list is read from Slaves.

### Spindown (`Spindown.tla`, `MC_Spindown.tla`)

A discrete clock `jiffies`, kept modulo `Mod` (2^BITS_PER_LONG in the code, 64 or 16 in the
models), drives the timer. `list` starts as `SlaveList`; a slave of `Claims` is added by
`castle_claim` while the timer runs. Only the claim's steps that the walk can come between are
actions here; the rest of `castle_claim` (bd_claim, the uuid, the fs superblock) is Slaves'.

| Variable | Code |
|---|---|
| `lastAccess[s]` | `cs->last_access` |
| `spinning` | slaves whose superblock has `CASTLE_SLAVE_SPINNING` |
| `pc[t]`, `reg[t]` | where thread `t` is in `castle_slave_access`, and the jiffies value it loaded |
| `timerLeft` | ticks until `spindown_timer` expires |
| `list` | `castle_slaves.slaves`, head first (`list_add` inserts at the head) |
| `claim[s]` | how far `castle_claim` has set up slave `s`: `alloc`, `listed` (`cs->sblk` NULL), `page`, `locked`, `put`, then `ready`, or `freed` by `err_out`, or `gone` before `list_add` |
| `oops` | what stopped the kernel: `null`, `uptodate`, `uaf` (the walk) or `loop` (the claim's unlock loop) |
| `workQueued`, `workAt` | `spindown_work_item` pending on `castle_wq`; `list_for_each`'s `l`: the slave the walk is at, or `ListHead` |
| `valueAge`, `quiet` (ghost) | ticks since the value in `last_access` was read; ticks since the latest access that stored |

| Action | Code |
|---|---|
| `Init` | `castle_slaves_spindowns_check(1)`: the timer armed for 10*HZ; `castle_claim` set `last_access`, made slaves are TARGET and spinning |
| `AccessLoad`, `AccessStore` | `cs->last_access = jiffies`, a load and a store with no lock |
| `AccessSpinup` | `castle_slave_superblock_get` .. `put`: SPINNING set |
| `TimerFire` | `castle_slaves_spindowns_check(0)`: `queue_work` and re-arm for 5*HZ |
| `WorkStart`, `WorkStep` | `castle_slaves_spindown`, one slave per step under its superblock lock; `castle_slave_superblock_get` waits while the claim holds the page and oopses on a slave not set up or freed |
| `ClaimAlloc` | `kzalloc`, `cs->last_access = jiffies` |
| `ClaimAdd` | open, `bd_claim`, the superblock read, then `castle_slave_add`'s `list_add`, or an error before it |
| `ClaimGetPage`, `ClaimLock` | `castle_slave_superblocks_cache`: `cs->sblk` set, then `lock_c2b` and the read (a failed read runs the broken unlock loop) |
| `ClaimPut` | `castle_slave_superblocks_init`: flags written for a blank disk, `castle_slave_superblock_put` |
| `ClaimEnd` | the return, or `err_out`: `list_del`, `put_c2b`, `kfree` |
| `Tick` | the timer interrupt (environment) |

### Lifecycle (`Lifecycle.tla`)

`Steps` are castle_init's twelve steps. `Unwind` is the teardown calls under `err_out12` ..
`err_out1`, and `ErrOutAt[k]` is where the goto for step k lands. `ExitSeq` is castle_exit's
calls. `up` is the set of subsystems up, `timer` whether the spindown timer is armed, and
`finiOfDown` (ghost) the teardowns that ran on a subsystem that was not up. `InitFails(k)` includes
castle_slaves_init's own `err_out` when k = 1. `ModuleInit` and `ModuleExit` are the two entry
points.

### Attachments (`Attachments.tla`, `MC_Attachments.tla`)

**Variables.**

| Variable | Code |
|---|---|
| `atts` | `castle_attachments.attachments`: kind (device or collection), minor or collection id, version |
| `disks` | minors whose gendisk is added and not deleted |
| `pending` | the minor of a `castle_device_init` between `add_disk` and its end |
| `handles` | open handles per minor (block layer) |
| `freedOpen`, `uaf` | ghosts: attachments kfree'd with handles open, and a `castle_close` on one |
| `minor`, `colId` | the statics of `castle_device_init` and `castle_collection_init` |
| `attached` | `castle_version_attach` calls minus `castle_version_detach` calls, per version |

**Actions.** `DeviceInit(v)` runs `castle_device_init` up to `add_disk`, with the failures of
`castle_version_attach`, kmalloc, `alloc_disk` and `blk_alloc_queue`. `DeviceInitEnd` is the rest,
including the `castle_sysfs_device_add` error path. Between the two steps a user may `Open` the
new disk. The other actions are `DeviceFree`, `CollectionInit`, `CollectionFree`, `Open`, `Close`
and `AttachmentsFreed` (castle_attachments_free). Control calls run one at a time. The `users` field
is left out, because it only decides `check_disk_change` and a printk.

### Castle (`Castle.tla`, `MC_Castle.tla`)

Castle composes Slaves, Regions (`R`), Lifecycle (`L`) and Attachments (`A`). Slave, region and
attachment steps run only while the module is loaded, and nothing runs after an oops.

`castle_exit` is one step that does four things:
- runs `L!ModuleExit`;
- runs the slave `Reload`;
- frees the regions after the transfers (`ModuleExitRegions`);
- frees the attachments (`ModuleExitAttachments`).

`castle_exit` cannot start while a castle disk is open or a control call is under way. Both hold a
module reference, through `castle_bd_ops.owner = THIS_MODULE` and the control file.

A new `castle_init` resets the `minor` and `collection_id` statics, and no version is attached.

Region and attachment calls come from the same control interface, so they share one bound,
`MaxControlOps`.

## 3. Runs

| Run | Config | Expect | What it shows |
|---|---|---|---|
| biosplit | `MC_BioSplit.cfg` | pass | The loop fires no BUG_ON. It makes at most `bi_vcnt + 1` c_bvecs: exactly one per touched block, in order. It flags one-to-one only bvecs that cover a whole block (36096 states). |
| bio_concurrency | `MC_BioRequest.cfg` | pass | Four bios interleave: a partial write `w1` into block 1, a whole-block write `w2` of block 1, a read `r1` of blocks 1-2, and a misaligned bio `x`. `bio_endio` happens once, after every c_bvec. No up-to-date page holds unread data. Reads are regular. |
| bio_faults | `MC_BioRequest_faults.cfg` | pass | Allocations, lookups and READs of `w1` and `r1` may fail. Completion stays single, and every bio completes (liveness). |
| bio_err_lost | `MC_BioRequest_errlost.cfg` | violation | `EndioReportsFailure`: a two-c_bvec read with one failing c_bvec completes with 0. |
| bio_wild_free | `MC_BioRequest_wildfree.cfg` | violation | `NoWildFree`: `fail_bio` on a misaligned bio frees the uninitialised `c_bio`. |
| da_lifecycle | `MC_DoublingArray.cfg` | pass | Five loads, four makes, and crashes outside the exit writeback. The registry read back equals the one last written. Tree seqs and DA ids stay unique and consistent with the store keys. The stores stay readable. The registry implements `DARegistry` (`ImplementsRegistry`). |
| da_crash_writeback | `MC_DoublingArray_crashwb.cfg` | violation | `StoreMountable`: a crash between a new DA's CT insert and its DA insert leaves an orphan CT record, and every later read fails. |
| castle | `MC_Castle.cfg` | pass | Slaves, regions, attachments and the lifecycle together (about 2.1M states). Listed slaves keep their superblock pages referenced (`ListedSuperblocksCached`). The disks the last fs init agreed on keep one fs (`InitedSlavesAgree`). Regions of one slave never overlap and never outlive the slave. Every live castle gendisk belongs to a listed device, including when a user opens a disk whose init then fails (`GendisksOfListedDevices`). Nothing of the attachments outlives the module. After every `err_out` path nothing is up, and a loaded module has everything up (`AllUpOrAllDown`). |
| spindown | `MC_Spindown.cfg` | pass | Two slaves (`s1` a TARGET), one thread in `castle_slave_access`, a claim of `c1` that may fail at each step, the timer and the work item, over 12 ticks from jiffies 0 that do not wrap (5.5M states). The list links each slave at most once, and only while the claim has it allocated (`TypeOK`). `SpindownAfterQuietPeriod` is not checked here: on a clock that does not wrap it is the test at line 1213 itself. It is checked where it can fail, under `MC_Spindown_wrap.cfg`. |
| spindown_claim_race | `MC_Spindown_claim.cfg` | violation | `NoWalkOops`: the claim of `c1` list_adds it; the timer fires and the walk starts at `c1`, whose `cs->sblk` is still NULL. TLC also reaches the page got but not locked (`BUG_ON(!c2b_uptodate)`), and `err_out` freeing `c1` while the walk is at it. |
| slaves_bd_leak | `MC_Slaves_bdleak.cfg` | violation | `DeviceHeldIffListed`: a second claim of a listed device passes `bd_claim` (same holder) and fails on the uuid. `err_out` never calls `bd_release`, so the device stays claimed with no slave. |
| slaves_reclaim_bug | `MC_Slaves_reclaim.cfg` | violation | `NoOops`: a claim of a disk with a corrupt fs superblock fails after caching both pages. Retrying it finds them up to date and hits `BUG_ON(c2b_uptodate)`. |

**Configurations kept beside the runs.** Each of these finds a property violated in the code. They
are listed as hazards in `PROJECT.json`, each with a note pointing to its configuration.

| Config | Property | What TLC shows |
|---|---|---|
| `MC_Slaves_hotadd.cfg` | `ListedSlavesAgree` | A claim after `castle_fs_init` lists a blank disk without writing an fs superblock to it. |
| `MC_Castle_timer.cfg` | `TimerOnlyWhileLoaded` | `castle_cache_init` fails. `err_out2` frees the slaves without `castle_slaves_unlock`, so the spindown timer stays armed after the module is gone. |
| `MC_Castle_fini.cfg` | `NoFiniOfDown` | `castle_slaves_init` fails. Its `err_out` unregisters the castle-fs major that `castle_attachments_init` has not yet registered. |
| `MC_Attachments_uaf.cfg` | `NoCloseAfterFree` | A user opens a new disk before `castle_sysfs_device_add` fails. The error path kfrees the attachment, and the close then locks freed memory. `castle_device_free` of an open device does the same. |
| `MC_Spindown_wrap.cfg` | `SpindownAfterQuietPeriod` | jiffies modulo 16 from 5. `s2` is accessed at jiffies 15; `15 + 5` wraps to 4 < 15, and the next walk spins it down in the same tick. |
| `MC_Spindown_lost.cfg` | `NoEarlySpindown` | Two threads access `s2`. The one that loaded jiffies first stores last, so `last_access` holds an older value than the latest access read, and `s2` is spun down less than 5*HZ after that access. |
| `MC_DoublingArray_dupids.cfg` | `DaIdsUnique` | A read that fails part way leaves DAs hashed, and a retried `castle_fs_init` hashes them again. |
| `MC_Attachments_leak.cfg` | `VersionAttachBalanced` | Every error path after `castle_version_attach` frees the attachment without `castle_version_detach`. |

`MC_DoublingArray_faults.cfg` checks `TypeOK` and `TreeSeqsIdentifyTrees` with allocation and
root-update failures, failed and retried reads, and crashes during the writeback (2 makes, 3
loads, 3 reads). It passes; it is kept beside the runs rather than listed, since `da_lifecycle`
and `da_crash_writeback` ask the same questions of the same module.

**Bounds, and why they are enough.**
- **BioSplit.** It covers every start position within two blocks (SPB = 8, starts 0..15) and
  every length 1..8 of up to three segments. That includes every way a bvec can start, end or
  straddle a block edge, and bios that straddle twice.
- **BioRequest.** It uses SPB = 2 and three blocks, with block 2 unmapped (it reads as zeros).
  The bios are chosen so that:
  - two writes and a read contend for the same cache block;
  - one write is partial (must read first) and one is whole-block (skips the read);
  - the read is split into two c_bvecs, the case the lost-error race needs;
  - a misaligned bio exercises `fail_bio`.

  More bios add only repetitions of these pairings.
- **DoublingArray.** It uses two levels (only level 0 is ever written) and two root versions.
  Five loads are enough to save, reload, extend, save again and reload. Four makes give two DAs
  per boot in two boots. The fault run uses 2 makes, 3 loads and 3 reads, enough for a read
  to fail, be retried, and have a crash interrupt a writeback.
- **Spindown.** HZ = 1, so the period is 5 ticks and the first fire is at tick 10. In the
  pass run, 12 ticks give one fire (on time or up to two ticks late) and one walk. Accesses
  at ticks 0..7 then fall on both sides of the test, and the walk falls before, during and
  after every step of the claim. Two slaves, one a TARGET and one not, cover both branches of
  the test. The wrap and lost-update configurations have no claim and run 17 ticks, which give
  two fires, the second after a full quiet period. They use two accesses, from two threads in
  the lost-update one, enough for stores out of order. The pass run starts at 0 with modulo
  64, so nothing wraps; the wrap run uses modulo 16 from 5, so the second fire comes while
  `last_access + 5` has wrapped.
- **Castle.** The disks are:
  - d1, a slave;
  - d2, a copy of d1, or (in the second initial state) a slave with a corrupt fs superblock;
  - d3, blank;
  - d4, held by another holder.

  Two claims are enough for each case: a uuid collision, a fresh disk joining an fs init, an fs
  init failing and being retried, and a claim that fails after caching. There are two loads, so
  that a failed init is followed by a good one, or a load by an exit and a second load.

  There are three region or attachment calls in a behaviour. Regions use starts 0..1 and lengths
  0..2: a zero length, and adjacent, nested and overlapping regions. Attachments use one
  version, one open handle, and `castle_sysfs_device_add` failing, which reaches:
  - a disk opened and then deleted;
  - a device freed while open;
  - a collection left listed at exit.

  `castle_init` may fail at any of its twelve steps.

**Fairness.**
- `bio_faults` assumes weak fairness per bio submitter and per c_bvec. Workqueue items and I/O
  completions are never dropped.
- A c_bvec waiting in `lock_c2b` is enabled only while the lock is free. There are finitely many
  contenders, and every holder releases the lock in a bounded number of steps. Weak fairness of
  the waiter is therefore enough.
- The other runs check only safety. Spindown's clock is bounded, so that an idle slave is
  eventually spun down (false when `last_access + 5*HZ` is `ULONG_MAX`) is not checked.

**Deadlock.**
- `CHECK_DEADLOCK FALSE` is justified because every model has a finite set of requests and stops
  when they are served.
- For Spindown, the model stops when the tick bound is used up and the work item is idle, or
  after an oops.
- For DoublingArray, the model stops when the load bound is used up.
- For Castle and Slaves, the model stops when the claim, control-call and load bounds are used
  up, or after an oops.

## 4. Plan

This is the order for the remaining work.
1. **DoublingArray**: model `castle_double_array_find`'s callback chaining, with the c_bvec
   callbacks of BioRequest.
2. **Lifecycle**: refine the composed exit against an abstract spec: every subsystem brought up is
   torn down exactly once.

## 5. Not modelled

- The B-tree, cache, mstore, versions and freespace. Their code is not in the repository.
- The cache itself and the write-back of dirty pages. These belong to `castle_cache`. Slaves
  models only its eviction of an unreferenced superblock page (`Evict`), as an environment step.
- Memory leaks. The model records the leaking paths only as hazards.
- The data layout of records and on-disk structures.
- Debug, sysfs, events, control and rxrpc. These are user-space interfaces or logging.
- `castle_version_attach`/`detach`, `castle_transfers` and the control ioctl are not in the
  repository. Attachments and Regions take their outcomes as nondeterministic, and control calls
  run one at a time.
- The width of `struct castle_region`'s start and length is unknown, because the struct is not in
  the repository. `NoOverlap` checks the logic of the overlap test with integers that do not wrap.
