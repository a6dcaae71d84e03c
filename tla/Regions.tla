------------------------------- MODULE Regions -------------------------------
(***************************************************************************)
(* The regions of src/kernel/castle_main.c: castle_region_create (with     *)
(* castle_region_add) and castle_region_destroy from the control interface,*)
(* and castle_regions_free at exit.  A region names a listed slave (by its *)
(* uuid: castle_slave_find_by_uuid), a version, a start and a length.      *)
(* The slave list is the Slaves module's; this module never changes it.    *)
(* Transfers (castle_transfers, not in the repository) are an environment  *)
(* that starts and ends transfers of a version.  struct castle_region is   *)
(* not in the repository either; start and length are taken as fields    *)
(* wide enough that start + length does not wrap (see the hazard list).   *)
(***************************************************************************)
EXTENDS Integers

CONSTANTS
    Uuids,          \* slave uuids, as in Slaves
    Versions,       \* versions castle_version_read finds
    AllVersions,    \* versions a caller may name
    Starts,         \* start blocks a caller may give
    Lengths,        \* lengths a caller may give (0 included)
    RegionFaults,   \* subset of {"alloc", "sysfs"}: steps that may fail
    MaxRegionOps    \* bound: region creates and destroys in a behaviour

VARIABLES
    regions,        \* castle_regions.regions
    regionId,       \* the static region_id of castle_region_create
    transfers,      \* versions of the transfers on castle_transfers.transfers
    slaves,         \* castle_slaves.slaves (read only here)
    regionOps       \* bound

rvars == <<regions, regionId, transfers, regionOps>>

RInit ==
    /\ regions = {}
    /\ regionId = 0
    /\ transfers = {}
    /\ regionOps = 0

OverlapsStartOnly(n, r) ==
    n.slave = r.slave /\ r.start <= n.start /\ n.start < r.start + r.length
\* The test of castle_region_add.
Overlaps(n, r) ==
    /\ n.slave = r.slave
    /\ n.start + n.length > r.start
    /\ n.start < r.start + r.length

\* castle_region_add: -EINVAL when the new region overlaps a listed one.
RegionAddFails(n) == \E r \in regions : Overlaps(n, r)

(***************************************************************************)
(* castle_region_create(u, v, st, len).  Each early exit leaves the list  *)
(* as it is; region_id is taken only once the slave is found, so a create *)
(* that then fails still uses up an id.                                   *)
(***************************************************************************)
RegionCreate(u, v, st, len) ==
    /\ regionOps < MaxRegionOps
    /\ regionOps' = regionOps + 1
    /\ transfers' = transfers
    /\ LET n == [id |-> regionId, slave |-> u, version |-> v,
                 start |-> st, length |-> len]
           found == len # 0 /\ v \in Versions /\ \E s \in slaves : s.uuid = u
       IN
       \/ /\ ~found \/ "alloc" \in RegionFaults
          /\ UNCHANGED <<regions, regionId>>
       \/ /\ found
          /\ regionId' = regionId + 1
          /\ \/ /\ RegionAddFails(n) \/ "sysfs" \in RegionFaults
                /\ regions' = regions
             \/ /\ ~RegionAddFails(n)
                /\ regions' = regions \cup {n}

\* castle_region_destroy: -EBUSY while a transfer of the region's version is
\* listed, otherwise list_del.
RegionDestroyed(r) ==
    IF r.version \in transfers THEN regions ELSE regions \ {r}

RegionDestroy(r) ==
    /\ regionOps < MaxRegionOps
    /\ regionOps' = regionOps + 1
    /\ r \in regions
    /\ regions' = RegionDestroyed(r)
    /\ UNCHANGED <<regionId, transfers>>

\* The transfer code (not in the repository) starting or finishing a transfer.
TransferStart(v) ==
    /\ v \in Versions /\ v \notin transfers
    /\ transfers' = transfers \cup {v}
    /\ UNCHANGED <<regions, regionId, regionOps>>

TransferEnd(v) ==
    /\ v \in transfers
    /\ transfers' = transfers \ {v}
    /\ UNCHANGED <<regions, regionId, regionOps>>

\* castle_regions_free: castle_region_destroy of each region with its -EBUSY
\* ignored, so the regions that stay listed are those of a version some
\* listed transfer (of ts) still has.
RegionsFree(ts) == {r \in regions : r.version \in ts}

\* The control calls, and the transfers they race with.
RegionCall ==
    \/ \E u \in Uuids, v \in AllVersions, st \in Starts, len \in Lengths :
          RegionCreate(u, v, st, len)
    \/ \E r \in regions : RegionDestroy(r)

TransferStep == \E v \in AllVersions : TransferStart(v) \/ TransferEnd(v)

RNext == RegionCall \/ TransferStep

-----------------------------------------------------------------------------
\* No two listed regions of one slave overlap: castle_region_add's test
\* rejects every overlap, whichever region came first.
NoOverlap ==
    \A r1, r2 \in regions :
        (r1.slave = r2.slave /\ r1 # r2) =>
            (r1.start + r1.length <= r2.start \/ r2.start + r2.length <= r1.start)

\* Every listed region names a listed slave: region->slave never dangles,
\* because castle_exit frees the regions before castle_release frees the
\* slaves and nothing else releases a slave.
RegionsOnListedSlaves ==
    \A r \in regions : \E s \in slaves : s.uuid = r.slave
====
