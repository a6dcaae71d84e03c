---------------------------- MODULE DoublingArray ----------------------------
(***************************************************************************)
(* The doubling-array registry of src/kernel/castle_da.c and its          *)
(* persistence: the in-memory hash of doubling arrays (DAs), each with     *)
(* MAX_DA_LEVEL lists of component trees (CTs), the globals               *)
(* castle_next_da_id / castle_next_tree_seq, and the two metadata stores  *)
(* (MSTORE_DOUBLE_ARRAYS, MSTORE_COMPONENT_TREES) it is saved to at       *)
(* module exit (castle_double_array_fini) and rebuilt from at fs init     *)
(* (castle_double_array_read).                                            *)
(*                                                                         *)
(* A store is an append-only sequence of records; a record's key          *)
(* (c_mstore_key_t) is its index, and 0 is INVAL_MSTORE_KEY.  An insert or *)
(* update is taken to be durable once it returns: the weakest durability *)
(* the code could rely on.  A crash loses all memory; module globals are  *)
(* re-initialised (to 1) when the module is loaded again.                 *)
(*                                                                         *)
(* The caller of castle_double_array_make (collection creation in the     *)
(* control interface, not in the repository) is taken to pass            *)
(* castle_next_da_id and advance it, which is what that global is for.    *)
(***************************************************************************)
EXTENDS Integers, Sequences, SequencesExt, FiniteSets

CONSTANTS
    MaxDaLevel,     \* MAX_DA_LEVEL
    Versions,       \* root versions a DA may be made for
    MaxMakes,       \* bound: castle_double_array_make calls in a behaviour
    MaxBoots,       \* bound: module loads in a behaviour
    MaxReads,       \* bound: castle_double_array_read calls in a behaviour
    AllocMayFail,   \* kmalloc / castle_version_root_update may fail
    CrashInWriteback \* a crash may hit castle_double_array_fini half way

ASSUME /\ MaxDaLevel \in Nat \ {0}
       /\ MaxMakes \in Nat /\ MaxBoots \in Nat \ {0} /\ MaxReads \in Nat
       /\ AllocMayFail \in BOOLEAN /\ CrashInWriteback \in BOOLEAN

Levels == 0 .. (MaxDaLevel - 1)
InvalKey == 0
EmptyTrees == [l \in Levels |-> <<>>]

VARIABLES
    phase,          \* "down", "loaded" (module in, fs not inited), "up", "wb" (exit writeback)
    hash,           \* castle_da_hash: DA objects in iteration order (insertion order;
                    \* the DEFINE_HASH_TBL macro is not in the repository)
    nextDaId,       \* castle_next_da_id
    nextTreeSeq,    \* castle_next_tree_seq
    storesExist,    \* the fs has been created (castle_double_array_create)
    daStore,        \* MSTORE_DOUBLE_ARRAYS records [id, root]
    ctStore,        \* MSTORE_COMPONENT_TREES records [da, seq, level]
    plan,           \* writeback steps still to do during castle_double_array_fini
    boots, makes, reads, \* bounds
    lastClean       \* ghost: registry contents at the last completed writeback

vars == <<phase, hash, nextDaId, nextTreeSeq, storesExist, daStore, ctStore,
          plan, boots, makes, reads, lastClean>>

\* No trusted image: nothing saved cleanly yet, or an exit writeback was cut short.
NoImage == [valid |-> FALSE, pending |-> FALSE, img |-> {}]

\* The registry as the spec sees it: DAs with their CTs by level (no keys).
Image(h) ==
    {[id |-> d.id, root |-> d.root,
      cts |-> UNION {{[seq |-> c.seq, level |-> l] : c \in ToSet(d.trees[l])} : l \in Levels}]
       : d \in ToSet(h)}

Cts(h) == UNION {UNION {ToSet(d.trees[l]) : l \in Levels} : d \in ToSet(h)}

-----------------------------------------------------------------------------
Init ==
    /\ phase = "down"
    /\ hash = <<>>
    /\ nextDaId = 1
    /\ nextTreeSeq = 1
    /\ storesExist = FALSE
    /\ daStore = <<>>
    /\ ctStore = <<>>
    /\ plan = <<>>
    /\ boots = 0
    /\ makes = 0
    /\ reads = 0
    /\ lastClean = NoImage

(***************************************************************************)
(* Module load: castle_double_array_init allocates an empty hash; the     *)
(* statics castle_next_da_id and castle_next_tree_seq start at 1.         *)
(***************************************************************************)
Load ==
    /\ phase = "down"
    /\ boots < MaxBoots
    /\ phase' = "loaded"
    /\ hash' = <<>>
    /\ nextDaId' = 1
    /\ nextTreeSeq' = 1
    /\ boots' = boots + 1
    /\ UNCHANGED <<storesExist, daStore, ctStore, plan, makes, reads, lastClean>>

\* castle_fs_init on a fresh fs: castle_double_array_create makes empty stores.
DaCreate ==
    /\ phase = "loaded"
    /\ ~storesExist
    /\ phase' = "up"
    /\ storesExist' = TRUE
    /\ UNCHANGED <<hash, nextDaId, nextTreeSeq, daStore, ctStore, plan, boots, makes, reads, lastClean>>

(***************************************************************************)
(* castle_double_array_read.  DA records are unmarshalled and hashed in   *)
(* store order; then each CT record is list_add'ed (at the head) to level *)
(* ct->level of the DA castle_da_hash_get finds (the last one hashed with *)
(* that id).  Each loop keeps castle_next_*  past the largest id seen.   *)
(* A kmalloc failure, or a CT whose DA is missing, ends the read with      *)
(* -EINVAL and leaves what was read so far in the hash.  Only a full read *)
(* sorts every level by ascending seq (castle_da_trees_sort).             *)
(***************************************************************************)
\* Mutant: the record's id and root_version swapped.
UnmarshallDaSwapped(i) == [id |-> daStore[i].root, root |-> daStore[i].id, key |-> i,
                           trees |-> EmptyTrees]

UnmarshallDa(i) == [id |-> daStore[i].id, root |-> daStore[i].root, key |-> i,
                    trees |-> EmptyTrees]

\* Mutant: the lookup returns the first DA hashed, whatever its id.
HashGetFirst(h, id) == {1} \cap DOMAIN h

HashGet(h, id) == {i \in DOMAIN h : h[i].id = id /\ \A j \in DOMAIN h : j > i => h[j].id # id}

\* Mutant: an id equal to the counter does not advance it.
NextSeqAfterStrict(next, seq) == IF seq > next THEN seq + 1 ELSE next

\* The counter kept past every id read back.
NextSeqAfter(next, seq) == IF seq >= next THEN seq + 1 ELSE next

\* The same for castle_next_da_id, and its mutant.
NextDaIdAfterStrict(next, id) == IF id > next THEN id + 1 ELSE next

NextDaIdAfter(next, id) == IF id >= next THEN id + 1 ELSE next

\* Add CT record k to the hash; acc.ok turns FALSE if its DA is missing.
AddCt(acc, k) ==
    LET r  == ctStore[k]
        ct == [seq |-> r.seq, level |-> r.level, key |-> k]
        at == HashGet(acc.h, r.da)
    IN  IF ~acc.ok THEN acc
        ELSE IF at = {} THEN [acc EXCEPT !.ok = FALSE]
        ELSE LET i == CHOOSE x \in at : TRUE IN
             [h  |-> [acc.h EXCEPT ![i].trees[r.level] = <<ct>> \o @],
              ns |-> NextSeqAfter(acc.ns, r.seq),
              ok |-> TRUE]

SortLevels(h) ==
    [i \in DOMAIN h |-> [h[i] EXCEPT !.trees =
        [l \in Levels |-> SortSeq(h[i].trees[l], LAMBDA a, b : a.seq < b.seq)]]]

\* Indices at which a kmalloc may fail (Len + 1: none fails).
FailPoints(n) == IF AllocMayFail THEN 1 .. (n + 1) ELSE {n + 1}

DaRead ==
    /\ phase = "loaded"
    /\ storesExist
    /\ reads < MaxReads
    /\ reads' = reads + 1
    /\ \E fd \in FailPoints(Len(daStore)), fc \in FailPoints(Len(ctStore)) :
         LET nd     == Min({fd - 1, Len(daStore)})
             das    == [i \in 1 .. nd |-> UnmarshallDa(i)]
             h1     == hash \o das
             nDa    == FoldLeft(LAMBDA m, d : NextDaIdAfter(m, d.id), nextDaId, das)
             nc     == Min({fc - 1, Len(ctStore)})
             acc    == FoldLeft(AddCt, [h |-> h1, ns |-> nextTreeSeq, ok |-> TRUE],
                                [k \in 1 .. nc |-> k])
             whole  == fd > Len(daStore) /\ fc > Len(ctStore) /\ acc.ok
         IN  /\ nextDaId' = nDa
             /\ IF fd <= Len(daStore)
                THEN /\ hash' = h1
                     /\ UNCHANGED <<nextTreeSeq, phase>>
                ELSE /\ nextTreeSeq' = acc.ns
                     /\ hash' = IF whole THEN SortLevels(acc.h) ELSE acc.h
                     /\ phase' = IF whole THEN "up" ELSE "loaded"
    /\ UNCHANGED <<storesExist, daStore, ctStore, plan, boots, makes, lastClean>>

(***************************************************************************)
(* castle_double_array_make(castle_next_da_id++, v): kzalloc the DA, then *)
(* castle_da_ct_make: kzalloc the CT, take castle_next_tree_seq++, create *)
(* its root node and castle_version_root_update; on failure the CT (and   *)
(* the DA) are freed, the seq stays used.  On success the CT goes at the  *)
(* head of level 0 and the DA into the hash.                              *)
(***************************************************************************)
DaMake(v) ==
    /\ phase = "up"
    /\ makes < MaxMakes
    /\ makes' = makes + 1
    /\ nextDaId' = nextDaId + 1
    /\ \/ /\ AllocMayFail                      \* DA or CT kzalloc fails
          /\ UNCHANGED <<hash, nextTreeSeq>>
       \/ /\ AllocMayFail                      \* root update fails
          /\ nextTreeSeq' = nextTreeSeq + 1
          /\ UNCHANGED hash
       \/ /\ nextTreeSeq' = nextTreeSeq + 1
          /\ hash' = Append(hash,
                [id |-> nextDaId, root |-> v, key |-> InvalKey,
                 trees |-> [EmptyTrees EXCEPT ![0] =
                              <<[seq |-> nextTreeSeq, level |-> 0, key |-> InvalKey]>>]])
    /\ UNCHANGED <<phase, storesExist, daStore, ctStore, plan, boots, reads, lastClean>>

(***************************************************************************)
(* castle_double_array_fini: castle_da_hash_writeback visits the DAs in   *)
(* hash order; for each, castle_da_writeback takes the DA's key, writes   *)
(* back every CT (castle_da_tree_writeback, levels in order, each list in *)
(* order), then inserts or updates the DA record.  The spinlock is        *)
(* dropped around these sleeping calls, so each is its own step.  Then    *)
(* castle_da_hash_destroy frees everything.                               *)
(***************************************************************************)
WritebackPlan(h) ==
    LET CtItems(i, l) == [q \in DOMAIN h[i].trees[l] |-> [kind |-> "ct", da |-> i, lp |-> <<l, q>>]]
        Items(i) == FlattenSeq([k \in 1 .. MaxDaLevel |-> CtItems(i, k - 1)])
                    \o <<[kind |-> "da", da |-> i, lp |-> <<0, 0>>]>>
    IN  FlattenSeq([i \in DOMAIN h |-> Items(i)])

FiniStart ==
    /\ phase \in {"loaded", "up"}
    /\ phase' = "wb"
    /\ plan' = WritebackPlan(hash)
    \* only a mounted registry is the image the stores are meant to hold
    /\ lastClean' = IF phase = "up"
                    THEN [valid |-> FALSE, pending |-> TRUE, img |-> Image(hash)]
                    ELSE lastClean
    /\ UNCHANGED <<hash, nextDaId, nextTreeSeq, storesExist, daStore, ctStore, boots,
                   makes, reads>>

\* castle_da_tree_writeback: marshall the CT; insert if its key is invalid, else update.
TreeWriteback(i, l, p) ==
    LET ct  == hash[i].trees[l][p]
        rec == [da |-> hash[i].id, seq |-> ct.seq, level |-> ct.level]
    IN  IF ct.key = InvalKey
        THEN /\ ctStore' = Append(ctStore, rec)
             /\ hash' = [hash EXCEPT ![i].trees[l][p].key = Len(ctStore) + 1]
        ELSE /\ ctStore' = [ctStore EXCEPT ![ct.key] = rec]
             /\ UNCHANGED hash

\* Mutant: a DA never saved before is not inserted.
DaWritebackNoInsert(i) ==
    LET d == hash[i] IN
    IF d.key = InvalKey
    THEN UNCHANGED <<daStore, hash>>
    ELSE /\ daStore' = [daStore EXCEPT ![d.key] = [id |-> d.id, root |-> d.root]]
         /\ UNCHANGED hash

\* The DA half of castle_da_writeback.
DaWriteback(i) ==
    LET d   == hash[i]
        rec == [id |-> d.id, root |-> d.root]
    IN  IF d.key = InvalKey
        THEN /\ daStore' = Append(daStore, rec)
             /\ hash' = [hash EXCEPT ![i].key = Len(daStore) + 1]
        ELSE /\ daStore' = [daStore EXCEPT ![d.key] = rec]
             /\ UNCHANGED hash

WritebackStep ==
    /\ phase = "wb"
    /\ plan # <<>>
    /\ LET it == Head(plan) IN
         IF it.kind = "ct"
         THEN TreeWriteback(it.da, it.lp[1], it.lp[2]) /\ UNCHANGED daStore
         ELSE DaWriteback(it.da) /\ UNCHANGED ctStore
    /\ plan' = Tail(plan)
    /\ UNCHANGED <<phase, nextDaId, nextTreeSeq, storesExist, boots, makes, reads, lastClean>>

\* castle_da_hash_destroy, then the module is gone.
FiniEnd ==
    /\ phase = "wb"
    /\ plan = <<>>
    /\ phase' = "down"
    /\ hash' = <<>>
    /\ lastClean' = IF lastClean.pending
                    THEN [lastClean EXCEPT !.valid = TRUE, !.pending = FALSE]
                    ELSE lastClean
    /\ UNCHANGED <<nextDaId, nextTreeSeq, storesExist, daStore, ctStore, plan, boots, makes, reads>>

(***************************************************************************)
(* A crash: memory is lost, the stores keep what was written.             *)
(***************************************************************************)
Crash ==
    /\ phase \in {"loaded", "up"} \/ (phase = "wb" /\ CrashInWriteback)
    /\ phase' = "down"
    /\ hash' = <<>>
    /\ plan' = <<>>
    /\ lastClean' = IF lastClean.pending THEN NoImage ELSE lastClean
    /\ UNCHANGED <<nextDaId, nextTreeSeq, storesExist, daStore, ctStore, boots, makes, reads>>

Next ==
    \/ Load
    \/ DaCreate
    \/ DaRead
    \/ \E v \in Versions : DaMake(v)
    \/ FiniStart
    \/ WritebackStep
    \/ FiniEnd
    \/ Crash

Spec == Init /\ [][Next]_vars

-----------------------------------------------------------------------------
CtRec == [seq : Nat, level : Levels, key : Nat]
DaObj == [id : Nat, root : Versions, key : Nat, trees : [Levels -> Seq(CtRec)]]

TypeOK ==
    /\ phase \in {"down", "loaded", "up", "wb"}
    /\ hash \in Seq(DaObj)
    /\ nextDaId \in Nat /\ nextTreeSeq \in Nat
    /\ storesExist \in BOOLEAN
    /\ daStore \in Seq([id : Nat, root : Versions])
    /\ ctStore \in Seq([da : Nat, seq : Nat, level : Levels])
    /\ boots \in 0 .. MaxBoots /\ makes \in 0 .. MaxMakes /\ reads \in 0 .. MaxReads

(***************************************************************************)
(* Round trip: a read that follows a clean module exit rebuilds exactly   *)
(* the DAs, and the CTs of each level, that the exit wrote back.          *)
(***************************************************************************)
RoundTrip ==
    [][(phase = "loaded" /\ phase' = "up" /\ storesExist /\ lastClean.valid)
          => Image(hash') = lastClean.img]_vars

(***************************************************************************)
(* A tree sequence number names one tree: no two CT records share a seq,  *)
(* a CT that has a key is the record at that key, and a CT not yet saved  *)
(* has a seq no record has (castle_next_tree_seq is restored past every   *)
(* saved seq, and keys read back are kept so that exit updates in place). *)
(***************************************************************************)
TreeSeqsIdentifyTrees ==
    /\ \A j, k \in DOMAIN ctStore : j # k => ctStore[j].seq # ctStore[k].seq
    /\ \A ct \in Cts(hash) :
         IF ct.key = InvalKey
         THEN \A k \in DOMAIN ctStore : ctStore[k].seq # ct.seq
         ELSE ct.key \in DOMAIN ctStore /\ ctStore[ct.key].seq = ct.seq

(***************************************************************************)
(* The hash holds at most one DA per id, so castle_da_hash_get is not     *)
(* ambiguous and a DA is written back once.                               *)
(***************************************************************************)
DaIdsUnique ==
    \A i, j \in DOMAIN hash : i # j => hash[i].id # hash[j].id

(***************************************************************************)
(* Outside the exit writeback the stores can be read back: every CT      *)
(* record names a DA that has a record, so castle_double_array_read never *)
(* fails on a CT whose DA is missing.                                     *)
(***************************************************************************)
StoreMountable ==
    phase # "wb" =>
    \A k \in DOMAIN ctStore : \E i \in DOMAIN daStore : daStore[i].id = ctStore[k].da

-----------------------------------------------------------------------------
(***************************************************************************)
(* Refinement of DARegistry.  The DAs in memory are the image of the hash; *)
(* the saved DAs are what the stores decode to (each DA record with the CT *)
(* records that name its id), except during an exit writeback of a       *)
(* mounted fs, where the abstract save has already happened and the saved *)
(* DAs are those of the hash being written.                               *)
(***************************************************************************)
StoreImage ==
    {[id |-> r.id, root |-> r.root,
      cts |-> {[seq |-> c.seq, level |-> c.level] : c \in {x \in ToSet(ctStore) : x.da = r.id}}]
       : r \in ToSet(daStore)}

SavedImage == IF phase = "wb" /\ lastClean.pending THEN Image(hash) ELSE StoreImage

Registry == INSTANCE DARegistry
    WITH state     <- IF phase = "wb" THEN "saving" ELSE phase,
         mem       <- Image(hash),
         saved     <- SavedImage,
         formatted <- storesExist,
         DaIds     <- 1 .. MaxMakes,
         TreeSeqs  <- 1 .. MaxMakes

(***************************************************************************)
(* The registry behaves as DARegistry says: castle_double_array_make      *)
(* gives a DA an id and a tree seq no DA in memory or in the stores has,  *)
(* castle_double_array_fini's writeback leaves the stores holding exactly *)
(* the DAs and CTs of the hash, a crash outside it loses only memory, and *)
(* castle_double_array_read rebuilds exactly what the stores hold.        *)
(***************************************************************************)
ImplementsRegistry == Registry!Spec
=============================================================================
