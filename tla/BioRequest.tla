----------------------------- MODULE BioRequest -----------------------------
(***************************************************************************)
(* The block-device request path of src/kernel/castle_main.c: a bio is    *)
(* validated and cut into castle_bio_vecs (castle_device_make_request),   *)
(* each c_bvec is looked up in the B-tree (castle_btree_find, outside     *)
(* src/), then served from the buffer cache: castle_bio_data_io_end ->    *)
(* castle_bio_data_io_do -> lock the cache block, read it in if it is not *)
(* up to date (castle_bio_c2b_update), copy data (castle_bio_data_copy).  *)
(* The bio completes when the last reference of its c_bio is dropped      *)
(* (castle_bio_get / castle_bio_put).                                     *)
(*                                                                         *)
(* Every c_bvec runs on its own: lookups, lock waits and reads complete   *)
(* in any order.  castle_bio_put is two steps, the read of c_bio->err and *)
(* the atomic_dec_and_test, because other c_bvecs run between them.       *)
(*                                                                         *)
(* Data: a sector holds a value.  Zero is what an unmapped block reads as,*)
(* Old what is on disk, Garbage a cache page not yet read in, and a write *)
(* bio writes its own name.  Cache pages are never evicted here: eviction *)
(* and write-back belong to castle_cache, which is not in the repository. *)
(***************************************************************************)
EXTENDS Integers, Sequences, FiniteSets

CONSTANTS
    SPB,        \* sectors per block
    NBlocks,    \* blocks of the attached device
    Bios,       \* the bios submitted (model values)
    Shape,      \* Bios -> [dir, start, segs, aligned]
    Mapped,     \* blocks the B-tree maps for the device's version
    MayFail,    \* bios whose allocation, lookups and reads may fail
    Zero, Old, Garbage, NoOwner, None

Blocks  == 0 .. (NBlocks - 1)
Sectors == 0 .. (NBlocks * SPB - 1)
BlockOf(s) == s \div SPB
SectorsOf(blk) == (blk * SPB) .. (blk * SPB + SPB - 1)

Split == INSTANCE BioSplit WITH Starts <- {}, MaxSegs <- 1,
                                start <- 0, segs <- <<>>, i <- 0, st <- 0

\* Constant tables, computed once: the c_bvecs of each bio and the sectors
\* each bio covers.
CVTable  == [b \in Bios |-> Split!CBvecs(Shape[b].start, Shape[b].segs)]
CovTable == [b \in Bios |-> Split!Covered(Shape[b].start, Shape[b].segs)]
NCV(b)   == Len(CVTable[b])
Made(b)  == {<<b, k>> : k \in 1 .. NCV(b)}
CV       == UNION {Made(b) : b \in Bios}
BlkOf(cv) == CVTable[cv[1]][cv[2]].blk
One2One(cv) == CVTable[cv[1]][cv[2]].one2one
IsWrite(b) == Shape[b].dir = "W"
\* The sectors a c_bvec copies: its block's part of the bio's range.
CopyTable == [cv \in CV |-> SectorsOf(BlkOf(cv)) \cap CovTable[cv[1]]]
CopySet(cv) == CopyTable[cv]

Values == {Zero, Old, Garbage} \cup Bios

ASSUME /\ Mapped \subseteq Blocks /\ MayFail \subseteq Bios
       /\ \A b \in Bios : CovTable[b] \subseteq Sectors
       \* the B-tree allocates on writes; here writes only hit mapped blocks
       /\ \A b \in Bios : IsWrite(b) =>
              \A s \in CovTable[b] : BlockOf(s) \in Mapped

VARIABLES
    bst,        \* bio phase: "new", "submitting", "putting", "submitted", "failed"
    nxt,        \* next c_bvec index j of the make_request loop
    count,      \* c_bio->count
    err,        \* c_bio->err # 0
    endio,      \* number of bio_endio calls on the bio
    endErr,     \* error passed to bio_endio
    putErr,     \* err as read by a castle_bio_put in progress (per c_bvec and submitter)
    pc,         \* c_bvec phase: "unmade", "find", "lock", "reading", "put", "done"
    owner,      \* holder of each cache block's lock (lock_c2b)
    uptodate,   \* cache blocks with c2b_uptodate set
    cache,      \* cache page contents, per sector
    result,     \* what each read bio has copied out, per sector
    wildFree,   \* fail_bio freed the uninitialised c_bio pointer
    failed,     \* ghost: c_bvecs that completed with an error
    logical,    \* ghost: per sector, the value the last applied write left
    allowed     \* ghost: per read bio, values each sector may read

vars == <<bst, nxt, count, err, endio, endErr, putErr, pc, owner, uptodate,
          cache, result, wildFree, failed, logical, allowed>>

Putter == CV \cup Bios      \* a c_bvec, or the submitter holding the first reference

-----------------------------------------------------------------------------
Init ==
    /\ bst = [b \in Bios |-> "new"]
    /\ nxt = [b \in Bios |-> 1]
    /\ count = [b \in Bios |-> 0]
    /\ err = [b \in Bios |-> FALSE]
    /\ endio = [b \in Bios |-> 0]
    /\ endErr = [b \in Bios |-> FALSE]
    /\ putErr = [p \in Putter |-> FALSE]
    /\ pc = [cv \in CV |-> "unmade"]
    /\ owner = [blk \in Blocks |-> NoOwner]
    /\ uptodate = {}
    /\ cache = [s \in Sectors |-> Garbage]
    /\ result = [b \in Bios |-> [s \in Sectors |-> None]]
    /\ wildFree = FALSE
    /\ failed = {}
    /\ logical = [s \in Sectors |-> IF BlockOf(s) \in Mapped THEN Old ELSE Zero]
    /\ allowed = [b \in Bios |-> [s \in Sectors |-> {}]]

\* bio_endio: called once the c_bio count reaches zero.
EndIo(b, e) ==
    /\ endio' = [endio EXCEPT ![b] = @ + 1]
    /\ endErr' = [endErr EXCEPT ![b] = e]

(***************************************************************************)
(* castle_device_make_request, up to the segment loop.  A misaligned bio   *)
(* goes to fail_bio before c_bio is assigned: `if(c_bio)` then reads an    *)
(* uninitialised pointer, which the build may find null or not.           *)
(***************************************************************************)
MakeRequest(b) ==
    /\ bst[b] = "new"
    /\ \/ /\ ~Shape[b].aligned
          /\ bst' = [bst EXCEPT ![b] = "failed"]
          /\ wildFree' \in BOOLEAN
          /\ EndIo(b, TRUE)
          /\ UNCHANGED <<count, allowed>>
       \/ /\ Shape[b].aligned            \* castle_utils_bio_alloc fails
          /\ b \in MayFail
          /\ bst' = [bst EXCEPT ![b] = "failed"]
          /\ EndIo(b, TRUE)
          /\ UNCHANGED <<wildFree, count, allowed>>
       \/ /\ Shape[b].aligned
          /\ bst' = [bst EXCEPT ![b] = "submitting"]
          /\ count' = [count EXCEPT ![b] = 1]
          /\ allowed' = [allowed EXCEPT ![b] =
                [s \in Sectors |-> {logical[s]} \cup {w \in Bios : IsWrite(w) /\ endio[w] = 0}]]
          /\ UNCHANGED <<wildFree, endio, endErr>>
    /\ UNCHANGED <<nxt, err, putErr, pc, owner, uptodate, cache, result, failed, logical>>

\* Mutant: no castle_bio_get for the new c_bvec.
MakeCbvecNoGet(b) ==
    /\ bst[b] = "submitting"
    /\ nxt[b] <= NCV(b)
    /\ pc' = [pc EXCEPT ![<<b, nxt[b]>>] = "find"]
    /\ nxt' = [nxt EXCEPT ![b] = @ + 1]
    /\ UNCHANGED <<count, bst, err, endio, endErr, putErr, owner, uptodate, cache, result,
                   wildFree, failed, logical, allowed>>

(***************************************************************************)
(* castle_device_c_bvec_make: take a reference (castle_bio_get) and hand   *)
(* the c_bvec to castle_btree_find.                                       *)
(***************************************************************************)
MakeCbvec(b) ==
    /\ bst[b] = "submitting"
    /\ nxt[b] <= NCV(b)
    /\ count' = [count EXCEPT ![b] = @ + 1]
    /\ pc' = [pc EXCEPT ![<<b, nxt[b]>>] = "find"]
    /\ nxt' = [nxt EXCEPT ![b] = @ + 1]
    /\ UNCHANGED <<bst, err, endio, endErr, putErr, owner, uptodate, cache, result,
                   wildFree, failed, logical, allowed>>

\* After the loop, make_request drops the first reference: read c_bio->err.
SubmitPutRead(b) ==
    /\ bst[b] = "submitting"
    /\ nxt[b] > NCV(b)
    /\ bst' = [bst EXCEPT ![b] = "putting"]
    /\ putErr' = [putErr EXCEPT ![b] = err[b]]
    /\ UNCHANGED <<nxt, count, err, endio, endErr, pc, owner, uptodate, cache, result,
                   wildFree, failed, logical, allowed>>

\* ... then atomic_dec_and_test, and bio_endio with the err read before.
SubmitPutDec(b) ==
    /\ bst[b] = "putting"
    /\ bst' = [bst EXCEPT ![b] = "submitted"]
    /\ count' = [count EXCEPT ![b] = @ - 1]
    /\ IF count[b] = 1 THEN EndIo(b, putErr[b]) ELSE UNCHANGED <<endio, endErr>>
    /\ UNCHANGED <<nxt, err, putErr, pc, owner, uptodate, cache, result,
                   wildFree, failed, logical, allowed>>

(***************************************************************************)
(* castle_bio_data_copy, for the c_bvec's block: a write copies the bio's *)
(* data into the cache page (and dirties it), a read copies the page out. *)
(* c is the page as it is when the copy runs.                             *)
(***************************************************************************)
DataCopy(cv, c) ==
    LET b == cv[1] IN
    IF IsWrite(b)
    THEN /\ cache' = [s \in Sectors |-> IF s \in CopySet(cv) THEN b ELSE c[s]]
         /\ logical' = [s \in Sectors |-> IF s \in CopySet(cv) THEN b ELSE logical[s]]
         /\ UNCHANGED result
    ELSE /\ cache' = c
         /\ result' = [result EXCEPT ![b] =
                         [s \in Sectors |-> IF s \in CopySet(cv) THEN c[s] ELSE @[s]]]
         /\ UNCHANGED logical

(***************************************************************************)
(* castle_btree_find calls endfind = castle_bio_data_io_end, with an error *)
(* or the block's cdb.  An error goes to castle_bio_data_io_error; an      *)
(* invalid cdb (block never written) reads as zeros; otherwise             *)
(* castle_bio_data_io_do gets the cache block and waits in lock_c2b.       *)
(***************************************************************************)
DataIoEnd(cv) ==
    LET b == cv[1] IN
    /\ pc[cv] = "find"
    /\ \/ /\ b \in MayFail
          /\ err' = [err EXCEPT ![b] = TRUE]
          /\ failed' = failed \cup {cv}
          /\ pc' = [pc EXCEPT ![cv] = "put"]
          /\ UNCHANGED <<result>>
       \/ /\ BlkOf(cv) \notin Mapped
          /\ result' = [result EXCEPT ![b] =
                          [s \in Sectors |-> IF s \in CopySet(cv) THEN Zero ELSE @[s]]]
          /\ pc' = [pc EXCEPT ![cv] = "put"]
          /\ UNCHANGED <<err, failed>>
       \/ /\ BlkOf(cv) \in Mapped
          /\ pc' = [pc EXCEPT ![cv] = "lock"]
          /\ UNCHANGED <<err, failed, result>>
    /\ UNCHANGED <<bst, nxt, count, endio, endErr, putErr, owner, uptodate, cache,
                   wildFree, logical, allowed>>

\* Mutant: any write skips the read, whole block or not.
SkipReadAnyWrite(cv, blk) == blk \in uptodate \/ IsWrite(cv[1])

\* Mutant: c2b_uptodate is not looked at.
SkipReadWholeWriteOnly(cv, blk) == IsWrite(cv[1]) /\ One2One(cv)

\* The page need not be read: it is up to date, or a whole-block write.
SkipRead(cv, blk) == blk \in uptodate \/ (IsWrite(cv[1]) /\ One2One(cv))

\* Mutant: the lock is recorded against the c_bio.
LockByBio(blk, cv) == owner' = [owner EXCEPT ![blk] = cv[1]]

\* lock_c2b, for the c_bvec submitting the READ.
Lock(blk, cv) == owner' = [owner EXCEPT ![blk] = cv]

(***************************************************************************)
(* castle_bio_data_io_do once lock_c2b returns: an up-to-date page, or a   *)
(* whole-block write, is copied at once and unlocked; otherwise the page   *)
(* is submitted for READ with the lock held.                              *)
(***************************************************************************)
DataIoDo(cv) ==
    LET blk == BlkOf(cv)
        b   == cv[1]
    IN
    /\ pc[cv] = "lock"
    /\ owner[blk] = NoOwner
    /\ IF SkipRead(cv, blk)
       THEN /\ uptodate' = uptodate \cup {blk}
            /\ DataCopy(cv, cache)
            /\ pc' = [pc EXCEPT ![cv] = "put"]
            /\ UNCHANGED owner
       ELSE /\ Lock(blk, cv)
            /\ pc' = [pc EXCEPT ![cv] = "reading"]
            /\ UNCHANGED <<uptodate, cache, result, logical>>
    /\ UNCHANGED <<bst, nxt, count, err, endio, endErr, putErr, wildFree, failed, allowed>>

\* Mutant: a failed READ keeps the lock.
C2bUpdateFailKeepsLock(cv) ==
    LET blk == BlkOf(cv)
        b   == cv[1]
    IN
    /\ pc[cv] = "reading"
    /\ pc' = [pc EXCEPT ![cv] = "put"]
    /\ \/ /\ owner' = [owner EXCEPT ![blk] = NoOwner]
          /\ uptodate' = uptodate \cup {blk}
          /\ DataCopy(cv, [s \in Sectors |-> IF s \in SectorsOf(blk) THEN Old ELSE cache[s]])
          /\ UNCHANGED <<err, failed>>
       \/ /\ b \in MayFail
          /\ err' = [err EXCEPT ![b] = TRUE]
          /\ failed' = failed \cup {cv}
          /\ UNCHANGED <<owner, uptodate, cache, result, logical>>
    /\ UNCHANGED <<bst, nxt, count, endio, endErr, putErr, wildFree, allowed>>

(***************************************************************************)
(* castle_bio_c2b_update, the end_io of the READ: on success the page is  *)
(* up to date and the copy runs; on failure the lock is dropped and the    *)
(* c_bvec ends in castle_bio_data_io_error(-EIO).                          *)
(***************************************************************************)
C2bUpdate(cv) ==
    LET blk == BlkOf(cv)
        b   == cv[1]
    IN
    /\ pc[cv] = "reading"
    /\ owner' = [owner EXCEPT ![blk] = NoOwner]
    /\ pc' = [pc EXCEPT ![cv] = "put"]
    /\ \/ /\ uptodate' = uptodate \cup {blk}
          /\ DataCopy(cv, [s \in Sectors |-> IF s \in SectorsOf(blk) THEN Old ELSE cache[s]])
          /\ UNCHANGED <<err, failed>>
       \/ /\ b \in MayFail
          /\ err' = [err EXCEPT ![b] = TRUE]
          /\ failed' = failed \cup {cv}
          /\ UNCHANGED <<uptodate, cache, result, logical>>
    /\ UNCHANGED <<bst, nxt, count, endio, endErr, putErr, wildFree, allowed>>

(***************************************************************************)
(* castle_bio_put by a finished c_bvec: `err = c_bio->err` is read first, *)
(* then atomic_dec_and_test; the last one calls bio_endio(bio, err).      *)
(***************************************************************************)
BioPutRead(cv) ==
    /\ pc[cv] = "put"
    /\ putErr' = [putErr EXCEPT ![cv] = err[cv[1]]]
    /\ pc' = [pc EXCEPT ![cv] = "dec"]
    /\ UNCHANGED <<bst, nxt, count, err, endio, endErr, owner, uptodate, cache, result,
                   wildFree, failed, logical, allowed>>

BioPutDec(cv) ==
    LET b == cv[1] IN
    /\ pc[cv] = "dec"
    /\ pc' = [pc EXCEPT ![cv] = "done"]
    /\ count' = [count EXCEPT ![b] = @ - 1]
    /\ IF count[b] = 1 THEN EndIo(b, putErr[cv]) ELSE UNCHANGED <<endio, endErr>>
    /\ UNCHANGED <<bst, nxt, err, putErr, owner, uptodate, cache, result,
                   wildFree, failed, logical, allowed>>

-----------------------------------------------------------------------------
BioNext(b) ==
    \/ MakeRequest(b)
    \/ MakeCbvec(b)
    \/ SubmitPutRead(b)
    \/ SubmitPutDec(b)

CvNext(cv) ==
    \/ DataIoEnd(cv)
    \/ DataIoDo(cv)
    \/ C2bUpdate(cv)
    \/ BioPutRead(cv)
    \/ BioPutDec(cv)

Next == (\E b \in Bios : BioNext(b)) \/ (\E cv \in CV : CvNext(cv))

(***************************************************************************)
(* Work items and I/O completions are never dropped: each bio's submitter  *)
(* and each c_bvec keeps running while it can (workqueues, end_io).        *)
(***************************************************************************)
Fairness ==
    /\ \A b \in Bios : WF_vars(BioNext(b))
    /\ \A cv \in CV : WF_vars(CvNext(cv))

Spec == Init /\ [][Next]_vars /\ Fairness

-----------------------------------------------------------------------------
TypeOK ==
    /\ bst \in [Bios -> {"new", "submitting", "putting", "submitted", "failed"}]
    /\ nxt \in [Bios -> Nat]
    /\ count \in [Bios -> Int]
    /\ err \in [Bios -> BOOLEAN]
    /\ endio \in [Bios -> Nat]
    /\ endErr \in [Bios -> BOOLEAN]
    /\ putErr \in [Putter -> BOOLEAN]
    /\ pc \in [CV -> {"unmade", "find", "lock", "reading", "put", "dec", "done"}]
    /\ owner \in [Blocks -> CV \cup {NoOwner}]
    /\ uptodate \subseteq Blocks
    /\ cache \in [Sectors -> Values]
    /\ result \in [Bios -> [Sectors -> Values \cup {None}]]
    /\ wildFree \in BOOLEAN
    /\ failed \subseteq CV
    /\ logical \in [Sectors -> Values]

(***************************************************************************)
(* bio_endio is called at most once, and only when every c_bvec of the bio *)
(* has been made and has finished: nothing touches the bio or its c_bio    *)
(* after it is handed back (the reference counting of castle_bio_get/put). *)
(***************************************************************************)
EndioOnceAfterAllCbvecs ==
    \A b \in Bios :
        /\ endio[b] <= 1
        /\ endio[b] = 1 /\ bst[b] # "failed" =>
               /\ nxt[b] > NCV(b)
               /\ \A cv \in Made(b) : pc[cv] = "done"

(***************************************************************************)
(* The error bio_endio reports is the truth: an error iff some c_bvec of   *)
(* the bio failed (castle_bio_data_io_error sets c_bio->err; castle_bio_put *)
(* passes it on).                                                          *)
(***************************************************************************)
EndioReportsFailure ==
    \A b \in Bios :
        endio[b] = 1 /\ bst[b] # "failed" =>
            (endErr[b] <=> \E cv \in Made(b) : cv \in failed)

(***************************************************************************)
(* A cache page flagged up to date holds no unread sector: a partial write *)
(* reads the block in first, and only a whole-block write may skip it.     *)
(***************************************************************************)
UptodateHoldsNoGarbage ==
    \A blk \in uptodate : \A s \in SectorsOf(blk) : cache[s] # Garbage

(***************************************************************************)
(* Reads are regular: every sector a successful read c_bvec returns holds  *)
(* what the last write applied before the bio was submitted left there,    *)
(* or the data of a write not finished by then.  A stale disk block, a     *)
(* lost write or an unread page breaks it.                                 *)
(***************************************************************************)
ReadsAreRegular ==
    \A cv \in CV :
        /\ ~IsWrite(cv[1])
        /\ pc[cv] \in {"put", "dec", "done"}
        /\ cv \notin failed
        => \A s \in CopySet(cv) : result[cv[1]][s] \in allowed[cv[1]][s]

(***************************************************************************)
(* fail_bio never frees a c_bio that was never allocated.                  *)
(***************************************************************************)
NoWildFree == ~wildFree

(***************************************************************************)
(* Every bio submitted to the device is eventually completed.             *)
(***************************************************************************)
AllBiosComplete == \A b \in Bios : <>(endio[b] >= 1)
=============================================================================
