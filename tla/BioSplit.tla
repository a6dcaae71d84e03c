------------------------------ MODULE BioSplit ------------------------------
(***************************************************************************)
(* The loop of castle_device_make_request (src/kernel/castle_main.c) that  *)
(* cuts a bio into castle_bio_vecs, one per 4K block the bio touches.      *)
(* Sectors are 512 bytes; SPB = 1 << (C_BLK_SHIFT - 9) sectors per block.  *)
(* A bio is its first sector and the lengths, in sectors, of its segments  *)
(* (bio_vecs).  A segment is at most one page, and a page is one block,    *)
(* so every length lies in 1..SPB.                                         *)
(*                                                                         *)
(* One step of the model is one iteration of bio_for_each_segment.  The    *)
(* loop state is a record: the current sector, last_block, the c_bvecs     *)
(* made so far (block and CBV_ONE2ONE flag) and whether a BUG_ON fired.    *)
(***************************************************************************)
EXTENDS Integers, Sequences, SequencesExt

CONSTANTS
    SPB,        \* sectors per block: 1 << (C_BLK_SHIFT - 9)
    Starts,     \* first sectors (bio->bi_sector) to try
    MaxSegs     \* most segments (bio->bi_vcnt) in a bio

ASSUME SPB \in Nat \ {0} /\ Starts \subseteq Nat /\ MaxSegs \in Nat \ {0}

\* Every bio the block layer can hand over: each bvec is 1..SPB sectors.
SegSeqs == UNION {[1..n -> 1..SPB] : n \in 1..MaxSegs}

\* last_block = -1 before the loop (sector_t, so it never equals a block).
NoBlock == -1

InitLoop(s) == [sector |-> s, last |-> NoBlock, cv |-> <<>>, bug |-> FALSE]

\* Mutant: the flag ignores the bvec length.
IsOne2OneAnyLen(sector, len) == sector % SPB = 0

\* A bvec that starts a block and is a whole block long.
IsOne2One(sector, len) == sector % SPB = 0 /\ len = SPB

\* Mutant: the last sector taken as sector + bv_secs.
EndBlockPastEnd(sector, len) == (sector + len) \div SPB

\* The block of the last sector of a bvec.
EndBlock(sector, len) == (sector + len - 1) \div SPB

(***************************************************************************)
(* One iteration of the segment loop, for a bio of vcnt segments.          *)
(***************************************************************************)
SegmentStep(st, len, vcnt) ==
    LET block    == st.sector \div SPB
        one2one  == IsOne2One(st.sector, len)
        fresh    == block # st.last
        first    == IF fresh
                    THEN Append(st.cv, [blk |-> block, one2one |-> one2one])
                    ELSE st.cv
        endBlock == EndBlock(st.sector, len)
        split    == endBlock # block
    IN  [sector |-> st.sector + len,
         last   |-> endBlock,
         cv     |-> IF split
                    THEN Append(first, [blk |-> endBlock, one2one |-> one2one])
                    ELSE first,
         bug    |-> st.bug \/ (split /\ \/ endBlock # block + 1
                                        \/ Len(first) > vcnt
                                        \/ one2one)]

RECURSIVE SplitFrom(_, _, _)
SplitFrom(st, segs, vcnt) ==
    IF segs = <<>> THEN st
    ELSE SplitFrom(SegmentStep(st, Head(segs), vcnt), Tail(segs), vcnt)

\* The c_bvecs castle_device_make_request makes for a bio, in order.
CBvecs(s, segs) == SplitFrom(InitLoop(s), segs, Len(segs)).cv

(***************************************************************************)
(* Reference: the blocks a sector range touches, and which it covers.     *)
(***************************************************************************)
Total(segs) == FoldLeft(LAMBDA acc, x : acc + x, 0, segs)
Covered(s, segs) == s .. (s + Total(segs) - 1)
RefBlocks(s, segs) ==
    LET lo == s \div SPB
        hi == (s + Total(segs) - 1) \div SPB
    IN  [i \in 1 .. (hi - lo + 1) |-> lo + i - 1]
FullyCovered(s, segs, b) == (b * SPB) .. (b * SPB + SPB - 1) \subseteq Covered(s, segs)

-----------------------------------------------------------------------------
VARIABLES start, segs, i, st
vars == <<start, segs, i, st>>

Init ==
    /\ start \in Starts
    /\ segs \in SegSeqs
    /\ i = 1
    /\ st = InitLoop(start)

\* Mutant: the bvec index advanced twice.
StepSkip ==
    /\ i <= Len(segs)
    /\ st' = SegmentStep(st, segs[i], Len(segs))
    /\ i' = i + 2
    /\ UNCHANGED <<start, segs>>

\* One pass of bio_for_each_segment in castle_device_make_request.
Step ==
    /\ i <= Len(segs)
    /\ st' = SegmentStep(st, segs[i], Len(segs))
    /\ i' = i + 1
    /\ UNCHANGED <<start, segs>>

Next == Step

Spec == Init /\ [][Next]_vars

Done == i > Len(segs)

TypeOK ==
    /\ start \in Starts
    /\ segs \in SegSeqs
    /\ i \in 1 .. (Len(segs) + 1)
    /\ st.cv \in Seq([blk : Nat, one2one : BOOLEAN])
    /\ st.bug \in BOOLEAN

(***************************************************************************)
(* None of the BUG_ONs of the loop fires (advance by one block, j never   *)
(* past bi_vcnt, a one-to-one bvec never straddles), and the c_bvecs      *)
(* never overflow the bi_vcnt + 1 entries castle_utils_bio_alloc gives.   *)
(***************************************************************************)
SplitWithinBounds ==
    /\ ~st.bug
    /\ Len(st.cv) <= Len(segs) + 1

(***************************************************************************)
(* When the loop ends, the bio has one c_bvec per block its sectors touch, *)
(* each block exactly once and in ascending order: no block of the request *)
(* is left unserved and none is served twice.                              *)
(***************************************************************************)
SplitMatchesReference ==
    Done => [k \in 1 .. Len(st.cv) |-> st.cv[k].blk] = RefBlocks(start, segs)

(***************************************************************************)
(* A c_bvec flagged CBV_ONE2ONE lets a write skip the read of its block    *)
(* (castle_bio_data_io_do): that is sound only if the bio writes all of    *)
(* the block.                                                              *)
(***************************************************************************)
OneToOneSound ==
    \A k \in 1 .. Len(st.cv) :
        st.cv[k].one2one => FullyCovered(start, segs, st.cv[k].blk)
=============================================================================
