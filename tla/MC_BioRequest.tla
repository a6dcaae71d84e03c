--------------------------- MODULE MC_BioRequest ---------------------------
(* Three blocks of two sectors; blocks 0 and 1 are mapped, block 2 never  *)
(* written.  w1 writes sector 3 (half of block 1, so block 1 is read in  *)
(* first), w2 writes all of block 1 in one page (CBV_ONE2ONE), r1 reads   *)
(* sectors 2..4 (block 1 and unmapped block 2, its second segment        *)
(* straddling them), and x is a misaligned bio that make_request refuses.*)
EXTENDS BioRequest

CONSTANTS w1, w2, r1, x

MCSPB == 2
MCNBlocks == 3
MCBios == {w1, w2, r1, x}
MCFaultBios == {w1, r1, x}
MCReadBio == {r1}
MCBadBio == {x}
MCMapped == {0, 1}
MCNoFail == {}
MCMayFail == {w1, r1}
MCShape ==
    [b \in MCBios |->
        CASE b = w1 -> [dir |-> "W", start |-> 3, segs |-> <<1>>, aligned |-> TRUE]
          [] b = w2 -> [dir |-> "W", start |-> 2, segs |-> <<2>>, aligned |-> TRUE]
          [] b = r1 -> [dir |-> "R", start |-> 2, segs |-> <<1, 2>>, aligned |-> TRUE]
          [] b = x  -> [dir |-> "R", start |-> 0, segs |-> <<1>>, aligned |-> FALSE]]
=============================================================================
