------------------------------ MODULE MC_Slaves ------------------------------
(* Slaves for TLC.  Four devices: d1 is a slave of filesystem f1, d2 a     *)
(* copy of d1 (same uuid), d3 blank, and d4 blank but claimed by another   *)
(* holder.  Two uuids, so a random uuid can collide, and two fs identities *)
(* so that a fresh filesystem can differ from d1's.                        *)
EXTENDS Slaves, TLC

CONSTANTS d1, d2, d3, d4, u1, u2, f1, f2, nofs

MCDevs == {d1, d2, d3, d4}
MCUuids == {u1, u2}
MCFsVals == {f1, f2}

Blank == [sb |-> FALSE, uuid |-> u1, fs |-> nofs]
\* d1 and its copy d2, a blank d3 and a blank foreign d4.
MCDiskInit == (d1 :> [sb |-> TRUE, uuid |-> u1, fs |-> f1])
              @@ (d2 :> [sb |-> TRUE, uuid |-> u1, fs |-> f1])
              @@ (d3 :> Blank) @@ (d4 :> Blank)
\* Or d2 is a slave whose fs superblock is corrupt.
MCDiskBadFs == (d1 :> [sb |-> TRUE, uuid |-> u1, fs |-> f1])
               @@ (d2 :> [sb |-> TRUE, uuid |-> u2, fs |-> nofs])
               @@ (d3 :> Blank) @@ (d4 :> Blank)
\* Both.
MCDisks == {MCDiskInit, MCDiskBadFs}
MCGoodDisks == {MCDiskInit}
MCBadDisks == {MCDiskBadFs}
=============================================================================
