------------------------------ MODULE MC_Castle ------------------------------
(* Castle for TLC: the disks of MC_Slaves, one version that exists and one *)
(* that does not, and regions of 0..2 blocks starting at blocks 0..1 (a   *)
(* zero length, adjacent and overlapping regions).  The attachment         *)
(* constants are given in the configurations.                             *)
EXTENDS Castle, TLC

CONSTANTS d1, d2, d3, d4, u1, u2, f1, f2, nofs, v1, v2

MCDevs == {d1, d2, d3, d4}
MCUuids == {u1, u2}
MCFsVals == {f1, f2}
Blank == [sb |-> FALSE, uuid |-> u1, fs |-> nofs]
MCDiskInit ==
    (d1 :> [sb |-> TRUE, uuid |-> u1, fs |-> f1])
    @@ (d2 :> [sb |-> TRUE, uuid |-> u1, fs |-> f1])
    @@ (d3 :> Blank) @@ (d4 :> Blank)
MCDiskBadFs ==
    (d1 :> [sb |-> TRUE, uuid |-> u1, fs |-> f1])
    @@ (d2 :> [sb |-> TRUE, uuid |-> u2, fs |-> nofs])
    @@ (d3 :> Blank) @@ (d4 :> Blank)
MCDisks == {MCDiskInit, MCDiskBadFs}
MCGoodDisks == {MCDiskInit}
====
