-------------------------- MODULE MC_DoublingArray --------------------------
(* Doubling-array registry for TLC: two levels (of MAX_DA_LEVEL = 10; the  *)
(* code only ever makes level-0 trees), two root versions, four DA makes  *)
(* over five module loads, so a DA made in one boot is saved, read back,  *)
(* updated in place and joined by a new one in a later boot.              *)
EXTENDS DoublingArray

MCMaxDaLevel == 2
MCVersions == {0, 5}
MCMaxMakes == 4
MCMaxBoots == 5
MCMaxReads == 4

\* With allocation failures and crashes: fewer makes, loads and reads.
MCFaultMakes == 2
MCFaultBoots == 3
MCFaultReads == 3
=============================================================================
