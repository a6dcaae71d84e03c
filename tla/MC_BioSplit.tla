---------------------------- MODULE MC_BioSplit ----------------------------
(* Bio splitting with the kernel's real block size: C_BLK_SHIFT = 12, so  *)
(* 8 sectors per block; bios start anywhere in the first two blocks and   *)
(* have up to three segments.                                             *)
EXTENDS BioSplit

MCSPB == 8
MCStarts == 0 .. 15
MCMaxSegs == 3
=============================================================================
