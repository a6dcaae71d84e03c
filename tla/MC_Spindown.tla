----------------------------- MODULE MC_Spindown -----------------------------
(* Two slaves, one made by castle (TARGET) and one from an existing fs,   *)
(* HZ = 1 so the spindown period is 5 ticks.  With a 64-bit jiffies the  *)
(* counter never wraps: Mod is far past StartJiffies + MaxTicks.  With a *)
(* 32-bit jiffies, INITIAL_JIFFIES = -300*HZ makes it wrap 300 s after    *)
(* boot: the wrap configuration starts a few ticks before it.  c1 is a   *)
(* disk of the existing fs that castle_claim adds while the timer runs.   *)
EXTENDS Spindown

CONSTANTS s1, s2, c1, a1, a2, head

MCSlaveList == <<s1, s2>>
MCTargets == {s1}
MCClaims == {c1}
MCNoClaims == {}
MCAccessors == {a1, a2}
MCOneAccessor == {a1}
MCWideMod == 64
MCNarrowMod == 16
MCWideStart == {0}
MCWrapStart == {5}
====
