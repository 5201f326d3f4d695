-------------------------- MODULE MCLauncherSession --------------------------
EXTENDS LauncherSession, TLC

(* Commands and casings are interchangeable, and no property is temporal.  *)
Symmetry == Permutations(Casing) \cup Permutations(Slot)

=============================================================================
