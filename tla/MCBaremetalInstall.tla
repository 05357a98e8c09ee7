------------------------- MODULE MCBaremetalInstall -------------------------
(* BaremetalInstall for TLC.  Ids are random strings: interchangeable.     *)
EXTENDS BootstrapImage, TLC

IdSymmetry == Permutations(Sessions) \cup Permutations(Origins)
=============================================================================
