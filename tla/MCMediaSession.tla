--------------------------- MODULE MCMediaSession ---------------------------
(* Symmetry sets for the runs of MediaSession: the constants are sets of   *)
(* interchangeable model values.                                           *)
EXTENDS MediaSession, TLC

SafetySymmetry ==
    UNION {Permutations(S) : S \in {Pids, Sessions, Endpoints, Callers}}
=============================================================================
