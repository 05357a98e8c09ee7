---------------------------- MODULE MCHttpOrigin ----------------------------
(* HttpOrigin for TLC.  Clients and pids are interchangeable.              *)
EXTENDS HttpOrigin, TLC

SafetySymmetry == Permutations(Pids) \cup Permutations(Clients)
=============================================================================
