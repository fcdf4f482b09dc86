--------------------------- MODULE MCRadioBridge ---------------------------
(* Instances of RadioBridge for model checking.                             *)
EXTENDS RadioBridge, TLC

(* Binder threads are interchangeable.                                      *)
ThreadSymmetry == Permutations(Threads)
=============================================================================
