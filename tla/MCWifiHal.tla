----------------------------- MODULE MCWifiHal -----------------------------
(* Instances of WifiHal for TLC.                                            *)
EXTENDS WifiHalRefinement, TLC

IdSymmetry == Permutations(Ids)
=============================================================================
