------------------------ MODULE MCConfigController ------------------------
(***************************************************************************)
(* Model values for checking ConfigController.  Two servers are enough for *)
(* a move and a move back; they are interchangeable.                       *)
(***************************************************************************)
EXTENDS ConfigController, TLC

CONSTANTS s1, s2

MCServers == {s1, s2}

KeepOnly == {"KeepServingStale"}
BothPolicies == {"KeepServingStale", "FailClosed"}
CloseOnly == {"FailClosed"}

ServerSymmetry == Permutations(MCServers)
=============================================================================
