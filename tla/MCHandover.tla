----------------------------- MODULE MCHandover -----------------------------
(***************************************************************************)
(* Small instances of Handover: server A with one replica, B with two, and *)
(* C with one for a second move.  The periods keep the order of the code:  *)
(* the drain (30 s) outlasts the API server's refresh, and a Lease goes    *)
(* stale after three heartbeats.                                           *)
(***************************************************************************)
EXTENDS Handover, TLC

CONSTANTS A, B, C, a1, b1, b2, c1

TwoServers == {A, B}
ThreeServers == {A, B, C}
OneAndTwo == {a1, b1, b2}
OneEach == {a1, b1, c1}
MCServerOf ==
    [r \in Replicas |-> CASE r = a1 -> A [] r \in {b1, b2} -> B [] r = c1 -> C]
PairSymmetry == Permutations({b1, b2})
=============================================================================
