---------------------------- MODULE MCAssignment ----------------------------
(***************************************************************************)
(* Small instances of Assignment.  Configs do not influence each other, so *)
(* one is enough: it prefers s1, ties s2 with s3 (broken by name), and a   *)
(* weight of 3 lifts a loser to the top.                                   *)
(***************************************************************************)
EXTENDS Assignment

CONSTANTS s1, s2, s3, c1

MCServers == {s1, s2, s3}
MCPair == {s1, s2}
MCConfigs == {c1}
MCNameOrder == [s \in Servers |-> CASE s = s1 -> 1 [] s = s2 -> 2 [] s = s3 -> 3]
MCScore == [x \in Servers \X Weights \X Configs |-> x[2] * (IF x[1] = s1 THEN 4 ELSE 3)]
=============================================================================
