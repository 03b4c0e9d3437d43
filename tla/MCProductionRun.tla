---------------------------- MODULE MCProductionRun ----------------------------
(* Instances of ProductionRun for TLC. *)
EXTENDS ProductionRun

CONSTANTS j1, j2, w1, w2, q1, p1

CreationOrder == [j \in Jobs |-> IF j = j1 THEN 1 ELSE 2]
=============================================================================
