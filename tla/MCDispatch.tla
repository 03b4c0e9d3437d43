------------------------------ MODULE MCDispatch ------------------------------
(* Instances of Dispatch for TLC: one task with two providers, and a router    *)
(* that competes for the first.                                                *)
EXTENDS Dispatch, TLC

CONSTANTS t1, q1, q2, k1, k2, k3, p1, i1, w1, w2, s1, s2

RowOfKey == [k \in Keys |-> IF k = k2 THEN q2 ELSE q1]
AnyOfFirst ==
  [q \in Rows |-> IF q = q1 THEN [tier : {"free", "trial"}, window : BOOLEAN]
                           ELSE {[tier |-> "free", window |-> FALSE]}]
Interchangeable == Permutations(Workers) \cup Permutations(Stamps)
OneTask == [k \in DispatchKeys |-> t1]
=============================================================================
