---------------------------- MODULE MCJobLifecycle ----------------------------
(* Instances of JobLifecycle for TLC. *)
EXTENDS JobLifecycle, TLC

CONSTANTS a1, j1, j2, w1, w2, e1, c1, r1, r2

OneAgent == [j \in Jobs |-> a1]
OneCapability == [j \in Jobs |-> c1]
EqualPriority == [j \in Jobs |-> 100]
LimitOne == [a \in Agents |-> 1]
ApprovalOfFirst == [e \in Approvals |-> j1]
BudgetOne == [e \in Approvals |-> 1]

\* No operator tells workers, or callers of replayJob, apart.
Interchangeable == Permutations(Workers) \cup Permutations(Replayers)
=============================================================================
