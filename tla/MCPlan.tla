------------------------------ MODULE MCPlan ------------------------------
(* Instances of the plan service: a plan of one LIMIT operation, and one   *)
(* of SORT and LIMIT, which may be merged.                                 *)
EXTENDS PlanRuns, TLC

CONSTANTS sort, limit

OneOp == <<limit>>
TwoOps == <<sort, limit>>
NoPairs == {}
SortLimit == {<<sort, limit>>}
Symmetry == Permutations(Runs) \cup Permutations(Threads)

=============================================================================
