------------------------- MODULE MCRepairEvaluation -------------------------
(* An instance for TLC: two users, a plan with a gold query.                  *)
EXTENDS RepairEvaluation, TLC

CONSTANT p

GoldP == {p}
Symmetry == Permutations(Users)

=============================================================================
