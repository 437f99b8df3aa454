-------------------------- MODULE MCInvestigation --------------------------
(* Small instances of Investigation for TLC. *)
EXTENDS Investigation, TLC

OneRound == [max_rounds |-> 1, max_cost_usd |-> 1]
TwoRounds == [max_rounds |-> 2, max_cost_usd |-> 2]

NoOverrides == {}
TighterRounds == {[max_rounds |-> 1]}
TighterCost == {[max_cost_usd |-> 1]}
AnyOverride == {[max_rounds |-> 0],
                [max_cost_usd |-> 1, max_wall_seconds |-> 60]}

Symmetry == Permutations(ApprovalId)
=============================================================================
