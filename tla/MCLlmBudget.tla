---------------------------- MODULE MCLlmBudget ----------------------------
(* Small instances of LlmBudget for TLC. *)
EXTENDS LlmBudget, TLC

WorkerSymmetry == Permutations(Workers)

(* One price that reaches the budget exactly, one that jumps it. *)
Prices == [r \in Roles |-> IF r = "extract" THEN 1 ELSE IF r = "draft" THEN 2 ELSE 0]
=============================================================================
