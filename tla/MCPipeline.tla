----------------------------- MODULE MCPipeline -----------------------------
(* Small instances of Pipeline for TLC. *)
EXTENDS Pipeline, TLC

WorkerSymmetry == Permutations(Workers)

(* Vacancy 1 fits best, 2 less, 3 not at all. *)
FitByRank == [o \in Opps |-> IF o = 1 THEN 2 ELSE IF o = 2 THEN 1 ELSE 0]
=============================================================================
