-------------------------------- MODULE MCRag --------------------------------
(* Rag with two queries that are close for the embedding model and have no *)
(* word in common, so that the hash tells them apart; any other query is   *)
(* like nothing but itself.  The two may be exchanged.                     *)
EXTENDS Rag, TLC

CONSTANTS a, b

MCLikeness ==
  [k \in Kinds, q \in Queries, r \in Queries |->
     CASE q = r -> 3
       [] {q, r} = {a, b} /\ k = "real" -> 2
       [] OTHER -> 0]

Symmetry == Permutations({a, b})

=============================================================================
