----------------------------- MODULE MCDocuments -----------------------------
(* Small instances of Documents for TLC. *)
EXTENDS Documents, TLC

Symmetry == Permutations(Workers)

=============================================================================
