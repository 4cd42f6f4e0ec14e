--------------------------- MODULE SerialSearches ---------------------------
(***************************************************************************)
(* What discovery runs do to the table opportunities, without boards,      *)
(* sessions or locks: one run at a time is open, it adds the vacancies it  *)
(* has found and that were not in the table, all of them or none, and      *)
(* nobody else changes the table before it is stored or lost.              *)
(***************************************************************************)

CONSTANT Urls

VARIABLES
  table,   \* source_urls in the table
  run,     \* status of the open run, "none" if there is none
  fresh    \* what the open run has added and not stored

vars == <<table, run, fresh>>

Init ==
  /\ table \subseteq Urls
  /\ run \in {"none", "running"}
  /\ fresh = {}

Open ==
  /\ run = "none"
  /\ run' = "running"
  /\ UNCHANGED <<table, fresh>>

Complete ==
  /\ run = "running"
  /\ run' = "completed"
  /\ fresh' \subseteq Urls \ table
  /\ UNCHANGED table

Fail ==
  /\ run = "running"
  /\ run' = "failed"
  /\ UNCHANGED <<table, fresh>>

Store ==
  /\ run \in {"completed", "failed"}
  /\ run' = "none"
  /\ table' = table \cup fresh
  /\ fresh' = {}

(* The process dies. *)
Lose ==
  /\ run # "none"
  /\ run' = "none"
  /\ fresh' = {}
  /\ UNCHANGED table

Next == Open \/ Complete \/ Fail \/ Store \/ Lose

Spec == Init /\ [][Next]_vars
=============================================================================
