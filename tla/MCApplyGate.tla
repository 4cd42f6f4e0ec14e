----------------------------- MODULE MCApplyGate -----------------------------
(* Small instances of ApplyGate for TLC. *)
EXTENDS ApplyGate, TLC

GateSymmetry == Permutations(Workers) \cup Permutations(Forms) \cup Permutations(Apps)

(* For instances in which forms differ in what they have. *)
RoleSymmetry == Permutations(Workers) \cup Permutations(Apps)

(***************************************************************************)
(* In orderly behaviours the gate implements ApprovalLedger: a dispatch    *)
(* takes the approval away at once, although the row is updated by a       *)
(* later step.                                                             *)
(***************************************************************************)
AbsApproval(t) == [nonce |-> t.nonce, app |-> t.app, payload |-> t.sha]
AbsIssued == {AbsApproval(t) : t \in tokens}
AbsSent == {[nonce |-> e.token.nonce, app |-> e.app, payload |-> e.payload] : e \in outbox}
AbsDone == {a \in Apps : \E e \in outbox : e.app = a /\ e.result = "ok"}
AbsLive == [a \in Apps |->
  IF row[a].status = "pending_approval" /\ \A e \in outbox : e.token.nonce # row[a].hash
  THEN row[a].hash ELSE 0]

Ledger == INSTANCE ApprovalLedger WITH
  Payloads <- Forms, Nonces <- 1..MaxTokens,
  issued <- AbsIssued, live <- AbsLive, sent <- AbsSent, done <- AbsDone

(* The gate keeps the promises of ApprovalLedger for every application, as *)
(* long as its handlers do not share a row and none is lost after a send.  *)
ImplementsLedger == Ledger!Spec
=============================================================================
