--------------------------- MODULE ApprovalLedger ---------------------------
(***************************************************************************)
(* What the approval gate promises, without rows, hashes or handlers: an   *)
(* approval is a permission to send one payload for one application, once; *)
(* issuing another one or rejecting takes it away; and after a successful  *)
(* submission nothing more is issued or sent for that application.         *)
(***************************************************************************)
EXTENDS Naturals

CONSTANTS
  Apps, Payloads,
  Nonces   \* names of approvals; 0 is not one of them

VARIABLES
  issued,   \* every approval handed to a human
  live,     \* per application, the nonce of the approval that may be used, or 0
  sent,     \* approvals that were used, with what was sent
  done      \* applications that were submitted successfully

vars == <<issued, live, sent, done>>

Approval == [nonce: Nonces, app: Apps, payload: Payloads]

Init ==
  /\ issued = {}
  /\ live = [a \in Apps |-> 0]
  /\ sent = {}
  /\ done = {}

(* A new approval replaces the one that was live. *)
Issue(approval) ==
  /\ approval.app \notin done
  /\ \A other \in issued : other.nonce # approval.nonce
  /\ issued' = issued \cup {approval}
  /\ live' = [live EXCEPT ![approval.app] = approval.nonce]
  /\ UNCHANGED <<sent, done>>

(* Rejected, or used up by an attempt that sent nothing. *)
Withdraw(a) ==
  /\ live' = [live EXCEPT ![a] = 0]
  /\ UNCHANGED <<issued, sent, done>>

(* The payload of the live approval is sent and the approval is gone; the  *)
(* submission may or may not be acknowledged.                              *)
Send(approval) ==
  /\ approval \in issued
  /\ live[approval.app] = approval.nonce
  /\ approval \notin sent
  /\ approval.app \notin done
  /\ sent' = sent \cup {approval}
  /\ live' = [live EXCEPT ![approval.app] = 0]
  /\ done' \in {done, done \cup {approval.app}}
  /\ UNCHANGED issued

Next ==
  \/ \E approval \in Approval : Issue(approval)
  \/ \E a \in Apps : Withdraw(a)
  \/ \E approval \in issued : Send(approval)

Spec == Init /\ [][Next]_vars
=============================================================================
