------------------------------- MODULE Prepare -------------------------------
(***************************************************************************)
(* prepare/service.py: application packets are prepared by request threads *)
(* that may overlap, beside the profile builder, which replaces the stored *)
(* evidence.  One packet is modelled; packets share nothing but evidence.  *)
(*                                                                         *)
(* A thread reads without a lock and keeps what it read; a commit is one   *)
(* step, and its UPDATE is left out when the column already had the value  *)
(* in the thread's copy.  _persist_packet_results holds the write lock     *)
(* from its first DELETE to the commit, so those are one step too.         *)
(***************************************************************************)
EXTENDS Integers, FiniteSets

CONSTANTS
  Workers,       \* request threads
  Kinds,         \* kinds of drafts the model is asked for
  Fallback,      \* the kind with a fixed text to fall back on
  MaxEvidence,   \* bound on the evidence items of one profile
  MaxRuns,       \* bound on preparations
  MaxBuilds,     \* bound on profile builds
  MaxFaults      \* bound on lock timeouts and restarts

ASSUME PrepareAssumption ==
  /\ Fallback \in Kinds
  /\ MaxEvidence \in Nat /\ MaxRuns \in Nat /\ MaxBuilds \in Nat /\ MaxFaults \in Nat

VARIABLES
  packet,        \* application_packets.status, "none" before the first
  drafts,        \* draft_documents rows of the packet
  evidence,      \* evidence_items: the ids in the table and the build they are of
  pc, job,       \* where each thread is, and what it has read and written
  runs, faults,
  overlapped     \* history: two preparations were once under way together

vars == <<packet, drafts, evidence, pc, job, runs, faults, overlapped>>

Ids == 1..MaxEvidence
Statuses == {"none", "preparing", "ready", "failed"}
Draft == [run : 0..MaxRuns, kind : Kinds, cites : SUBSET Ids, build : 0..MaxBuilds]
Evidence == [ids : SUBSET Ids, build : 0..MaxBuilds]

NoJob == [run |-> 0, read |-> "none", seen |-> [ids |-> {}, build |-> 0], out |-> {}]

InFlight(w) == pc[w] # "idle"

Init ==
  /\ packet = "none"
  /\ drafts = {}
  /\ evidence = [ids |-> {}, build |-> 0]
  /\ pc = [w \in Workers |-> "idle"]
  /\ job = [w \in Workers |-> NoJob]
  /\ runs = 0 /\ faults = 0
  /\ overlapped = FALSE

(***************************************************************************)
(* The thread, from the request to the mark.                               *)
(***************************************************************************)

(* The evidence and the packet are read; nothing is locked. *)
Begin(w) ==
  /\ pc[w] = "idle"
  /\ runs < MaxRuns
  /\ runs' = runs + 1
  /\ job' = [job EXCEPT ![w] = [NoJob EXCEPT !.run = runs + 1, !.read = packet, !.seen = evidence]]
  /\ pc' = [pc EXCEPT ![w] = "mark"]
  /\ overlapped' = (overlapped \/ \E v \in Workers : InFlight(v))
  /\ UNCHANGED <<packet, drafts, evidence, faults>>

(* Two first preparations both INSERT; the UNIQUE opportunity_id stops one. *)
Conflicts(w) == job[w].read = "none" /\ packet # "none"

(* What a commit leaves in a column that the thread set from was to new. *)
Update(was, new) == IF was = new THEN packet ELSE new

(* Mutant of Marked: a packet that is ready stays so while it is redone. *)
MarkedUnlessReady(was) == IF was = "ready" THEN packet ELSE Update(was, "preparing")

Marked(was) == Update(was, "preparing")

Mark(w) ==
  /\ pc[w] = "mark"
  /\ ~Conflicts(w)
  /\ packet' = Marked(job[w].read)
  /\ pc' = [pc EXCEPT ![w] = "ask"]
  /\ UNCHANGED <<drafts, evidence, job, runs, faults, overlapped>>

MarkConflict(w) ==
  /\ pc[w] = "mark"
  /\ Conflicts(w)
  /\ pc' = [pc EXCEPT ![w] = "idle"]
  /\ UNCHANGED <<packet, drafts, evidence, job, runs, faults, overlapped>>

(***************************************************************************)
(* The model's answers, with no lock held.                                 *)
(***************************************************************************)

(* Mutant of Allowed: every id the model names is taken over. *)
AllowedUnchecked(claimed, known) == claimed

Allowed(claimed, known) == claimed \cap known

(* Requirements and scores fall back; an empty draft is not stored, except *)
(* that an empty outreach e-mail is replaced by a fixed text.              *)
Written(j, kinds, claimed) ==
  {[run |-> j.run, kind |-> k, cites |-> Allowed(claimed, j.seen.ids), build |-> j.seen.build]
     : k \in kinds \cup {Fallback}}

Answered(w) ==
  /\ pc[w] = "ask"
  /\ \E kinds \in SUBSET Kinds, claimed \in SUBSET Ids :
       job' = [job EXCEPT ![w].out = Written(job[w], kinds, claimed)]
  /\ pc' = [pc EXCEPT ![w] = "load"]
  /\ UNCHANGED <<packet, drafts, evidence, runs, faults, overlapped>>

(* Mutant of NotAnswered: an exception leaves the handler as it is. *)
NotAnsweredRaises(w) ==
  /\ pc[w] = "ask"
  /\ pc' = [pc EXCEPT ![w] = "idle"]
  /\ UNCHANGED <<packet, drafts, evidence, job, runs, faults, overlapped>>

(* Any exception: the budget, the provider, the papers, the JSON. *)
NotAnswered(w) ==
  /\ pc[w] = "ask"
  /\ pc' = [pc EXCEPT ![w] = "fail"]
  /\ UNCHANGED <<packet, drafts, evidence, job, runs, faults, overlapped>>

(***************************************************************************)
(* The outcome: the packet is read again and the result committed.         *)
(***************************************************************************)

(* Mutant of Reload: a failure is never written down. *)
ReloadIfAnswered(w) ==
  /\ pc[w] = "load"
  /\ job' = [job EXCEPT ![w].read = packet]
  /\ pc' = [pc EXCEPT ![w] = "persist"]
  /\ UNCHANGED <<packet, drafts, evidence, runs, faults, overlapped>>

Reload(w) ==
  /\ pc[w] \in {"load", "fail"}
  /\ job' = [job EXCEPT ![w].read = packet]
  /\ pc' = [pc EXCEPT ![w] = IF pc[w] = "load" THEN "persist" ELSE "failing"]
  /\ UNCHANGED <<packet, drafts, evidence, runs, faults, overlapped>>

(* Mutant of Replaced: the new rows are added to those of other runs. *)
ReplacedOwn(old, j) == {d \in old : d.run # j.run} \cup j.out

(* Every row of the packet is deleted, whoever wrote it. *)
Replaced(old, j) == j.out

Persist(w) ==
  /\ pc[w] = "persist"
  /\ drafts' = Replaced(drafts, job[w])
  /\ packet' = Update(job[w].read, "ready")
  /\ pc' = [pc EXCEPT ![w] = "idle"]
  /\ UNCHANGED <<evidence, job, runs, faults, overlapped>>

MarkFailed(w) ==
  /\ pc[w] = "failing"
  /\ packet' = Update(job[w].read, "failed")
  /\ pc' = [pc EXCEPT ![w] = "idle"]
  /\ UNCHANGED <<drafts, evidence, job, runs, faults, overlapped>>

(***************************************************************************)
(* Faults and the profile builder.                                         *)
(***************************************************************************)

(* The lock is not had in time.  The retry cannot help: the DELETEs are    *)
(* outside it, and a session whose flush failed refuses a second commit.   *)
LockTimeout(w) ==
  /\ pc[w] \in {"mark", "persist", "failing"}
  /\ faults < MaxFaults
  /\ faults' = faults + 1
  /\ pc' = [pc EXCEPT ![w] = "idle"]
  /\ UNCHANGED <<packet, drafts, evidence, job, runs, overlapped>>

Restart ==
  /\ faults < MaxFaults
  /\ faults' = faults + 1
  /\ pc' = [w \in Workers |-> "idle"]
  /\ job' = [w \in Workers |-> NoJob]
  /\ UNCHANGED <<packet, drafts, evidence, runs, overlapped>>

(* All evidence is deleted, and SQLite numbers the new rows from 1 again. *)
Rebuild ==
  /\ evidence.build < MaxBuilds
  /\ \E n \in 0..MaxEvidence :
       evidence' = [ids |-> 1..n, build |-> evidence.build + 1]
  /\ UNCHANGED <<packet, drafts, pc, job, runs, faults, overlapped>>

Step(w) ==
  \/ Mark(w) \/ MarkConflict(w)
  \/ Answered(w) \/ NotAnswered(w)
  \/ Reload(w) \/ Persist(w) \/ MarkFailed(w)

Next ==
  \/ \E w \in Workers : Begin(w) \/ Step(w) \/ LockTimeout(w)
  \/ Restart
  \/ Rebuild

Spec == Init /\ [][Next]_vars

(* A thread runs on: every network call in it has a timeout. *)
Fairness == \A w \in Workers : WF_vars(Step(w))

FairSpec == Spec /\ Fairness

(***************************************************************************)
(* Properties.                                                             *)
(***************************************************************************)

TypeOK ==
  /\ packet \in Statuses
  /\ drafts \subseteq Draft
  /\ evidence \in Evidence
  /\ pc \in [Workers -> {"idle", "mark", "ask", "load", "fail", "persist", "failing"}]
  /\ job \in [Workers -> [run : 0..MaxRuns, read : Statuses, seen : Evidence, out : SUBSET Draft]]
  /\ runs \in 0..MaxRuns /\ faults \in 0..MaxFaults
  /\ overlapped \in BOOLEAN

(* The drafts of a packet are those of one run, however many overlapped,   *)
(* and a packet that is ready has some (service.py:302-345).               *)
DraftsOfOneRun ==
  /\ \A c, d \in drafts : c.run = d.run
  /\ packet = "ready" => \E d \in drafts : d.kind = Fallback

(* A packet says "preparing" only while somebody is preparing it, unless a *)
(* restart or a lock timeout came in between.  Every thread writes its     *)
(* outcome over the status it last read (service.py:280-286, 343-346).     *)
PreparingHasAWorker ==
  packet = "preparing" /\ faults = 0 => \E w \in Workers : InFlight(w)

(* The drafts cite evidence that was there: if no profile build came after *)
(* the run began, it is there still (service.py:190, 216).                 *)
CitesStoredEvidence ==
  \A d \in drafts : d.build = evidence.build => d.cites \subseteq evidence.ids

(* While preparations come one at a time, drafts change only under a       *)
(* packet that says so: what a reader finds ready stays as it is.          *)
ReadyDraftsAreStable ==
  [][~overlapped /\ drafts' # drafts => packet = "preparing"]_vars

(* A preparation ends: without restarts and lock timeouts, a packet does   *)
(* not say "preparing" for ever.                                           *)
PreparationEnds ==
  packet = "preparing" ~> packet # "preparing" \/ faults > 0
=============================================================================
