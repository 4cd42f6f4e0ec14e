------------------------------ MODULE LlmBudget ------------------------------
(***************************************************************************)
(* The daily budget for paid LLM calls: llm/budget.py, as router.complete  *)
(* uses it.  Request threads charge before they call a provider.  A charge *)
(* reads the spend log, adds to today's total and rewrites the file; there *)
(* is no lock, and a rewrite first empties the file.                       *)
(*                                                                         *)
(* Money is counted in whole units of the smallest price.  A call that is  *)
(* not charged leaves every variable alone and is no action.               *)
(***************************************************************************)
EXTENDS Integers

CONSTANTS
  Workers,        \* request threads of the one server process
  Roles,          \* roles a prompt can have
  Providers,      \* where a role can be routed
  FreeRoles, FreeProviders,
  RoleCost,       \* flat price of a call, by role
  Budget,         \* daily limit; zero turns it off
  LastDay,        \* bound: days run from 1 to LastDay
  MaxCalls,       \* bound on charged calls
  MaxFaults       \* bound on failed rewrites and restarts

ASSUME BudgetAssumption ==
  /\ FreeRoles \subseteq Roles /\ FreeProviders \subseteq Providers
  /\ RoleCost \in [Roles -> Nat]
  /\ Budget \in Nat /\ LastDay \in Nat \ {0}
  /\ MaxCalls \in Nat /\ MaxFaults \in Nat

VARIABLES
  day,            \* date.today()
  log,            \* llm-spend.json: its kind, and the total of each day in it
  pc, job,        \* where each thread is in charge(), and its local variables
  calls, faults,
  admitted,       \* history: what the calls let through cost, by day
  overlapped      \* history: two charges were once under way together

vars == <<day, log, pc, job, calls, faults, admitted, overlapped>>

Days == 1..LastDay
Resting == {"idle", "admitted", "refused", "failed"}
Busy == {"loading", "truncating", "writing"}
Nothing == [d \in Days |-> 0]
NoJob == [day |-> 1, cost |-> 0, total |-> Nothing]

(* An absent file, and a day missing from the file, count as zero. *)
Readable == log.kind \in {"absent", "json"}

Init ==
  /\ day = 1
  /\ log = [kind |-> "absent", total |-> Nothing]
  /\ pc = [w \in Workers |-> "idle"]
  /\ job = [w \in Workers |-> NoJob]
  /\ calls = 0 /\ faults = 0
  /\ admitted = Nothing
  /\ overlapped = FALSE

(***************************************************************************)
(* Charging.                                                               *)
(***************************************************************************)

(* The calls the budget has a say in. *)
Charged(role, provider) ==
  /\ role \notin FreeRoles
  /\ provider \notin FreeProviders
  /\ Budget > 0
  /\ RoleCost[role] > 0

Start(w, role, provider) ==
  /\ pc[w] \in Resting
  /\ calls < MaxCalls
  /\ Charged(role, provider)
  /\ pc' = [pc EXCEPT ![w] = "loading"]
  /\ job' = [job EXCEPT ![w] = [NoJob EXCEPT !.day = day, !.cost = RoleCost[role]]]
  /\ calls' = calls + 1
  /\ overlapped' = (overlapped \/ \E v \in Workers : pc[v] \in Busy)
  /\ UNCHANGED <<day, log, faults, admitted>>

(* json.loads raises on an empty or mixed file; the caller gets the error. *)
LoadFails(w) ==
  /\ pc[w] = "loading"
  /\ ~Readable
  /\ pc' = [pc EXCEPT ![w] = "failed"]
  /\ UNCHANGED <<day, log, job, calls, faults, admitted, overlapped>>

(* Mutant of OverBudget: the check forgets the call it is made for. *)
ChecksOldTotal(current, cost) == current > Budget

(* Mutant of OverBudget: the limit itself is out of reach. *)
StopsAtLimit(current, cost) == current + cost >= Budget

OverBudget(current, cost) == current + cost > Budget

(* Mutant of Load: the log is rewritten before the check. *)
RecordsThenChecks(w) ==
  /\ pc[w] = "loading"
  /\ Readable
  /\ job' = [job EXCEPT ![w].total = log.total]
  /\ LET over == OverBudget(log.total[job[w].day], job[w].cost) IN
       /\ pc' = [pc EXCEPT ![w] = IF over THEN "refused" ELSE "truncating"]
       /\ log' = IF over THEN [log EXCEPT !.total[job[w].day] = @ + job[w].cost] ELSE log
  /\ UNCHANGED <<day, calls, faults, admitted, overlapped>>

Load(w) ==
  /\ pc[w] = "loading"
  /\ Readable
  /\ job' = [job EXCEPT ![w].total = log.total]
  /\ pc' = [pc EXCEPT ![w] =
              IF OverBudget(log.total[job[w].day], job[w].cost)
                THEN "refused" ELSE "truncating"]
  /\ UNCHANGED <<day, log, calls, faults, admitted, overlapped>>

(* write_text opens the file, which empties it, and then writes. *)
Truncate(w) ==
  /\ pc[w] = "truncating"
  /\ log' = [kind |-> "empty", total |-> Nothing]
  /\ pc' = [pc EXCEPT ![w] = "writing"]
  /\ UNCHANGED <<day, job, calls, faults, admitted, overlapped>>

(* Mutant of Payload: the file keeps what is left, not what was spent. *)
CountsDown(j) == [j.total EXCEPT ![j.day] = @ - j.cost]

(* Mutant of Payload: the payload is begun anew each day. *)
ForgetsOtherDays(j) == [Nothing EXCEPT ![j.day] = j.total[j.day] + j.cost]

(* What is written: the file as it was loaded, with today's total raised. *)
Payload(j) == [j.total EXCEPT ![j.day] = @ + j.cost]

(* Over a different text that another thread wrote since the truncation,   *)
(* a shorter one leaves the other's tail behind.                           *)
Overwrites(total) ==
  \/ log.kind = "garbled"
  \/ log.kind = "json" /\ log.total # total

Write(w) ==
  /\ pc[w] = "writing"
  /\ \/ log' = [kind |-> "json", total |-> Payload(job[w])]
     \/ /\ Overwrites(Payload(job[w]))
        /\ log' = [kind |-> "garbled", total |-> Nothing]
  /\ pc' = [pc EXCEPT ![w] = "admitted"]
  /\ admitted' = [admitted EXCEPT ![job[w].day] = @ + job[w].cost]
  /\ UNCHANGED <<day, job, calls, faults, overlapped>>

(***************************************************************************)
(* What can go wrong, and the calendar.                                    *)
(***************************************************************************)

(* The disk is full: the file stays empty, and the call is not made. *)
WriteFails(w) ==
  /\ pc[w] = "writing"
  /\ faults < MaxFaults
  /\ faults' = faults + 1
  /\ pc' = [pc EXCEPT ![w] = "failed"]
  /\ UNCHANGED <<day, log, job, calls, admitted, overlapped>>

(* The server stops and starts again; the file is what survives. *)
Restart ==
  /\ faults < MaxFaults
  /\ faults' = faults + 1
  /\ pc' = [w \in Workers |-> "idle"]
  /\ job' = [w \in Workers |-> NoJob]
  /\ UNCHANGED <<day, log, calls, admitted, overlapped>>

Midnight ==
  /\ day < LastDay
  /\ day' = day + 1
  /\ UNCHANGED <<log, pc, job, calls, faults, admitted, overlapped>>

Next ==
  \/ \E w \in Workers :
       \/ \E role \in Roles, provider \in Providers : Start(w, role, provider)
       \/ LoadFails(w) \/ Load(w)
       \/ Truncate(w) \/ Write(w) \/ WriteFails(w)
  \/ Restart
  \/ Midnight

Spec == Init /\ [][Next]_vars

(***************************************************************************)
(* Properties.                                                             *)
(***************************************************************************)

TypeOK ==
  /\ day \in Days
  /\ log \in [kind : {"absent", "empty", "json", "garbled"}, total : [Days -> Nat]]
  /\ pc \in [Workers -> Resting \cup Busy]
  /\ job \in [Workers -> [day : Days, cost : Nat, total : [Days -> Nat]]]
  /\ calls \in Nat /\ faults \in Nat
  /\ admitted \in [Days -> Nat]
  /\ overlapped \in BOOLEAN

(* No day's recorded total passes the limit, however charges interleave,   *)
(* fail or straddle midnight: _append_cost checks the very number it is    *)
(* going to write (budget.py:100-106).                                     *)
RecordedWithinBudget ==
  \A d \in Days : log.total[d] <= Budget

(* The log never claims money that no admitted call cost: lost updates,    *)
(* refusals and restarts can make it forget, not invent.                   *)
RecordedWasSpent ==
  \A d \in Days : log.total[d] <= admitted[d]

(* BudgetExceeded is raised only if the calls admitted that day leave no   *)
(* room for this one, even when the log was stale.                         *)
RefusalsAreJustified ==
  \A w \in Workers : pc[w] = "refused" =>
    admitted[job[w].day] + job[w].cost > Budget

(* While charges came one at a time and no rewrite was cut short, the      *)
(* budget is kept: no day's admitted calls cost more, the file between     *)
(* charges is readable and says exactly what was spent, and no charge      *)
(* failed on it.                                                           *)
SerialSpendIsExact ==
  ~overlapped /\ faults = 0 =>
    /\ \A d \in Days : admitted[d] <= Budget
    /\ \A w \in Workers : pc[w] # "failed"
    /\ (\A w \in Workers : pc[w] # "writing") =>
         Readable /\ log.total = admitted

=============================================================================
