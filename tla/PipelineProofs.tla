---------------------------- MODULE PipelineProofs ----------------------------
(***************************************************************************)
(* Theorems about Pipeline, for any workers, threads and opportunities.    *)
(***************************************************************************)
EXTENDS Pipeline, WellFoundedInduction, TLAPS

-----------------------------------------------------------------------------
(* The operators on states *)

(* What the flags of a request do to approval, match and application.      *)
LEMMA InstructedFields ==
  ASSUME NEW s \in State, NEW flags \in Flags
  PROVE  /\ Instructed(s, flags) \in State
         /\ Instructed(s, flags).opp = s.opp /\ Instructed(s, flags).app = s.app
         /\ Instructed(s, flags).approved =>
              s.approved \/ flags.approve \/ flags.token # None
         /\ flags.token # None => Instructed(s, flags).token # None
         /\ Instructed(s, flags).phase \in {s.phase, "rejected_to_discovery"}
<1> DEFINE asked == [s EXCEPT !.query = s.query \/ flags.query]
           rejected == Rejected(asked, flags.reject)
           approved == Approved(rejected, flags.approve)
<1>1. /\ asked \in State /\ asked.opp = s.opp /\ asked.app = s.app
      /\ asked.approved = s.approved /\ asked.phase = s.phase
  BY DEF State, Flags
<1>2. /\ rejected \in State /\ rejected.opp = s.opp /\ rejected.app = s.app
      /\ rejected.approved => s.approved
      /\ rejected.phase \in {s.phase, "rejected_to_discovery"}
  <2> HIDE DEF asked
  <2> QED
    BY <1>1 DEF State, Rejected, Phases, Flags
<1>3. /\ approved \in State /\ approved.opp = s.opp /\ approved.app = s.app
      /\ approved.approved => s.approved \/ flags.approve
      /\ approved.phase \in {s.phase, "rejected_to_discovery"}
  <2> HIDE DEF rejected
  <2> QED
    BY <1>2 DEF State, Approved, Flags
<1>4. Instructed(s, flags) = Confirmed(approved, flags.token)
  BY DEF Instructed
<1> HIDE DEF approved
<1>5. Confirmed(approved, flags.token) \in State
  BY <1>3 DEF State, Confirmed, Flags
<1>6. /\ Confirmed(approved, flags.token).opp = s.opp
      /\ Confirmed(approved, flags.token).app = s.app
      /\ Confirmed(approved, flags.token).approved =>
           s.approved \/ flags.approve \/ flags.token # None
      /\ flags.token # None => Confirmed(approved, flags.token).token # None
      /\ Confirmed(approved, flags.token).phase \in {s.phase, "rejected_to_discovery"}
  BY <1>3 DEF State, Confirmed
<1> QED
  BY <1>4, <1>5, <1>6

LEMMA RestartedFields ==
  ASSUME NEW s \in State
  PROVE  /\ Restarted(s) \in State
         /\ Restarted(s).opp = s.opp /\ Restarted(s).app = s.app
         /\ Restarted(s).approved => s.approved
         /\ Restarted(s).phase = s.phase
BY DEF State, Restarted

LEMMA HitlFields ==
  ASSUME NEW s \in State
  PROVE  /\ Hitl(s) \in State
         /\ Hitl(s).opp = s.opp /\ Hitl(s).app = s.app /\ Hitl(s).approved = s.approved
         /\ Hitl(s).token = s.token /\ Hitl(s).phase # "submitted"
BY DEF State, Hitl, Phases

LEMMA LeastNatural ==
  ASSUME NEW S \in SUBSET Nat, S # {}
  PROVE  \E m \in S : \A n \in S : m <= n
<1> DEFINE less == {ss \in Nat \X Nat : ss[1] < ss[2]}
<1>1. IsWellFoundedOn(less, Nat)
  BY NatLessThanWellFounded DEF OpToRel
<1>2. PICK m \in S : \A n \in S : <<n, m>> \notin less
  BY <1>1, WFMin
<1>3. \A n \in S : ~(n < m)
  BY <1>2
<1> QED
  BY <1>3

(* A non-empty set of labs has a best one, and the match is one of them.   *)
LEMMA TopIsMatched ==
  ASSUME NEW matched \in SUBSET Opps, matched # {}
  PROVE  Top(matched) \in matched
<1> DEFINE misses == {MaxFit - Fit[o] : o \in matched}
<1>1. \A o \in matched : o \in Nat /\ Fit[o] \in Nat /\ Fit[o] <= MaxFit
  <2>1. /\ matched \subseteq Opps /\ Opps \subseteq Nat
        /\ Fit \in [Opps -> 0..1000]
    BY PipelineAssumption DEF MaxFit
  <2>2. ASSUME NEW o \in matched PROVE o \in Nat /\ Fit[o] \in 0..1000
    BY <2>1
  <2> QED
    BY <2>2 DEF MaxFit
<1>2. misses \in SUBSET Nat /\ misses # {}
  BY <1>1 DEF MaxFit
<1>3. PICK m \in misses : \A n \in misses : m <= n
  <2> HIDE DEF misses
  <2> QED
    BY <1>2, LeastNatural
<1>4. PICK o \in matched : m = MaxFit - Fit[o]
  BY <1>3
<1>5. o \in Best(matched)
  <2>1. ASSUME NEW p \in matched PROVE Fit[o] >= Fit[p]
    <3>1. MaxFit - Fit[o] <= MaxFit - Fit[p]
      BY <1>3, <1>4
    <3> QED
      BY <1>1, <3>1 DEF MaxFit
  <2> QED
    BY <2>1 DEF Best
<1>6. Best(matched) \in SUBSET Nat /\ Best(matched) # {}
  BY <1>1, <1>5 DEF Best
<1>7. \E p \in Best(matched) : \A q \in Best(matched) : p <= q
  BY <1>6, LeastNatural
<1>8. Top(matched) \in Best(matched)
  BY <1>7 DEF Top
<1> QED
  BY <1>8 DEF Best

(* A match comes from the labs, and ends an earlier approval.              *)
LEMMA MatchmakerFields ==
  ASSUME NEW s \in State
  PROVE  /\ Matchmaker(s) \in State
         /\ Matchmaker(s).app = s.app /\ ~Matchmaker(s).approved
<1> DEFINE matched == {o \in s.labs : Fit[o] > 0}
<1>1. CASE matched = {}
  BY <1>1 DEF State, Matchmaker, Phases
<1>2. CASE matched # {}
  <2>1. matched \in SUBSET Opps
    BY DEF State
  <2>2. Top(matched) \in Opps
    BY <1>2, <2>1, TopIsMatched
  <2> QED
    BY <1>2, <2>2 DEF State, Matchmaker, Phases
<1> QED
  BY <1>1, <1>2

-----------------------------------------------------------------------------
(* Steps of one worker *)

(* What a step of w makes of its place and of its job.                     *)
Moved(w, node, j) ==
  /\ pc' = [pc EXCEPT ![w] = node]
  /\ job' = [job EXCEPT ![w] = j]

Handed(j, s) == [j EXCEPT !.state = s, !.row = NewRow, !.result = "refused"]
Carried(j, r, result) == [j EXCEPT !.row = r, !.result = result]

LEMMA EmptyStateType == EmptyState \in State /\ EmptyState.phase = "idle"
BY DEF EmptyState, State, Phases

LEMMA NewRowType == NewRow \in Row /\ NewRow.live = None
BY DEF NewRow, Row, Statuses

LEMMA NoJobFields ==
  /\ NoJob \in Job /\ NoJob.thread = NoThread /\ NoJob.state = EmptyState
  /\ NoJob.row = NewRow
BY EmptyStateType, NewRowType DEF NoJob, Job, Outcomes

LEMMA HandedFields ==
  ASSUME NEW j \in Job, NEW s \in State
  PROVE  /\ Handed(j, s) \in Job
         /\ Handed(j, s).thread = j.thread /\ Handed(j, s).state = s
         /\ Handed(j, s).row = NewRow
BY NewRowType DEF Handed, Job, Outcomes

LEMMA CarriedFields ==
  ASSUME NEW j \in Job, NEW r \in Row, NEW result \in Outcomes
  PROVE  /\ Carried(j, r, result) \in Job
         /\ Carried(j, r, result).thread = j.thread
         /\ Carried(j, r, result).state = j.state
         /\ Carried(j, r, result).row = r /\ Carried(j, r, result).result = result
BY DEF Carried, Job

(* Where a step puts its worker. *)
LEMMA Moves ==
  ASSUME NEW w \in Workers
  PROVE  /\ \A node, s : Goto(w, node, s) => Moved(w, node, Handed(job[w], s))
         /\ \A step, r, result :
              Carry(w, step, r, result) => Moved(w, step, Carried(job[w], r, result))
         /\ Finish(w) => Moved(w, "idle", NoJob)
         /\ \A step, s, r : Dashboard(w, step, s, r) =>
              Moved(w, step, [NoJob EXCEPT !.thread = "dashboard", !.state = s, !.row = r])
<1>1. ASSUME NEW node, NEW s, Goto(w, node, s) PROVE Moved(w, node, Handed(job[w], s))
  BY <1>1 DEF Goto, Moved, Handed
<1>2. ASSUME NEW step, NEW r, NEW result, Carry(w, step, r, result)
      PROVE  Moved(w, step, Carried(job[w], r, result))
  BY <1>2 DEF Carry, Moved, Carried
<1>3. Finish(w) => Moved(w, "idle", NoJob)
  BY DEF Finish, Moved
<1>4. ASSUME NEW step, NEW s, NEW r, Dashboard(w, step, s, r)
      PROVE  Moved(w, step, [NoJob EXCEPT !.thread = "dashboard", !.state = s, !.row = r])
  BY <1>4 DEF Dashboard, Moved
<1> QED
  BY <1>1, <1>2, <1>3, <1>4

(* A gate call of a thread goes on to the next node, one of the dashboard  *)
(* is over.                                                                *)
LEMMA Returns ==
  ASSUME NEW w \in Workers, NEW node, NEW s, Return(w, node, s)
  PROVE  \/ job[w].thread = "dashboard" /\ Finish(w)
         \/ job[w].thread # "dashboard" /\ Goto(w, node, s)
BY DEF Return

(* The nodes that only compute hand on their state with another phase.     *)
Thinking(w) ==
  \/ DiscoveryRefused(w) \/ NothingToDraft(w) \/ DraftRefused(w) \/ Critic(w)
  \/ BrowserWaits(w) \/ BrowserDenied(w)

LEMMA ThinkingReturns ==
  ASSUME TypeOK, NEW w \in Workers, Thinking(w)
  PROVE  /\ \E phase \in Phases \ {"submitted"} :
              Return(w, "save", [job[w].state EXCEPT !.phase = phase])
         /\ pc[w] # "idle" /\ UNCHANGED <<checkpoint, known, packet, gate, consent, requests>>
<1> DEFINE s == job[w].state
<1>1. /\ {"failed", "awaiting_hmac", "critic_blocked", "drafted_awaiting_hmac"}
           \subseteq Phases \ {"submitted"}
  BY DEF Phases, Statuses
<1>2. "dashboard" \notin Threads
  BY PipelineAssumption
<1>3. CASE DraftRefused(w) \/ BrowserDenied(w)
  <2>1. Return(w, "save", [s EXCEPT !.phase = "failed"])
    BY <1>3 DEF DraftRefused, BrowserDenied
  <2>2. pc[w] # "idle" /\ UNCHANGED <<checkpoint, known, packet, gate, consent, requests>>
    BY <1>3 DEF DraftRefused, BrowserDenied
  <2> QED
    BY <1>1, <2>1, <2>2
<1>4. CASE DiscoveryRefused(w) \/ NothingToDraft(w) \/ Critic(w) \/ BrowserWaits(w)
  <2>1. /\ pc[w] # "idle" /\ UNCHANGED <<checkpoint, known, packet, gate, consent, requests>>
        /\ job[w].thread # "dashboard"
    BY <1>2, <1>4 DEF DiscoveryRefused, NothingToDraft, Critic, BrowserWaits, TypeOK, Serves,
                      GateSteps
  <2>2. \/ Goto(w, "save", [s EXCEPT !.phase = "failed"])
        \/ Goto(w, "save", [s EXCEPT !.phase = "awaiting_hmac"])
        \/ Goto(w, "save", [s EXCEPT !.phase = "critic_blocked"])
        \/ Goto(w, "save", [s EXCEPT !.phase = "drafted_awaiting_hmac"])
    <3>1. CASE DiscoveryRefused(w) \/ NothingToDraft(w)
      BY <3>1 DEF DiscoveryRefused, NothingToDraft
    <3>2. CASE BrowserWaits(w)
      BY <3>2 DEF BrowserWaits
    <3>3. CASE Critic(w)
      <4>1. CASE HasErrors(Preview(job[w].state.app))
        BY <3>3, <4>1 DEF Critic
      <4>2. CASE ~HasErrors(Preview(job[w].state.app))
        BY <3>3, <4>2 DEF Critic
      <4> QED
        BY <4>1, <4>2
    <3> QED
      BY <1>4, <3>1, <3>2, <3>3
  <2>3. ASSUME NEW next, Goto(w, "save", next) PROVE Return(w, "save", next)
    BY <2>1, <2>3 DEF Return
  <2> QED
    BY <1>1, <2>1, <2>2, <2>3
<1> QED
  BY <1>3, <1>4 DEF Thinking

-----------------------------------------------------------------------------
(* Type correctness *)

JobsTyped ==
  /\ pc \in [Workers -> Nodes]
  /\ job \in [Workers -> Job]
  /\ \A w \in Workers : Serves(pc[w], job[w]) /\ Holds(pc[w], job[w].state)

LEMMA MovedType ==
  ASSUME TypeOK, NEW w \in Workers, NEW node \in Nodes, NEW j \in Job,
         Moved(w, node, j), Serves(node, j), Holds(node, j.state)
  PROVE  JobsTyped'
<1>1. /\ pc' \in [Workers -> Nodes] /\ job' \in [Workers -> Job]
      /\ pc'[w] = node /\ job'[w] = j
      /\ \A v \in Workers \ {w} : pc'[v] = pc[v] /\ job'[v] = job[v]
  BY DEF TypeOK, Moved
<1>2. ASSUME NEW v \in Workers
      PROVE  Serves(pc'[v], job'[v]) /\ Holds(pc'[v], job'[v].state)
  BY <1>1 DEF TypeOK
<1> QED
  BY <1>1, <1>2 DEF JobsTyped, Serves, Holds

LEMMA FinishType ==
  ASSUME TypeOK, NEW w \in Workers, Finish(w)
  PROVE  JobsTyped'
<1>1. Moved(w, "idle", NoJob) /\ NoJob \in Job /\ "idle" \in Nodes
  BY Moves, NoJobFields DEF Nodes
<1>2. Serves("idle", NoJob) /\ Holds("idle", NoJob.state)
  BY DEF Serves, Holds
<1> QED
  BY <1>1, <1>2, MovedType

LEMMA GotoType ==
  ASSUME TypeOK, NEW w \in Workers, NEW node \in Nodes, NEW s \in State,
         job[w].thread \in Threads, Goto(w, node, s), Holds(node, s)
  PROVE  JobsTyped'
<1> DEFINE j == Handed(job[w], s)
<1>1. job[w] \in Job
  BY DEF TypeOK
<1>2. j \in Job /\ j.thread \in Threads /\ j.state = s
  BY <1>1, HandedFields
<1>3. Moved(w, node, j)
  BY Moves
<1>4. Serves(node, j)
  BY <1>2 DEF Serves
<1> HIDE DEF j
<1> QED
  BY <1>2, <1>3, <1>4, MovedType

LEMMA ReturnType ==
  ASSUME TypeOK, NEW w \in Workers, NEW node \in Nodes, NEW s \in State,
         pc[w] # "idle", Return(w, node, s), Holds(node, s)
  PROVE  JobsTyped'
<1>1. job[w].thread \in Threads \/ job[w].thread = "dashboard"
  BY DEF TypeOK, Serves
<1> QED
  BY <1>1, Returns, FinishType, GotoType

LEMMA CarryType ==
  ASSUME TypeOK, NEW w \in Workers, NEW step \in GateSteps \ {"browser"}, NEW r \in Row,
         NEW result \in Outcomes, pc[w] # "idle", Carry(w, step, r, result),
         Holds(step, job[w].state)
  PROVE  JobsTyped'
<1> DEFINE j == Carried(job[w], r, result)
<1>1. job[w] \in Job /\ (job[w].thread \in Threads \/ job[w].thread = "dashboard")
  BY DEF TypeOK, Serves
<1>2. j \in Job /\ j.thread = job[w].thread /\ j.state = job[w].state
  BY <1>1, CarriedFields
<1>3. Moved(w, step, j) /\ step \in Nodes
  BY Moves DEF GateSteps, Nodes
<1>4. Serves(step, j)
  BY <1>1, <1>2 DEF Serves
<1> HIDE DEF j
<1> QED
  BY <1>2, <1>3, <1>4, MovedType

LEMMA CommitType ==
  ASSUME TypeOK, NEW o \in Opps, NEW loaded \in Row, NEW new \in Row,
         Commit(o, loaded, new)
  PROVE  row' \in [Opps -> Row]
<1>1. row[o] \in Row
  BY DEF TypeOK
<1>2. WriteBack(row[o], loaded, new) \in Row
  BY <1>1 DEF WriteBack, Column, Row
<1> QED
  BY <1>2 DEF TypeOK, Commit

(* The values the handlers assign. *)
LEMMA AssignedType ==
  /\ \A n \in Nonces : Requested(n) \in Row
  /\ \A ok \in BOOLEAN : Concluded(ok) \in Row
  /\ [status |-> "rejected", live |-> None, used |-> TRUE] \in Row
BY DEF Requested, Concluded, Row, Statuses

LEMMA ResumeType ==
  ASSUME TypeOK, NEW w \in Workers, NEW t \in Threads, NEW flags \in Flags,
         Resume(w, t, flags)
  PROVE  TypeOK'
<1> DEFINE s == Instructed(checkpoint[t], flags)
           r == Restarted(s)
           toBrowser == flags.token # None \/ (s.app # None /\ s.token # None)
           node == IF toBrowser THEN "browser"
                   ELSE IF r.labs = {} THEN "discovery"
                   ELSE IF r.approved THEN "drafter" ELSE "save"
           next == IF toBrowser THEN s ELSE IF r.labs = {} THEN r ELSE Hitl(r)
           token == IF flags.reject THEN None ELSE flags.token
           j == [NoJob EXCEPT !.thread = t, !.handed = token, !.state = next]
<1>1. checkpoint[t] \in State
  BY DEF TypeOK
<1>2. s \in State /\ (flags.token # None => s.token # None)
  BY <1>1, InstructedFields
<1>3. r \in State
  BY <1>2, RestartedFields
<1>4. Hitl(r) \in State
  BY <1>3, HitlFields
<1>5. next \in State /\ Holds(node, next) /\ node \in Nodes
  <2> HIDE DEF s, r
  <2> QED
    BY <1>2, <1>3, <1>4 DEF Holds, Nodes
<1>6. Moved(w, node, j)
  BY DEF Resume, Moved
<1>7. token \in Nonces \cup {None}
  BY DEF Flags
<1>8. j \in Job /\ j.thread = t /\ j.state = next
  <2> HIDE DEF next, token
  <2> QED
    BY <1>5, <1>7, NoJobFields DEF Job
<1>9. Serves(node, j)
  BY <1>8 DEF Serves
<1>10. JobsTyped'
  <2> HIDE DEF j, node, next
  <2> QED
    BY <1>5, <1>6, <1>8, <1>9, MovedType
<1>11. consent' \in [Threads -> SUBSET (Opps \cup {None})] /\ requests' \in Nat
  BY <1>1 DEF TypeOK, Resume, State
<1> QED
  BY <1>10, <1>11 DEF TypeOK, JobsTyped, Resume, gate

LEMMA ThinkingType ==
  ASSUME TypeOK, NEW w \in Workers, Thinking(w)
  PROVE  TypeOK'
<1> DEFINE s == job[w].state
<1>1. s \in State
  BY DEF TypeOK, Job
<1>2. PICK phase \in Phases : Return(w, "save", [s EXCEPT !.phase = phase])
  BY ThinkingReturns
<1>3. [s EXCEPT !.phase = phase] \in State
  BY <1>1 DEF State
<1>4. JobsTyped'
  BY <1>2, <1>3, ThinkingReturns, ReturnType DEF Holds, Nodes
<1> QED
  BY <1>4, ThinkingReturns DEF TypeOK, JobsTyped, gate

LEMMA DiscoveryType ==
  ASSUME TypeOK, NEW w \in Workers, NEW found \in SUBSET Opps,
         NEW outcome \in {"completed", "failed"}, Discovery(w, found, outcome)
  PROVE  TypeOK'
<1> DEFINE s == [job[w].state EXCEPT !.labs = known \cup found, !.phase = outcome,
                                     !.reject = FALSE]
           m == Matchmaker(s)
<1>1. s \in State /\ job[w].thread \in Threads
  BY DEF TypeOK, Job, Discovery, State, Phases, Serves, GateSteps
<1>2. m \in State /\ ~m.approved
  BY <1>1, MatchmakerFields
<1>3. Hitl(m) \in State
  BY <1>2, HitlFields
<1>4. Goto(w, "save", s) \/ Goto(w, "save", Hitl(m))
  <2> HIDE DEF s
  <2>1. Goto(w, "save", s) \/ Supervise(w, m)
    BY DEF Discovery, s
  <2> QED
    BY <1>2, <2>1 DEF Supervise
<1>5. JobsTyped'
  <2> HIDE DEF s, m
  <2> QED
    BY <1>1, <1>3, <1>4, GotoType DEF Holds, Nodes
<1> QED
  BY <1>5 DEF TypeOK, JobsTyped, Discovery, gate

(* Drafting hands the state on, or ends.                                   *)
Drafts(w) ==
  \/ DraftStart(w) \/ DraftWritten(w) \/ DraftReadBack(w)
  \/ \E caught \in BOOLEAN : DraftFailed(w, caught)

LEMMA DraftMoves ==
  ASSUME NEW w \in Workers, Drafts(w)
  PROVE  /\ \/ Finish(w)
            \/ Goto(w, "save", [job[w].state EXCEPT !.phase = "failed"])
            \/ \E node \in {"writing", "written", "requesting"} : Goto(w, node, job[w].state)
         /\ pc[w] \in {"drafter", "writing", "written"}
         /\ UNCHANGED <<checkpoint, known, gate, consent, requests>>
BY DEF Drafts, DraftStart, DraftWritten, DraftReadBack, DraftFailed

LEMMA DraftType ==
  ASSUME TypeOK, NEW w \in Workers, Drafts(w)
  PROVE  TypeOK'
<1> DEFINE s == job[w].state
<1>1. s \in State /\ s.opp # None /\ job[w].thread \in Threads
  BY DEF TypeOK, Job, Drafts, DraftStart, DraftWritten, DraftReadBack, DraftFailed, Holds,
         Serves, GateSteps
<1>2. s.opp \in Opps
  BY <1>1 DEF State
<1>3. packet' \in [Opps -> {"none", "preparing", "ready", "failed"}]
  BY <1>2 DEF TypeOK, Drafts, DraftStart, DraftWritten, DraftReadBack, DraftFailed
<1>4. [s EXCEPT !.phase = "failed"] \in State
  BY <1>1 DEF State, Phases
<1>5. JobsTyped'
  <2>1. CASE Finish(w)
    BY <2>1, FinishType
  <2>2. CASE Goto(w, "save", [s EXCEPT !.phase = "failed"])
    BY <1>1, <1>4, <2>2, GotoType DEF Holds, Nodes
  <2>3. ASSUME NEW node \in {"writing", "written", "requesting"}, Goto(w, node, s)
        PROVE  JobsTyped'
    BY <1>1, <2>3, GotoType DEF Holds, Nodes
  <2> QED
    BY <2>1, <2>2, <2>3, DraftMoves
<1> QED
  BY <1>3, <1>5, DraftMoves DEF TypeOK, JobsTyped, gate

LEMMA ReadsBackType ==
  ASSUME TypeOK, NEW w \in Workers, BrowserReadsBack(w)
  PROVE  TypeOK'
<1> DEFINE s == job[w].state
           next == [s EXCEPT !.token = None, !.phase = row[s.app].status]
<1>1. s \in State /\ s.app # None /\ job[w].thread \in Threads
  BY DEF TypeOK, Job, BrowserReadsBack, Holds, Serves, GateSteps
<1>2. row[s.app].status \in Phases
  BY <1>1 DEF TypeOK, State, Row, Phases
<1>3. next \in State
  BY <1>1, <1>2 DEF State
<1>4. Goto(w, "save", next) /\ Holds("save", next)
  BY DEF BrowserReadsBack, Holds
<1>5. JobsTyped'
  <2> HIDE DEF next
  <2> QED
    BY <1>1, <1>3, <1>4, GotoType DEF Nodes
<1> QED
  BY <1>5 DEF TypeOK, JobsTyped, BrowserReadsBack, gate

LEMMA EndType ==
  ASSUME TypeOK, NEW w \in Workers, Save(w) \/ Abort(w)
  PROVE  TypeOK'
<1>1. JobsTyped' /\ UNCHANGED <<known, packet, gate, consent, requests>>
  BY FinishType DEF Save, Abort
<1>2. checkpoint' \in [Threads -> State]
  <2>1. job[w].state \in State
    BY DEF TypeOK, Job
  <2> QED
    BY <2>1 DEF TypeOK, Save, Abort
<1> QED
  BY <1>1, <1>2 DEF TypeOK, JobsTyped, gate

LEMMA DashboardType ==
  ASSUME TypeOK, NEW w \in Workers, NEW step \in GateSteps, NEW s \in State, NEW r \in Row,
         Dashboard(w, step, s, r), Holds(step, s), step = "browser" => s.app # None
  PROVE  TypeOK'
<1> DEFINE j == [NoJob EXCEPT !.thread = "dashboard", !.state = s, !.row = r]
<1>1. j \in Job /\ j.thread = "dashboard" /\ j.state = s
  BY NoJobFields DEF Job
<1>2. Moved(w, step, j) /\ step \in Nodes
  BY Moves DEF GateSteps, Nodes
<1>3. Serves(step, j)
  BY <1>1 DEF Serves
<1>4. JobsTyped'
  <2> HIDE DEF j
  <2> QED
    BY <1>1, <1>2, <1>3, MovedType
<1> QED
  BY <1>4 DEF TypeOK, JobsTyped, Dashboard, gate

(* What the dashboard hands to the gate. *)
Calls(w) ==
  \/ \E o \in Opps : DashboardRequest(w, o) \/ DashboardRejects(w, o)
  \/ \E i \in issued : DashboardApproves(w, i)

LEMMA CallsType ==
  ASSUME TypeOK, NEW w \in Workers, Calls(w)
  PROVE  TypeOK'
<1>1. ASSUME NEW o \in Opps, DashboardRequest(w, o) PROVE TypeOK'
  <2> DEFINE s == [EmptyState EXCEPT !.opp = o]
  <2>1. s \in State /\ s.opp # None
    BY PipelineAssumption, EmptyStateType DEF State
  <2>2. Dashboard(w, "requesting", s, NewRow) /\ Holds("requesting", s)
    BY <1>1, <2>1 DEF DashboardRequest, Holds
  <2> HIDE DEF s
  <2> QED
    BY <2>1, <2>2, NewRowType, DashboardType DEF GateSteps
<1>2. ASSUME NEW o \in Opps, DashboardRejects(w, o) PROVE TypeOK'
  <2> DEFINE s == [EmptyState EXCEPT !.app = o]
  <2>1. s \in State /\ s.app # None
    BY PipelineAssumption, EmptyStateType DEF State
  <2>2. Dashboard(w, "rejecting", s, row[o]) /\ Holds("rejecting", s) /\ row[o] \in Row
    BY <1>2, <2>1 DEF DashboardRejects, Holds, TypeOK
  <2> HIDE DEF s
  <2> QED
    BY <2>1, <2>2, DashboardType DEF GateSteps
<1>3. ASSUME NEW i \in issued, DashboardApproves(w, i) PROVE TypeOK'
  <2> DEFINE s == [EmptyState EXCEPT !.app = i.app, !.token = i.nonce]
  <2>1. i.app \in Opps /\ i.nonce \in Nonces
    BY DEF TypeOK, Issued
  <2>2. i.app # None /\ i.nonce # None
    BY <2>1, PipelineAssumption DEF Nonces, None
  <2>3. s \in State /\ s.app = i.app /\ s.token = i.nonce
    BY <2>1, EmptyStateType DEF State
  <2>4. Dashboard(w, "browser", s, NewRow) /\ Holds("browser", s)
    BY <1>3, <2>2, <2>3 DEF DashboardApproves, Holds
  <2> HIDE DEF s
  <2> QED
    BY <2>2, <2>3, <2>4, NewRowType, DashboardType DEF GateSteps
<1> QED
  BY <1>1, <1>2, <1>3 DEF Calls

LEMMA RequestReadType ==
  ASSUME TypeOK, NEW w \in Workers, RequestRead(w)
  PROVE  TypeOK'
<1> DEFINE s == job[w].state
<1>1. s \in State /\ s.opp # None
  BY DEF TypeOK, Job, RequestRead, Holds
<1>2. row[s.opp] \in Row
  BY <1>1 DEF State, TypeOK
<1>3. JobsTyped'
  BY <1>1, <1>2, CarryType DEF RequestRead, Holds, GateSteps, Outcomes
<1> QED
  BY <1>3 DEF TypeOK, JobsTyped, RequestRead, gate

LEMMA RequestCommitType ==
  ASSUME TypeOK, NEW w \in Workers, RequestCommit(w)
  PROVE  TypeOK' /\ NextNonce \in Nonces /\ \A i \in issued : i.nonce # NextNonce
<1> DEFINE s == job[w].state
           drafted == [s EXCEPT !.app = s.opp, !.token = NextNonce,
                                !.phase = "drafted_awaiting_hmac"]
<1>1. /\ s \in State /\ s.opp # None /\ job[w].row \in Row
      /\ job[w].thread \in Threads \cup {"dashboard"} /\ pc[w] # "idle"
  BY DEF TypeOK, Job, RequestCommit, Holds, Serves
<1>2. s.opp \in Opps
  BY <1>1 DEF State
<1>3. NextNonce \in Nonces /\ \A i \in issued : i.nonce # NextNonce
  BY DEF RequestCommit, NextNonce
<1>4. drafted \in State /\ drafted.app = s.opp
  BY <1>1, <1>2, <1>3 DEF State, Phases
<1>5. JobsTyped'
  <2>1. Return(w, "critic", drafted) /\ Holds("critic", drafted)
    BY <1>1, <1>4 DEF RequestCommit, Holds
  <2> HIDE DEF drafted
  <2> QED
    BY <1>1, <1>4, <2>1, ReturnType DEF Nodes
<1>6. row' \in [Opps -> Row]
  BY <1>1, <1>2, <1>3, AssignedType, CommitType DEF RequestCommit
<1>7. issued' \in SUBSET Issued
  BY <1>1, <1>2, <1>3 DEF TypeOK, RequestCommit, Issued
<1> QED
  BY <1>3, <1>5, <1>6, <1>7 DEF TypeOK, JobsTyped, RequestCommit

LEMMA RejectCommitType ==
  ASSUME TypeOK, NEW w \in Workers, RejectCommit(w)
  PROVE  TypeOK'
<1>1. job[w].state.app \in Opps /\ job[w].row \in Row
  BY DEF TypeOK, Job, State, RejectCommit, Holds
<1>2. row' \in [Opps -> Row]
  BY <1>1, AssignedType, CommitType DEF RejectCommit
<1>3. JobsTyped'
  BY FinishType DEF RejectCommit
<1> QED
  BY <1>2, <1>3 DEF TypeOK, JobsTyped, RejectCommit

LEMMA ApproveReadType ==
  ASSUME TypeOK, NEW w \in Workers, ApproveRead(w)
  PROVE  TypeOK'
<1> DEFINE s == job[w].state
<1>1. s \in State /\ s.app # None /\ s.token # None
  BY DEF TypeOK, Job, ApproveRead, Holds
<1>2. row[s.app] \in Row
  BY <1>1 DEF State, TypeOK
<1>3. JobsTyped'
  BY <1>1, <1>2, CarryType DEF ApproveRead, Holds, GateSteps, Outcomes
<1> QED
  BY <1>3 DEF TypeOK, JobsTyped, ApproveRead, gate

LEMMA SendType ==
  ASSUME TypeOK, NEW w \in Workers, NEW result \in Outcomes, Send(w, result)
  PROVE  TypeOK'
<1> DEFINE s == job[w].state
<1>1. /\ job[w] \in Job /\ s \in State /\ s.app # None /\ s.token # None
      /\ job[w].row \in Row /\ job[w].handed \in Nonces \cup {None}
      /\ job[w].thread \in Threads \cup {"dashboard"}
  BY DEF TypeOK, Job, Send, Holds, Serves
<1>2. s.app \in Opps /\ s.token \in Nonces
  BY <1>1 DEF State
<1>3. sent' \in SUBSET Dispatch
  BY <1>1, <1>2 DEF TypeOK, Send, Dispatch, Outcomes
<1>4. JobsTyped'
  BY <1>1, CarryType DEF Send, Holds, GateSteps
<1> QED
  BY <1>3, <1>4 DEF TypeOK, JobsTyped, Send

LEMMA ApproveCommitType ==
  ASSUME TypeOK, NEW w \in Workers, ApproveCommit(w)
  PROVE  TypeOK'
<1> DEFINE s == job[w].state
           ok == job[w].result = "ok"
           failed == [s EXCEPT !.phase = "failed"]
<1>1. s \in State /\ s.app # None /\ job[w].row \in Row /\ pc[w] # "idle"
  BY DEF TypeOK, Job, ApproveCommit, Holds
<1>2. s.app \in Opps /\ failed \in State
  BY <1>1 DEF State, Phases
<1>3. Concluded(ok) \in Row
  BY AssignedType
<1>4. row' \in [Opps -> Row]
  <2>1. Commit(s.app, job[w].row, Concluded(ok))
    BY DEF ApproveCommit
  <2> HIDE DEF ok
  <2> QED
    BY <1>1, <1>2, <1>3, <2>1, CommitType
<1>5. Return(w, "concluded", s) \/ Return(w, "save", failed)
  BY DEF ApproveCommit
<1>6. Holds("concluded", s) /\ Holds("save", failed)
  BY <1>1 DEF Holds
<1>7. JobsTyped'
  <2> HIDE DEF failed
  <2> QED
    BY <1>1, <1>2, <1>5, <1>6, ReturnType DEF Nodes
<1> QED
  BY <1>4, <1>7 DEF TypeOK, JobsTyped, ApproveCommit

(* A step of no handler: a token expires, or nothing happens. *)
Idle == (\E i \in issued : Expire(i)) \/ UNCHANGED vars

LEMMA IdleKeeps ==
  ASSUME Idle
  PROVE  /\ UNCHANGED <<checkpoint, known, packet, row, issued, sent, consent, requests, pc, job>>
         /\ TypeOK => expired' \in SUBSET Nonces
         /\ expired \subseteq expired'
BY DEF Idle, Expire, vars, gate, TypeOK, Issued

LEMMA IdleType == TypeOK /\ Idle => TypeOK'
<1> SUFFICES ASSUME TypeOK, Idle PROVE TypeOK'
  OBVIOUS
<1> QED
  BY IdleKeeps DEF TypeOK

LEMMA PipelineInitType == Init => TypeOK
BY EmptyStateType, NewRowType, NoJobFields DEF Init, TypeOK, Holds, Serves, Nodes

LEMMA KnownFlags ==
  ASSUME TypeOK
  PROVE  [query: BOOLEAN, approve: BOOLEAN, reject: BOOLEAN, token: KnownTokens]
           \subseteq Flags
BY DEF TypeOK, Issued, KnownTokens, Flags

(* The steps of the system, as the proofs below take them. *)
LEMMA Steps ==
  ASSUME TypeOK, [Next]_vars
  PROVE  \/ \E w \in Workers :
              \/ \E t \in Threads, flags \in Flags : Resume(w, t, flags)
              \/ Thinking(w) \/ Drafts(w) \/ BrowserReadsBack(w) \/ Save(w) \/ Abort(w)
              \/ \E found \in SUBSET Opps, outcome \in {"completed", "failed"} :
                   Discovery(w, found, outcome)
              \/ Calls(w) \/ RequestRead(w) \/ RequestCommit(w) \/ RejectCommit(w)
              \/ ApproveRead(w) \/ ApproveCommit(w)
              \/ \E result \in Outcomes : Send(w, result)
         \/ Idle
<1>1. ASSUME NEW w \in Workers, Request(w)
      PROVE  \/ \E t \in Threads, flags \in Flags : Resume(w, t, flags)
             \/ Thinking(w) \/ Drafts(w) \/ BrowserReadsBack(w) \/ Save(w) \/ Abort(w)
             \/ \E found \in SUBSET Opps, outcome \in {"completed", "failed"} :
                  Discovery(w, found, outcome)
  BY <1>1, KnownFlags DEF Request, Thinking, Drafts
<1>2. ASSUME NEW w \in Workers, Gate(w)
      PROVE  \/ Calls(w) \/ RequestRead(w) \/ RequestCommit(w) \/ RejectCommit(w)
             \/ ApproveRead(w) \/ ApproveCommit(w)
             \/ \E result \in Outcomes : Send(w, result)
  BY <1>2 DEF Gate, Calls
<1> QED
  BY <1>1, <1>2 DEF Next, Idle

LEMMA PipelineNextType == TypeOK /\ [Next]_vars => TypeOK'
<1> SUFFICES ASSUME TypeOK, [Next]_vars PROVE TypeOK'
  OBVIOUS
<1> QED
  BY Steps, ResumeType, ThinkingType, DraftType, ReadsBackType, EndType, DiscoveryType,
     CallsType, RequestReadType, RequestCommitType, RejectCommitType, ApproveReadType,
     ApproveCommitType, SendType, IdleType

(* Every reachable state of pipeline, threads and gate is well typed, and  *)
(* no node runs without the opportunity, application or token it needs.    *)
THEOREM PipelineTypeCorrect == Spec => []TypeOK
BY PipelineInitType, PipelineNextType, PTL DEF Spec

-----------------------------------------------------------------------------
(* Approval is bound to the match *)

(* What the gate has seen from threads, as ActsOnlyOnApproval wants it.    *)
GateConsent ==
  /\ \A i \in issued : i.by \in Threads => i.app \in consent[i.by]
  /\ \A e \in sent : e.by \in Threads => e.app \in consent[e.by]

Drafting == {"drafter", "writing", "written", "requesting", "issuing"}

(* What ConsentInv asks of one job.                                        *)
Tied(node, j) ==
  j.thread \in Threads =>
    /\ ApprovedMatch(j.thread, j.state)
    /\ node \in Drafting => j.state.approved

(* The same after a step, of a job that was made before it.                *)
TiedNext(node, j) ==
  j.thread \in Threads =>
    /\ j.state.approved => j.state.opp \in consent'[j.thread]
    /\ j.state.app # None => j.state.app \in consent'[j.thread]
    /\ node \in Drafting => j.state.approved

LEMMA ConsentParts ==
  ASSUME TypeOK
  PROVE  ConsentInv <=> /\ GateConsent
                        /\ \A t \in Threads : ApprovedMatch(t, checkpoint[t])
                        /\ \A w \in Workers : Tied(pc[w], job[w])
<1>1. ASSUME NEW w \in Workers, Tied(pc[w], job[w]), job[w].thread \in Threads,
             pc[w] \in {"writing", "written", "requesting", "issuing"}
      PROVE  job[w].state.opp \in consent[job[w].thread]
  BY <1>1 DEF Tied, Drafting, ApprovedMatch
<1> QED
  BY <1>1 DEF ConsentInv, ActsOnlyOnApproval, GateConsent, Tied, Drafting

(* A step of one worker leaves the others tied, as consent only grows.     *)
LEMMA MovedConsent ==
  ASSUME TypeOK, TypeOK', ConsentInv, GateConsent',
         \A t \in Threads : consent[t] \subseteq consent'[t],
         \A t \in Threads : ApprovedMatch(t, checkpoint[t])',
         NEW w \in Workers, NEW node \in Nodes, NEW j \in Job, Moved(w, node, j), TiedNext(node, j)
  PROVE  ConsentInv'
<1>1. /\ pc'[w] = node /\ job'[w] = j
      /\ \A v \in Workers \ {w} : pc'[v] = pc[v] /\ job'[v] = job[v]
  BY DEF TypeOK, Moved
<1>2. ASSUME NEW v \in Workers PROVE Tied(pc[v], job[v])'
  <2>1. CASE v = w
    BY <1>1, <2>1 DEF Tied, TiedNext, ApprovedMatch
  <2>2. CASE v # w
    <3>1. Tied(pc[v], job[v])
      BY ConsentParts
    <3>2. pc'[v] = pc[v] /\ job'[v] = job[v]
      BY <1>1, <2>2
    <3> QED
      BY <3>1, <3>2 DEF Tied, ApprovedMatch
  <2> QED
    BY <2>1, <2>2
<1>3. TypeOK' => (ConsentInv' <=> /\ GateConsent'
                                  /\ \A t \in Threads : ApprovedMatch(t, checkpoint[t])'
                                  /\ \A v \in Workers : Tied(pc[v], job[v])')
  <2>1. ASSUME NEW v \in Workers, Tied(pc[v], job[v])', job'[v].thread \in Threads,
               pc'[v] \in {"writing", "written", "requesting", "issuing"}
        PROVE  job'[v].state.opp \in consent'[job'[v].thread]
    BY <2>1 DEF Tied, Drafting, ApprovedMatch
  <2> QED
    BY <2>1 DEF ConsentInv, ActsOnlyOnApproval, GateConsent, Tied, Drafting
<1> QED
  BY <1>2, <1>3

(* Where approvals and checkpoints stay as they are, only the new job      *)
(* matters.                                                                *)
LEMMA QuietConsent ==
  ASSUME TypeOK, TypeOK', ConsentInv, UNCHANGED <<checkpoint, issued, sent, consent>>,
         NEW w \in Workers, NEW node \in Nodes, NEW j \in Job, Moved(w, node, j), Tied(node, j)
  PROVE  ConsentInv'
<1>1. GateConsent' /\ \A t \in Threads : ApprovedMatch(t, checkpoint[t])'
  BY ConsentParts DEF GateConsent, ApprovedMatch
<1>2. TiedNext(node, j)
  BY DEF TiedNext, Tied, ApprovedMatch
<1> QED
  BY <1>1, <1>2, MovedConsent

LEMMA FinishConsent ==
  ASSUME TypeOK, TypeOK', ConsentInv, UNCHANGED consent, NEW w \in Workers, Finish(w),
         GateConsent', \A t \in Threads : ApprovedMatch(t, checkpoint[t])'
  PROVE  ConsentInv'
<1>1. Moved(w, "idle", NoJob) /\ NoJob \in Job /\ "idle" \in Nodes
  BY Moves, NoJobFields DEF Nodes
<1>2. TiedNext("idle", NoJob)
  BY NoJobFields, PipelineAssumption DEF TiedNext, Tied
<1> QED
  BY <1>1, <1>2, MovedConsent

LEMMA ReturnConsent ==
  ASSUME TypeOK, TypeOK', ConsentInv, UNCHANGED <<checkpoint, consent>>, GateConsent',
         NEW w \in Workers, NEW node \in Nodes, NEW s \in State,
         Return(w, node, s) \/ Goto(w, node, s),
         job[w].thread \in Threads =>
           ApprovedMatch(job[w].thread, s) /\ (node \in Drafting => s.approved)
  PROVE  ConsentInv'
<1>1. \A t \in Threads : ApprovedMatch(t, checkpoint[t])'
  BY ConsentParts DEF ApprovedMatch
<1>2. CASE Goto(w, node, s)
  <2> DEFINE j == Handed(job[w], s)
  <2>1. job[w] \in Job
    BY DEF TypeOK
  <2>2. j \in Job /\ j.thread = job[w].thread /\ j.state = s
    BY <2>1, HandedFields
  <2>3. Moved(w, node, j)
    BY <1>2, Moves
  <2> HIDE DEF j
  <2>4. TiedNext(node, j)
    BY <2>2 DEF TiedNext, Tied, ApprovedMatch
  <2> QED
    BY <1>1, <2>2, <2>3, <2>4, MovedConsent
<1>3. CASE Finish(w)
  BY <1>1, <1>3, FinishConsent
<1> QED
  BY <1>2, <1>3, Returns

(* The steps inside a gate call keep the state.                            *)
LEMMA CarryConsent ==
  ASSUME TypeOK, TypeOK', ConsentInv, UNCHANGED <<checkpoint, consent>>, GateConsent',
         NEW w \in Workers, NEW step \in Nodes, NEW r \in Row, NEW result \in Outcomes,
         Carry(w, step, r, result), step \in Drafting => pc[w] \in Drafting
  PROVE  ConsentInv'
<1> DEFINE j == Carried(job[w], r, result)
<1>1. job[w] \in Job /\ Tied(pc[w], job[w])
  BY ConsentParts DEF TypeOK
<1>2. j \in Job /\ j.thread = job[w].thread /\ j.state = job[w].state
  BY <1>1, CarriedFields
<1>3. Moved(w, step, j)
  BY Moves
<1>4. \A t \in Threads : ApprovedMatch(t, checkpoint[t])'
  BY ConsentParts DEF ApprovedMatch
<1> HIDE DEF j
<1>5. TiedNext(step, j)
  BY <1>1, <1>2 DEF TiedNext, Tied, ApprovedMatch
<1> QED
  BY <1>2, <1>3, <1>4, <1>5, MovedConsent

LEMMA GateConsentKept ==
  ASSUME ConsentInv, UNCHANGED <<issued, sent, consent>>
  PROVE  GateConsent'
BY DEF ConsentInv, ActsOnlyOnApproval, GateConsent

(* Approving adds the match of the checkpoint that is loaded.              *)
LEMMA ResumeConsent ==
  ASSUME ConsentInv, TypeOK, TypeOK', NEW w \in Workers, NEW t \in Threads,
         NEW flags \in Flags, Resume(w, t, flags)
  PROVE  ConsentInv'
<1> DEFINE c == checkpoint[t]
           s == Instructed(c, flags)
           r == Restarted(s)
           toBrowser == flags.token # None \/ (s.app # None /\ s.token # None)
           node == IF toBrowser THEN "browser"
                   ELSE IF r.labs = {} THEN "discovery"
                   ELSE IF r.approved THEN "drafter" ELSE "save"
           next == IF toBrowser THEN s ELSE IF r.labs = {} THEN r ELSE Hitl(r)
           token == IF flags.reject THEN None ELSE flags.token
           j == [NoJob EXCEPT !.thread = t, !.handed = token, !.state = next]
<1>1. c \in State /\ ApprovedMatch(t, c)
  BY DEF ConsentInv, TypeOK
<1>2. /\ s \in State /\ s.opp = c.opp /\ s.app = c.app
      /\ s.approved => c.approved \/ flags.approve \/ flags.token # None
  BY <1>1, InstructedFields
<1>3. /\ r \in State /\ r.opp = c.opp /\ r.app = c.app
      /\ r.approved => s.approved
  BY <1>2, RestartedFields
<1>4. /\ Hitl(r) \in State
      /\ Hitl(r).opp = c.opp /\ Hitl(r).app = c.app /\ Hitl(r).approved = r.approved
  BY <1>3, HitlFields
<1>5. /\ next \in State /\ next.opp = c.opp /\ next.app = c.app
      /\ next.approved => c.approved \/ flags.approve \/ flags.token # None
      /\ node = "drafter" => next.approved
      /\ node \in {"browser", "discovery", "drafter", "save"}
  <2> HIDE DEF s, r, c
  <2> QED
    BY <1>2, <1>3, <1>4
<1>6. /\ Moved(w, node, j)
      /\ consent' = IF flags.approve \/ flags.token # None
                    THEN [consent EXCEPT ![t] = @ \cup {c.opp}] ELSE consent
      /\ UNCHANGED <<checkpoint, issued, sent>>
  BY DEF Resume, gate, Moved
<1>7. /\ \A u \in Threads : consent[u] \subseteq consent'[u]
      /\ flags.approve \/ flags.token # None => c.opp \in consent'[t]
  BY <1>6 DEF ConsentInv, TypeOK
<1>8. j \in Job /\ j.thread = t /\ j.state = next
  <2>1. token \in Nonces \cup {None}
    BY DEF Flags
  <2> HIDE DEF next, token
  <2> QED
    BY <1>5, <2>1, NoJobFields DEF Job
<1> HIDE DEF c, next, node, j
<1>9. TiedNext(node, j)
  BY <1>1, <1>5, <1>7, <1>8 DEF TiedNext, Tied, Drafting, ApprovedMatch
<1>10. \A u \in Threads : ApprovedMatch(u, checkpoint[u])'
  BY <1>6, <1>7 DEF ConsentInv, ApprovedMatch
<1>11. GateConsent'
  BY <1>6, <1>7 DEF ConsentInv, ActsOnlyOnApproval, GateConsent
<1>12. node \in Nodes
  BY <1>5 DEF Nodes
<1> QED
  BY <1>6, <1>7, <1>8, <1>9, <1>10, <1>11, <1>12, MovedConsent

LEMMA ThinkingConsent ==
  ASSUME ConsentInv, TypeOK, TypeOK', NEW w \in Workers, Thinking(w)
  PROVE  ConsentInv'
<1> DEFINE s == job[w].state
<1>1. s \in State /\ Tied(pc[w], job[w])
  BY ConsentParts DEF TypeOK, Job
<1>2. PICK phase \in Phases : Return(w, "save", [s EXCEPT !.phase = phase])
  BY ThinkingReturns
<1>3. /\ [s EXCEPT !.phase = phase] \in State
      /\ job[w].thread \in Threads => ApprovedMatch(job[w].thread, [s EXCEPT !.phase = phase])
  BY <1>1 DEF State, ApprovedMatch, Tied
<1>4. UNCHANGED <<checkpoint, issued, sent, consent>>
  BY ThinkingReturns DEF gate
<1> QED
  BY <1>2, <1>3, <1>4, GateConsentKept, ReturnConsent DEF Nodes, Drafting

LEMMA DiscoveryConsent ==
  ASSUME ConsentInv, TypeOK, TypeOK', NEW w \in Workers, NEW found \in SUBSET Opps,
         NEW outcome \in {"completed", "failed"}, Discovery(w, found, outcome)
  PROVE  ConsentInv'
<1> DEFINE s == [job[w].state EXCEPT !.labs = known \cup found, !.phase = outcome,
                                     !.reject = FALSE]
           m == Matchmaker(s)
<1>1. s \in State /\ (job[w].thread \in Threads => ApprovedMatch(job[w].thread, s))
  <2>1. job[w].state \in State /\ Tied(pc[w], job[w])
    BY ConsentParts DEF TypeOK, Job
  <2>2. known \cup found \in SUBSET Opps /\ outcome \in Phases
    BY DEF TypeOK, Phases, Statuses
  <2>3. s \in State
    BY <2>1, <2>2 DEF State
  <2>4. s.approved = job[w].state.approved /\ s.opp = job[w].state.opp
        /\ s.app = job[w].state.app
    BY <2>1 DEF State
  <2> QED
    BY <2>1, <2>3, <2>4 DEF Tied, ApprovedMatch
<1>2. m \in State /\ ~m.approved /\ m.app = s.app
  BY <1>1, MatchmakerFields
<1>3. Hitl(m) \in State /\ ~Hitl(m).approved /\ Hitl(m).app = s.app
  BY <1>2, HitlFields
<1>4. job[w].thread \in Threads => ApprovedMatch(job[w].thread, Hitl(m))
  BY <1>1, <1>3 DEF ApprovedMatch
<1>5. Goto(w, "save", s) \/ Goto(w, "save", Hitl(m))
  <2>1. Goto(w, "save", s) \/ Supervise(w, m)
    BY DEF Discovery
  <2> HIDE DEF s
  <2> QED
    BY <1>2, <2>1 DEF Supervise
<1>6. UNCHANGED <<checkpoint, issued, sent, consent>>
  BY DEF Discovery, gate
<1> HIDE DEF s, m
<1> QED
  BY <1>1, <1>3, <1>4, <1>5, <1>6, GateConsentKept, ReturnConsent DEF Nodes, Drafting

LEMMA DraftConsent ==
  ASSUME ConsentInv, TypeOK, TypeOK', NEW w \in Workers, Drafts(w)
  PROVE  ConsentInv'
<1> DEFINE s == job[w].state
           failed == [s EXCEPT !.phase = "failed"]
<1>1. s \in State /\ Tied(pc[w], job[w]) /\ pc[w] \in Drafting
  BY ConsentParts, DraftMoves DEF TypeOK, Job, Drafting
<1>2. /\ failed \in State
      /\ job[w].thread \in Threads => ApprovedMatch(job[w].thread, failed)
  BY <1>1 DEF State, Phases, Tied, ApprovedMatch
<1>3. UNCHANGED <<checkpoint, issued, sent, consent>>
  BY DraftMoves DEF gate
<1>4. GateConsent' /\ \A t \in Threads : ApprovedMatch(t, checkpoint[t])'
  BY <1>3, GateConsentKept, ConsentParts DEF ApprovedMatch
<1>5. CASE Finish(w)
  BY <1>3, <1>4, <1>5, FinishConsent
<1>6. CASE Goto(w, "save", failed)
  <2> HIDE DEF failed
  <2> QED
    BY <1>2, <1>3, <1>4, <1>6, ReturnConsent DEF Nodes, Drafting
<1>7. ASSUME NEW node \in {"writing", "written", "requesting"}, Goto(w, node, s)
      PROVE  ConsentInv'
  BY <1>1, <1>3, <1>4, <1>7, ReturnConsent DEF Nodes, Tied
<1> QED
  BY <1>5, <1>6, <1>7, DraftMoves

LEMMA ReadsBackConsent ==
  ASSUME ConsentInv, TypeOK, TypeOK', NEW w \in Workers, BrowserReadsBack(w)
  PROVE  ConsentInv'
<1> DEFINE s == job[w].state
           next == [s EXCEPT !.token = None, !.phase = row[s.app].status]
<1>1. s \in State /\ s.app \in Opps /\ Tied(pc[w], job[w])
  BY ConsentParts DEF TypeOK, Job, State, BrowserReadsBack, Holds
<1>2. row[s.app].status \in Phases
  BY <1>1 DEF TypeOK, Row, Phases
<1>3. /\ next \in State
      /\ job[w].thread \in Threads => ApprovedMatch(job[w].thread, next)
  BY <1>1, <1>2 DEF State, Tied, ApprovedMatch
<1>4. Goto(w, "save", next) /\ UNCHANGED <<checkpoint, issued, sent, consent>>
  BY DEF BrowserReadsBack, gate
<1> HIDE DEF next
<1> QED
  BY <1>3, <1>4, GateConsentKept, ReturnConsent DEF Nodes, Drafting

(* Saving hands the worker's state to the thread it was loaded from.       *)
LEMMA EndConsent ==
  ASSUME ConsentInv, TypeOK, TypeOK', NEW w \in Workers, Save(w) \/ Abort(w)
  PROVE  ConsentInv'
<1>1. UNCHANGED <<issued, sent, consent>> /\ Finish(w)
  BY DEF Save, Abort, gate
<1>2. \A t \in Threads : checkpoint'[t] = checkpoint[t]
                           \/ (t = job[w].thread /\ checkpoint'[t] = job[w].state)
  BY DEF Save, Abort, TypeOK
<1>3. Tied(pc[w], job[w])
  BY ConsentParts
<1>4. \A t \in Threads : ApprovedMatch(t, checkpoint[t])'
  BY <1>1, <1>2, <1>3 DEF ConsentInv, Tied, ApprovedMatch
<1> QED
  BY <1>1, <1>4, GateConsentKept, FinishConsent

LEMMA CallsConsent ==
  ASSUME ConsentInv, TypeOK, TypeOK', NEW w \in Workers, Calls(w)
  PROVE  ConsentInv'
<1>1. PICK step, s, r : Dashboard(w, step, s, r)
  BY DEF Calls, DashboardRequest, DashboardRejects, DashboardApproves
<1> DEFINE j == [NoJob EXCEPT !.thread = "dashboard", !.state = s, !.row = r]
<1>2. Moved(w, step, j) /\ UNCHANGED <<checkpoint, issued, sent, consent>>
  BY <1>1, Moves DEF Dashboard, gate
<1>3. j.thread = "dashboard"
  BY NoJobFields DEF Job
<1>4. step \in Nodes /\ j \in Job
  <2>1. pc'[w] = step /\ job'[w] = j
    BY <1>2 DEF Moved, TypeOK
  <2> HIDE DEF j
  <2> QED
    BY <2>1 DEF TypeOK
<1> HIDE DEF j
<1>5. Tied(step, j)
  BY <1>3, PipelineAssumption DEF Tied
<1> QED
  BY <1>2, <1>4, <1>5, QuietConsent

(* The draft that is issued for is the match that was approved.            *)
LEMMA RequestCommitConsent ==
  ASSUME ConsentInv, TypeOK, TypeOK', NEW w \in Workers, RequestCommit(w)
  PROVE  ConsentInv'
<1> DEFINE s == job[w].state
           t == job[w].thread
           drafted == [s EXCEPT !.app = s.opp, !.token = NextNonce,
                                !.phase = "drafted_awaiting_hmac"]
           new == [nonce |-> NextNonce, app |-> s.opp, by |-> t]
<1>1. s \in State /\ s.opp # None /\ Tied(pc[w], job[w]) /\ pc[w] = "issuing"
  BY ConsentParts DEF TypeOK, Job, RequestCommit, Holds
<1>2. s.opp \in Opps /\ (t \in Threads => s.opp \in consent[t])
  BY <1>1 DEF State, Tied, Drafting, ApprovedMatch
<1>3. NextNonce \in Nonces
  BY RequestCommitType
<1>4. drafted \in State /\ drafted.app = s.opp /\ drafted.opp = s.opp
  BY <1>1, <1>2, <1>3 DEF State, Phases
<1>5. /\ issued' = issued \cup {new} /\ UNCHANGED <<checkpoint, sent, consent>>
      /\ Return(w, "critic", drafted)
  BY DEF RequestCommit
<1>6. new.app = s.opp /\ new.by = t
  OBVIOUS
<1> HIDE DEF drafted, new
<1>7. t \in Threads => ApprovedMatch(t, drafted)
  BY <1>2, <1>4 DEF ApprovedMatch
<1>8. GateConsent'
  BY <1>2, <1>5, <1>6 DEF ConsentInv, ActsOnlyOnApproval, GateConsent
<1> QED
  BY <1>4, <1>5, <1>7, <1>8, ReturnConsent DEF Nodes, Drafting

LEMMA SendConsent ==
  ASSUME ConsentInv, TypeOK, TypeOK', NEW w \in Workers, NEW result \in Outcomes,
         Send(w, result)
  PROVE  ConsentInv'
<1> DEFINE s == job[w].state
           t == job[w].thread
           new == [nonce |-> s.token, app |-> s.app, by |-> t, handed |-> job[w].handed,
                   result |-> result]
<1>1. s.app # None /\ Tied(pc[w], job[w]) /\ job[w].row \in Row
  BY ConsentParts DEF TypeOK, Job, Send, Holds
<1>2. /\ sent' = sent \/ sent' = sent \cup {new}
      /\ Carry(w, "sent", job[w].row, result) /\ UNCHANGED <<checkpoint, issued, consent>>
  BY DEF Send
<1>3. new.app = s.app /\ new.by = t /\ (t \in Threads => s.app \in consent[t])
  BY <1>1 DEF Tied, ApprovedMatch
<1> HIDE DEF new
<1>4. GateConsent'
  BY <1>2, <1>3 DEF ConsentInv, ActsOnlyOnApproval, GateConsent
<1> QED
  BY <1>1, <1>2, <1>4, CarryConsent DEF Nodes, Drafting

(* The other steps of a gate call.                                         *)
LEMMA GateCallConsent ==
  ASSUME ConsentInv, TypeOK, TypeOK', NEW w \in Workers,
         RequestRead(w) \/ RejectCommit(w) \/ ApproveRead(w) \/ ApproveCommit(w)
  PROVE  ConsentInv'
<1> DEFINE s == job[w].state
           failed == [s EXCEPT !.phase = "failed"]
<1>1. s \in State /\ Tied(pc[w], job[w])
  BY ConsentParts DEF TypeOK, Job
<1>2. UNCHANGED <<checkpoint, issued, sent, consent>>
  BY DEF RequestRead, RejectCommit, ApproveRead, ApproveCommit, gate
<1>3. GateConsent' /\ \A t \in Threads : ApprovedMatch(t, checkpoint[t])'
  BY <1>2, GateConsentKept, ConsentParts DEF ApprovedMatch
<1>4. CASE RequestRead(w)
  <2>1. Carry(w, "issuing", row[s.opp], "refused") /\ pc[w] \in Drafting
    BY <1>4 DEF RequestRead, Drafting
  <2>2. row[s.opp] \in Row
    BY <1>1, <1>4 DEF RequestRead, TypeOK, State, Holds
  <2> QED
    BY <1>2, <1>3, <2>1, <2>2, CarryConsent DEF Nodes, Outcomes
<1>5. CASE RejectCommit(w)
  BY <1>2, <1>3, <1>5, FinishConsent DEF RejectCommit
<1>6. CASE ApproveRead(w)
  <2>1. Carry(w, "sending", row[s.app], "refused")
    BY <1>6 DEF ApproveRead
  <2>2. row[s.app] \in Row
    BY <1>1, <1>6 DEF ApproveRead, TypeOK, State
  <2> QED
    BY <1>2, <1>3, <2>1, <2>2, CarryConsent DEF Nodes, Outcomes, Drafting
<1>7. CASE ApproveCommit(w)
  <2>1. Return(w, "concluded", s) \/ Return(w, "save", failed)
    BY <1>7 DEF ApproveCommit
  <2>2. /\ failed \in State
        /\ job[w].thread \in Threads =>
             ApprovedMatch(job[w].thread, s) /\ ApprovedMatch(job[w].thread, failed)
    BY <1>1 DEF State, Phases, Tied, ApprovedMatch
  <2> HIDE DEF failed
  <2> QED
    BY <1>1, <1>2, <1>3, <2>1, <2>2, ReturnConsent DEF Nodes, Drafting
<1> QED
  BY <1>4, <1>5, <1>6, <1>7

LEMMA IdleConsent == ConsentInv /\ TypeOK' /\ Idle => ConsentInv'
<1> SUFFICES ASSUME ConsentInv, TypeOK', Idle PROVE ConsentInv'
  OBVIOUS
<1>1. UNCHANGED <<checkpoint, issued, sent, consent, pc, job>>
  BY IdleKeeps
<1> QED
  BY <1>1 DEF ConsentInv, ActsOnlyOnApproval, ApprovedMatch

LEMMA ConsentInit == Init => ConsentInv
BY PipelineInitType, NoJobFields, PipelineAssumption
DEF Init, ConsentInv, ActsOnlyOnApproval, ApprovedMatch, EmptyState

LEMMA ConsentNext == ConsentInv /\ [Next]_vars => ConsentInv'
<1> SUFFICES ASSUME ConsentInv, [Next]_vars PROVE ConsentInv'
  OBVIOUS
<1>1. TypeOK /\ TypeOK'
  BY PipelineNextType DEF ConsentInv
<1> QED
  BY <1>1, Steps, ResumeConsent, ThinkingConsent, DraftConsent, ReadsBackConsent, EndConsent,
     DiscoveryConsent, CallsConsent, RequestCommitConsent, SendConsent, GateCallConsent,
     IdleConsent

(* No thread drafts, asks approval for or submits a vacancy that a human   *)
(* has not approved in that thread, however its requests overlap.          *)
THEOREM ThreadsActOnlyOnApproval == Spec => []ActsOnlyOnApproval
<1>1. ConsentInv => ActsOnlyOnApproval
  BY DEF ConsentInv
<1> QED
  BY ConsentInit, ConsentNext, <1>1, PTL DEF Spec

-----------------------------------------------------------------------------
(* What is saved as submitted was sent *)

(* What SubmissionInv asks of a state, and of one job.                     *)
SentState(s) == s.phase = "submitted" => WasSent(s.app)
SentJob(node, j) ==
  /\ node = "sent" /\ j.result = "ok" => WasSent(j.state.app)
  /\ SentState(j.state)

SentRows == \A o \in Opps : row[o].status = "submitted" => WasSent(o)

LEMMA SubmissionParts ==
  SubmissionInv <=> /\ TypeOK /\ SentRows
                    /\ \A t \in Threads : SentState(checkpoint[t])
                    /\ \A w \in Workers : SentJob(pc[w], job[w])
BY DEF SubmissionInv, SavedSubmissionsWereSent, SentRows, SentState, SentJob

(* The outbox only grows, so a step of one worker disturbs no other.       *)
LEMMA MovedSubmission ==
  ASSUME SubmissionInv, TypeOK', sent \subseteq sent', SentRows',
         \A t \in Threads : SentState(checkpoint[t])',
         NEW w \in Workers, NEW node, NEW j, Moved(w, node, j),
         j.state.phase = "submitted" => \E e \in sent' : e.app = j.state.app /\ e.result = "ok",
         node = "sent" /\ j.result = "ok" =>
           \E e \in sent' : e.app = j.state.app /\ e.result = "ok"
  PROVE  SubmissionInv'
<1>1. /\ pc'[w] = node /\ job'[w] = j
      /\ \A v \in Workers \ {w} : pc'[v] = pc[v] /\ job'[v] = job[v]
  BY DEF SubmissionInv, TypeOK, Moved
<1>2. ASSUME NEW v \in Workers PROVE SentJob(pc[v], job[v])'
  <2>1. CASE v = w
    BY <1>1, <2>1 DEF SentJob, SentState, WasSent
  <2>2. CASE v # w
    <3>1. SentJob(pc[v], job[v])
      BY SubmissionParts
    <3>2. pc'[v] = pc[v] /\ job'[v] = job[v]
      BY <1>1, <2>2
    <3> QED
      BY <3>1, <3>2 DEF SentJob, SentState, WasSent
  <2> QED
    BY <2>1, <2>2
<1> QED
  BY <1>2 DEF SubmissionInv, SavedSubmissionsWereSent, SentRows, SentState, SentJob

(* Where rows, checkpoints and outbox stay as they are, only the new job   *)
(* matters.                                                                *)
LEMMA QuietSubmission ==
  ASSUME SubmissionInv, TypeOK', UNCHANGED <<checkpoint, row, sent>>,
         NEW w \in Workers, NEW node, NEW j, Moved(w, node, j),
         SentState(j.state), node = "sent" /\ j.result = "ok" => WasSent(j.state.app)
  PROVE  SubmissionInv'
<1>1. SentRows' /\ \A t \in Threads : SentState(checkpoint[t])'
  BY SubmissionParts DEF SentRows, SentState, WasSent
<1> QED
  BY <1>1, MovedSubmission DEF SentState, WasSent

LEMMA HandOnSubmission ==
  ASSUME SubmissionInv, TypeOK', UNCHANGED <<checkpoint, row, sent>>,
         NEW w \in Workers, NEW node \in Nodes \ {"sent"}, NEW s \in State,
         Return(w, node, s) \/ Goto(w, node, s) \/ Finish(w), SentState(s)
  PROVE  SubmissionInv'
<1>1. CASE Goto(w, node, s)
  <2> DEFINE j == Handed(job[w], s)
  <2>1. job[w] \in Job
    BY DEF SubmissionInv, TypeOK
  <2>2. Moved(w, node, j) /\ j.state = s
    BY <1>1, <2>1, Moves, HandedFields
  <2> HIDE DEF j
  <2> QED
    BY <2>2, QuietSubmission
<1>2. CASE Finish(w)
  <2>1. Moved(w, "idle", NoJob) /\ SentState(NoJob.state)
    BY <1>2, Moves, NoJobFields, EmptyStateType DEF SentState
  <2> QED
    BY <2>1, QuietSubmission
<1> QED
  BY <1>1, <1>2, Returns

(* A commit makes a row submitted only if its handler does.                *)
LEMMA CommitRows ==
  ASSUME SubmissionInv, sent \subseteq sent', NEW o \in Opps, NEW loaded \in Row, NEW new \in Row,
         Commit(o, loaded, new), new.status = "submitted" => WasSent(o)
  PROVE  SentRows'
<1> SUFFICES ASSUME NEW p \in Opps, row'[p].status = "submitted"
             PROVE  \E e \in sent : e.app = p /\ e.result = "ok"
  BY DEF SentRows, WasSent
<1>1. row' = [row EXCEPT ![o] = WriteBack(row[o], loaded, new)]
  BY DEF Commit
<1>2. WriteBack(row[o], loaded, new).status \in {row[o].status, new.status}
  BY DEF WriteBack, Column
<1>3. p # o => row'[p] = row[p]
  BY <1>1 DEF SubmissionInv, TypeOK
<1>4. p = o => row'[p] = WriteBack(row[o], loaded, new)
  BY <1>1 DEF SubmissionInv, TypeOK
<1>5. row[p].status = "submitted" => WasSent(p)
  BY SubmissionParts DEF SentRows
<1> QED
  BY <1>2, <1>3, <1>4, <1>5 DEF WasSent

LEMMA ResumeSubmission ==
  ASSUME SubmissionInv, TypeOK', NEW w \in Workers, NEW t \in Threads, NEW flags \in Flags,
         Resume(w, t, flags)
  PROVE  SubmissionInv'
<1> DEFINE c == checkpoint[t]
           s == Instructed(c, flags)
           r == Restarted(s)
           toBrowser == flags.token # None \/ (s.app # None /\ s.token # None)
           node == IF toBrowser THEN "browser"
                   ELSE IF r.labs = {} THEN "discovery"
                   ELSE IF r.approved THEN "drafter" ELSE "save"
           next == IF toBrowser THEN s ELSE IF r.labs = {} THEN r ELSE Hitl(r)
           token == IF flags.reject THEN None ELSE flags.token
           j == [NoJob EXCEPT !.thread = t, !.handed = token, !.state = next]
<1>1. c \in State /\ SentState(c)
  BY SubmissionParts DEF TypeOK
<1>2. s \in State /\ s.app = c.app /\ s.phase \in {c.phase, "rejected_to_discovery"}
  BY <1>1, InstructedFields
<1>3. r \in State /\ r.app = c.app /\ r.phase = s.phase
  BY <1>2, RestartedFields
<1>4. Hitl(r).phase # "submitted"
  BY <1>3, HitlFields
<1>5. SentState(next) /\ node # "sent"
  <2> HIDE DEF s, r, c
  <2> QED
    BY <1>1, <1>2, <1>3, <1>4 DEF SentState
<1>6. Moved(w, node, j) /\ UNCHANGED <<checkpoint, row, sent>>
  BY DEF Resume, gate, Moved
<1>7. j.state = next
  <2> HIDE DEF next, token
  <2> QED
    BY NoJobFields DEF Job
<1> HIDE DEF j, node, next
<1> QED
  BY <1>5, <1>6, <1>7, QuietSubmission

LEMMA ThinkingSubmission ==
  ASSUME SubmissionInv, TypeOK', NEW w \in Workers, Thinking(w)
  PROVE  SubmissionInv'
<1> DEFINE s == job[w].state
<1>1. TypeOK /\ s \in State
  BY DEF SubmissionInv, TypeOK, Job
<1>2. PICK phase \in Phases \ {"submitted"} : Return(w, "save", [s EXCEPT !.phase = phase])
  BY <1>1, ThinkingReturns
<1>3. [s EXCEPT !.phase = phase] \in State /\ SentState([s EXCEPT !.phase = phase])
  BY <1>1 DEF State, SentState
<1>4. UNCHANGED <<checkpoint, row, sent>>
  BY <1>1, ThinkingReturns DEF gate
<1> QED
  BY <1>2, <1>3, <1>4, HandOnSubmission DEF Nodes

LEMMA DiscoverySubmission ==
  ASSUME SubmissionInv, TypeOK', NEW w \in Workers, NEW found \in SUBSET Opps,
         NEW outcome \in {"completed", "failed"}, Discovery(w, found, outcome)
  PROVE  SubmissionInv'
<1> DEFINE s == [job[w].state EXCEPT !.labs = known \cup found, !.phase = outcome,
                                     !.reject = FALSE]
           m == Matchmaker(s)
<1>1. s \in State /\ s.phase # "submitted"
  <2>1. /\ job[w].state \in State /\ known \cup found \in SUBSET Opps /\ outcome \in Phases
    BY DEF SubmissionInv, TypeOK, Job, Phases, Statuses
  <2> QED
    BY <2>1 DEF State
<1>2. m \in State
  BY <1>1, MatchmakerFields
<1>3. Hitl(m) \in State /\ Hitl(m).phase # "submitted"
  BY <1>2, HitlFields
<1>4. Goto(w, "save", s) \/ Goto(w, "save", Hitl(m)) \/ Goto(w, "drafter", Hitl(m))
  BY DEF Discovery, Supervise
<1>5. UNCHANGED <<checkpoint, row, sent>>
  BY DEF Discovery, gate
<1> HIDE DEF s, m
<1>6. SentState(s) /\ SentState(Hitl(m))
  BY <1>1, <1>3 DEF SentState
<1> QED
  BY <1>1, <1>3, <1>4, <1>5, <1>6, HandOnSubmission DEF Nodes

LEMMA DraftSubmission ==
  ASSUME SubmissionInv, TypeOK', NEW w \in Workers, Drafts(w)
  PROVE  SubmissionInv'
<1> DEFINE s == job[w].state
           failed == [s EXCEPT !.phase = "failed"]
<1>1. s \in State /\ SentState(s)
  BY SubmissionParts DEF TypeOK, Job, SentJob
<1>2. failed \in State /\ SentState(failed)
  BY <1>1 DEF State, Phases, SentState
<1>3. UNCHANGED <<checkpoint, row, sent>>
  BY DraftMoves DEF gate
<1> HIDE DEF failed
<1> QED
  BY <1>1, <1>2, <1>3, DraftMoves, HandOnSubmission DEF Nodes, failed

(* The phase read back is the row's, whoever wrote it.                     *)
LEMMA ReadsBackSubmission ==
  ASSUME SubmissionInv, TypeOK', NEW w \in Workers, BrowserReadsBack(w)
  PROVE  SubmissionInv'
<1> DEFINE s == job[w].state
           next == [s EXCEPT !.token = None, !.phase = row[s.app].status]
<1>1. s \in State /\ s.app \in Opps /\ row[s.app].status \in Phases
  BY DEF SubmissionInv, TypeOK, Job, State, BrowserReadsBack, Holds, Row, Phases
<1>2. next \in State /\ SentState(next)
  BY <1>1, SubmissionParts DEF State, SentState, SentRows
<1>3. Goto(w, "save", next) /\ UNCHANGED <<checkpoint, row, sent>>
  BY DEF BrowserReadsBack, gate
<1> HIDE DEF next
<1> QED
  BY <1>2, <1>3, HandOnSubmission DEF Nodes

LEMMA EndSubmission ==
  ASSUME SubmissionInv, TypeOK', NEW w \in Workers, Save(w) \/ Abort(w)
  PROVE  SubmissionInv'
<1>1. UNCHANGED <<row, sent>> /\ Finish(w)
  BY DEF Save, Abort, gate
<1>2. \A t \in Threads : checkpoint'[t] \in {checkpoint[t], job[w].state}
  BY DEF Save, Abort, SubmissionInv, TypeOK
<1>3. SentState(job[w].state) /\ SentRows
  BY SubmissionParts DEF SentJob
<1>4. SentRows' /\ \A t \in Threads : SentState(checkpoint[t])'
  BY <1>1, <1>2, <1>3, SubmissionParts DEF SentRows, SentState, WasSent
<1>5. Moved(w, "idle", NoJob) /\ NoJob.state.phase # "submitted"
  BY <1>1, Moves, NoJobFields, EmptyStateType
<1> QED
  BY <1>1, <1>4, <1>5, MovedSubmission

LEMMA CallsSubmission ==
  ASSUME SubmissionInv, TypeOK', NEW w \in Workers, Calls(w)
  PROVE  SubmissionInv'
<1> DEFINE Called == \E step, s, r : /\ Dashboard(w, step, s, r)
                                     /\ step # "sent" /\ s.phase # "submitted"
<1>1. PICK step, s, r : /\ Dashboard(w, step, s, r)
                        /\ step # "sent" /\ s.phase # "submitted"
  <2>1. ASSUME NEW o \in Opps, DashboardRequest(w, o) PROVE Called
    <3> DEFINE s == [EmptyState EXCEPT !.opp = o]
    <3>1. Dashboard(w, "requesting", s, NewRow) /\ s.phase # "submitted"
      BY <2>1, EmptyStateType DEF DashboardRequest, State
    <3> HIDE DEF s
    <3> QED
      BY <3>1
  <2>2. ASSUME NEW o \in Opps, DashboardRejects(w, o) PROVE Called
    <3> DEFINE s == [EmptyState EXCEPT !.app = o]
    <3>1. Dashboard(w, "rejecting", s, row[o]) /\ s.phase # "submitted"
      BY <2>2, EmptyStateType DEF DashboardRejects, State
    <3> HIDE DEF s
    <3> QED
      BY <3>1
  <2>3. ASSUME NEW i \in issued, DashboardApproves(w, i) PROVE Called
    <3> DEFINE s == [EmptyState EXCEPT !.app = i.app, !.token = i.nonce]
    <3>1. Dashboard(w, "browser", s, NewRow) /\ s.phase # "submitted"
      BY <2>3, EmptyStateType DEF DashboardApproves, State
    <3> HIDE DEF s
    <3> QED
      BY <3>1
  <2> QED
    BY <2>1, <2>2, <2>3 DEF Calls
<1> DEFINE j == [NoJob EXCEPT !.thread = "dashboard", !.state = s, !.row = r]
<1>2. Moved(w, step, j) /\ UNCHANGED <<checkpoint, row, sent>>
  BY <1>1, Moves DEF Dashboard, gate
<1>3. j.state = s
  BY NoJobFields DEF Job
<1> HIDE DEF j
<1> QED
  BY <1>1, <1>2, <1>3, QuietSubmission DEF SentState

LEMMA SendSubmission ==
  ASSUME SubmissionInv, TypeOK', NEW w \in Workers, NEW result \in Outcomes,
         Send(w, result)
  PROVE  SubmissionInv'
<1> DEFINE s == job[w].state
           new == [nonce |-> s.token, app |-> s.app, by |-> job[w].thread,
                   handed |-> job[w].handed, result |-> result]
           j == Carried(job[w], job[w].row, result)
<1>1. job[w] \in Job /\ job[w].row \in Row /\ SentState(s)
  BY SubmissionParts DEF TypeOK, Job, SentJob
<1>2. Moved(w, "sent", j) /\ j.state = s /\ j.result = result
  <2>1. Carry(w, "sent", job[w].row, result)
    BY DEF Send
  <2> QED
    BY <1>1, <2>1, Moves, CarriedFields
<1>3. /\ sent \subseteq sent' /\ UNCHANGED <<checkpoint, row>>
      /\ result = "ok" => new \in sent'
      /\ new.app = s.app /\ new.result = result
  BY DEF Send
<1>4. SentRows' /\ \A t \in Threads : SentState(checkpoint[t])'
  BY <1>3, SubmissionParts DEF SentRows, SentState, WasSent
<1> HIDE DEF j, new
<1>5. s.phase = "submitted" => \E e \in sent' : e.app = s.app /\ e.result = "ok"
  BY <1>1, <1>3 DEF SentState, WasSent
<1>6. result = "ok" => \E e \in sent' : e.app = s.app /\ e.result = "ok"
  BY <1>3
<1> QED
  BY <1>2, <1>3, <1>4, <1>5, <1>6, MovedSubmission

(* The reads of a gate call keep the state.                                *)
LEMMA ReadSubmission ==
  ASSUME SubmissionInv, TypeOK', NEW w \in Workers, RequestRead(w) \/ ApproveRead(w)
  PROVE  SubmissionInv'
<1>1. PICK step \in {"issuing", "sending"}, r \in Row : Carry(w, step, r, "refused")
  <2>1. CASE RequestRead(w)
    <3>1. row[job[w].state.opp] \in Row
      BY <2>1 DEF RequestRead, SubmissionInv, TypeOK, Job, State, Holds
    <3> QED
      BY <2>1, <3>1 DEF RequestRead
  <2>2. CASE ApproveRead(w)
    <3>1. row[job[w].state.app] \in Row
      BY <2>2 DEF ApproveRead, SubmissionInv, TypeOK, Job, State
    <3> QED
      BY <2>2, <3>1 DEF ApproveRead
  <2> QED
    BY <2>1, <2>2
<1> DEFINE j == Carried(job[w], r, "refused")
<1>2. job[w] \in Job /\ SentState(job[w].state) /\ "refused" \in Outcomes
  BY SubmissionParts DEF TypeOK, SentJob, Outcomes
<1>3. Moved(w, step, j)
  BY <1>1, Moves
<1>4. j.state = job[w].state
  BY <1>2, CarriedFields
<1>5. UNCHANGED <<checkpoint, row, sent>>
  BY DEF RequestRead, ApproveRead, gate
<1> HIDE DEF j
<1> QED
  BY <1>2, <1>3, <1>4, <1>5, QuietSubmission

(* The commits of a gate call.                                             *)
LEMMA GateCommitSubmission ==
  ASSUME SubmissionInv, TypeOK', NEW w \in Workers,
         RequestCommit(w) \/ RejectCommit(w) \/ ApproveCommit(w)
  PROVE  SubmissionInv'
<1> DEFINE s == job[w].state
           drafted == [s EXCEPT !.app = s.opp, !.token = NextNonce,
                                !.phase = "drafted_awaiting_hmac"]
           failed == [s EXCEPT !.phase = "failed"]
<1>1. TypeOK /\ s \in State /\ job[w] \in Job /\ job[w].row \in Row /\ SentJob(pc[w], job[w])
  BY SubmissionParts DEF TypeOK, Job
<1>2. UNCHANGED <<checkpoint, sent>>
  BY DEF RequestCommit, RejectCommit, ApproveCommit
<1>3. SentRows'
  <2>1. CASE RequestCommit(w)
    <3>1. s.opp \in Opps /\ NextNonce \in Nonces
      BY <1>1, <2>1, RequestCommitType DEF TypeOK, RequestCommit, Holds, State
    <3>2. Requested(NextNonce).status # "submitted" /\ Requested(NextNonce) \in Row
      BY <3>1, AssignedType DEF Requested
    <3>3. Commit(s.opp, job[w].row, Requested(NextNonce))
      BY <2>1 DEF RequestCommit
    <3> QED
      BY <1>1, <1>2, <3>1, <3>2, <3>3, CommitRows
  <2>2. CASE RejectCommit(w)
    <3> DEFINE new == [status |-> "rejected", live |-> None, used |-> TRUE]
    <3>1. s.app \in Opps /\ new \in Row /\ new.status # "submitted"
      BY <1>1, <2>2, AssignedType DEF TypeOK, RejectCommit, Holds, State
    <3>2. Commit(s.app, job[w].row, new)
      BY <2>2 DEF RejectCommit
    <3> HIDE DEF new
    <3> QED
      BY <1>1, <1>2, <3>1, <3>2, CommitRows
  <2>3. CASE ApproveCommit(w)
    <3> DEFINE ok == job[w].result = "ok"
    <3>1. s.app \in Opps /\ Concluded(ok) \in Row
      BY <1>1, <2>3, AssignedType DEF TypeOK, ApproveCommit, Holds, State
    <3>2. Concluded(ok).status = "submitted" => WasSent(s.app)
      BY <1>1, <2>3 DEF Concluded, SentJob, ApproveCommit
    <3>3. Commit(s.app, job[w].row, Concluded(ok))
      BY <2>3 DEF ApproveCommit
    <3> HIDE DEF ok
    <3> QED
      BY <1>1, <1>2, <3>1, <3>2, <3>3, CommitRows
  <2> QED
    BY <2>1, <2>2, <2>3
<1>4. \A t \in Threads : SentState(checkpoint[t])'
  BY <1>2, SubmissionParts DEF SentState, WasSent
<1>5. \/ Finish(w)
      \/ \E node \in {"critic", "concluded", "save"}, next \in {drafted, s, failed} :
           Goto(w, node, next)
  BY Returns DEF RequestCommit, RejectCommit, ApproveCommit
<1>6. CASE Finish(w)
  <2>1. Moved(w, "idle", NoJob) /\ NoJob.state.phase # "submitted"
    BY <1>6, Moves, NoJobFields, EmptyStateType
  <2> QED
    BY <1>2, <1>3, <1>4, <2>1, MovedSubmission
<1>7. ASSUME NEW node \in {"critic", "concluded", "save"}, NEW next \in {drafted, s, failed},
             Goto(w, node, next)
      PROVE  SubmissionInv'
  <2> DEFINE j == Handed(job[w], next)
  <2>1. Moved(w, node, j) /\ j = [job[w] EXCEPT !.state = next, !.row = NewRow, !.result = "refused"]
    BY <1>7, Moves DEF Handed
  <2>2. j.state = next
    <3> HIDE DEF drafted, failed
    <3> QED
      BY <1>1 DEF Handed, Job
  <2>3. next.phase = "submitted" => \E e \in sent' : e.app = next.app /\ e.result = "ok"
    <3>1. drafted.phase # "submitted" /\ failed.phase # "submitted" /\ SentState(s)
      BY <1>1 DEF State, SentJob
    <3> HIDE DEF drafted, failed
    <3> QED
      BY <1>2, <1>7, <3>1 DEF SentState, WasSent
  <2> HIDE DEF j, drafted, failed
  <2> QED
    BY <1>2, <1>3, <1>4, <2>1, <2>2, <2>3, MovedSubmission
<1> QED
  BY <1>5, <1>6, <1>7

LEMMA IdleSubmission == SubmissionInv /\ TypeOK' /\ Idle => SubmissionInv'
<1> SUFFICES ASSUME SubmissionInv, TypeOK', Idle PROVE SubmissionInv'
  OBVIOUS
<1>1. UNCHANGED <<checkpoint, row, sent, pc, job>>
  BY IdleKeeps
<1> QED
  BY <1>1 DEF SubmissionInv, SavedSubmissionsWereSent, WasSent

LEMMA SubmissionInit == Init => SubmissionInv
<1> SUFFICES ASSUME Init PROVE SubmissionInv
  OBVIOUS
<1>1. TypeOK /\ EmptyState.phase # "submitted" /\ NewRow.status # "submitted"
  BY PipelineInitType, EmptyStateType DEF NewRow
<1> QED
  BY <1>1, NoJobFields DEF Init, SubmissionInv, SavedSubmissionsWereSent

LEMMA SubmissionNext == SubmissionInv /\ [Next]_vars => SubmissionInv'
<1> SUFFICES ASSUME SubmissionInv, [Next]_vars PROVE SubmissionInv'
  OBVIOUS
<1>1. TypeOK /\ TypeOK'
  BY PipelineNextType DEF SubmissionInv
<1> QED
  BY <1>1, Steps, ResumeSubmission, ThinkingSubmission, DraftSubmission, ReadsBackSubmission,
     EndSubmission, DiscoverySubmission, CallsSubmission, ReadSubmission, SendSubmission,
     GateCommitSubmission, IdleSubmission

(* Whatever sessions overlap and whichever of them dies, "submitted" in a  *)
(* row or in a checkpoint means that an adapter sent that application.     *)
THEOREM SavedMeansSent == Spec => []SavedSubmissionsWereSent
<1>1. SubmissionInv => SavedSubmissionsWereSent
  BY DEF SubmissionInv
<1> QED
  BY SubmissionInit, SubmissionNext, <1>1, PTL DEF Spec

-----------------------------------------------------------------------------
(* A token the gate refuses is refused for ever *)

(* A row holds only nonces that were issued, and so does every copy of it. *)
Seen(n) == n = None \/ \E i \in issued : i.nonce = n
LiveIsIssued ==
  /\ \A o \in Opps : Seen(row[o].live)
  /\ \A w \in Workers : Seen(job[w].row.live)

(* What a step leaves of the copy of the row that a worker has.            *)
Copied(w) ==
  \/ job'[w].row \in {NewRow, job[w].row}
  \/ \E o \in Opps : job'[w].row = row[o]

LEMMA MovesCopy ==
  ASSUME TypeOK, NEW w \in Workers
  PROVE  /\ \A node, j : Moved(w, node, j) =>
              job'[w] = j /\ \A v \in Workers \ {w} : job'[v] = job[v]
         /\ \A node, s : Goto(w, node, s) \/ Return(w, node, s) \/ Finish(w) =>
              job'[w].row = NewRow /\ \A v \in Workers \ {w} : job'[v] = job[v]
         /\ \A step, r, result : Carry(w, step, r, result) =>
              job'[w].row = r /\ \A v \in Workers \ {w} : job'[v] = job[v]
<1>1. job \in [Workers -> Job] /\ job[w] \in Job
  BY DEF TypeOK
<1>2. ASSUME NEW node, NEW j, Moved(w, node, j)
      PROVE  job'[w] = j /\ \A v \in Workers \ {w} : job'[v] = job[v]
  BY <1>1, <1>2 DEF Moved
<1>3. ASSUME NEW s PROVE Handed(job[w], s).row = NewRow
  BY <1>1 DEF Handed, Job
<1>4. ASSUME NEW r, NEW result PROVE Carried(job[w], r, result).row = r
  BY <1>1 DEF Carried, Job
<1>5. ASSUME NEW node, NEW s, Goto(w, node, s) \/ Return(w, node, s) \/ Finish(w)
      PROVE  job'[w].row = NewRow /\ \A v \in Workers \ {w} : job'[v] = job[v]
  <2>1. CASE Goto(w, node, s)
    BY <1>2, <1>3, <2>1, Moves
  <2>2. CASE Finish(w)
    BY <1>2, <2>2, Moves, NoJobFields
  <2> QED
    BY <1>5, <2>1, <2>2, Returns
<1>6. ASSUME NEW step, NEW r, NEW result, Carry(w, step, r, result)
      PROVE  job'[w].row = r /\ \A v \in Workers \ {w} : job'[v] = job[v]
  <2>1. Moved(w, step, Carried(job[w], r, result))
    BY <1>6, Moves
  <2> QED
    BY <1>2, <1>4, <2>1
<1> QED
  BY <1>2, <1>5, <1>6

(* A worker's copy of the row is what the row is, or what the copy was.    *)
LEMMA CopiesAreRows ==
  ASSUME TypeOK, [Next]_vars, NEW v \in Workers
  PROVE  Copied(v)
<1> DEFINE Step(w) == Copied(w) /\ \A u \in Workers \ {w} : job'[u] = job[u]
<1>1. ASSUME NEW w \in Workers, NEW t \in Threads, NEW flags \in Flags, Resume(w, t, flags)
      PROVE  Step(w)
  <2>1. PICK token, next :
          job' = [job EXCEPT ![w] = [NoJob EXCEPT !.thread = t, !.handed = token,
                                                  !.state = next]]
    BY <1>1 DEF Resume
  <2>2. [NoJob EXCEPT !.thread = t, !.handed = token, !.state = next].row = NewRow
    BY NoJobFields DEF Job
  <2> QED
    BY <2>1, <2>2 DEF TypeOK, Copied
<1>2. ASSUME NEW w \in Workers, Thinking(w) PROVE Step(w)
  BY <1>2, ThinkingReturns, MovesCopy DEF Copied
<1>3. ASSUME NEW w \in Workers, Drafts(w) PROVE Step(w)
  BY <1>3, DraftMoves, MovesCopy DEF Copied
<1>4. ASSUME NEW w \in Workers, BrowserReadsBack(w) \/ Save(w) \/ Abort(w) PROVE Step(w)
  BY <1>4, MovesCopy DEF BrowserReadsBack, Save, Abort, Copied
<1>5. ASSUME NEW w \in Workers, NEW found, NEW outcome, Discovery(w, found, outcome)
      PROVE  Step(w)
  BY <1>5, MovesCopy DEF Discovery, Supervise, Copied
<1>6. ASSUME NEW w \in Workers, Calls(w) PROVE Step(w)
  <2>1. PICK step, s, r : /\ Dashboard(w, step, s, r)
                          /\ r = NewRow \/ \E o \in Opps : r = row[o]
    BY <1>6 DEF Calls, DashboardRequest, DashboardRejects, DashboardApproves
  <2> DEFINE j == [NoJob EXCEPT !.thread = "dashboard", !.state = s, !.row = r]
  <2>2. j.row = r
    BY NoJobFields DEF Job
  <2>3. Moved(w, step, j)
    BY <2>1, Moves
  <2> HIDE DEF j
  <2>4. job'[w] = j /\ \A u \in Workers \ {w} : job'[u] = job[u]
    BY <2>3, MovesCopy
  <2> QED
    BY <2>1, <2>2, <2>4 DEF Copied
<1>7. ASSUME NEW w \in Workers, RequestRead(w) PROVE Step(w)
  <2>1. job[w].state.opp \in Opps
    BY <1>7 DEF RequestRead, TypeOK, Job, State, Holds
  <2> QED
    BY <1>7, <2>1, MovesCopy DEF RequestRead, Copied
<1>8. ASSUME NEW w \in Workers, ApproveRead(w) PROVE Step(w)
  <2>1. job[w].state.app \in Opps
    BY <1>8 DEF ApproveRead, TypeOK, Job, State
  <2> QED
    BY <1>8, <2>1, MovesCopy DEF ApproveRead, Copied
<1>9. ASSUME NEW w \in Workers, NEW result, Send(w, result) PROVE Step(w)
  BY <1>9, MovesCopy DEF Send, Copied
<1>10. ASSUME NEW w \in Workers, RequestCommit(w) \/ RejectCommit(w) \/ ApproveCommit(w)
       PROVE  Step(w)
  BY <1>10, MovesCopy DEF RequestCommit, RejectCommit, ApproveCommit, Copied
<1>11. CASE Idle
  BY <1>11, IdleKeeps DEF Copied
<1>12. CASE \E w \in Workers : Step(w)
  BY <1>12 DEF Copied
<1> HIDE DEF Step
<1> QED
  BY <1>1, <1>2, <1>3, <1>4, <1>5, <1>6, <1>7, <1>8, <1>9, <1>10, <1>11, <1>12, Steps

(* How a step changes the row, what was issued and what expired.           *)
LEMMA RowSteps ==
  ASSUME TypeOK, [Next]_vars
  PROVE  /\ \/ UNCHANGED <<row, issued>>
            \/ \E w \in Workers : RequestCommit(w)
            \/ \E w \in Workers : RejectCommit(w) \/ ApproveCommit(w)
         /\ expired \subseteq expired'
<1>1. ASSUME NEW w \in Workers, NEW t, NEW flags, Resume(w, t, flags) PROVE UNCHANGED gate
  BY <1>1 DEF Resume
<1>2. ASSUME NEW w \in Workers, NEW found, NEW outcome, Discovery(w, found, outcome)
      PROVE  UNCHANGED gate
  BY <1>2 DEF Discovery
<1>3. ASSUME NEW w \in Workers, Thinking(w) \/ Drafts(w) \/ BrowserReadsBack(w) \/ Save(w)
                                  \/ Abort(w) \/ RequestRead(w) \/ ApproveRead(w)
      PROVE  UNCHANGED gate
  BY <1>3, ThinkingReturns, DraftMoves
  DEF BrowserReadsBack, Save, Abort, RequestRead, ApproveRead
<1>4. ASSUME NEW w \in Workers, Calls(w) PROVE UNCHANGED gate
  BY <1>4 DEF Calls, DashboardRequest, DashboardRejects, DashboardApproves, Dashboard
<1>5. ASSUME NEW w \in Workers, NEW result, Send(w, result)
      PROVE  UNCHANGED <<row, issued, expired>>
  BY <1>5 DEF Send
<1>6. ASSUME NEW w \in Workers, RequestCommit(w) \/ RejectCommit(w) \/ ApproveCommit(w)
      PROVE  UNCHANGED expired
  BY <1>6 DEF RequestCommit, RejectCommit, ApproveCommit
<1> QED
  BY <1>1, <1>2, <1>3, <1>4, <1>5, <1>6, Steps, IdleKeeps DEF gate

(* The column that a commit leaves is the one it finds or the one it sets, *)
(* and a column that it changes is the one it sets.                        *)
LEMMA CommitColumns ==
  ASSUME TypeOK, NEW o \in Opps, NEW loaded, NEW new, Commit(o, loaded, new), NEW p \in Opps
  PROVE  /\ p # o => row'[p] = row[p]
         /\ p = o => /\ row'[p].status \in {row[p].status, new.status}
                     /\ row'[p].live \in {row[p].live, new.live}
                     /\ row'[p].used \in {row[p].used, new.used}
                     /\ new.live # loaded.live => row'[p].live = new.live
<1>1. row' = [row EXCEPT ![o] = WriteBack(row[o], loaded, new)]
  BY DEF Commit
<1>2. (p # o => row'[p] = row[p]) /\ (p = o => row'[p] = WriteBack(row[p], loaded, new))
  BY <1>1 DEF TypeOK
<1> QED
  BY <1>2 DEF WriteBack, Column

(* What a request and the other commits leave in the rows.                 *)
LEMMA RequestColumns ==
  ASSUME TypeOK, NEW w \in Workers, RequestCommit(w), NEW p \in Opps
  PROVE  /\ p # job[w].state.opp => row'[p] = row[p]
         /\ row'[p].live \in {row[p].live, NextNonce}
         /\ p = job[w].state.opp /\ job[w].row.live # NextNonce => row'[p].live = NextNonce
         /\ NextNonce \in Nonces /\ \A i \in issued : i.nonce # NextNonce
         /\ issued \subseteq issued' /\ \E i \in issued' : i.nonce = NextNonce
<1> DEFINE o == job[w].state.opp
<1>1. o \in Opps
  BY DEF TypeOK, RequestCommit, Job, State, Holds
<1>2. Commit(o, job[w].row, Requested(NextNonce)) /\ Requested(NextNonce).live = NextNonce
  BY DEF RequestCommit, Requested
<1>3. NextNonce \in Nonces /\ \A i \in issued : i.nonce # NextNonce
  BY DEF RequestCommit, NextNonce
<1>4. issued \subseteq issued' /\ \E i \in issued' : i.nonce = NextNonce
  <2> DEFINE new == [nonce |-> NextNonce, app |-> o, by |-> job[w].thread]
  <2>1. issued' = issued \cup {new} /\ new.nonce = NextNonce
    BY DEF RequestCommit
  <2> HIDE DEF new
  <2> QED
    BY <2>1
<1> QED
  BY <1>1, <1>2, <1>3, <1>4, CommitColumns

LEMMA ConclusionColumns ==
  ASSUME TypeOK, NEW w \in Workers, RejectCommit(w) \/ ApproveCommit(w), NEW p \in Opps
  PROVE  /\ row'[p].live \in {row[p].live, None}
         /\ row'[p].used \in {row[p].used, TRUE}
         /\ row'[p].status = "pending_approval" => row[p].status = "pending_approval"
         /\ issued' = issued
<1> DEFINE rejected == [status |-> "rejected", live |-> None, used |-> TRUE]
           o == job[w].state.app
<1>1. o \in Opps
  BY DEF TypeOK, RejectCommit, ApproveCommit, Job, State, Holds
<1>2. PICK new : /\ Commit(o, job[w].row, new)
                 /\ new.status # "pending_approval" /\ new.live = None /\ new.used = TRUE
  <2>1. CASE RejectCommit(w)
    <3>1. Commit(o, job[w].row, rejected)
      BY <2>1 DEF RejectCommit
    <3>2. rejected.status # "pending_approval" /\ rejected.live = None /\ rejected.used = TRUE
      OBVIOUS
    <3> QED
      BY <3>1, <3>2
  <2>2. CASE ApproveCommit(w)
    <3> DEFINE ok == job[w].result = "ok"
    <3>1. Commit(o, job[w].row, Concluded(ok))
      BY <2>2 DEF ApproveCommit
    <3>2. /\ Concluded(ok).status # "pending_approval"
          /\ Concluded(ok).live = None /\ Concluded(ok).used = TRUE
      BY DEF Concluded
    <3> HIDE DEF ok
    <3> QED
      BY <3>1, <3>2
  <2> QED
    BY <2>1, <2>2
<1>3. issued' = issued
  BY DEF RejectCommit, ApproveCommit
<1>4. CASE p # o
  <2>1. row'[p] = row[p]
    BY <1>1, <1>2, <1>4, CommitColumns
  <2> QED
    BY <1>3, <2>1
<1>5. CASE p = o
  <2>1. /\ row'[p].status \in {row[p].status, new.status}
        /\ row'[p].live \in {row[p].live, new.live}
        /\ row'[p].used \in {row[p].used, new.used}
    BY <1>1, <1>2, <1>5, CommitColumns
  <2>2. row'[p].used \in {row[p].used, TRUE}
    BY <1>2, <2>1, Zenon
  <2> QED
    BY <1>2, <1>3, <2>1, <2>2
<1> QED
  BY <1>4, <1>5

LEMMA LiveInit == Init => LiveIsIssued
BY NewRowType, NoJobFields DEF Init, LiveIsIssued, Seen

LEMMA LiveNext == TypeOK /\ LiveIsIssued /\ [Next]_vars => LiveIsIssued'
<1> SUFFICES ASSUME TypeOK, LiveIsIssued, [Next]_vars PROVE LiveIsIssued'
  OBVIOUS
<1>1. issued \subseteq issued'
  <2>1. ASSUME NEW w \in Workers, RequestCommit(w) PROVE issued \subseteq issued'
    BY <2>1 DEF RequestCommit
  <2>2. ASSUME NEW w \in Workers, RejectCommit(w) \/ ApproveCommit(w) PROVE issued' = issued
    BY <2>2 DEF RejectCommit, ApproveCommit
  <2> QED
    BY <2>1, <2>2, RowSteps
<1>2. ASSUME NEW o \in Opps PROVE Seen(row[o].live)'
  <2>1. CASE UNCHANGED <<row, issued>>
    BY <2>1 DEF LiveIsIssued, Seen
  <2>2. ASSUME NEW w \in Workers, RequestCommit(w) PROVE Seen(row[o].live)'
    BY <1>1, <2>2, RequestColumns DEF LiveIsIssued, Seen
  <2>3. ASSUME NEW w \in Workers, RejectCommit(w) \/ ApproveCommit(w)
        PROVE  Seen(row[o].live)'
    BY <1>1, <2>3, ConclusionColumns DEF LiveIsIssued, Seen
  <2> QED
    BY <2>1, <2>2, <2>3, RowSteps
<1>3. ASSUME NEW w \in Workers PROVE Seen(job[w].row.live)'
  <2>1. Copied(w)
    BY CopiesAreRows
  <2> QED
    BY <1>1, <2>1, NewRowType DEF Copied, LiveIsIssued, Seen
<1> QED
  BY <1>2, <1>3 DEF LiveIsIssued

(* A step that leaves a row accepting a token found it accepting it.       *)
LEMMA RefusalIsForEver ==
  ASSUME TypeOK, LiveIsIssued, [Next]_vars, NEW i \in issued, ~GateAccepts(i.app, i.nonce)
  PROVE  ~GateAccepts(i.app, i.nonce)'
<1> DEFINE o == i.app
<1>1. o \in Opps /\ i.nonce \in Nonces /\ i.nonce # None
  BY DEF TypeOK, Issued, Nonces, None
<1>2. expired \subseteq expired'
  BY RowSteps
<1>3. CASE UNCHANGED <<row, issued>>
  BY <1>2, <1>3 DEF GateAccepts
<1>4. ASSUME NEW w \in Workers, RequestCommit(w) PROVE ~GateAccepts(i.app, i.nonce)'
  <2>1. job[w].row.live # NextNonce
    BY <1>1, <1>4, RequestColumns DEF LiveIsIssued, Seen, Nonces, None
  <2>2. CASE o = job[w].state.opp
    <3>1. row'[o].live = NextNonce /\ i.nonce # NextNonce
      BY <1>1, <1>4, <2>1, <2>2, RequestColumns
    <3> QED
      BY <3>1 DEF GateAccepts
  <2>3. CASE o # job[w].state.opp
    <3>1. row'[o] = row[o]
      BY <1>1, <1>4, <2>3, RequestColumns
    <3> QED
      BY <1>2, <3>1 DEF GateAccepts
  <2> QED
    BY <2>2, <2>3
<1>5. ASSUME NEW w \in Workers, RejectCommit(w) \/ ApproveCommit(w)
      PROVE  ~GateAccepts(i.app, i.nonce)'
  <2>1. /\ row'[o].live \in {row[o].live, None}
        /\ row'[o].used \in {row[o].used, TRUE}
        /\ row'[o].status = "pending_approval" => row[o].status = "pending_approval"
    BY <1>1, <1>5, ConclusionColumns
  <2> QED
    BY <1>1, <1>2, <2>1 DEF GateAccepts
<1> QED
  BY <1>3, <1>4, <1>5, RowSteps

(* Once the gate refuses a token it refuses it for ever, so a resume that  *)
(* finds such a token in its checkpoint fails, whatever the overlapping    *)
(* calls of threads and dashboard write back.                              *)
THEOREM RefusedForEver == Spec => RefusedTokensStayRefused
<1> DEFINE Refusal == \A i \in issued :
                        ~GateAccepts(i.app, i.nonce) => ~GateAccepts(i.app, i.nonce)'
<1>1. TypeOK /\ LiveIsIssued /\ [Next]_vars => [Refusal]_vars
  BY RefusalIsForEver
<1> QED
  BY PipelineInitType, PipelineNextType, LiveInit, LiveNext, <1>1, PTL
  DEF Spec, RefusedTokensStayRefused

=============================================================================
