------------------------------- MODULE Pipeline -------------------------------
(***************************************************************************)
(* The supervised pipeline of orchestrator/nodes.py and graph.py behind    *)
(* POST /api/ops/pipeline.  A request loads the checkpoint of its thread   *)
(* into a local state, applies the caller's flags, runs the nodes that the *)
(* state asks for, and saves the whole state as the new checkpoint.  While *)
(* it runs, other requests may run on the same thread, and the dashboard   *)
(* may use the approval gate on the same application.                      *)
(*                                                                         *)
(* A gate call is what it is in the code: the row is read and checked, the *)
(* adapter runs, and the commit writes the columns whose value changed from*)
(* the one read.  Forms do not change here, so a checksum always matches;  *)
(* ApplyGate has the rest of the row.  A packet belongs to one opportunity *)
(* and an application to one packet, so one identifier stands for all.     *)
(***************************************************************************)
EXTENDS Naturals

CONSTANTS
  Workers,      \* request threads
  Threads,      \* pipeline thread ids
  NoThread,     \* "no thread"
  Opps,         \* opportunity ids, positive; 0 is None
  Fit,          \* rule_fit of each opportunity
  Incomplete,   \* opportunities whose filled form has blocking errors
  MaxTokens, MaxRequests  \* bounds of the counters

None == 0
MaxFit == 1000  \* rule_fit_score returns 0 to 100, in tenths

ASSUME PipelineAssumption ==
  /\ Opps \subseteq Nat \ {None}
  /\ Fit \in [Opps -> 0..MaxFit]
  /\ Incomplete \subseteq Opps
  /\ NoThread \notin Threads /\ "dashboard" \notin Threads /\ NoThread # "dashboard"
  /\ MaxTokens \in Nat /\ MaxRequests \in Nat

VARIABLES
  checkpoint,  \* pipeline_checkpoints: the saved state of each thread
  known,       \* opportunities table
  packet,      \* ApplicationPacket.status
  row,         \* applications table
  issued,      \* approvals handed out, with the thread that asked for them
  expired,     \* nonces past their expiry
  sent,        \* dispatches
  consent,     \* per thread, the opportunities a human approved in it
  requests,    \* requests so far, of threads and of the dashboard
  pc, job      \* per worker: the next node or gate step, and what it works on

gate == <<row, issued, expired, sent>>
vars == <<checkpoint, known, packet, gate, consent, requests, pc, job>>

-----------------------------------------------------------------------------
(* PhdApplicationState *)

(* Application.status *)
Statuses == {"previewed", "pending_approval", "submitted", "failed", "rejected"}

Phases == {"idle", "ingested", "completed", "failed", "matched", "no_match",
           "rejected_to_discovery", "awaiting_hitl", "hitl_approved",
           "drafted_awaiting_hmac", "critic_blocked", "awaiting_hmac"} \cup Statuses

Nonces == 1..MaxTokens

(* Application: the status, the nonce behind token_hash, and token_used.   *)
Row == [status: Statuses, live: Nonces \cup {None}, used: BOOLEAN]

(* The column defaults; "previewed" is never committed, so no row is there.*)
NewRow == [status |-> "previewed", live |-> None, used |-> FALSE]

(* query: research_query was given (callers give three characters or more);*)
(* labs: discovered_labs, by id; phase: application_status.                *)
State == [query: BOOLEAN, labs: SUBSET Opps, opp: Opps \cup {None},
          app: Opps \cup {None}, token: Nonces \cup {None}, approved: BOOLEAN,
          reject: BOOLEAN, phase: Phases]

(* empty_state *)
EmptyState == [query |-> FALSE, labs |-> {}, opp |-> None, app |-> None,
               token |-> None, approved |-> FALSE, reject |-> FALSE, phase |-> "idle"]

Flags == [query: BOOLEAN, approve: BOOLEAN, reject: BOOLEAN, token: Nonces \cup {None}]

Outcomes == {"ok", "refused", "lost"}

(* A request of a pipeline thread, or a call of the gate by the dashboard; *)
(* handed: the token that a caller who did not reject handed over;         *)
(* row: the row as the session loaded it; result: what the adapter said.   *)
Job == [thread: Threads \cup {NoThread, "dashboard"}, handed: Nonces \cup {None},
        state: State, row: Row, result: Outcomes]

NoJob == [thread |-> NoThread, handed |-> None, state |-> EmptyState,
          row |-> NewRow, result |-> "refused"]

Nodes == {"idle", "discovery", "drafter", "writing", "written", "requesting", "issuing",
          "critic", "browser", "sending", "sent", "concluded", "rejecting", "save"}

-----------------------------------------------------------------------------
(* The nodes that only compute *)

(* start_or_resume: what the caller's flags do to the loaded state. *)
Rejected(s, reject) ==
  IF reject THEN [s EXCEPT !.reject = TRUE, !.approved = FALSE,
                           !.phase = "rejected_to_discovery"]
            ELSE s
Approved(s, approve) ==
  IF approve THEN [s EXCEPT !.approved = TRUE, !.reject = FALSE] ELSE s
Confirmed(s, token) ==
  IF token # None THEN [s EXCEPT !.token = token, !.approved = TRUE] ELSE s
Instructed(s, flags) ==
  LET asked == [s EXCEPT !.query = s.query \/ flags.query]
  IN  Confirmed(Approved(Rejected(asked, flags.reject), flags.approve), flags.token)

(* run_pipeline: a rejected thread starts over. *)
Restarted(s) ==
  IF s.reject THEN [s EXCEPT !.reject = FALSE, !.labs = {}, !.approved = FALSE] ELSE s

(* The opportunity with the highest rule_fit, the first of equals. *)
Best(matched) == {o \in matched : \A p \in matched : Fit[o] >= Fit[p]}
Top(matched) == CHOOSE o \in Best(matched) : \A p \in Best(matched) : o <= p

(* Mutant of Matchmaker: an earlier approval survives a new match. *)
MatchmakerTrusting(s) ==
  LET matched == {o \in s.labs : Fit[o] > 0} IN
  IF matched = {} THEN [s EXCEPT !.phase = "no_match"]
                  ELSE [s EXCEPT !.opp = Top(matched), !.phase = "matched"]

(* matchmaker_node: without a match the old opportunity stays. *)
Matchmaker(s) ==
  LET matched == {o \in s.labs : Fit[o] > 0} IN
  IF matched = {} THEN [s EXCEPT !.approved = FALSE, !.phase = "no_match"]
                  ELSE [s EXCEPT !.opp = Top(matched), !.approved = FALSE,
                                 !.phase = "matched"]

(* hitl_node *)
Hitl(s) ==
  [s EXCEPT !.phase = IF s.reject THEN "rejected_to_discovery"
                      ELSE IF s.approved THEN "hitl_approved" ELSE "awaiting_hitl"]

(* preview_application: the form is one field of what it returns. *)
Fields(o) == [packet_status |-> packet[o], complete |-> o \notin Incomplete]
Preview(o) == [packet_id |-> o, opportunity_id |-> o, fields |-> Fields(o)]

(* validate_payload and has_blocking_errors: payload.get of a key that is  *)
(* not there is not "ready".                                               *)
HasErrors(payload) ==
  ~ /\ "packet_status" \in DOMAIN payload
    /\ payload.packet_status = "ready"
    /\ payload.complete

-----------------------------------------------------------------------------
(* Steps of any handler *)

(* A node hands the state on; what it loaded of the row is not used again. *)
Goto(w, node, s) ==
  /\ pc' = [pc EXCEPT ![w] = node]
  /\ job' = [job EXCEPT ![w] = [@ EXCEPT !.state = s, !.row = NewRow, !.result = "refused"]]

(* A gate call goes on with the row as it is now, or with an outcome. *)
Carry(w, step, r, result) ==
  /\ pc' = [pc EXCEPT ![w] = step]
  /\ job' = [job EXCEPT ![w] = [@ EXCEPT !.row = r, !.result = result]]

Finish(w) ==
  /\ pc' = [pc EXCEPT ![w] = "idle"]
  /\ job' = [job EXCEPT ![w] = NoJob]

(* A gate call returns to the node that made it, or to the dashboard. *)
Return(w, node, s) == IF job[w].thread = "dashboard" THEN Finish(w) ELSE Goto(w, node, s)

-----------------------------------------------------------------------------
(* The approval gate *)

(* A flush writes a column only if the session changed it. *)
Column(db, loaded, new) == IF new # loaded THEN new ELSE db
WriteBack(db, loaded, new) ==
  [status |-> Column(db.status, loaded.status, new.status),
   live   |-> Column(db.live, loaded.live, new.live),
   used   |-> Column(db.used, loaded.used, new.used)]

Commit(o, loaded, new) == row' = [row EXCEPT ![o] = WriteBack(@, loaded, new)]

(* request_approval: the preview, and the status the handler reads. *)
CanRequest(o) == ~HasErrors(Fields(o))
Open(o) == row[o].status # "submitted"

RequestRead(w) ==
  LET o == job[w].state.opp IN
  /\ pc[w] = "requesting" /\ Open(o)
  /\ Carry(w, "issuing", row[o], "refused")
  /\ UNCHANGED <<checkpoint, known, packet, gate, consent, requests>>

(* Mutant of NextNonce: the token is made of what it permits, and asking   *)
(* for the same again gives it again.                                      *)
NextNonceAgain == CHOOSE n \in Nonces : TRUE

(* issue_token draws it before the commit; nobody sees it until then. *)
NextNonce == CHOOSE n \in Nonces : \A i \in issued : i.nonce # n

(* The columns request_approval assigns. *)
Requested(n) == [status |-> "pending_approval", live |-> n, used |-> FALSE]

(* The first request inserts the row, which fails if another did (Abort).  *)
(* The drafter keeps the token in the thread's state.                      *)
RequestCommit(w) ==
  LET o == job[w].state.opp
      drafted == [job[w].state EXCEPT !.app = o, !.token = NextNonce,
                                      !.phase = "drafted_awaiting_hmac"]
  IN
  /\ pc[w] = "issuing"
  /\ \E n \in Nonces : \A i \in issued : i.nonce # n
  /\ job[w].row.status = "previewed" => row[o].status = "previewed"
  /\ Commit(o, job[w].row, Requested(NextNonce))
  /\ issued' = issued \cup {[nonce |-> NextNonce, app |-> o, by |-> job[w].thread]}
  /\ Return(w, "critic", drafted)
  /\ UNCHANGED <<checkpoint, known, packet, expired, sent, consent, requests>>

(* reject_application *)
RejectCommit(w) ==
  /\ pc[w] = "rejecting"
  /\ Commit(job[w].state.app, job[w].row, [status |-> "rejected", live |-> None, used |-> TRUE])
  /\ Finish(w)
  /\ UNCHANGED <<checkpoint, known, packet, issued, expired, sent, consent, requests>>

(* approve_and_submit: every check on the row it loads. *)
GateAccepts(o, n) ==
  /\ row[o].status = "pending_approval"
  /\ ~row[o].used
  /\ row[o].live = n
  /\ n \notin expired

ApproveRead(w) ==
  LET s == job[w].state IN
  /\ pc[w] = "browser" /\ s.app # None /\ GateAccepts(s.app, s.token)
  /\ Carry(w, "sending", row[s.app], "refused")
  /\ UNCHANGED <<checkpoint, known, packet, gate, consent, requests>>

(* _run_adapter: it succeeds, fails with nothing sent, or fails after.     *)
Send(w, result) ==
  /\ pc[w] = "sending"
  /\ sent' = IF result = "refused" THEN sent
             ELSE sent \cup {[nonce |-> job[w].state.token, app |-> job[w].state.app,
                              by |-> job[w].thread, handed |-> job[w].handed,
                              result |-> result]}
  /\ Carry(w, "sent", job[w].row, result)
  /\ UNCHANGED <<checkpoint, known, packet, row, issued, expired, consent, requests>>

(* Mutant of Concluded: success is assumed. *)
ConcludedOptimist(ok) == [status |-> "submitted", live |-> None, used |-> TRUE]

(* The columns the handler assigns once the adapter returned. *)
Concluded(ok) ==
  [status |-> IF ok THEN "submitted" ELSE "failed", live |-> None, used |-> TRUE]

ApproveCommit(w) ==
  LET s == job[w].state
      ok == job[w].result = "ok"
  IN
  /\ pc[w] = "sent"
  /\ Commit(s.app, job[w].row, Concluded(ok))
  /\ IF ok THEN Return(w, "concluded", s) ELSE Return(w, "save", [s EXCEPT !.phase = "failed"])
  /\ UNCHANGED <<checkpoint, known, packet, issued, expired, sent, consent, requests>>

-----------------------------------------------------------------------------
(* A pipeline request *)

(* run_pipeline once there are labs: without approval it stops at hitl.    *)
Supervise(w, s) == Goto(w, IF s.approved THEN "drafter" ELSE "save", Hitl(s))

(* start_or_resume.  A stored application and token lead straight to the   *)
(* browser node, whatever the caller asked for.                            *)
Resume(w, t, flags) ==
  LET s == Instructed(checkpoint[t], flags)
      r == Restarted(s)
      toBrowser == flags.token # None \/ (s.app # None /\ s.token # None)
  IN
  /\ pc[w] = "idle"
  /\ requests < MaxRequests /\ requests' = requests + 1
  /\ job' = [job EXCEPT ![w] =
       [NoJob EXCEPT !.thread = t, !.handed = IF flags.reject THEN None ELSE flags.token,
                     !.state = IF toBrowser THEN s
                               ELSE IF r.labs = {} THEN r ELSE Hitl(r)]]
  /\ pc' = [pc EXCEPT ![w] =
       IF toBrowser THEN "browser"
       ELSE IF r.labs = {} THEN "discovery"
       ELSE IF r.approved THEN "drafter" ELSE "save"]
  /\ consent' = IF flags.approve \/ flags.token # None
                THEN [consent EXCEPT ![t] = @ \cup {checkpoint[t].opp}] ELSE consent
  /\ UNCHANGED <<checkpoint, known, packet, gate>>

(* discovery_node without a usable query. *)
DiscoveryRefused(w) ==
  /\ pc[w] = "discovery" /\ ~job[w].state.query
  /\ Goto(w, "save", [job[w].state EXCEPT !.phase = "failed"])
  /\ UNCHANGED <<checkpoint, known, packet, gate, consent, requests>>

(* discovery_node: run_discovery adds what it found and reports how it     *)
(* went; every known opportunity becomes a lab, also after a failure, and  *)
(* a completed run is matched at once.                                     *)
Discovery(w, found, outcome) ==
  LET s == [job[w].state EXCEPT !.labs = known \cup found, !.phase = outcome,
                                !.reject = FALSE]
  IN
  /\ pc[w] = "discovery" /\ job[w].state.query
  /\ outcome \in {"completed", "failed"}
  /\ known' = known \cup found
  /\ IF outcome = "failed" THEN Goto(w, "save", s) ELSE Supervise(w, Matchmaker(s))
  /\ UNCHANGED <<checkpoint, packet, gate, consent, requests>>

(* drafter_node without a matched opportunity. *)
NothingToDraft(w) ==
  /\ pc[w] = "drafter" /\ job[w].state.opp = None
  /\ Goto(w, "save", [job[w].state EXCEPT !.phase = "failed"])
  /\ UNCHANGED <<checkpoint, known, packet, gate, consent, requests>>

(* drafter_node calls prepare_packet, which marks the packet first. *)
DraftStart(w) ==
  LET o == job[w].state.opp IN
  /\ pc[w] = "drafter" /\ o # None
  /\ packet' = [packet EXCEPT ![o] = "preparing"]
  /\ Goto(w, "writing", job[w].state)
  /\ UNCHANGED <<checkpoint, known, gate, consent, requests>>

DraftWritten(w) ==
  /\ pc[w] = "writing"
  /\ packet' = [packet EXCEPT ![job[w].state.opp] = "ready"]
  /\ Goto(w, "written", job[w].state)
  /\ UNCHANGED <<checkpoint, known, gate, consent, requests>>

(* The packet is read back; the session keeps this copy, and the previews  *)
(* of the same request judge it, not what others do to the packet later.   *)
DraftReadBack(w) ==
  /\ pc[w] = "written" /\ ~HasErrors(Fields(job[w].state.opp))
  /\ Goto(w, "requesting", job[w].state)
  /\ UNCHANGED <<checkpoint, known, packet, gate, consent, requests>>

(* prepare_packet raised.  A ValueError or PermissionError, a BudgetExceeded*)
(* among them, ends in a saved failure; any other error ends the request.  *)
DraftFailed(w, caught) ==
  /\ pc[w] = "writing"
  /\ packet' = [packet EXCEPT ![job[w].state.opp] = "failed"]
  /\ IF caught THEN Goto(w, "save", [job[w].state EXCEPT !.phase = "failed"])
               ELSE Finish(w)
  /\ UNCHANGED <<checkpoint, known, gate, consent, requests>>

(* The copy of the packet or the form has errors, or the row is submitted. *)
DraftRefused(w) ==
  LET o == job[w].state.opp IN
  /\ \/ pc[w] = "written" /\ HasErrors(Fields(o))
     \/ pc[w] = "requesting" /\ ~Open(o)
  /\ Return(w, "save", [job[w].state EXCEPT !.phase = "failed"])
  /\ UNCHANGED <<checkpoint, known, packet, gate, consent, requests>>

(* critic_node hands what preview_application returned to validate_payload.*)
Critic(w) ==
  /\ pc[w] = "critic"
  /\ Goto(w, "save", [job[w].state EXCEPT
            !.phase = IF HasErrors(Preview(job[w].state.app)) THEN "critic_blocked"
                                                              ELSE "drafted_awaiting_hmac"])
  /\ UNCHANGED <<checkpoint, known, packet, gate, consent, requests>>

(* browser_node *)
BrowserWaits(w) ==
  /\ pc[w] = "browser" /\ job[w].state.app = None
  /\ Goto(w, "save", [job[w].state EXCEPT !.phase = "awaiting_hmac"])
  /\ UNCHANGED <<checkpoint, known, packet, gate, consent, requests>>

BrowserDenied(w) ==
  LET s == job[w].state IN
  /\ pc[w] = "browser" /\ s.app # None /\ ~GateAccepts(s.app, s.token)
  /\ Return(w, "save", [s EXCEPT !.phase = "failed"])
  /\ UNCHANGED <<checkpoint, known, packet, gate, consent, requests>>

(* The token leaves the state only when the submission succeeded; the      *)
(* phase is the status read back after the commit, whoever wrote it.       *)
BrowserReadsBack(w) ==
  LET s == job[w].state IN
  /\ pc[w] = "concluded"
  /\ Goto(w, "save", [s EXCEPT !.token = None, !.phase = row[s.app].status])
  /\ UNCHANGED <<checkpoint, known, packet, gate, consent, requests>>

(* save_checkpoint: the whole state, over whatever is there. *)
Save(w) ==
  /\ pc[w] = "save"
  /\ checkpoint' = [checkpoint EXCEPT ![job[w].thread] = job[w].state]
  /\ Finish(w)
  /\ UNCHANGED <<known, packet, gate, consent, requests>>

(* The handler dies between two steps: an error the nodes do not catch, a  *)
(* commit that fails, or the process.  What was committed or sent stays,   *)
(* the state is not saved.                                                 *)
Abort(w) ==
  /\ pc[w] # "idle"
  /\ Finish(w)
  /\ UNCHANGED <<checkpoint, known, packet, gate, consent, requests>>

-----------------------------------------------------------------------------
(* The dashboard's own calls of the gate, and time *)

Dashboard(w, step, s, r) ==
  /\ pc[w] = "idle"
  /\ requests < MaxRequests /\ requests' = requests + 1
  /\ pc' = [pc EXCEPT ![w] = step]
  /\ job' = [job EXCEPT ![w] = [NoJob EXCEPT !.thread = "dashboard", !.state = s, !.row = r]]
  /\ UNCHANGED <<checkpoint, known, packet, gate, consent>>

DashboardRequest(w, o) ==
  /\ CanRequest(o)
  /\ Dashboard(w, "requesting", [EmptyState EXCEPT !.opp = o], NewRow)

DashboardApproves(w, i) ==
  Dashboard(w, "browser", [EmptyState EXCEPT !.app = i.app, !.token = i.nonce], NewRow)

(* reject_application finds a row that is not submitted. *)
DashboardRejects(w, o) ==
  /\ row[o].status \notin {"previewed", "submitted"}
  /\ Dashboard(w, "rejecting", [EmptyState EXCEPT !.app = o], row[o])

Expire(i) ==
  /\ expired' = expired \cup {i.nonce}
  /\ UNCHANGED <<checkpoint, known, packet, row, issued, sent, consent, requests, pc, job>>

-----------------------------------------------------------------------------
Init ==
  /\ checkpoint = [t \in Threads |-> EmptyState]
  /\ known = {}
  /\ packet = [o \in Opps |-> "none"]
  /\ row = [o \in Opps |-> NewRow]
  /\ issued = {} /\ expired = {} /\ sent = {}
  /\ consent = [t \in Threads |-> {}]
  /\ requests = 0
  /\ pc = [w \in Workers |-> "idle"]
  /\ job = [w \in Workers |-> NoJob]

(* A client can only send back a token it was given. *)
KnownTokens == {None} \cup {i.nonce : i \in issued}

Request(w) ==
  \/ \E t \in Threads, flags \in [query: BOOLEAN, approve: BOOLEAN, reject: BOOLEAN,
                                  token: KnownTokens] : Resume(w, t, flags)
  \/ DiscoveryRefused(w)
  \/ \E found \in SUBSET Opps, outcome \in {"completed", "failed"} :
       Discovery(w, found, outcome)
  \/ NothingToDraft(w) \/ DraftStart(w) \/ DraftWritten(w)
  \/ \E caught \in BOOLEAN : DraftFailed(w, caught)
  \/ DraftReadBack(w) \/ DraftRefused(w)
  \/ Critic(w)
  \/ BrowserWaits(w) \/ BrowserDenied(w) \/ BrowserReadsBack(w)
  \/ Save(w)
  \/ Abort(w)

Gate(w) ==
  \/ \E o \in Opps : DashboardRequest(w, o) \/ DashboardRejects(w, o)
  \/ \E i \in issued : DashboardApproves(w, i)
  \/ RequestRead(w) \/ RequestCommit(w)
  \/ RejectCommit(w)
  \/ ApproveRead(w)
  \/ \E result \in Outcomes : Send(w, result)
  \/ ApproveCommit(w)

Next == (\E w \in Workers : Request(w) \/ Gate(w)) \/ (\E i \in issued : Expire(i))

Spec == Init /\ [][Next]_vars

-----------------------------------------------------------------------------
(* Properties *)

Issued == [nonce: Nonces, app: Opps, by: Threads \cup {"dashboard"}]
Dispatch == [nonce: Nonces, app: Opps, by: Threads \cup {"dashboard"},
             handed: Nonces \cup {None}, result: {"ok", "lost"}]

(* What a node needs of the state it is handed.                            *)
Holds(node, s) ==
  /\ node \in {"writing", "written", "requesting", "issuing"} => s.opp # None
  /\ node \in {"critic", "rejecting", "concluded"} => s.app # None
  /\ node = "browser" => s.token # None
  /\ node \in {"sending", "sent"} => s.app # None /\ s.token # None

(* The dashboard is at steps of the gate only, with an application.        *)
GateSteps == {"requesting", "issuing", "browser", "sending", "sent", "rejecting"}
Serves(node, j) ==
  \/ node = "idle"
  \/ j.thread \in Threads
  \/ j.thread = "dashboard" /\ node \in GateSteps /\ (node = "browser" => j.state.app # None)

(* Every variable has its type, and a node that needs an opportunity, an   *)
(* application or a token has one.                                         *)
TypeOK ==
  /\ checkpoint \in [Threads -> State]
  /\ known \in SUBSET Opps
  /\ packet \in [Opps -> {"none", "preparing", "ready", "failed"}]
  /\ row \in [Opps -> Row]
  /\ issued \in SUBSET Issued
  /\ expired \in SUBSET Nonces
  /\ sent \in SUBSET Dispatch
  /\ consent \in [Threads -> SUBSET (Opps \cup {None})]
  /\ requests \in Nat
  /\ pc \in [Workers -> Nodes]
  /\ job \in [Workers -> Job]
  /\ \A w \in Workers : /\ Serves(pc[w], job[w])
                         /\ Holds(pc[w], job[w].state)

(* Whatever a thread drafts, asks approval for or submits is a vacancy     *)
(* that was the thread's match when a human approved it: the approval of   *)
(* one vacancy never carries over to the next match, in whatever order     *)
(* requests of the same thread load and save its state.                    *)
ActsOnlyOnApproval ==
  /\ \A w \in Workers :
       pc[w] \in {"writing", "written", "requesting", "issuing"} /\ job[w].thread \in Threads
         => job[w].state.opp \in consent[job[w].thread]
  /\ \A i \in issued : i.by \in Threads => i.app \in consent[i.by]
  /\ \A e \in sent : e.by \in Threads => e.app \in consent[e.by]

(* A token the gate would refuse is refused for ever, whatever columns the *)
(* overlapping calls of threads and dashboard leave in the row: a thread   *)
(* that keeps one in its checkpoint after a failed or denied submission    *)
(* fails at every resume and sends nothing by it (nodes.py:314-325).       *)
RefusedTokensStayRefused ==
  [][\A i \in issued :
       ~GateAccepts(i.app, i.nonce) => ~GateAccepts(i.app, i.nonce)']_vars

(* Where a row or a checkpoint says "submitted", an adapter did report that*)
(* it sent that application: a thread saves what it reads back after its   *)
(* commit, which others may have written, and a later save of the thread   *)
(* may carry it on (service.py:265, nodes.py:324).                         *)
WasSent(o) == \E e \in sent : e.app = o /\ e.result = "ok"
SavedSubmissionsWereSent ==
  /\ \A o \in Opps : row[o].status = "submitted" => WasSent(o)
  /\ \A t \in Threads : checkpoint[t].phase = "submitted" => WasSent(checkpoint[t].app)

(* "Application submit requires a human approval token.  Pause before      *)
(* send": the pipeline sends only in a request in which the human handed   *)
(* the token over and did not reject.                                      *)
PausesBeforeSend ==
  \A e \in sent : e.by \in Threads => e.handed = e.nonce

(* Approval is tied to the match: the strengthening of ActsOnlyOnApproval. *)
ApprovedMatch(t, s) ==
  /\ s.approved => s.opp \in consent[t]
  /\ s.app # None => s.app \in consent[t]

ConsentInv ==
  /\ TypeOK
  /\ ActsOnlyOnApproval
  /\ \A t \in Threads : ApprovedMatch(t, checkpoint[t])
  /\ \A w \in Workers : job[w].thread \in Threads =>
       /\ ApprovedMatch(job[w].thread, job[w].state)
       /\ pc[w] \in {"drafter", "writing", "written", "requesting", "issuing"} =>
            job[w].state.approved

(* What SavedSubmissionsWereSent rests on: a success is known only after   *)
(* the send, and no node hands on "submitted" with another application.    *)
SubmissionInv ==
  /\ TypeOK
  /\ SavedSubmissionsWereSent
  /\ \A w \in Workers :
       /\ pc[w] = "sent" /\ job[w].result = "ok" => WasSent(job[w].state.app)
       /\ job[w].state.phase = "submitted" => WasSent(job[w].state.app)
=============================================================================
