------------------------------ MODULE ApplyGate ------------------------------
(***************************************************************************)
(* The human approval gate of apply/service.py and apply/tokens.py: an     *)
(* application row per packet, an HMAC token issued for the payload that   *)
(* was previewed, and the approve handler that verifies the token, calls   *)
(* the submit adapter and only then records the outcome.                   *)
(*                                                                         *)
(* Handlers are synchronous FastAPI endpoints: each runs on a thread of    *)
(* its own with a session of its own.  A handler reads the row once        *)
(* (SELECTs hold no lock on SQLite), computes, and commits once; the flush *)
(* of that commit writes only the columns whose value differs from the one *)
(* the session loaded.  Every handler is therefore a read step, for the    *)
(* approve handler also the packet read and the dispatch, and a commit     *)
(* step, and a worker carries its snapshot from one to the next.           *)
(***************************************************************************)
EXTENDS Naturals

CONSTANTS
  Workers,        \* request threads, each with its own database session
  Apps,           \* applications: one row per packet (packet_id is UNIQUE)
  Forms,          \* what fill_form can return for a packet, up to equality
  InvalidForms,   \* those for which validate_payload reports an error
  NoEmailForms,   \* those without an apply_email
  Adapters,       \* the values of ADAPTERS in use
  ApplyAsMe,      \* settings.apply_as_me (and the SMTP settings it needs)
  TTL,            \* settings.apply_token_ttl_seconds, in clock ticks
  NoForm, NoApp,  \* the empty payload and "no application"
  MaxTokens, MaxTime, MaxEdits, MaxFailures  \* bounds of the counters

LiveAdapters == {"email", "portal"}
LocalAdapters == {"sandbox", "manual"}

ASSUME GateAssumption ==
  /\ InvalidForms \subseteq Forms
  /\ NoEmailForms \subseteq Forms
  /\ Adapters \subseteq LiveAdapters \cup LocalAdapters
  /\ ApplyAsMe \in BOOLEAN
  /\ TTL \in Nat \ {0}
  /\ NoForm \notin Forms
  /\ NoApp \notin Apps
  /\ MaxTokens \in Nat /\ MaxTime \in Nat
  /\ MaxEdits \in Nat /\ MaxFailures \in Nat

VARIABLES
  row,        \* applications table: the committed row of each application
  opp,        \* Opportunity.status of the packet's opportunity
  ready,      \* ApplicationPacket.status = "ready"
  form,       \* what fill_form would return now
  drafts,     \* which generation of drafts the packet holds
  events,     \* application_events rows, one per (application, action, token)
  tokens,     \* tokens returned to a client
  lastNonce,  \* nonces drawn by issue_token so far
  outbox,     \* what left the process: e-mails, portal clicks, local receipts
  sends,      \* number of dispatches, the identity of the next outbox entry
  now,        \* int(time.time())
  edits,      \* changes of forms, vacancies and packets by the rest of the system
  failures,   \* failed commits and crashes so far
  pc, job     \* per worker: where its handler is, and what it has loaded

store == <<row, opp, events>>
packetVars == <<ready, form, drafts, edits>>
history == <<outbox, sends>>
control == <<pc, job>>
vars == <<store, packetVars, tokens, lastNonce, history, now, failures, control>>

-----------------------------------------------------------------------------
(* Data *)

Statuses == {"previewed", "pending_approval", "submitted", "failed", "rejected"}

(* Application: hash stands for token_hash (0 is ""), receipt for receipt   *)
(* not being empty, error for which kind of text error holds; submitted_at *)
(* is left out.  exists is FALSE while the packet has no row.              *)
Row == [exists: BOOLEAN, adapter: LiveAdapters \cup LocalAdapters,
        status: Statuses, payload: Forms \cup {NoForm}, sha: Forms \cup {NoForm},
        hash: Nat, expires: Nat, used: BOOLEAN, receipt: BOOLEAN,
        error: {"none", "rejected", "send_failed"}]

(* A token.  SHA-256 and HMAC are taken as injective, so a checksum is the *)
(* payload itself and a token hash is the nonce.  shown is not part of the *)
(* token: it records which drafts the preview was made from.               *)
Token == [app: Apps, sha: Forms, expires: Nat, nonce: Nat \ {0}, shown: Nat]

(* What a client sends that is not a token issue_token made. *)
NoToken == [app |-> NoApp, sha |-> NoForm, expires |-> 0, nonce |-> 0, shown |-> 0]

(* The column defaults of a row that is not there yet. *)
NewRow == [exists |-> FALSE, adapter |-> "manual", status |-> "previewed",
           payload |-> NoForm, sha |-> NoForm, hash |-> 0, expires |-> 0,
           used |-> FALSE, receipt |-> FALSE, error |-> "none"]

Outcomes == {"ok", "refused", "lost"}

Sent == [id: Nat, app: Apps, token: Token, payload: Forms \cup {NoForm}, drafts: Nat,
         adapter: LiveAdapters \cup LocalAdapters, result: {"ok", "lost"}]

Event == [app: Apps, nonce: Nat,
          action: {"request_approval", "reject", "approve_denied",
                   "submitted", "submit_failed"}]

Job == [app: Apps \cup {NoApp}, row: Row, form: Forms \cup {NoForm},
        adapter: LiveAdapters \cup LocalAdapters, drafts: Nat,
        token: Token \cup {NoToken}, result: Outcomes]

NoJob == [app |-> NoApp, row |-> NewRow, form |-> NoForm, adapter |-> "manual",
          drafts |-> 0, token |-> NoToken, result |-> "refused"]

Steps == {"idle", "previewed", "issued", "rejecting", "verified", "loaded", "sent"}

-----------------------------------------------------------------------------
(* A flush writes a column only if the session changed it. *)
Column(db, loaded, new) == IF new # loaded THEN new ELSE db

WriteBack(db, loaded, new) ==
  [exists  |-> TRUE,
   adapter |-> Column(db.adapter, loaded.adapter, new.adapter),
   status  |-> Column(db.status, loaded.status, new.status),
   payload |-> Column(db.payload, loaded.payload, new.payload),
   sha     |-> Column(db.sha, loaded.sha, new.sha),
   hash    |-> Column(db.hash, loaded.hash, new.hash),
   expires |-> Column(db.expires, loaded.expires, new.expires),
   used    |-> Column(db.used, loaded.used, new.used),
   receipt |-> Column(db.receipt, loaded.receipt, new.receipt),
   error   |-> Column(db.error, loaded.error, new.error)]

Begin(w, step, j) ==
  /\ pc[w] = "idle"
  /\ pc' = [pc EXCEPT ![w] = step]
  /\ job' = [job EXCEPT ![w] = j]

Advance(w, from, to, j) ==
  /\ pc[w] = from
  /\ pc' = [pc EXCEPT ![w] = to]
  /\ job' = [job EXCEPT ![w] = j]

Finish(w, from) ==
  /\ pc[w] = from
  /\ pc' = [pc EXCEPT ![w] = "idle"]
  /\ job' = [job EXCEPT ![w] = NoJob]

(* Mutant of Log: a failed submission leaves no event. *)
LogAllButFailures(a, action, nonce) ==
  events' = IF action = "submit_failed" THEN events
            ELSE events \cup {[app |-> a, action |-> action, nonce |-> nonce]}

(* _add_event *)
Log(a, action, nonce) == events' = events \cup {[app |-> a, action |-> action, nonce |-> nonce]}

-----------------------------------------------------------------------------
(* request_approval: preview, then read or create the row, then commit. *)

(* The adapter asked for can reach the addressee named by the payload.     *)
(* Every opportunity has a source_url, so a portal always has a URL.       *)
CanUse(adapter, f) == adapter = "email" => f \notin NoEmailForms

(* preview_application and the checks on what it returned. *)
RequestPreview(w, a, adapter) ==
  /\ ready[a]
  /\ form[a] \notin InvalidForms
  /\ CanUse(adapter, form[a])
  /\ Begin(w, "previewed", [NoJob EXCEPT !.app = a, !.form = form[a],
                                         !.adapter = adapter, !.drafts = drafts[a]])
  /\ UNCHANGED <<store, packetVars, tokens, lastNonce, history, now, failures>>

(* Mutant of Open: a submitted row may be requested or rejected again. *)
OpenUnlessRejected(a) == row[a].status # "rejected"

(* "This packet was already submitted.", "Cannot reject a submitted        *)
(* application.": both handlers test the status they have just read.       *)
Open(a) == row[a].status # "submitted"

(* Mutant of IssueToken: the token is made of what it permits, and asking  *)
(* for the same again gives it again.                                      *)
IssueTokenAgain(a, f, shown) ==
  [app |-> a, sha |-> f, expires |-> now + TTL, nonce |-> 1, shown |-> shown]

(* issue_token *)
IssueToken(a, f, shown) ==
  [app |-> a, sha |-> f, expires |-> now + TTL, nonce |-> lastNonce + 1, shown |-> shown]

RequestRead(w) ==
  LET a == job[w].app IN
  /\ lastNonce < MaxTokens
  /\ pc[w] = "previewed" /\ Open(a)
  /\ Advance(w, "previewed", "issued",
             [job[w] EXCEPT !.row = row[a],
                            !.token = IssueToken(a, job[w].form, job[w].drafts)])
  /\ lastNonce' = lastNonce + 1
  /\ UNCHANGED <<store, packetVars, tokens, history, now, failures>>

RequestRefused(w) ==
  /\ Finish(w, "previewed")
  /\ ~Open(job[w].app)
  /\ UNCHANGED <<store, packetVars, tokens, lastNonce, history, now, failures>>

(* The columns request_approval assigns. *)
Requested(r, j) ==
  [r EXCEPT !.exists = TRUE, !.adapter = j.adapter, !.status = "pending_approval",
            !.payload = j.form, !.sha = j.form, !.hash = j.token.nonce,
            !.expires = j.token.expires, !.used = FALSE, !.receipt = FALSE,
            !.error = "none"]

RequestCommit(w) ==
  LET j == job[w] IN
  /\ Finish(w, "issued")
  /\ j.row.exists \/ ~row[j.app].exists
  /\ row' = [row EXCEPT ![j.app] = WriteBack(row[j.app], j.row, Requested(j.row, j))]
  /\ tokens' = tokens \cup {j.token}
  /\ Log(j.app, "request_approval", j.token.nonce)
  /\ UNCHANGED <<opp, packetVars, lastNonce, history, now, failures>>

(* Another session inserted the row first: the UNIQUE packet_id makes this *)
(* session's INSERT fail, and the request ends in an error.                *)
RequestConflict(w) ==
  /\ Finish(w, "issued")
  /\ ~job[w].row.exists
  /\ row[job[w].app].exists
  /\ UNCHANGED <<store, packetVars, tokens, lastNonce, history, now, failures>>

-----------------------------------------------------------------------------
(* reject_application *)

RejectRead(w, a) ==
  /\ row[a].exists
  /\ Open(a)
  /\ Begin(w, "rejecting", [NoJob EXCEPT !.app = a, !.row = row[a]])
  /\ UNCHANGED <<store, packetVars, tokens, lastNonce, history, now, failures>>

Rejected(r) ==
  [r EXCEPT !.status = "rejected", !.hash = 0, !.used = TRUE, !.error = "rejected"]

RejectCommit(w) ==
  LET j == job[w] IN
  /\ Finish(w, "rejecting")
  /\ row' = [row EXCEPT ![j.app] = WriteBack(row[j.app], j.row, Rejected(j.row))]
  /\ Log(j.app, "reject", 0)
  /\ UNCHANGED <<opp, packetVars, tokens, lastNonce, history, now, failures>>

-----------------------------------------------------------------------------
(* approve_and_submit *)

(* parse_and_verify: the application, the signature over the row's         *)
(* checksum, and the expiry.                                               *)
Verifies(t, a, sha, time) ==
  /\ t.app = a
  /\ t.sha = sha
  /\ time < t.expires

(* Mutants of Accepts: the signature alone is trusted; the token need not  *)
(* be the one issued last.                                                 *)
AcceptsAnySigned(r, a, t, time) == r.exists /\ Verifies(t, a, r.sha, time)
AcceptsSuperseded(r, a, t, time) ==
  /\ r.exists /\ r.status = "pending_approval" /\ ~r.used
  /\ Verifies(t, a, r.sha, time)
  /\ r.payload = r.sha

(* Every check the approve handler makes on the row it loaded. *)
Accepts(r, a, t, time) ==
  /\ r.exists
  /\ r.status = "pending_approval"
  /\ ~r.used
  /\ Verifies(t, a, r.sha, time)
  /\ t.nonce = r.hash
  /\ r.payload = r.sha

ApproveRead(w, a, t) ==
  /\ Accepts(row[a], a, t, now)
  /\ Begin(w, "verified", [NoJob EXCEPT !.app = a, !.row = row[a], !.token = t,
                                        !.adapter = row[a].adapter,
                                        !.form = row[a].payload])
  /\ UNCHANGED <<store, packetVars, tokens, lastNonce, history, now, failures>>

(* parse_and_verify raised: an event is committed and the row is untouched.*)
ApproveDenied(w, a, t) ==
  /\ pc[w] = "idle"
  /\ row[a].exists /\ row[a].status = "pending_approval" /\ ~row[a].used
  /\ ~Verifies(t, a, row[a].sha, now)
  /\ Log(a, "approve_denied", 0)
  /\ UNCHANGED <<row, opp, packetVars, tokens, lastNonce, history, now, failures, control>>

(* Mutant of ApproveLoad: the form is filled again at send time. *)
ApproveLoadRefilled(w) ==
  /\ Advance(w, "verified", "loaded", [job[w] EXCEPT !.drafts = drafts[job[w].app],
                                                    !.form = form[job[w].app]])
  /\ UNCHANGED <<store, packetVars, tokens, lastNonce, history, now, failures>>

(* The packet and its drafts, as they are now. *)
ApproveLoad(w) ==
  /\ Advance(w, "verified", "loaded", [job[w] EXCEPT !.drafts = drafts[job[w].app]])
  /\ UNCHANGED <<store, packetVars, tokens, lastNonce, history, now, failures>>

(* What the adapter's submit may do.  The local adapters always succeed; a *)
(* live one may fail before anything left the machine ("refused") or after *)
(* ("lost": the connection dies after the message was accepted, or the     *)
(* browser fails after the click).                                         *)
AdapterOutcomes(adapter, f) ==
  IF adapter \in LocalAdapters THEN {"ok"}
  ELSE IF ApplyAsMe /\ CanUse(adapter, f) THEN Outcomes
  ELSE {"refused"}

(* _run_adapter: the one step with an effect outside the database. *)
Dispatch(w, result) ==
  LET j == job[w] IN
  /\ Advance(w, "loaded", "sent", [j EXCEPT !.result = result])
  /\ result \in AdapterOutcomes(j.adapter, j.form)
  /\ IF result = "refused"
     THEN UNCHANGED history
     ELSE /\ sends' = sends + 1
          /\ outbox' = outbox \cup
               {[id |-> sends + 1, app |-> j.app, token |-> j.token, payload |-> j.form,
                 drafts |-> j.drafts, adapter |-> j.adapter, result |-> result]}
  /\ UNCHANGED <<store, packetVars, tokens, lastNonce, now, failures>>

(* Mutants of Concluded: success is assumed; a failed attempt may be       *)
(* retried with the same token.                                            *)
ConcludedOptimist(r, ok) ==
  [r EXCEPT !.used = TRUE, !.hash = 0, !.status = "submitted", !.receipt = TRUE,
            !.error = "none"]
ConcludedRetry(r, ok) ==
  IF ok THEN [r EXCEPT !.used = TRUE, !.hash = 0, !.status = "submitted",
                       !.receipt = TRUE, !.error = "none"]
        ELSE [r EXCEPT !.error = "send_failed"]

(* The columns the approve handler assigns once the adapter returned. *)
Concluded(r, ok) ==
  IF ok THEN [r EXCEPT !.used = TRUE, !.hash = 0, !.status = "submitted",
                       !.receipt = TRUE, !.error = "none"]
        ELSE [r EXCEPT !.used = TRUE, !.hash = 0, !.status = "failed",
                       !.error = "send_failed"]

(* Mutant of MarkOpportunity: marked whatever the adapter said. *)
MarkOpportunityAlways(a, ok) == opp' = [opp EXCEPT ![a] = "submitted"]

MarkOpportunity(a, ok) == opp' = IF ok THEN [opp EXCEPT ![a] = "submitted"] ELSE opp

ApproveCommit(w) ==
  LET j == job[w]
      ok == j.result = "ok"
  IN
  /\ Finish(w, "sent")
  /\ row' = [row EXCEPT ![j.app] = WriteBack(row[j.app], j.row, Concluded(j.row, ok))]
  /\ MarkOpportunity(j.app, ok)
  /\ Log(j.app, IF ok THEN "submitted" ELSE "submit_failed", j.token.nonce)
  /\ UNCHANGED <<packetVars, tokens, lastNonce, history, now, failures>>

-----------------------------------------------------------------------------
(* Failures *)

(* session.commit() raises ("database is locked" after the busy timeout,   *)
(* a full disk): get_db rolls back and nothing of the handler is stored.   *)
CommitFails(w) ==
  /\ failures < MaxFailures
  /\ \E s \in {"issued", "rejecting", "sent"} : Finish(w, s)
  /\ failures' = failures + 1
  /\ UNCHANGED <<store, packetVars, tokens, lastNonce, history, now>>

(* The process dies: every handler in flight is gone, the database stays. *)
Crash ==
  /\ failures < MaxFailures
  /\ \E w \in Workers : pc[w] # "idle"
  /\ failures' = failures + 1
  /\ pc' = [w \in Workers |-> "idle"]
  /\ job' = [w \in Workers |-> NoJob]
  /\ UNCHANGED <<store, packetVars, tokens, lastNonce, history, now>>

-----------------------------------------------------------------------------
(* The rest of the system, as far as the gate sees it *)

(* The profile, the evidence, the vacancy or its apply path is edited. *)
EditForm(a, f) ==
  /\ f # form[a]
  /\ edits < MaxEdits /\ edits' = edits + 1
  /\ form' = [form EXCEPT ![a] = f]
  /\ UNCHANGED <<store, ready, drafts, tokens, lastNonce, history, now, failures, control>>

(* _mark_packet_preparing, _mark_packet_failed: the packet is not ready.   *)
PrepareStart(a) ==
  /\ ready[a]
  /\ edits < MaxEdits /\ edits' = edits + 1
  /\ ready' = [ready EXCEPT ![a] = FALSE]
  /\ UNCHANGED <<store, form, drafts, tokens, lastNonce, history, now, failures, control>>

(* _persist_packet_results: all drafts are replaced in one commit.  Runs   *)
(* of one packet may overlap, so that it may be ready already, and a run   *)
(* whose copy of a column had the new value leaves that column as it is.   *)
PrepareDone(a) ==
  /\ edits < MaxEdits /\ edits' = edits + 1
  /\ \E b \in {TRUE, ready[a]} : ready' = [ready EXCEPT ![a] = b]
  /\ drafts' = [drafts EXCEPT ![a] = @ + 1]
  /\ opp' \in {opp, [opp EXCEPT ![a] = "prepared"]}
  /\ UNCHANGED <<row, events, form, tokens, lastNonce, history, now, failures, control>>

(* upsert_listing finds the vacancy again. *)
Rediscover(a) ==
  /\ opp[a] # "discovered"
  /\ edits < MaxEdits /\ edits' = edits + 1
  /\ opp' = [opp EXCEPT ![a] = "discovered"]
  /\ UNCHANGED <<row, events, ready, form, drafts, tokens, lastNonce, history, now, failures, control>>

Tick ==
  /\ now < MaxTime
  /\ now' = now + 1
  /\ UNCHANGED <<store, packetVars, tokens, lastNonce, history, failures, control>>

-----------------------------------------------------------------------------
(* Every packet was prepared once and no approval was requested yet. *)
Init ==
  /\ row = [a \in Apps |-> NewRow]
  /\ opp = [a \in Apps |-> "prepared"]
  /\ ready = [a \in Apps |-> TRUE]
  /\ form \in [Apps -> Forms]
  /\ drafts = [a \in Apps |-> 1]
  /\ events = {}
  /\ tokens = {}
  /\ lastNonce = 0
  /\ outbox = {}
  /\ sends = 0
  /\ now = 0
  /\ edits = 0
  /\ failures = 0
  /\ pc = [w \in Workers |-> "idle"]
  /\ job = [w \in Workers |-> NoJob]

Request(w) ==
  \/ \E a \in Apps, adapter \in Adapters : RequestPreview(w, a, adapter)
  \/ RequestRead(w)
  \/ RequestRefused(w)
  \/ RequestCommit(w)
  \/ RequestConflict(w)

Reject(w) ==
  \/ \E a \in Apps : RejectRead(w, a)
  \/ RejectCommit(w)

Approve(w) ==
  \/ \E a \in Apps, t \in tokens : ApproveRead(w, a, t)
  \/ \E a \in Apps, t \in tokens \cup {NoToken} : ApproveDenied(w, a, t)
  \/ ApproveLoad(w)
  \/ \E result \in Outcomes : Dispatch(w, result)
  \/ ApproveCommit(w)

Environment ==
  \/ \E a \in Apps, f \in Forms : EditForm(a, f)
  \/ \E a \in Apps : PrepareStart(a) \/ PrepareDone(a) \/ Rediscover(a)
  \/ Tick

Next ==
  \/ \E w \in Workers : Request(w) \/ Reject(w) \/ Approve(w) \/ CommitFails(w)
  \/ Crash
  \/ Environment

Spec == Init /\ [][Next]_vars

-----------------------------------------------------------------------------
(* Properties *)

(* What a handler holds at each of its steps. *)
Holds(step, j) ==
  /\ step # "idle" => j.app \in Apps
  /\ step = "previewed" => j.form \in Forms
  /\ step \in {"issued", "verified", "loaded", "sent"} => j.token \in Token

(* Every variable has its type, and a handler holds what its step needs.   *)
TypeOK ==
  /\ row \in [Apps -> Row]
  /\ opp \in [Apps -> {"discovered", "prepared", "submitted"}]
  /\ ready \in [Apps -> BOOLEAN]
  /\ form \in [Apps -> Forms]
  /\ drafts \in [Apps -> Nat]
  /\ events \in SUBSET Event
  /\ tokens \in SUBSET Token
  /\ lastNonce \in Nat
  /\ outbox \in SUBSET Sent
  /\ sends \in Nat /\ now \in Nat /\ edits \in Nat /\ failures \in Nat
  /\ pc \in [Workers -> Steps]
  /\ job \in [Workers -> Job]
  /\ \A w \in Workers : Holds(pc[w], job[w])

(* Whatever leaves the process carries exactly the payload whose checksum  *)
(* the human's token was signed for, and the token is one that a           *)
(* request_approval of that application returned.  Sessions that overwrite *)
(* each other's columns can leave a row whose payload, checksum and token  *)
(* hash come from different requests: such a row must not be sendable.     *)
SentWhatWasApproved ==
  \A e \in outbox :
    /\ e.token \in tokens
    /\ e.token.app = e.app
    /\ e.payload = e.token.sha

Completions == {"submitted", "submit_failed"}

(* Once an approve handler has recorded an outcome for a token, no later   *)
(* approve request can pass the checks with it, whatever other sessions    *)
(* write to the row before or after.                                       *)
CompletedTokenIsDead ==
  \A ev \in events, t \in tokens :
    ev.action \in Completions /\ ev.nonce = t.nonce
      => ~Accepts(row[ev.app], ev.app, t, now)

(* A token that was superseded, rejected or used never becomes the row's   *)
(* token again, in whatever order handlers commit what they loaded before. *)
RetiredTokensStayRetired ==
  [][\A t \in tokens :
       row[t.app].hash # t.nonce => row'[t.app].hash # t.nonce]_vars

(* A row says "submitted" only if the adapter reported success for that    *)
(* application.                                                            *)
SubmittedWasSent ==
  \A a \in Apps : row[a].status = "submitted"
    => \E e \in outbox : e.app = a /\ e.result = "ok"

(* Every dispatch is in the audit log of application_events, or its handler *)
(* is about to log it: no handler ended between its dispatch and its commit.*)
NoDispatchIsLost ==
  \A e \in outbox :
    \/ \E ev \in events : /\ ev.app = e.app
                          /\ ev.nonce = e.token.nonce
                          /\ ev.action \in Completions
    \/ \E w \in Workers : pc[w] = "sent" /\ job[w].token = e.token

(* As long as no commit failed and no process died, no dispatch is lost to *)
(* the audit log.                                                          *)
DispatchIsLogged == failures = 0 => NoDispatchIsLost

(* "Single-use": one token sends at most once.                             *)
AtMostOncePerToken ==
  \A e1, e2 \in outbox : e1.token = e2.token => e1 = e2

(* "Cannot reject a submitted application", "This packet was already       *)
(* submitted": a submitted row keeps its status.                           *)
SubmittedIsTerminal ==
  [][\A a \in Apps : row[a].status = "submitted" => row'[a].status = "submitted"]_vars

(* The stored row of a submitted application describes what was sent: the  *)
(* payload and the adapter are those of a successful dispatch, and it has  *)
(* its receipt and no error text.                                          *)
RecordMatchesDispatch ==
  \A a \in Apps : row[a].status = "submitted" =>
    /\ row[a].receipt /\ row[a].error = "none"
    /\ \E e \in outbox : /\ e.app = a /\ e.result = "ok"
                         /\ e.payload = row[a].payload
                         /\ e.adapter = row[a].adapter

(* Nothing is sent for an application while it is rejected.                *)
NoSendWhileRejected ==
  [][\A a \in Apps : row[a].status = "rejected"
       => \A e \in outbox' \ outbox : e.app # a]_vars

(* The opportunity is marked submitted only with its application: a failed *)
(* or rejected one never leaves it so.                                     *)
OppFollowsApplication ==
  \A a \in Apps : opp[a] = "submitted" => row[a].status = "submitted"

-----------------------------------------------------------------------------
(* The inductive strengthening behind the concurrent properties *)

(* A token still being issued is not one that a client already holds, and  *)
(* no two handlers are issuing the same one.                               *)
NoncesAreFresh ==
  /\ \A t \in tokens : t.nonce <= lastNonce
  /\ \A w \in Workers : pc[w] = "issued" =>
       /\ job[w].token.nonce <= lastNonce
       /\ \A t \in tokens : t.nonce # job[w].token.nonce
       /\ \A v \in Workers : pc[v] = "issued" /\ job[v].token.nonce = job[w].token.nonce
            => v = w

(* What an approve handler established before it calls the adapter.        *)
Approved(j) ==
  /\ j.token \in tokens
  /\ j.token.app = j.app
  /\ j.form = j.token.sha
  /\ j.row.hash = j.token.nonce

ApproversVerified ==
  \A w \in Workers : pc[w] \in {"verified", "loaded", "sent"} => Approved(job[w])

(* A recorded outcome is that of an issued token, which the row no longer  *)
(* accepts.                                                                *)
CompletionsRetireTokens ==
  \A ev \in events : ev.action \in Completions =>
    /\ \E t \in tokens : t.nonce = ev.nonce
    /\ row[ev.app].hash # ev.nonce

SuccessWasSent ==
  \A w \in Workers : pc[w] = "sent" /\ job[w].result = "ok" =>
    \E e \in outbox : e.app = job[w].app /\ e.result = "ok"

GateInv ==
  /\ TypeOK
  /\ NoncesAreFresh /\ ApproversVerified /\ CompletionsRetireTokens /\ SuccessWasSent
  /\ SentWhatWasApproved /\ SubmittedWasSent /\ DispatchIsLogged

-----------------------------------------------------------------------------
(* Orderly behaviours: the single-use promises hold only for those *)

Approving == {"verified", "loaded", "sent"}

(* The steps at which a handler will still write, or send, what it loaded. *)
HoldsRow == {"issued", "rejecting"} \cup Approving

(* No two handlers of one application are at such steps together; handlers *)
(* of different applications may be.                                       *)
Apart(steps) ==
  \A v, w \in Workers :
    pc[v] \in steps /\ pc[w] \in steps /\ job[v].app = job[w].app => v = w

(* Nothing in the code keeps either: the first is the client's doing, the  *)
(* second fails with a crash or a failed commit after the adapter sent.    *)
Orderly == Apart(HoldsRow) /\ NoDispatchIsLost

(* The environment changes nothing that Orderly reads.                     *)
OrderlyNext ==
  \/ /\ \/ \E w \in Workers : Request(w) \/ Reject(w) \/ Approve(w) \/ CommitFails(w)
        \/ Crash
     /\ Orderly'
  \/ Environment

OrderlySpec == Init /\ [][OrderlyNext]_vars

(* A token about to be sent was never sent before.                         *)
SingleUseInv ==
  /\ GateInv
  /\ AtMostOncePerToken
  /\ \A w \in Workers : pc[w] \in {"verified", "loaded"} =>
       \A e \in outbox : e.token # job[w].token
=============================================================================
