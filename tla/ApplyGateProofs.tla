--------------------------- MODULE ApplyGateProofs ---------------------------
(***************************************************************************)
(* Theorems about ApplyGate, for any set of workers, applications and      *)
(* payloads and any bounds.                                                *)
(***************************************************************************)
EXTENDS MCApplyGate, TLAPS

-----------------------------------------------------------------------------
(* What the operators on rows and jobs return. *)

LEMMA WriteBackType ==
  ASSUME NEW db \in Row, NEW loaded \in Row, NEW new \in Row
  PROVE  WriteBack(db, loaded, new) \in Row
BY DEF WriteBack, Column, Row

LEMMA NewRowType == NewRow \in Row
BY DEF NewRow, Row, LocalAdapters, Statuses

LEMMA NoJobType == NoJob \in Job
BY NewRowType DEF NoJob, Job, LocalAdapters, Outcomes

LEMMA RequestedType ==
  ASSUME NEW r \in Row, NEW j \in Job, j.token \in Token
  PROVE  Requested(r, j) \in Row
BY DEF Requested, Row, Job, Token, Statuses

LEMMA RejectedType ==
  ASSUME NEW r \in Row
  PROVE  Rejected(r) \in Row
BY DEF Rejected, Row, Statuses

LEMMA ConcludedType ==
  ASSUME NEW r \in Row, NEW ok \in BOOLEAN
  PROVE  Concluded(r, ok) \in Row
BY DEF Concluded, Row, Statuses

LEMMA IssueTokenType ==
  ASSUME TypeOK, NEW a \in Apps, NEW f \in Forms, NEW shown \in Nat
  PROVE  IssueToken(a, f, shown) \in Token
BY GateAssumption DEF TypeOK, IssueToken, Token

(* A worker's move keeps the types of pc and job, if it now carries a job  *)
(* that its new step can use.                                              *)
JobsTyped == /\ pc \in [Workers -> Steps] /\ job \in [Workers -> Job]
             /\ \A w \in Workers : Holds(pc[w], job[w])

LEMMA BeginType ==
  ASSUME TypeOK, NEW w \in Workers, NEW step \in Steps, NEW j \in Job,
         Holds(step, j), Begin(w, step, j)
  PROVE  JobsTyped'
BY DEF TypeOK, Begin, JobsTyped

LEMMA AdvanceType ==
  ASSUME TypeOK, NEW w \in Workers, NEW from, NEW to \in Steps, NEW j \in Job,
         Holds(to, j), Advance(w, from, to, j)
  PROVE  JobsTyped'
BY DEF TypeOK, Advance, JobsTyped

LEMMA IdleHolds == Holds("idle", NoJob)
BY DEF Holds

LEMMA FinishType ==
  ASSUME TypeOK, NEW w \in Workers, NEW from, Finish(w, from)
  PROVE  JobsTyped'
BY NoJobType, IdleHolds DEF TypeOK, Finish, Steps, JobsTyped

(* The event a handler appends is an event. *)
LEMMA LogType ==
  ASSUME TypeOK, NEW a \in Apps, NEW n \in Nat,
         NEW action \in {"request_approval", "reject", "approve_denied",
                         "submitted", "submit_failed"},
         Log(a, action, n)
  PROVE  events' \in SUBSET Event
BY DEF TypeOK, Log, Event

-----------------------------------------------------------------------------
(* Type correctness *)

LEMMA RequestPreviewType ==
  ASSUME TypeOK, NEW w \in Workers, NEW a \in Apps, NEW adapter \in Adapters,
         RequestPreview(w, a, adapter)
  PROVE  TypeOK'
<1> DEFINE j == [NoJob EXCEPT !.app = a, !.form = form[a],
                              !.adapter = adapter, !.drafts = drafts[a]]
<1>1. j \in Job /\ Holds("previewed", j)
  BY NoJobType, GateAssumption DEF TypeOK, Job, Holds
<1>2. Begin(w, "previewed", j)
  BY DEF RequestPreview
<1>3. "previewed" \in Steps
  BY DEF Steps
<1> HIDE DEF j
<1>4. JobsTyped'
  BY <1>1, <1>2, <1>3, BeginType
<1> QED
  BY <1>4 DEF JobsTyped, RequestPreview, TypeOK, store, packetVars, history

LEMMA RequestReadType ==
  ASSUME TypeOK, NEW w \in Workers, RequestRead(w)
  PROVE  TypeOK'
<1> DEFINE a == job[w].app
           t == IssueToken(a, job[w].form, job[w].drafts)
           j == [job[w] EXCEPT !.row = row[a], !.token = t]
<1>1. /\ pc[w] = "previewed" /\ Holds(pc[w], job[w]) /\ job[w] \in Job
      /\ a \in Apps /\ job[w].form \in Forms /\ row[a] \in Row /\ job[w].drafts \in Nat
  BY DEF TypeOK, RequestRead, Holds, Job
<1>2. t \in Token
  BY <1>1, IssueTokenType
<1>3. j \in Job /\ Holds("issued", j) /\ "issued" \in Steps
  <2> HIDE DEF t
  <2> QED BY <1>1, <1>2 DEF Job, Holds, Steps
<1>4. Advance(w, "previewed", "issued", j)
  BY DEF RequestRead
<1> HIDE DEF j
<1>5. JobsTyped'
  BY <1>3, <1>4, AdvanceType
<1> QED
  BY <1>5 DEF JobsTyped, RequestRead, TypeOK, store, packetVars, history

LEMMA RequestCommitType ==
  ASSUME TypeOK, NEW w \in Workers, RequestCommit(w)
  PROVE  TypeOK'
<1> DEFINE j == job[w]
<1>1. /\ j \in Job /\ j.app \in Apps /\ j.token \in Token /\ j.row \in Row
      /\ row[j.app] \in Row /\ j.token.nonce \in Nat
  BY DEF TypeOK, RequestCommit, Finish, Holds, Job, Token
<1>2. WriteBack(row[j.app], j.row, Requested(j.row, j)) \in Row
  BY <1>1, RequestedType, WriteBackType
<1>3. events' \in SUBSET Event
  BY <1>1, LogType DEF RequestCommit
<1>4. JobsTyped'
  BY FinishType DEF RequestCommit
<1> QED
  BY <1>1, <1>2, <1>3, <1>4 DEF JobsTyped, RequestCommit, TypeOK, packetVars, history

LEMMA RejectReadType ==
  ASSUME TypeOK, NEW w \in Workers, NEW a \in Apps, RejectRead(w, a)
  PROVE  TypeOK'
<1> DEFINE j == [NoJob EXCEPT !.app = a, !.row = row[a]]
<1>1. j \in Job /\ Holds("rejecting", j) /\ "rejecting" \in Steps
  BY NoJobType DEF TypeOK, Job, Holds, Steps
<1>2. Begin(w, "rejecting", j)
  BY DEF RejectRead
<1> HIDE DEF j
<1>3. JobsTyped'
  BY <1>1, <1>2, BeginType
<1> QED
  BY <1>3 DEF JobsTyped, RejectRead, TypeOK, store, packetVars, history

LEMMA RejectCommitType ==
  ASSUME TypeOK, NEW w \in Workers, RejectCommit(w)
  PROVE  TypeOK'
<1> DEFINE j == job[w]
<1>1. j \in Job /\ j.app \in Apps /\ j.row \in Row /\ row[j.app] \in Row
  BY DEF TypeOK, RejectCommit, Finish, Holds, Job
<1>2. WriteBack(row[j.app], j.row, Rejected(j.row)) \in Row
  BY <1>1, RejectedType, WriteBackType
<1>3. events' \in SUBSET Event
  BY <1>1, LogType DEF RejectCommit
<1>4. JobsTyped'
  BY FinishType DEF RejectCommit
<1> QED
  BY <1>1, <1>2, <1>3, <1>4 DEF JobsTyped, RejectCommit, TypeOK, packetVars, history

LEMMA ApproveReadType ==
  ASSUME TypeOK, NEW w \in Workers, NEW a \in Apps, NEW t \in tokens,
         ApproveRead(w, a, t)
  PROVE  TypeOK'
<1> DEFINE j == [NoJob EXCEPT !.app = a, !.row = row[a], !.token = t,
                              !.adapter = row[a].adapter,
                              !.form = row[a].payload]
<1>1. t \in Token /\ row[a] \in Row /\ now \in Nat
  BY DEF TypeOK
<1>2. j \in Job /\ Holds("verified", j) /\ "verified" \in Steps
  BY <1>1, NoJobType DEF Job, Row, Holds, Steps
<1>3. Begin(w, "verified", j)
  BY DEF ApproveRead
<1> HIDE DEF j
<1>4. JobsTyped'
  BY <1>2, <1>3, BeginType
<1> QED
  BY <1>4 DEF JobsTyped, ApproveRead, TypeOK, store, packetVars, history

LEMMA ApproveLoadType ==
  ASSUME TypeOK, NEW w \in Workers, ApproveLoad(w)
  PROVE  TypeOK'
<1> DEFINE j == [job[w] EXCEPT !.drafts = drafts[job[w].app]]
<1>1. /\ pc[w] = "verified" /\ job[w] \in Job /\ job[w].app \in Apps
      /\ job[w].token \in Token /\ drafts[job[w].app] \in Nat
  BY DEF TypeOK, ApproveLoad, Advance, Holds
<1>2. j \in Job /\ Holds("loaded", j) /\ "loaded" \in Steps
  BY <1>1 DEF Job, Holds, Steps
<1>3. Advance(w, "verified", "loaded", j)
  BY DEF ApproveLoad
<1> HIDE DEF j
<1>4. JobsTyped'
  BY <1>2, <1>3, AdvanceType
<1> QED
  BY <1>4 DEF JobsTyped, ApproveLoad, TypeOK, store, packetVars, history

(* What a dispatch adds to the outbox. *)
LEMMA DispatchSends ==
  ASSUME NEW w \in Workers, NEW result \in Outcomes, Dispatch(w, result)
  PROVE  \/ result = "refused" /\ outbox' = outbox /\ sends' = sends
         \/ /\ result # "refused" /\ sends' = sends + 1
            /\ outbox' = outbox \cup
                 {[id |-> sends + 1, app |-> job[w].app, token |-> job[w].token,
                   payload |-> job[w].form, drafts |-> job[w].drafts,
                   adapter |-> job[w].adapter, result |-> result]}
BY DEF Dispatch, history

LEMMA DispatchType ==
  ASSUME TypeOK, NEW w \in Workers, NEW result \in Outcomes, Dispatch(w, result)
  PROVE  TypeOK'
<1> DEFINE j == [job[w] EXCEPT !.result = result]
<1>1. /\ pc[w] = "loaded" /\ job[w] \in Job /\ job[w].app \in Apps
      /\ job[w].token \in Token
  BY DEF TypeOK, Dispatch, Advance, Holds
<1>2. j \in Job /\ Holds("sent", j) /\ "sent" \in Steps
  BY <1>1 DEF Job, Holds, Steps
<1>3. Advance(w, "loaded", "sent", j)
  BY DEF Dispatch
<1>4. outbox' \in SUBSET Sent /\ sends' \in Nat
  BY <1>1, DispatchSends DEF TypeOK, Sent, Job, Outcomes
<1> HIDE DEF j
<1>5. JobsTyped'
  BY <1>2, <1>3, AdvanceType
<1> QED
  BY <1>4, <1>5 DEF JobsTyped, Dispatch, TypeOK, store, packetVars

LEMMA ApproveCommitType ==
  ASSUME TypeOK, NEW w \in Workers, ApproveCommit(w)
  PROVE  TypeOK'
<1> DEFINE j == job[w]
           ok == j.result = "ok"
<1>1. /\ j \in Job /\ j.app \in Apps /\ j.token \in Token /\ j.row \in Row
      /\ row[j.app] \in Row /\ j.token.nonce \in Nat
  BY DEF TypeOK, ApproveCommit, Finish, Holds, Job, Token
<1>2. WriteBack(row[j.app], j.row, Concluded(j.row, ok)) \in Row
  BY <1>1, ConcludedType, WriteBackType
<1>3. events' \in SUBSET Event
  BY <1>1, LogType DEF ApproveCommit
<1>4. JobsTyped'
  BY FinishType DEF ApproveCommit
<1>5. opp' \in [Apps -> {"discovered", "prepared", "submitted"}]
  BY <1>1 DEF ApproveCommit, MarkOpportunity, TypeOK
<1> QED
  BY <1>1, <1>2, <1>3, <1>4, <1>5
  DEF JobsTyped, ApproveCommit, TypeOK, packetVars, history

(* The steps that leave rows, tokens and the outbox alone and whose worker *)
(* ends, or that belong to no worker.                                      *)
LEMMA QuietStepType ==
  ASSUME TypeOK,
         \/ \E w \in Workers : RequestRefused(w) \/ RequestConflict(w) \/ CommitFails(w)
         \/ \E w \in Workers, a \in Apps, t \in tokens \cup {NoToken} : ApproveDenied(w, a, t)
         \/ Crash
         \/ Environment
         \/ UNCHANGED vars
  PROVE  TypeOK'
<1>1. ASSUME NEW w \in Workers, RequestRefused(w) \/ RequestConflict(w) \/ CommitFails(w)
      PROVE  TypeOK'
  <2>1. JobsTyped'
    BY <1>1, FinishType DEF RequestRefused, RequestConflict, CommitFails
  <2> QED
    BY <1>1, <2>1
    DEF JobsTyped, RequestRefused, RequestConflict, CommitFails, TypeOK, store,
        packetVars, history
<1>2. ASSUME NEW w \in Workers, NEW a \in Apps, NEW t, ApproveDenied(w, a, t)
      PROVE  TypeOK'
  <2>1. events' \in SUBSET Event
    BY <1>2, LogType DEF ApproveDenied
  <2> QED
    BY <1>2, <2>1 DEF ApproveDenied, TypeOK, packetVars, history, control
<1>3. ASSUME Crash PROVE TypeOK'
  <2>1. JobsTyped'
    BY <1>3, NoJobType, IdleHolds DEF Crash, JobsTyped, Steps
  <2> QED
    BY <1>3, <2>1 DEF JobsTyped, Crash, TypeOK, store, packetVars, history
<1>4. ASSUME Environment PROVE TypeOK'
  <2>1. ASSUME NEW a \in Apps, NEW f \in Forms, EditForm(a, f) PROVE TypeOK'
    BY <2>1 DEF EditForm, TypeOK, store, history, control
  <2>2. ASSUME NEW a \in Apps, PrepareStart(a) PROVE TypeOK'
    BY <2>2 DEF PrepareStart, TypeOK, store, history, control
  <2>3. ASSUME NEW a \in Apps, PrepareDone(a) PROVE TypeOK'
    <3>0. PICK b \in {TRUE, ready[a]} : ready' = [ready EXCEPT ![a] = b]
      BY <2>3 DEF PrepareDone
    <3>1. ready' \in [Apps -> BOOLEAN]
      BY <3>0 DEF TypeOK
    <3>3. drafts' \in [Apps -> Nat] /\ edits' \in Nat
      BY <2>3 DEF PrepareDone, TypeOK
    <3>2. opp' \in [Apps -> {"discovered", "prepared", "submitted"}]
      BY <2>3 DEF PrepareDone, TypeOK
    <3> QED
      BY <2>3, <3>1, <3>2, <3>3 DEF PrepareDone, TypeOK, history, control
  <2>4. ASSUME NEW a \in Apps, Rediscover(a) PROVE TypeOK'
    BY <2>4 DEF Rediscover, TypeOK, history, control
  <2>5. ASSUME Tick PROVE TypeOK'
    BY <2>5 DEF Tick, TypeOK, store, packetVars, history, control
  <2> QED
    BY <1>4, <2>1, <2>2, <2>3, <2>4, <2>5 DEF Environment
<1>5. ASSUME UNCHANGED vars PROVE TypeOK'
  BY <1>5 DEF vars, TypeOK, store, packetVars, history, control
<1> QED
  BY <1>1, <1>2, <1>3, <1>4, <1>5

LEMMA InitType == Init => TypeOK
BY NewRowType, NoJobType, IdleHolds DEF Init, TypeOK, Steps

LEMMA NextType == TypeOK /\ [Next]_vars => TypeOK'
<1> SUFFICES ASSUME TypeOK, [Next]_vars PROVE TypeOK'
  OBVIOUS
<1>1. ASSUME NEW w \in Workers, Request(w) PROVE TypeOK'
  BY <1>1, RequestPreviewType, RequestReadType, RequestCommitType, QuietStepType
  DEF Request
<1>2. ASSUME NEW w \in Workers, Reject(w) PROVE TypeOK'
  BY <1>2, RejectReadType, RejectCommitType DEF Reject
<1>3. ASSUME NEW w \in Workers, Approve(w) PROVE TypeOK'
  BY <1>3, ApproveReadType, ApproveLoadType, DispatchType, ApproveCommitType, QuietStepType
  DEF Approve
<1> QED
  BY <1>1, <1>2, <1>3, QuietStepType DEF Next

(* In every reachable state all variables have their types, whatever the   *)
(* handlers of service.py interleave.                                      *)
THEOREM GateTypeCorrect == Spec => []TypeOK
BY InitType, NextType, PTL DEF Spec
-----------------------------------------------------------------------------
(* The inductive invariant GateInv, for any number of workers *)

Unconstrained == {"idle", "previewed", "rejecting"}

(* A step that writes no row, issues no token, sends nothing and records   *)
(* no outcome, and whose workers stay where they are or move to a step of  *)
(* which GateInv says nothing.                                             *)
LEMMA QuietStepInv ==
  ASSUME GateInv, TypeOK',
         UNCHANGED <<row, tokens, lastNonce, outbox>>,
         events \subseteq events',
         \A ev \in events' \ events : ev.action \notin Completions,
         \A w \in Workers : \/ pc'[w] = pc[w] /\ job'[w] = job[w]
                            \/ pc'[w] \in Unconstrained,
         failures' = 0 => /\ failures = 0
                          /\ \A w \in Workers : pc[w] = "sent" =>
                               pc'[w] = "sent" /\ job'[w] = job[w]
  PROVE  GateInv'
<1>1. NoncesAreFresh'
  BY DEF GateInv, NoncesAreFresh, Unconstrained
<1>2. ApproversVerified'
  BY DEF GateInv, ApproversVerified, Approved, Unconstrained
<1>3. CompletionsRetireTokens'
  BY DEF GateInv, CompletionsRetireTokens
<1>4. SuccessWasSent'
  BY DEF GateInv, SuccessWasSent, Unconstrained
<1>5. SentWhatWasApproved' /\ SubmittedWasSent'
  BY DEF GateInv, SentWhatWasApproved, SubmittedWasSent
<1>6. DispatchIsLogged'
  BY DEF GateInv, DispatchIsLogged, NoDispatchIsLost
<1> QED
  BY <1>1, <1>2, <1>3, <1>4, <1>5, <1>6 DEF GateInv

LEMMA RequestReadInv ==
  ASSUME GateInv, TypeOK', NEW w \in Workers, RequestRead(w)
  PROVE  GateInv'
<1>1. /\ UNCHANGED <<row, events, tokens, outbox, failures>>
      /\ pc[w] = "previewed" /\ pc'[w] = "issued"
      /\ lastNonce \in Nat /\ lastNonce' = lastNonce + 1
      /\ job'[w].token.nonce = lastNonce'
      /\ \A v \in Workers \ {w} : pc'[v] = pc[v] /\ job'[v] = job[v]
  BY DEF GateInv, TypeOK, RequestRead, Advance, IssueToken, store, packetVars, history, Job
<1>2. /\ \A t \in tokens : t.nonce \in Nat
      /\ \A v \in Workers : pc[v] = "issued" => job[v].token.nonce \in Nat
  BY DEF GateInv, TypeOK, Holds, Token
<1>3. NoncesAreFresh'
  BY <1>1, <1>2 DEF GateInv, NoncesAreFresh
<1>4. ApproversVerified'
  BY <1>1 DEF GateInv, ApproversVerified, Approved
<1>5. CompletionsRetireTokens' /\ SuccessWasSent'
  BY <1>1 DEF GateInv, CompletionsRetireTokens, SuccessWasSent
<1>6. SentWhatWasApproved' /\ SubmittedWasSent'
  BY <1>1 DEF GateInv, SentWhatWasApproved, SubmittedWasSent
<1>7. DispatchIsLogged'
  BY <1>1 DEF GateInv, DispatchIsLogged, NoDispatchIsLost
<1> QED
  BY <1>3, <1>4, <1>5, <1>6, <1>7 DEF GateInv

LEMMA ApproveReadInv ==
  ASSUME GateInv, TypeOK', NEW w \in Workers, NEW a \in Apps, NEW t \in tokens,
         ApproveRead(w, a, t)
  PROVE  GateInv'
<1>1. /\ UNCHANGED <<row, events, tokens, lastNonce, outbox, failures>>
      /\ pc[w] = "idle" /\ pc'[w] = "verified"
      /\ \A v \in Workers \ {w} : pc'[v] = pc[v] /\ job'[v] = job[v]
  BY DEF GateInv, TypeOK, ApproveRead, Begin, store, packetVars, history
<1>2. Approved(job[w])'
  BY DEF GateInv, TypeOK, ApproveRead, Begin, Accepts, Verifies, Approved, NoJob, store
<1>3. NoncesAreFresh'
  BY <1>1 DEF GateInv, NoncesAreFresh
<1>4. ApproversVerified'
  BY <1>1, <1>2 DEF GateInv, ApproversVerified, Approved
<1>5. CompletionsRetireTokens' /\ SuccessWasSent'
  BY <1>1 DEF GateInv, CompletionsRetireTokens, SuccessWasSent
<1>6. SentWhatWasApproved' /\ SubmittedWasSent'
  BY <1>1 DEF GateInv, SentWhatWasApproved, SubmittedWasSent
<1>7. DispatchIsLogged'
  BY <1>1 DEF GateInv, DispatchIsLogged, NoDispatchIsLost
<1> QED
  BY <1>3, <1>4, <1>5, <1>6, <1>7 DEF GateInv

LEMMA ApproveLoadInv ==
  ASSUME GateInv, TypeOK', NEW w \in Workers, ApproveLoad(w)
  PROVE  GateInv'
<1>1. /\ UNCHANGED <<row, events, tokens, lastNonce, outbox, failures>>
      /\ pc[w] = "verified" /\ pc'[w] = "loaded"
      /\ \A v \in Workers \ {w} : pc'[v] = pc[v] /\ job'[v] = job[v]
  BY DEF GateInv, TypeOK, ApproveLoad, Advance, store, packetVars, history
<1>2. Approved(job[w])'
  <2>1. Approved(job[w]) /\ job[w] \in Job
    BY <1>1 DEF GateInv, ApproversVerified, TypeOK
  <2>2. job'[w] = [job[w] EXCEPT !.drafts = drafts[job[w].app]]
    BY DEF GateInv, TypeOK, ApproveLoad, Advance
  <2> QED
    BY <1>1, <2>1, <2>2 DEF Approved, Job
<1>3. NoncesAreFresh'
  BY <1>1 DEF GateInv, NoncesAreFresh
<1>4. ApproversVerified'
  BY <1>1, <1>2 DEF GateInv, ApproversVerified, Approved
<1>5. CompletionsRetireTokens' /\ SuccessWasSent'
  BY <1>1 DEF GateInv, CompletionsRetireTokens, SuccessWasSent
<1>6. SentWhatWasApproved' /\ SubmittedWasSent'
  BY <1>1 DEF GateInv, SentWhatWasApproved, SubmittedWasSent
<1>7. DispatchIsLogged'
  BY <1>1 DEF GateInv, DispatchIsLogged, NoDispatchIsLost
<1> QED
  BY <1>3, <1>4, <1>5, <1>6, <1>7 DEF GateInv

LEMMA DispatchInv ==
  ASSUME GateInv, TypeOK', NEW w \in Workers, NEW result \in Outcomes, Dispatch(w, result)
  PROVE  GateInv'
<1>1. /\ UNCHANGED <<row, events, tokens, lastNonce, failures>>
      /\ pc[w] = "loaded" /\ pc'[w] = "sent"
      /\ \A v \in Workers \ {w} : pc'[v] = pc[v] /\ job'[v] = job[v]
  BY DEF GateInv, TypeOK, Dispatch, Advance, store, packetVars
<1>2. /\ job'[w].result = result /\ job'[w].app = job[w].app
      /\ job'[w].token = job[w].token /\ job'[w].form = job[w].form
      /\ job'[w].row = job[w].row
  <2>1. job'[w] = [job[w] EXCEPT !.result = result] /\ job[w] \in Job
    BY DEF GateInv, TypeOK, Dispatch, Advance
  <2> QED
    BY <2>1 DEF Job
<1>3. Approved(job[w])
  BY <1>1 DEF GateInv, ApproversVerified
<1>4. /\ outbox \subseteq outbox'
      /\ \A e \in outbox' \ outbox :
           /\ e.app = job[w].app /\ e.token = job[w].token /\ e.payload = job[w].form
           /\ e.result = result
      /\ result = "ok" => \E e \in outbox' : e.app = job[w].app /\ e.result = "ok"
  <2> DEFINE sent == [id |-> sends + 1, app |-> job[w].app, token |-> job[w].token,
                      payload |-> job[w].form, drafts |-> job[w].drafts,
                      adapter |-> job[w].adapter, result |-> result]
  <2>1. \/ result = "refused" /\ outbox' = outbox
        \/ outbox' = outbox \cup {sent}
    BY DispatchSends
  <2>2. /\ sent.app = job[w].app /\ sent.token = job[w].token /\ sent.payload = job[w].form
        /\ sent.result = result
    OBVIOUS
  <2> HIDE DEF sent
  <2> QED
    BY <2>1, <2>2
<1>5. NoncesAreFresh'
  BY <1>1 DEF GateInv, NoncesAreFresh
<1>6. ApproversVerified'
  BY <1>1, <1>2, <1>3 DEF GateInv, ApproversVerified, Approved
<1>7. CompletionsRetireTokens'
  BY <1>1 DEF GateInv, CompletionsRetireTokens
<1>8. SuccessWasSent'
  BY <1>1, <1>2, <1>4 DEF GateInv, SuccessWasSent
<1>9. SentWhatWasApproved'
  BY <1>1, <1>3, <1>4 DEF GateInv, SentWhatWasApproved, Approved
<1>10. SubmittedWasSent'
  BY <1>1, <1>4 DEF GateInv, SubmittedWasSent
<1>11. DispatchIsLogged'
  BY <1>1, <1>2, <1>4 DEF GateInv, DispatchIsLogged, NoDispatchIsLost
<1> QED
  BY <1>5, <1>6, <1>7, <1>8, <1>9, <1>10, <1>11 DEF GateInv

(* What a commit can make of the token hash and the status of a row. *)
LEMMA WriteBackFields ==
  ASSUME NEW db, NEW loaded, NEW new
  PROVE  /\ WriteBack(db, loaded, new).hash \in {db.hash, new.hash}
         /\ WriteBack(db, loaded, new).status \in {db.status, new.status}
         /\ new.hash # loaded.hash => WriteBack(db, loaded, new).hash = new.hash
BY DEF WriteBack, Column

LEMMA RequestedFields ==
  ASSUME NEW r \in Row, NEW j \in Job
  PROVE  Requested(r, j).hash = j.token.nonce /\ Requested(r, j).status = "pending_approval"
BY DEF Requested, Row

LEMMA RejectedFields ==
  ASSUME NEW r \in Row
  PROVE  Rejected(r).hash = 0 /\ Rejected(r).status = "rejected"
BY DEF Rejected, Row

LEMMA ConcludedFields ==
  ASSUME NEW r \in Row, NEW ok \in BOOLEAN
  PROVE  /\ Concluded(r, ok).hash = 0
         /\ Concluded(r, ok).status = IF ok THEN "submitted" ELSE "failed"
BY DEF Concluded, Row

(* Every commit: the other rows stay, its worker becomes idle, nothing is  *)
(* sent and no nonce is drawn.                                             *)
LEMMA CommitFrame ==
  ASSUME TypeOK, NEW w \in Workers,
         RequestCommit(w) \/ RejectCommit(w) \/ ApproveCommit(w)
  PROVE  /\ pc'[w] = "idle"
         /\ \A v \in Workers \ {w} : pc'[v] = pc[v] /\ job'[v] = job[v]
         /\ \A a \in Apps \ {job[w].app} : row'[a] = row[a]
         /\ UNCHANGED <<lastNonce, outbox, failures>>
         /\ events \subseteq events' /\ tokens \subseteq tokens'
         /\ job[w] \in Job /\ job[w].app \in Apps
         /\ job[w].row \in Row /\ row[job[w].app] \in Row
<1>1. \E from \in Steps \ {"idle"} : Finish(w, from)
  BY DEF RequestCommit, RejectCommit, ApproveCommit, Steps
<1>2. /\ pc'[w] = "idle"
      /\ \A v \in Workers \ {w} : pc'[v] = pc[v] /\ job'[v] = job[v]
      /\ job[w] \in Job /\ job[w].app \in Apps
  BY <1>1 DEF TypeOK, Finish, Holds
<1>3. job[w].row \in Row /\ row[job[w].app] \in Row
  BY <1>2 DEF TypeOK, Job
<1>4. \A a \in Apps \ {job[w].app} : row'[a] = row[a]
  BY <1>2 DEF TypeOK, RequestCommit, RejectCommit, ApproveCommit
<1>5. /\ UNCHANGED <<lastNonce, outbox, failures>>
      /\ events \subseteq events' /\ tokens \subseteq tokens'
  BY DEF RequestCommit, RejectCommit, ApproveCommit, Log, history
<1> QED
  BY <1>2, <1>3, <1>4, <1>5

(* The parts of GateInv that no commit can disturb, whatever it writes to  *)
(* the row: they speak of the tokens, the outbox and the other workers.    *)
LEMMA CommitKeeps ==
  ASSUME GateInv, NEW w \in Workers,
         RequestCommit(w) \/ RejectCommit(w) \/ ApproveCommit(w)
  PROVE  /\ ApproversVerified' /\ SuccessWasSent'
         /\ SentWhatWasApproved'
<1>1. /\ pc'[w] = "idle"
      /\ \A v \in Workers \ {w} : pc'[v] = pc[v] /\ job'[v] = job[v]
      /\ UNCHANGED outbox /\ tokens \subseteq tokens'
  BY CommitFrame DEF GateInv
<1>2. ApproversVerified'
  BY <1>1 DEF GateInv, ApproversVerified, Approved
<1>3. SuccessWasSent'
  BY <1>1 DEF GateInv, SuccessWasSent
<1>4. SentWhatWasApproved'
  BY <1>1 DEF GateInv, SentWhatWasApproved
<1> QED
  BY <1>2, <1>3, <1>4

LEMMA RequestCommitInv ==
  ASSUME GateInv, TypeOK', NEW w \in Workers, RequestCommit(w)
  PROVE  GateInv'
<1> DEFINE j == job[w]
           a == j.app
<1>1. /\ pc'[w] = "idle"
      /\ \A v \in Workers \ {w} : pc'[v] = pc[v] /\ job'[v] = job[v]
      /\ \A b \in Apps \ {a} : row'[b] = row[b]
      /\ UNCHANGED <<lastNonce, outbox, failures>>
      /\ j \in Job /\ a \in Apps /\ j.row \in Row /\ row[a] \in Row
  BY CommitFrame DEF GateInv
<1>2. /\ row'[a].hash \in {row[a].hash, j.token.nonce}
      /\ row'[a].status \in {row[a].status, "pending_approval"}
  <2>1. row'[a] = WriteBack(row[a], j.row, Requested(j.row, j))
    BY <1>1 DEF GateInv, TypeOK, RequestCommit
  <2>2. /\ Requested(j.row, j).hash = j.token.nonce
        /\ Requested(j.row, j).status = "pending_approval"
    BY <1>1, RequestedFields
  <2> QED
    BY <2>1, <2>2, WriteBackFields
<1>3. /\ pc[w] = "issued" /\ tokens' = tokens \cup {j.token}
      /\ \A ev \in events' \ events : ev.action \notin Completions
      /\ events \subseteq events'
  BY DEF RequestCommit, Finish, Log, Completions
<1>4. /\ \A t \in tokens : t.nonce # j.token.nonce
      /\ j.token.nonce <= lastNonce
  BY <1>3 DEF GateInv, NoncesAreFresh
<1>5. NoncesAreFresh'
  BY <1>1, <1>3, <1>4 DEF GateInv, NoncesAreFresh
<1>6. CompletionsRetireTokens'
  <2> SUFFICES ASSUME NEW ev \in events', ev.action \in Completions
               PROVE  /\ \E t \in tokens' : t.nonce = ev.nonce
                      /\ row'[ev.app].hash # ev.nonce
    BY DEF CompletionsRetireTokens, Completions
  <2>1. ev \in events /\ ev.app \in Apps
    BY <1>3 DEF GateInv, TypeOK, Event
  <2>2. PICK t \in tokens : t.nonce = ev.nonce
    BY <2>1 DEF GateInv, CompletionsRetireTokens
  <2>3. row[ev.app].hash # ev.nonce
    BY <2>1 DEF GateInv, CompletionsRetireTokens
  <2> QED
    BY <1>1, <1>2, <1>3, <1>4, <2>1, <2>2, <2>3
<1>7. SubmittedWasSent'
  BY <1>1, <1>2 DEF GateInv, SubmittedWasSent
<1>8. DispatchIsLogged'
  BY <1>1, <1>3 DEF GateInv, DispatchIsLogged, NoDispatchIsLost
<1> QED
  BY <1>5, <1>6, <1>7, <1>8, CommitKeeps DEF GateInv

LEMMA RejectCommitInv ==
  ASSUME GateInv, TypeOK', NEW w \in Workers, RejectCommit(w)
  PROVE  GateInv'
<1> DEFINE j == job[w]
           a == j.app
<1>1. /\ pc'[w] = "idle"
      /\ \A v \in Workers \ {w} : pc'[v] = pc[v] /\ job'[v] = job[v]
      /\ \A b \in Apps \ {a} : row'[b] = row[b]
      /\ UNCHANGED <<lastNonce, outbox, failures>>
      /\ j \in Job /\ a \in Apps /\ j.row \in Row /\ row[a] \in Row
  BY CommitFrame DEF GateInv
<1>2. /\ row'[a].hash \in {row[a].hash, 0}
      /\ row'[a].status \in {row[a].status, "rejected"}
  <2>1. row'[a] = WriteBack(row[a], j.row, Rejected(j.row))
    BY <1>1 DEF GateInv, TypeOK, RejectCommit
  <2>2. Rejected(j.row).hash = 0 /\ Rejected(j.row).status = "rejected"
    BY <1>1, RejectedFields
  <2> QED
    BY <2>1, <2>2, WriteBackFields
<1>3. /\ pc[w] = "rejecting" /\ UNCHANGED tokens
      /\ \A ev \in events' \ events : ev.action \notin Completions
      /\ events \subseteq events'
  BY DEF RejectCommit, Finish, Log, Completions
<1>4. NoncesAreFresh'
  BY <1>1, <1>3 DEF GateInv, NoncesAreFresh
<1>5. CompletionsRetireTokens'
  <2> SUFFICES ASSUME NEW ev \in events', ev.action \in Completions
               PROVE  /\ \E t \in tokens' : t.nonce = ev.nonce
                      /\ row'[ev.app].hash # ev.nonce
    BY DEF CompletionsRetireTokens, Completions
  <2>1. ev \in events /\ ev.app \in Apps
    BY <1>3 DEF GateInv, TypeOK, Event
  <2>2. PICK t \in tokens : t.nonce = ev.nonce
    BY <2>1 DEF GateInv, CompletionsRetireTokens
  <2>3. row[ev.app].hash # ev.nonce /\ ev.nonce # 0
    BY <2>1, <2>2 DEF GateInv, CompletionsRetireTokens, TypeOK, Token
  <2> QED
    BY <1>1, <1>2, <1>3, <2>1, <2>2, <2>3
<1>6. SubmittedWasSent'
  BY <1>1, <1>2 DEF GateInv, SubmittedWasSent
<1>7. DispatchIsLogged'
  BY <1>1, <1>3 DEF GateInv, DispatchIsLogged, NoDispatchIsLost
<1> QED
  BY <1>4, <1>5, <1>6, <1>7, CommitKeeps DEF GateInv

LEMMA ApproveCommitInv ==
  ASSUME GateInv, TypeOK', NEW w \in Workers, ApproveCommit(w)
  PROVE  GateInv'
<1> DEFINE j == job[w]
           a == j.app
           ok == j.result = "ok"
<1>1. /\ pc'[w] = "idle"
      /\ \A v \in Workers \ {w} : pc'[v] = pc[v] /\ job'[v] = job[v]
      /\ \A b \in Apps \ {a} : row'[b] = row[b]
      /\ UNCHANGED <<lastNonce, outbox, failures>>
      /\ j \in Job /\ a \in Apps /\ j.row \in Row /\ row[a] \in Row
  BY CommitFrame DEF GateInv
<1>2. /\ pc[w] = "sent" /\ UNCHANGED tokens
      /\ \E action \in Completions :
           events' = events \cup {[app |-> a, action |-> action, nonce |-> j.token.nonce]}
  BY DEF ApproveCommit, Finish, Log, Completions
<1>3. Approved(j)
  BY <1>2 DEF GateInv, ApproversVerified
<1>4. j.token \in tokens /\ j.token.nonce # 0
  BY <1>3 DEF GateInv, TypeOK, Token, Approved
<1>5. /\ row'[a].hash = 0
      /\ row'[a].status \in {row[a].status, IF ok THEN "submitted" ELSE "failed"}
  <2>1. row'[a] = WriteBack(row[a], j.row, Concluded(j.row, ok))
    BY <1>1 DEF GateInv, TypeOK, ApproveCommit
  <2>2. /\ Concluded(j.row, ok).hash = 0
        /\ Concluded(j.row, ok).status = IF ok THEN "submitted" ELSE "failed"
    BY <1>1, ConcludedFields
  <2>3. Concluded(j.row, ok).hash # j.row.hash
    BY <1>3, <1>4, <2>2 DEF Approved
  <2> QED
    BY <2>1, <2>2, <2>3, WriteBackFields
<1>6. NoncesAreFresh'
  BY <1>1, <1>2 DEF GateInv, NoncesAreFresh
<1>7. CompletionsRetireTokens'
  <2> SUFFICES ASSUME NEW ev \in events', ev.action \in Completions
               PROVE  /\ \E t \in tokens : t.nonce = ev.nonce
                      /\ row'[ev.app].hash # ev.nonce
    BY <1>2 DEF CompletionsRetireTokens, Completions
  <2>1. CASE ev \in events
    <3>1. PICK t \in tokens : t.nonce = ev.nonce
      BY <2>1 DEF GateInv, CompletionsRetireTokens
    <3>2. ev.app \in Apps /\ row[ev.app].hash # ev.nonce /\ ev.nonce # 0
      BY <2>1, <3>1 DEF GateInv, CompletionsRetireTokens, TypeOK, Token, Event
    <3> QED
      BY <1>1, <1>5, <3>1, <3>2
  <2>2. CASE ev \notin events
    <3>1. ev.app = a /\ ev.nonce = j.token.nonce
      BY <1>2, <2>2
    <3> QED
      BY <1>4, <1>5, <3>1
  <2> QED
    BY <2>1, <2>2
<1>8. SubmittedWasSent'
  <2>1. ok => \E e \in outbox : e.app = a /\ e.result = "ok"
    BY <1>2 DEF GateInv, SuccessWasSent
  <2> QED
    BY <1>1, <1>5, <2>1 DEF GateInv, SubmittedWasSent
<1>9. DispatchIsLogged'
  <2> SUFFICES ASSUME failures' = 0, NEW e \in outbox'
               PROVE  \/ \E ev \in events' : /\ ev.app = e.app
                                             /\ ev.nonce = e.token.nonce
                                             /\ ev.action \in Completions
                      \/ \E v \in Workers : pc'[v] = "sent" /\ job'[v].token = e.token
    BY DEF DispatchIsLogged, NoDispatchIsLost, Completions
  <2>1. CASE e.token = j.token
    <3>1. e.app = a
      BY <1>1, <1>3, <2>1 DEF GateInv, SentWhatWasApproved, Approved
    <3>2. PICK action \in Completions :
            events' = events \cup {[app |-> a, action |-> action, nonce |-> j.token.nonce]}
      BY <1>2
    <3>3. [app |-> a, action |-> action, nonce |-> j.token.nonce] \in events'
      BY <3>2
    <3> QED
      BY <2>1, <3>1, <3>3
  <2>2. CASE e.token # j.token
    BY <1>1, <1>2, <2>2 DEF GateInv, DispatchIsLogged, NoDispatchIsLost
  <2> QED
    BY <2>1, <2>2
<1> QED
  BY <1>6, <1>7, <1>8, <1>9, CommitKeeps DEF GateInv

(* The other steps are all quiet in the sense of QuietStepInv.             *)
LEMMA QuietActionsInv ==
  ASSUME GateInv, TypeOK',
         \/ \E w \in Workers : \/ RequestRefused(w) \/ RequestConflict(w) \/ CommitFails(w)
                               \/ \E a \in Apps, adapter \in Adapters :
                                    RequestPreview(w, a, adapter)
                               \/ \E a \in Apps : RejectRead(w, a)
                               \/ \E a \in Apps, t \in tokens \cup {NoToken} :
                                    ApproveDenied(w, a, t)
         \/ Crash
         \/ Environment
         \/ UNCHANGED vars
  PROVE  GateInv'
<1>t. pc \in [Workers -> Steps] /\ job \in [Workers -> Job] /\ failures \in Nat
  BY DEF GateInv, TypeOK
<1>1. ASSUME NEW w \in Workers, RequestRefused(w) \/ RequestConflict(w)
      PROVE  GateInv'
  <2>1. /\ UNCHANGED <<row, tokens, lastNonce, outbox, events, failures>>
        /\ pc[w] # "sent" /\ pc'[w] = "idle"
        /\ \A v \in Workers \ {w} : pc'[v] = pc[v] /\ job'[v] = job[v]
    BY <1>t, <1>1 DEF RequestRefused, RequestConflict, Finish, store, history
  <2> QED
    BY <2>1, QuietStepInv DEF Unconstrained
<1>2. ASSUME NEW w \in Workers, CommitFails(w)
      PROVE  GateInv'
  <2>1. /\ UNCHANGED <<row, tokens, lastNonce, outbox, events>>
        /\ failures' # 0 /\ pc'[w] = "idle"
        /\ \A v \in Workers \ {w} : pc'[v] = pc[v] /\ job'[v] = job[v]
    BY <1>t, <1>2 DEF CommitFails, Finish, store, history
  <2> QED
    BY <2>1, QuietStepInv DEF Unconstrained
<1>3. ASSUME NEW w \in Workers, NEW a \in Apps,
             RejectRead(w, a) \/ \E adapter \in Adapters : RequestPreview(w, a, adapter)
      PROVE  GateInv'
  <2>1. /\ UNCHANGED <<row, tokens, lastNonce, outbox, events, failures>>
        /\ pc[w] = "idle" /\ pc'[w] \in Unconstrained
        /\ \A v \in Workers \ {w} : pc'[v] = pc[v] /\ job'[v] = job[v]
    BY <1>t, <1>3 DEF RejectRead, RequestPreview, Begin, store, history, Unconstrained
  <2> QED
    BY <2>1, QuietStepInv
<1>4. ASSUME NEW w \in Workers, NEW a \in Apps, NEW t, ApproveDenied(w, a, t)
      PROVE  GateInv'
  <2>1. /\ UNCHANGED <<row, tokens, lastNonce, outbox, failures, pc, job>>
        /\ events \subseteq events'
        /\ \A ev \in events' \ events : ev.action \notin Completions
    BY <1>4 DEF ApproveDenied, Log, history, control, Completions
  <2> QED
    BY <2>1, QuietStepInv
<1>5. ASSUME Crash
      PROVE  GateInv'
  <2>1. /\ UNCHANGED <<row, tokens, lastNonce, outbox, events>>
        /\ failures' # 0 /\ \A v \in Workers : pc'[v] = "idle"
    BY <1>t, <1>5 DEF Crash, store, history
  <2> QED
    BY <2>1, QuietStepInv DEF Unconstrained
<1>6. ASSUME Environment \/ UNCHANGED vars
      PROVE  GateInv'
  <2>1. UNCHANGED <<row, tokens, lastNonce, outbox, events, failures, pc, job>>
    BY <1>6 DEF Environment, EditForm, PrepareStart, PrepareDone, Rediscover, Tick,
                vars, store, history, control
  <2> QED
    BY <2>1, QuietStepInv
<1> QED
  BY <1>1, <1>2, <1>3, <1>4, <1>5, <1>6

LEMMA InitInv == Init => GateInv
<1> SUFFICES ASSUME Init PROVE GateInv
  OBVIOUS
<1>1. TypeOK
  BY InitType
<1>2. /\ tokens = {} /\ outbox = {} /\ events = {}
      /\ \A w \in Workers : pc[w] = "idle"
      /\ \A a \in Apps : row[a].status = "previewed"
  BY DEF Init, NewRow
<1> QED
  BY <1>1, <1>2
  DEF GateInv, NoncesAreFresh, ApproversVerified, CompletionsRetireTokens, SuccessWasSent,
      SentWhatWasApproved, SubmittedWasSent, DispatchIsLogged, NoDispatchIsLost

LEMMA NextInv == GateInv /\ [Next]_vars => GateInv'
<1> SUFFICES ASSUME GateInv, [Next]_vars PROVE GateInv'
  OBVIOUS
<1>t. TypeOK'
  BY NextType DEF GateInv
<1>1. ASSUME NEW w \in Workers, Request(w) PROVE GateInv'
  BY <1>t, <1>1, RequestReadInv, RequestCommitInv, QuietActionsInv DEF Request
<1>2. ASSUME NEW w \in Workers, Reject(w) PROVE GateInv'
  BY <1>t, <1>2, RejectCommitInv, QuietActionsInv DEF Reject
<1>3. ASSUME NEW w \in Workers, Approve(w) PROVE GateInv'
  BY <1>t, <1>3, ApproveReadInv, ApproveLoadInv, DispatchInv, ApproveCommitInv,
     QuietActionsInv DEF Approve
<1> QED
  BY <1>t, <1>1, <1>2, <1>3, QuietActionsInv DEF Next

(* GateInv holds in every reachable state: the fields a handler carries    *)
(* between its read, its dispatch and its commit stay tied to the tokens,  *)
(* the events and the rows, whatever the other handlers commit meanwhile.  *)
THEOREM GateInvariant == Spec => []GateInv
BY InitInv, NextInv, PTL DEF Spec

-----------------------------------------------------------------------------
(* What the gate guarantees under any interleaving, failure or crash *)

(* What leaves the process is the payload the token was signed for.        *)
THEOREM SendsOnlyWhatWasApproved == Spec => []SentWhatWasApproved
<1>1. GateInv => SentWhatWasApproved
  BY DEF GateInv
<1> QED
  BY <1>1, GateInvariant, PTL

(* Application.status is "submitted" only after a successful dispatch.     *)
THEOREM SubmittedMeansSent == Spec => []SubmittedWasSent
<1>1. GateInv => SubmittedWasSent
  BY DEF GateInv
<1> QED
  BY <1>1, GateInvariant, PTL

(* Without failures every dispatch is, or is about to be, in the audit log.*)
THEOREM EveryDispatchIsLogged == Spec => []DispatchIsLogged
<1>1. GateInv => DispatchIsLogged
  BY DEF GateInv
<1> QED
  BY <1>1, GateInvariant, PTL

(* A token whose outcome approve_and_submit recorded is never accepted     *)
(* again, even when another session overwrites columns of its row.         *)
THEOREM RecordedTokenIsDead == Spec => []CompletedTokenIsDead
<1>1. GateInv => CompletedTokenIsDead
  BY DEF GateInv, CompletionsRetireTokens, CompletedTokenIsDead, Accepts
<1> QED
  BY <1>1, GateInvariant, PTL

-----------------------------------------------------------------------------
(* Single use *)

(* What AtMostOncePerToken needs of the other handlers.  Requests and      *)
(* rejections may overlap with an approval and with each other.            *)
ApprovalsAreApart == Apart(Approving) /\ NoDispatchIsLost

LEMMA OrderlyApprovals == Orderly => ApprovalsAreApart
BY Zenon DEF Orderly, ApprovalsAreApart, Apart, HoldsRow

AboutToSend == {"verified", "loaded"}

OthersStay(w) == \A v \in Workers \ {w} : pc'[v] = pc[v] /\ job'[v] = job[v]

(* A step that sends nothing and brings no handler closer to sending.      *)
LEMMA NothingNewToSend ==
  ASSUME SingleUseInv, GateInv', UNCHANGED outbox,
         \A w \in Workers : pc'[w] \in AboutToSend =>
           pc[w] \in AboutToSend /\ job'[w].token = job[w].token
  PROVE  SingleUseInv'
BY DEF SingleUseInv, AtMostOncePerToken, AboutToSend

(* A token that is accepted was never sent: its dispatch is logged, since  *)
(* no other approval is in flight, and a logged token is dead.             *)
LEMMA ApproveReadSingle ==
  ASSUME SingleUseInv, GateInv', ApprovalsAreApart, ApprovalsAreApart',
         NEW w \in Workers, NEW a \in Apps, NEW t \in tokens, ApproveRead(w, a, t)
  PROVE  SingleUseInv'
<1>1. pc[w] = "idle" /\ pc'[w] = "verified" /\ OthersStay(w) /\ UNCHANGED outbox
  BY DEF SingleUseInv, GateInv, TypeOK, ApproveRead, Begin, history, OthersStay
<1>2. t.app = a /\ t.nonce = row[a].hash
  BY DEF ApproveRead, Accepts, Verifies
<1>3. job'[w].token = t /\ job'[w].app = a
  <2> DEFINE j == [NoJob EXCEPT !.app = a, !.row = row[a], !.token = t,
                                !.adapter = row[a].adapter,
                                !.form = row[a].payload]
  <2>1. j.token = t /\ j.app = a
    BY DEF NoJob
  <2>2. job'[w] = j
    BY DEF ApproveRead, Begin, SingleUseInv, GateInv, TypeOK
  <2> QED
    BY <2>1, <2>2
<1>4. \A v \in Workers : pc[v] = "sent" => job[v].token # t
  <2> SUFFICES ASSUME NEW v \in Workers, pc[v] = "sent", job[v].token = t PROVE FALSE
    OBVIOUS
  <2>1. job[v].app = a
    BY <1>2 DEF SingleUseInv, GateInv, ApproversVerified, Approved
  <2>2. pc'[v] = "sent" /\ job'[v].app = a /\ v # w
    BY <1>1, <2>1 DEF OthersStay
  <2> QED
    BY <1>1, <1>3, <2>2 DEF ApprovalsAreApart, Apart, Approving
<1>5. \A e \in outbox : e.token # t
  <2> SUFFICES ASSUME NEW e \in outbox, e.token = t PROVE FALSE
    OBVIOUS
  <2>1. e.app = a
    BY <1>2 DEF SingleUseInv, GateInv, SentWhatWasApproved
  <2>2. PICK ev \in events : ev.app = a /\ ev.nonce = t.nonce /\ ev.action \in Completions
    BY <1>4, <2>1 DEF ApprovalsAreApart, NoDispatchIsLost
  <2> QED
    BY <1>2, <2>2 DEF SingleUseInv, GateInv, CompletionsRetireTokens
<1>6. ASSUME NEW v \in Workers, pc'[v] \in {"verified", "loaded"}, NEW e \in outbox'
      PROVE  e.token # job'[v].token
  <2>1. CASE v = w
    BY <1>1, <1>3, <1>5, <1>6, <2>1
  <2>2. CASE v # w
    BY <1>1, <1>6, <2>2 DEF SingleUseInv, OthersStay
  <2> QED
    BY <2>1, <2>2
<1> QED
  BY <1>1, <1>6 DEF SingleUseInv, AtMostOncePerToken

(* The token that is sent is not about to be sent by another handler.      *)
LEMMA DispatchSingle ==
  ASSUME SingleUseInv, GateInv', ApprovalsAreApart,
         NEW w \in Workers, NEW result \in Outcomes, Dispatch(w, result)
  PROVE  SingleUseInv'
<1>1. pc[w] = "loaded" /\ pc'[w] = "sent" /\ OthersStay(w)
  BY DEF SingleUseInv, GateInv, TypeOK, Dispatch, Advance, OthersStay
<1>2. \A e \in outbox : e.token # job[w].token
  BY <1>1 DEF SingleUseInv
<1> DEFINE sent == [id |-> sends + 1, app |-> job[w].app, token |-> job[w].token,
                    payload |-> job[w].form, drafts |-> job[w].drafts,
                    adapter |-> job[w].adapter, result |-> result]
<1>3. outbox' = outbox \/ outbox' = outbox \cup {sent}
  BY DispatchSends DEF SingleUseInv, GateInv
<1>4. sent.token = job[w].token
  OBVIOUS
<1> HIDE DEF sent
<1>5. AtMostOncePerToken'
  BY <1>2, <1>3, <1>4 DEF SingleUseInv, AtMostOncePerToken
<1>6. ASSUME NEW v \in Workers, pc'[v] \in {"verified", "loaded"}, NEW e \in outbox'
      PROVE  e.token # job'[v].token
  <2>1. v # w /\ pc[v] \in {"verified", "loaded"} /\ job'[v] = job[v]
    BY <1>1, <1>6 DEF OthersStay
  <2>2. job[v].token # job[w].token
    <3>1. job[v].app = job[v].token.app /\ job[w].app = job[w].token.app
      BY <1>1, <2>1 DEF SingleUseInv, GateInv, ApproversVerified, Approved
    <3>2. job[v].app # job[w].app
      BY <1>1, <2>1 DEF ApprovalsAreApart, Apart, Approving
    <3> QED
      BY <3>1, <3>2
  <2> QED
    BY <1>3, <1>4, <1>6, <2>1, <2>2 DEF SingleUseInv
<1> QED
  BY <1>5, <1>6 DEF SingleUseInv

LEMMA NextSingle ==
  ASSUME SingleUseInv, ApprovalsAreApart, ApprovalsAreApart', [Next]_vars
  PROVE  SingleUseInv'
<1>g. GateInv'
  BY NextInv DEF SingleUseInv
<1>t. pc \in [Workers -> Steps] /\ job \in [Workers -> Job]
  BY DEF SingleUseInv, GateInv, TypeOK
<1>1. ASSUME NEW w \in Workers, Request(w) \/ Reject(w) PROVE SingleUseInv'
  <2>1. UNCHANGED outbox /\ pc'[w] \notin AboutToSend /\ OthersStay(w)
    BY <1>t, <1>1 DEF Request, RequestPreview, RequestRead, RequestRefused, RequestCommit,
                RequestConflict, Reject, RejectRead, RejectCommit, Begin, Advance, Finish,
                history, AboutToSend, OthersStay
  <2> QED
    BY <1>g, <2>1, NothingNewToSend DEF OthersStay
<1>2. ASSUME NEW w \in Workers, ApproveLoad(w) PROVE SingleUseInv'
  <2>1. UNCHANGED outbox /\ pc[w] \in AboutToSend /\ OthersStay(w)
    BY <1>t, <1>2 DEF ApproveLoad, Advance, history, AboutToSend, OthersStay
  <2>2. job'[w].token = job[w].token
    <3>1. job[w] \in Job /\ job'[w] = [job[w] EXCEPT !.drafts = drafts[job[w].app]]
      BY <1>t, <1>2 DEF ApproveLoad, Advance
    <3> QED
      BY <3>1 DEF Job
  <2> QED
    BY <1>g, <2>1, <2>2, NothingNewToSend DEF OthersStay
<1>3. ASSUME NEW w \in Workers, ApproveCommit(w) \/ CommitFails(w) PROVE SingleUseInv'
  <2>1. UNCHANGED outbox /\ pc'[w] \notin AboutToSend /\ OthersStay(w)
    BY <1>t, <1>3 DEF ApproveCommit, CommitFails, Finish, history, AboutToSend, OthersStay
  <2> QED
    BY <1>g, <2>1, NothingNewToSend DEF OthersStay
<1>4. ASSUME NEW w \in Workers, Approve(w) PROVE SingleUseInv'
  <2>1. ASSUME NEW a \in Apps, NEW t \in tokens, ApproveRead(w, a, t) PROVE SingleUseInv'
    BY <1>g, <2>1, ApproveReadSingle
  <2>2. ASSUME NEW a \in Apps, NEW t \in tokens \cup {NoToken}, ApproveDenied(w, a, t)
        PROVE  SingleUseInv'
    <3>1. UNCHANGED <<outbox, pc, job>>
      BY <2>2 DEF ApproveDenied, history, control
    <3> QED
      BY <1>g, <3>1, NothingNewToSend
  <2>3. ASSUME NEW result \in Outcomes, Dispatch(w, result) PROVE SingleUseInv'
    BY <1>g, <2>3, DispatchSingle
  <2> QED
    BY <1>2, <1>3, <1>4, <2>1, <2>2, <2>3 DEF Approve
<1>5. ASSUME Environment \/ UNCHANGED vars PROVE SingleUseInv'
  <2>1. UNCHANGED <<outbox, pc, job>>
    BY <1>5 DEF Environment, EditForm, PrepareStart, PrepareDone, Rediscover, Tick,
                vars, store, history, control
  <2> QED
    BY <1>g, <2>1, NothingNewToSend
<1>6. ASSUME Crash PROVE SingleUseInv'
  <2>1. UNCHANGED outbox /\ \A w \in Workers : pc'[w] \notin AboutToSend
    BY <1>6 DEF Crash, history, AboutToSend
  <2> QED
    BY <1>g, <2>1, NothingNewToSend
<1> QED
  BY <1>1, <1>3, <1>4, <1>5, <1>6 DEF Next

LEMMA InitSingle == Init => SingleUseInv
<1> SUFFICES ASSUME Init PROVE SingleUseInv
  OBVIOUS
<1>1. outbox = {}
  BY DEF Init
<1> QED
  BY <1>1, InitInv DEF SingleUseInv, AtMostOncePerToken

LEMMA ApartMeansSingleUse == Spec /\ []ApprovalsAreApart => []SingleUseInv
<1>1. SingleUseInv /\ ApprovalsAreApart /\ ApprovalsAreApart' /\ [Next]_vars => SingleUseInv'
  BY NextSingle
<1> QED
  BY InitSingle, <1>1, PTL DEF Spec

(* "Single-use": in every behaviour in which no two approve handlers of    *)
(* one application overlap and none ends between its dispatch and its      *)
(* commit, one token sends at most once, whatever requests, rejections,    *)
(* handlers of other applications, failed commits and crashes do besides.  *)
(* Neither premise can be dropped: the run gate_double breaks the property *)
(* without the first.                                                      *)
THEOREM TokensAreSingleUse == Spec /\ []ApprovalsAreApart => []AtMostOncePerToken
<1>1. SingleUseInv => AtMostOncePerToken
  BY DEF SingleUseInv
<1> QED
  BY <1>1, ApartMeansSingleUse, PTL

(* The behaviours of OrderlySpec are those of Spec that stay orderly.      *)
THEOREM OrderlyMeansOrderly == OrderlySpec <=> Spec /\ []Orderly
<1>1. Init => Orderly
  BY DEF Init, Orderly, Apart, HoldsRow, Approving, NoDispatchIsLost
<1>2. Orderly /\ [OrderlyNext]_vars => Orderly'
  <2>1. Environment \/ UNCHANGED vars => UNCHANGED <<pc, job, outbox, events>>
    BY DEF Environment, EditForm, PrepareStart, PrepareDone, Rediscover, Tick, vars, store,
           history, control
  <2>2. Orderly /\ UNCHANGED <<pc, job, outbox, events>> => Orderly'
    BY DEF Orderly, Apart, NoDispatchIsLost
  <2> QED
    BY <2>1, <2>2 DEF OrderlyNext
<1>3. [OrderlyNext]_vars => [Next]_vars
  BY DEF OrderlyNext, Next
<1>4. Orderly' /\ [Next]_vars => [OrderlyNext]_vars
  BY DEF OrderlyNext, Next
<1> QED
  BY <1>1, <1>2, <1>3, <1>4, PTL DEF Spec, OrderlySpec

-----------------------------------------------------------------------------
(* What the row says, in orderly behaviours *)

Loaded(w) == job[w].row = row[job[w].app]

(* The dispatch that a handler is about to record.                         *)
DispatchedAs(j) ==
  \E e \in outbox : /\ e.app = j.app /\ e.result = "ok"
                    /\ e.payload = j.form /\ e.adapter = j.adapter

(* A request or a rejection that is under way holds the row as it is, and  *)
(* the row is not submitted.                                               *)
Opened(w) ==
  pc[w] \in {"issued", "rejecting"} =>
    Loaded(w) /\ row[job[w].app].status # "submitted"

(* An approval under way holds the row as it is, which is pending, and     *)
(* sends with the payload and the adapter of the row.                      *)
ApprovesRow(w) ==
  pc[w] \in Approving =>
    /\ Loaded(w)
    /\ row[job[w].app].status = "pending_approval"
    /\ job[w].form = row[job[w].app].payload
    /\ job[w].adapter = row[job[w].app].adapter

SuccessIsInOutbox(w) ==
  pc[w] = "sent" /\ job[w].result = "ok" => DispatchedAs(job[w])

RowInv ==
  /\ \A w \in Workers : Opened(w) /\ ApprovesRow(w) /\ SuccessIsInOutbox(w)
  /\ RecordMatchesDispatch
  /\ OppFollowsApplication

(* A session whose row nobody else writes stores what it computed.         *)
LEMMA WriteBackAlone ==
  ASSUME NEW r \in Row, NEW new \in Row
  PROVE  /\ WriteBack(r, r, new).status = new.status
         /\ WriteBack(r, r, new).hash = new.hash
         /\ WriteBack(r, r, new).payload = new.payload
         /\ WriteBack(r, r, new).adapter = new.adapter
         /\ WriteBack(r, r, new).receipt = new.receipt
         /\ WriteBack(r, r, new).error = new.error
BY DEF WriteBack, Column

LEMMA ConcludedRow ==
  ASSUME NEW r \in Row, NEW ok \in BOOLEAN
  PROVE  /\ Concluded(r, ok).payload = r.payload
         /\ Concluded(r, ok).adapter = r.adapter
         /\ ok => Concluded(r, ok).receipt /\ Concluded(r, ok).error = "none"
BY DEF Concluded, Row

(* The row that each kind of commit leaves behind.                         *)
LEMMA CommittedRow ==
  ASSUME TypeOK, RowInv, NEW w \in Workers
  PROVE  LET a == job[w].app IN
         /\ RequestCommit(w) =>
              row'[a].status = "pending_approval" /\ row'[a].hash = job[w].token.nonce
         /\ RejectCommit(w) => row'[a].status = "rejected" /\ row'[a].hash = 0
         /\ ApproveCommit(w) =>
              /\ row'[a].hash = 0
              /\ row'[a].payload = row[a].payload /\ row'[a].adapter = row[a].adapter
              /\ row'[a].status = IF job[w].result = "ok" THEN "submitted" ELSE "failed"
              /\ job[w].result = "ok" => row'[a].receipt /\ row'[a].error = "none"
<1> DEFINE j == job[w]
           a == j.app
<1>1. ASSUME RequestCommit(w)
      PROVE  row'[a].status = "pending_approval" /\ row'[a].hash = j.token.nonce
  <2>1. /\ j \in Job /\ a \in Apps /\ row[a] \in Row /\ j.token \in Token
        /\ j.row = row[a]
    BY <1>1, CommitFrame DEF RequestCommit, Finish, RowInv, Opened, Loaded, TypeOK, Holds
  <2>2. row'[a] = WriteBack(row[a], row[a], Requested(row[a], j))
    BY <1>1, <2>1 DEF RequestCommit, TypeOK
  <2> QED
    BY <2>1, <2>2, RequestedType, RequestedFields, WriteBackAlone
<1>2. ASSUME RejectCommit(w) PROVE row'[a].status = "rejected" /\ row'[a].hash = 0
  <2>1. j \in Job /\ a \in Apps /\ row[a] \in Row /\ j.row = row[a]
    BY <1>2, CommitFrame DEF RejectCommit, Finish, RowInv, Opened, Loaded
  <2>2. row'[a] = WriteBack(row[a], row[a], Rejected(row[a]))
    BY <1>2, <2>1 DEF RejectCommit, TypeOK
  <2> QED
    BY <2>1, <2>2, RejectedType, RejectedFields, WriteBackAlone
<1>3. ASSUME ApproveCommit(w)
      PROVE  /\ row'[a].hash = 0
             /\ row'[a].payload = row[a].payload /\ row'[a].adapter = row[a].adapter
             /\ row'[a].status = IF j.result = "ok" THEN "submitted" ELSE "failed"
             /\ j.result = "ok" => row'[a].receipt /\ row'[a].error = "none"
  <2>1. j \in Job /\ a \in Apps /\ row[a] \in Row /\ j.row = row[a]
    BY <1>3, CommitFrame DEF ApproveCommit, Finish, RowInv, ApprovesRow, Approving, Loaded
  <2>2. row'[a] = WriteBack(row[a], row[a], Concluded(row[a], j.result = "ok"))
    BY <1>3, <2>1 DEF ApproveCommit, TypeOK
  <2> DEFINE ok == j.result = "ok"
             new == Concluded(row[a], ok)
  <2>3. /\ new.hash = 0 /\ new.status = IF ok THEN "submitted" ELSE "failed"
        /\ new.payload = row[a].payload /\ new.adapter = row[a].adapter
        /\ ok => new.receipt /\ new.error = "none"
    <3>1. ok \in BOOLEAN
      OBVIOUS
    <3> HIDE DEF ok
    <3> QED
      BY <2>1, <3>1, ConcludedFields, ConcludedRow
  <2>4. new \in Row
    BY <2>1, ConcludedType
  <2>5. row'[a] = WriteBack(row[a], row[a], new)
    BY <2>2
  <2> HIDE DEF new
  <2>6. /\ row'[a].status = new.status /\ row'[a].hash = new.hash
        /\ row'[a].payload = new.payload /\ row'[a].adapter = new.adapter
        /\ row'[a].receipt = new.receipt /\ row'[a].error = new.error
    BY <2>1, <2>4, <2>5, WriteBackAlone
  <2> QED
    BY <2>3, <2>6
<1> QED
  BY <1>1, <1>2, <1>3

(* A step that writes no row and sends nothing, whose workers stay where   *)
(* they are or move to a step of which RowInv says nothing, and that marks *)
(* no opportunity as submitted.                                            *)
LEMMA QuietRow ==
  ASSUME RowInv, UNCHANGED <<row, outbox>>,
         \A w \in Workers : \/ pc'[w] = pc[w] /\ job'[w] = job[w]
                            \/ pc'[w] \in {"idle", "previewed"},
         \A a \in Apps : opp'[a] = "submitted" => opp[a] = "submitted"
  PROVE  RowInv'
<1>1. \A w \in Workers : (Opened(w) /\ ApprovesRow(w) /\ SuccessIsInOutbox(w))'
  BY DEF RowInv, Opened, ApprovesRow, SuccessIsInOutbox, DispatchedAs, Loaded, Approving
<1>2. RecordMatchesDispatch' /\ OppFollowsApplication'
  BY DEF RowInv, RecordMatchesDispatch, OppFollowsApplication
<1> QED
  BY <1>1, <1>2 DEF RowInv

(* A step that writes no row and sends nothing, seen by its worker.        *)
LEMMA ReaderRow ==
  ASSUME RowInv, NEW w \in Workers, OthersStay(w), UNCHANGED <<row, opp, outbox>>,
         Opened(w)', ApprovesRow(w)', SuccessIsInOutbox(w)'
  PROVE  RowInv'
<1>1. ASSUME NEW v \in Workers \ {w}
      PROVE  Opened(v)' /\ ApprovesRow(v)' /\ SuccessIsInOutbox(v)'
  BY DEF OthersStay, RowInv, Opened, ApprovesRow, SuccessIsInOutbox, DispatchedAs, Loaded
<1>2. RecordMatchesDispatch' /\ OppFollowsApplication'
  BY DEF RowInv, RecordMatchesDispatch, OppFollowsApplication
<1> QED
  BY <1>1, <1>2 DEF RowInv

LEMMA RequestReadRow ==
  ASSUME TypeOK, RowInv, NEW w \in Workers, RequestRead(w)
  PROVE  RowInv'
<1> DEFINE t == IssueToken(job[w].app, job[w].form, job[w].drafts)
<1>1. UNCHANGED <<row, opp, outbox>> /\ Open(job[w].app)
  BY DEF RequestRead, store, history
<1>2. /\ pc'[w] = "issued" /\ job[w] \in Job
      /\ job'[w] = [job[w] EXCEPT !.row = row[job[w].app], !.token = t]
  BY DEF RequestRead, Advance, TypeOK
<1> HIDE DEF t
<1>3. job'[w].app = job[w].app /\ job'[w].row = row[job[w].app]
  BY <1>2 DEF Job
<1>4. Opened(w)' /\ ApprovesRow(w)' /\ SuccessIsInOutbox(w)'
  BY <1>1, <1>2, <1>3
     DEF Opened, ApprovesRow, SuccessIsInOutbox, Approving, Loaded, Open
<1>o. OthersStay(w)
  BY DEF TypeOK, RequestRead, Begin, Advance, OthersStay
<1> QED
  BY <1>1, <1>4, <1>o, ReaderRow

LEMMA RejectReadRow ==
  ASSUME TypeOK, RowInv, NEW w \in Workers, NEW a \in Apps, RejectRead(w, a)
  PROVE  RowInv'
<1> DEFINE j == [NoJob EXCEPT !.app = a, !.row = row[a]]
<1>1. UNCHANGED <<row, opp, outbox>> /\ Open(a)
  BY DEF RejectRead, store, history
<1>2. j.app = a /\ j.row = row[a]
  BY DEF NoJob
<1>3. Begin(w, "rejecting", j)
  BY DEF RejectRead
<1> HIDE DEF j
<1>4. pc'[w] = "rejecting" /\ job'[w].app = a /\ job'[w].row = row[a]
  BY <1>2, <1>3 DEF Begin, TypeOK
<1>5. Opened(w)' /\ ApprovesRow(w)' /\ SuccessIsInOutbox(w)'
  BY <1>1, <1>4 DEF Opened, ApprovesRow, SuccessIsInOutbox, Approving, Loaded, Open
<1>o. OthersStay(w)
  BY DEF TypeOK, RejectRead, Begin, Advance, OthersStay
<1> QED
  BY <1>1, <1>5, <1>o, ReaderRow

LEMMA ApproveReadRow ==
  ASSUME TypeOK, RowInv, NEW w \in Workers, NEW a \in Apps, NEW t \in tokens,
         ApproveRead(w, a, t)
  PROVE  RowInv'
<1> DEFINE j == [NoJob EXCEPT !.app = a, !.row = row[a], !.token = t,
                              !.adapter = row[a].adapter,
                              !.form = row[a].payload]
<1>1. UNCHANGED <<row, opp, outbox>> /\ row[a].status = "pending_approval"
  BY DEF ApproveRead, Accepts, store, history
<1>2. /\ j.app = a /\ j.row = row[a]
      /\ j.form = row[a].payload /\ j.adapter = row[a].adapter
  BY DEF NoJob
<1>3. Begin(w, "verified", j)
  BY DEF ApproveRead
<1> HIDE DEF j
<1>4. /\ pc'[w] = "verified" /\ job'[w].app = a /\ job'[w].row = row[a]
      /\ job'[w].form = row[a].payload /\ job'[w].adapter = row[a].adapter
  BY <1>2, <1>3 DEF Begin, TypeOK
<1>5. Opened(w)' /\ ApprovesRow(w)' /\ SuccessIsInOutbox(w)'
  BY <1>1, <1>4 DEF Opened, ApprovesRow, SuccessIsInOutbox, Approving, Loaded
<1>o. OthersStay(w)
  BY DEF TypeOK, ApproveRead, Begin, Advance, OthersStay
<1> QED
  BY <1>1, <1>5, <1>o, ReaderRow

LEMMA ApproveLoadRow ==
  ASSUME TypeOK, RowInv, NEW w \in Workers, ApproveLoad(w)
  PROVE  RowInv'
<1>1. UNCHANGED <<row, opp, outbox>>
  BY DEF ApproveLoad, store, history
<1>2. /\ pc[w] = "verified" /\ pc'[w] = "loaded" /\ job[w] \in Job
      /\ job'[w] = [job[w] EXCEPT !.drafts = drafts[job[w].app]]
  BY DEF ApproveLoad, Advance, TypeOK
<1>3. /\ job'[w].app = job[w].app /\ job'[w].row = job[w].row
      /\ job'[w].form = job[w].form /\ job'[w].adapter = job[w].adapter
  BY <1>2 DEF Job
<1>4. Opened(w)' /\ ApprovesRow(w)' /\ SuccessIsInOutbox(w)'
  BY <1>1, <1>2, <1>3 DEF RowInv, Opened, ApprovesRow, SuccessIsInOutbox, Approving, Loaded
<1>o. OthersStay(w)
  BY DEF TypeOK, ApproveLoad, Begin, Advance, OthersStay
<1> QED
  BY <1>1, <1>4, <1>o, ReaderRow

(* A dispatch, as the next lemmas see it.                                  *)
LEMMA DispatchedJob ==
  ASSUME TypeOK, NEW w \in Workers, NEW result \in Outcomes, Dispatch(w, result)
  PROVE  /\ UNCHANGED <<row, opp, tokens, lastNonce>>
         /\ pc[w] = "loaded" /\ pc'[w] = "sent" /\ job[w] \in Job /\ OthersStay(w)
         /\ job'[w].app = job[w].app /\ job'[w].row = job[w].row
         /\ job'[w].form = job[w].form /\ job'[w].adapter = job[w].adapter
         /\ job'[w].token = job[w].token /\ job'[w].result = result
         /\ outbox \subseteq outbox'
         /\ \A e \in outbox' \ outbox :
              /\ e.app = job[w].app /\ e.payload = job[w].form /\ e.token = job[w].token
              /\ e.adapter = job[w].adapter /\ e.result = result
         /\ result = "refused" => outbox' = outbox
         /\ result # "refused" =>
              \E e \in outbox' :
                /\ e.app = job[w].app /\ e.payload = job[w].form /\ e.token = job[w].token
                /\ e.adapter = job[w].adapter /\ e.result = result
<1> DEFINE sent == [id |-> sends + 1, app |-> job[w].app, token |-> job[w].token,
                    payload |-> job[w].form, drafts |-> job[w].drafts,
                    adapter |-> job[w].adapter, result |-> result]
<1>1. /\ UNCHANGED <<row, opp, tokens, lastNonce>>
      /\ pc[w] = "loaded" /\ pc'[w] = "sent" /\ job[w] \in Job /\ OthersStay(w)
      /\ job'[w] = [job[w] EXCEPT !.result = result]
  BY DEF TypeOK, Dispatch, Advance, store, OthersStay
<1>2. /\ job'[w].app = job[w].app /\ job'[w].row = job[w].row
      /\ job'[w].form = job[w].form /\ job'[w].adapter = job[w].adapter
      /\ job'[w].token = job[w].token /\ job'[w].result = result
  BY <1>1 DEF Job
<1>3. \/ result = "refused" /\ outbox' = outbox
      \/ result # "refused" /\ outbox' = outbox \cup {sent}
  BY DispatchSends
<1>4. /\ sent.app = job[w].app /\ sent.payload = job[w].form /\ sent.token = job[w].token
      /\ sent.adapter = job[w].adapter /\ sent.result = result
  OBVIOUS
<1> HIDE DEF sent
<1> QED
  BY <1>1, <1>2, <1>3, <1>4

LEMMA DispatchRow ==
  ASSUME TypeOK, RowInv, NEW w \in Workers, NEW result \in Outcomes,
         Dispatch(w, result)
  PROVE  RowInv'
<1>1. ASSUME NEW v \in Workers \ {w}
      PROVE  Opened(v)' /\ ApprovesRow(v)' /\ SuccessIsInOutbox(v)'
  <2>1. pc'[v] = pc[v] /\ job'[v] = job[v] /\ row' = row /\ outbox \subseteq outbox'
    BY DispatchedJob DEF OthersStay
  <2> QED
    BY <2>1 DEF RowInv, Opened, ApprovesRow, SuccessIsInOutbox, DispatchedAs, Loaded
<1>2. Opened(w)' /\ ApprovesRow(w)'
  BY DispatchedJob DEF RowInv, Opened, ApprovesRow, Approving, Loaded
<1>3. SuccessIsInOutbox(w)'
  <2>1. SUFFICES ASSUME result = "ok" PROVE DispatchedAs(job[w])'
    BY DispatchedJob DEF SuccessIsInOutbox
  <2>2. PICK e \in outbox' : /\ e.app = job[w].app /\ e.payload = job[w].form
                             /\ e.adapter = job[w].adapter /\ e.result = "ok"
    BY <2>1, DispatchedJob
  <2> QED
    BY <2>2, DispatchedJob DEF DispatchedAs
<1>4. RecordMatchesDispatch' /\ OppFollowsApplication'
  BY DispatchedJob DEF RowInv, RecordMatchesDispatch, OppFollowsApplication
<1> QED
  BY <1>1, <1>2, <1>3, <1>4 DEF RowInv

LEMMA CommitRow ==
  ASSUME Apart(HoldsRow), TypeOK, RowInv, NEW w \in Workers,
         RequestCommit(w) \/ RejectCommit(w) \/ ApproveCommit(w)
  PROVE  RowInv'
<1> DEFINE a == job[w].app
<1>1. /\ pc'[w] = "idle" /\ \A v \in Workers \ {w} : pc'[v] = pc[v] /\ job'[v] = job[v]
      /\ \A b \in Apps \ {a} : row'[b] = row[b]
      /\ UNCHANGED outbox /\ a \in Apps
  BY CommitFrame
<1>h. pc[w] \in HoldsRow
  BY DEF RequestCommit, RejectCommit, ApproveCommit, Finish, HoldsRow, Approving
<1>2. ASSUME NEW v \in Workers
      PROVE  Opened(v)' /\ ApprovesRow(v)' /\ SuccessIsInOutbox(v)'
  <2>1. CASE v = w \/ pc[v] \notin HoldsRow
    BY <1>1, <2>1 DEF Opened, ApprovesRow, SuccessIsInOutbox, HoldsRow, Approving
  <2>2. CASE v # w /\ pc[v] \in HoldsRow
    <3>1. job[v].app # a /\ job[v].app \in Apps
      BY <1>h, <2>2 DEF Apart, TypeOK, Holds, HoldsRow, Approving
    <3>2. pc'[v] = pc[v] /\ job'[v] = job[v] /\ row'[job[v].app] = row[job[v].app]
      BY <1>1, <2>2, <3>1
    <3> QED
      BY <1>1, <3>2 DEF RowInv, Opened, ApprovesRow, SuccessIsInOutbox, DispatchedAs, Loaded
  <2> QED
    BY <2>1, <2>2
<1>3. RecordMatchesDispatch'
  <2> SUFFICES ASSUME NEW b \in Apps, row'[b].status = "submitted"
               PROVE  /\ row'[b].receipt /\ row'[b].error = "none"
                      /\ \E e \in outbox' : /\ e.app = b /\ e.result = "ok"
                                            /\ e.payload = row'[b].payload
                                            /\ e.adapter = row'[b].adapter
    BY DEF RecordMatchesDispatch
  <2>1. CASE b # a
    BY <1>1, <2>1 DEF RowInv, RecordMatchesDispatch
  <2>2. CASE b = a
    <3>1. ApproveCommit(w) /\ job[w].result = "ok"
      BY <2>2, CommittedRow
    <3>2. pc[w] = "sent"
      BY <3>1 DEF ApproveCommit, Finish
    <3>3. DispatchedAs(job[w])
      BY <3>1, <3>2 DEF RowInv, SuccessIsInOutbox
    <3>4. job[w].form = row[a].payload /\ job[w].adapter = row[a].adapter
      BY <3>2 DEF RowInv, ApprovesRow, Approving
    <3>5. /\ row'[a].payload = row[a].payload /\ row'[a].adapter = row[a].adapter
          /\ row'[a].receipt /\ row'[a].error = "none"
      BY <3>1, CommittedRow
    <3> QED
      BY <1>1, <2>2, <3>3, <3>4, <3>5 DEF DispatchedAs
  <2> QED
    BY <2>1, <2>2
<1>4. OppFollowsApplication'
  <2>1. row[a].status # "submitted"
    BY DEF RequestCommit, RejectCommit, ApproveCommit, Finish, RowInv, Opened, ApprovesRow,
           Approving
  <2>2. \A b \in Apps : opp[b] = "submitted" => row[b].status = "submitted"
    BY DEF RowInv, OppFollowsApplication
  <2>3. CASE opp' = opp
    BY <1>1, <2>1, <2>2, <2>3 DEF OppFollowsApplication
  <2>4. CASE ApproveCommit(w) /\ job[w].result = "ok"
    <3>1. row'[a].status = "submitted"
      BY <2>4, CommittedRow
    <3>2. \A b \in Apps : b # a => opp'[b] = opp[b]
      BY <2>4 DEF ApproveCommit, MarkOpportunity, TypeOK
    <3> QED
      BY <1>1, <2>2, <3>1, <3>2 DEF OppFollowsApplication
  <2> QED
    BY <2>3, <2>4 DEF RequestCommit, RejectCommit, ApproveCommit, MarkOpportunity
<1> QED
  BY <1>2, <1>3, <1>4 DEF RowInv

(* The steps by what they change.                                          *)
LEMMA KindsOfSteps ==
  ASSUME [Next]_vars
  PROVE  \/ UNCHANGED <<row, tokens, outbox>>
         \/ \E w \in Workers : RequestCommit(w) \/ RejectCommit(w) \/ ApproveCommit(w)
         \/ \E w \in Workers, result \in Outcomes : Dispatch(w, result)
<1> DEFINE Goal == \/ UNCHANGED <<row, tokens, outbox>>
                   \/ \E w \in Workers :
                        RequestCommit(w) \/ RejectCommit(w) \/ ApproveCommit(w)
                   \/ \E w \in Workers, result \in Outcomes : Dispatch(w, result)
<1>1. ASSUME NEW w \in Workers, Request(w) PROVE Goal
  <2>1. ASSUME NEW a \in Apps, NEW adapter \in Adapters, RequestPreview(w, a, adapter)
        PROVE  UNCHANGED <<row, tokens, outbox>>
    BY <2>1 DEF RequestPreview, store, history
  <2>2. RequestRead(w) \/ RequestRefused(w) \/ RequestConflict(w) =>
          UNCHANGED <<row, tokens, outbox>>
    BY DEF RequestRead, RequestRefused, RequestConflict, store, history
  <2> QED
    BY <1>1, <2>1, <2>2 DEF Request
<1>2. ASSUME NEW w \in Workers, Reject(w) PROVE Goal
  <2>1. ASSUME NEW a \in Apps, RejectRead(w, a) PROVE UNCHANGED <<row, tokens, outbox>>
    BY <2>1 DEF RejectRead, store, history
  <2> QED
    BY <1>2, <2>1 DEF Reject
<1>3. ASSUME NEW w \in Workers, Approve(w) PROVE Goal
  <2>1. ASSUME NEW a \in Apps, NEW t \in tokens, ApproveRead(w, a, t)
        PROVE  UNCHANGED <<row, tokens, outbox>>
    BY <2>1 DEF ApproveRead, store, history
  <2>2. ASSUME NEW a \in Apps, NEW t \in tokens \cup {NoToken}, ApproveDenied(w, a, t)
        PROVE  UNCHANGED <<row, tokens, outbox>>
    BY <2>2 DEF ApproveDenied, history
  <2>3. ApproveLoad(w) => UNCHANGED <<row, tokens, outbox>>
    BY DEF ApproveLoad, store, history
  <2> QED
    BY <1>3, <2>1, <2>2, <2>3 DEF Approve
<1>4. ASSUME NEW w \in Workers, CommitFails(w) PROVE Goal
  BY <1>4 DEF CommitFails, store, history
<1>5. ASSUME Crash \/ Environment \/ UNCHANGED vars PROVE Goal
  BY <1>5 DEF Crash, Environment, EditForm, PrepareStart, PrepareDone, Rediscover, Tick,
              vars, store, history
<1> QED
  BY <1>1, <1>2, <1>3, <1>4, <1>5 DEF Next

LEMMA EnvironmentFrame ==
  ASSUME Environment \/ UNCHANGED vars
  PROVE  UNCHANGED <<row, outbox, pc, job>>
BY DEF Environment, EditForm, PrepareStart, PrepareDone, Rediscover, Tick, vars, store,
       history, control

LEMMA EnvironmentMarksNone ==
  ASSUME TypeOK, Environment \/ UNCHANGED vars
  PROVE  \A a \in Apps : opp'[a] = "submitted" => opp[a] = "submitted"
<1> SUFFICES ASSUME NEW a \in Apps, opp'[a] = "submitted" PROVE opp[a] = "submitted"
  OBVIOUS
<1>1. ASSUME NEW b \in Apps, PrepareDone(b) \/ Rediscover(b)
      PROVE  opp[a] = "submitted"
  BY <1>1 DEF PrepareDone, Rediscover, TypeOK
<1>2. ASSUME NEW b \in Apps, PrepareStart(b) \/ \E f \in Forms : EditForm(b, f)
      PROVE  opp[a] = "submitted"
  BY <1>2 DEF PrepareStart, EditForm, store
<1>3. Tick \/ UNCHANGED vars => opp[a] = "submitted"
  BY DEF Tick, vars, store
<1> QED
  BY <1>1, <1>2, <1>3 DEF Environment

LEMMA PreviewRow ==
  ASSUME TypeOK, RowInv, NEW w \in Workers, NEW a \in Apps, NEW adapter \in Adapters,
         RequestPreview(w, a, adapter)
  PROVE  RowInv'
<1>1. /\ UNCHANGED <<row, opp, outbox>> /\ pc'[w] = "previewed"
      /\ \A v \in Workers \ {w} : pc'[v] = pc[v] /\ job'[v] = job[v]
  BY DEF TypeOK, RequestPreview, Begin, store, history
<1> QED
  BY <1>1, QuietRow

LEMMA EndsWithoutWriting ==
  ASSUME TypeOK, RowInv, NEW w \in Workers,
         RequestRefused(w) \/ RequestConflict(w) \/ CommitFails(w)
  PROVE  RowInv'
<1>1. /\ UNCHANGED <<row, opp, outbox>> /\ pc'[w] = "idle"
      /\ \A v \in Workers \ {w} : pc'[v] = pc[v] /\ job'[v] = job[v]
  BY DEF TypeOK, RequestRefused, RequestConflict, CommitFails, Finish, store, history
<1> QED
  BY <1>1, QuietRow

LEMMA DeniedRow ==
  ASSUME RowInv, NEW w \in Workers, NEW a, NEW t, ApproveDenied(w, a, t)
  PROVE  RowInv'
<1>1. UNCHANGED <<row, opp, outbox, pc, job>>
  BY DEF ApproveDenied, history, control
<1> QED
  BY <1>1, QuietRow

LEMMA EnvironmentRow ==
  ASSUME TypeOK, RowInv, Environment \/ UNCHANGED vars
  PROVE  RowInv'
BY EnvironmentFrame, EnvironmentMarksNone, QuietRow

LEMMA NextRow ==
  ASSUME Apart(HoldsRow), TypeOK, RowInv, [Next]_vars
  PROVE  RowInv'
<1>1. ASSUME NEW w \in Workers, Request(w) PROVE RowInv'
  BY <1>1, PreviewRow, RequestReadRow, EndsWithoutWriting, CommitRow DEF Request
<1>2. ASSUME NEW w \in Workers, Reject(w) PROVE RowInv'
  BY <1>2, RejectReadRow, CommitRow DEF Reject
<1>3. ASSUME NEW w \in Workers, Approve(w) PROVE RowInv'
  BY <1>3, ApproveReadRow, DeniedRow, ApproveLoadRow, DispatchRow, CommitRow
     DEF Approve
<1>4. ASSUME Crash PROVE RowInv'
  <2>1. UNCHANGED <<row, opp, outbox>> /\ \A w \in Workers : pc'[w] = "idle"
    BY <1>4 DEF Crash, store, history
  <2> QED
    BY <2>1, QuietRow
<1> QED
  BY <1>1, <1>2, <1>3, <1>4, EndsWithoutWriting, EnvironmentRow DEF Next

LEMMA InitRow == Init => RowInv
<1> SUFFICES ASSUME Init PROVE RowInv
  OBVIOUS
<1>1. /\ \A w \in Workers : pc[w] = "idle"
      /\ \A a \in Apps : row[a].status = "previewed" /\ opp[a] = "prepared"
  BY DEF Init, NewRow
<1> QED
  BY <1>1 DEF RowInv, Opened, ApprovesRow, Approving, SuccessIsInOutbox,
              RecordMatchesDispatch, OppFollowsApplication

LEMMA RowsStayTrue == OrderlySpec => [](SingleUseInv /\ RowInv)
<1>1. Init => SingleUseInv /\ RowInv
  BY InitSingle, InitRow
<1>2. /\ SingleUseInv /\ RowInv /\ Orderly /\ Orderly' /\ [Next]_vars
      => (SingleUseInv /\ RowInv)'
  <2>1. Orderly /\ Orderly' => Apart(HoldsRow) /\ ApprovalsAreApart /\ ApprovalsAreApart'
    BY OrderlyApprovals DEF Orderly, ApprovalsAreApart, Apart, HoldsRow, NoDispatchIsLost
  <2>2. SingleUseInv => TypeOK
    BY DEF SingleUseInv, GateInv
  <2> QED
    BY <2>1, <2>2, NextSingle, NextRow
<1> QED
  BY <1>1, <1>2, OrderlyMeansOrderly, PTL DEF Spec

(* In orderly behaviours one token sends at most once.                     *)
THEOREM OrderlyTokensAreSingleUse == OrderlySpec => []AtMostOncePerToken
<1>1. SingleUseInv => AtMostOncePerToken
  BY DEF SingleUseInv
<1> QED
  BY <1>1, RowsStayTrue, PTL

(* In orderly behaviours, the stored row of a submitted application is     *)
(* what approve_and_submit sent: payload, adapter, receipt and no error.   *)
THEOREM RecordsMatchDispatches == OrderlySpec => []RecordMatchesDispatch
<1>1. RowInv => RecordMatchesDispatch
  BY DEF RowInv
<1> QED
  BY <1>1, RowsStayTrue, PTL

(* In orderly behaviours, an opportunity that is marked submitted has a    *)
(* submitted application, whatever preparation and discovery write to it.  *)
THEOREM OpportunityFollows == OrderlySpec => []OppFollowsApplication
<1>1. RowInv => OppFollowsApplication
  BY DEF RowInv
<1> QED
  BY <1>1, RowsStayTrue, PTL

(* In orderly behaviours, no handler takes "submitted" back: each that     *)
(* commits found another status and nobody has written since.              *)
THEOREM SubmittedStaysSubmitted == OrderlySpec => SubmittedIsTerminal
<1> DEFINE Kept == \A a \in Apps : row[a].status = "submitted" => row'[a].status = "submitted"
<1>1. ASSUME SingleUseInv, RowInv, [Next]_vars PROVE Kept
  <2>1. ASSUME NEW w \in Workers, RequestCommit(w) \/ RejectCommit(w) \/ ApproveCommit(w)
        PROVE  Kept
    <3>1. \A b \in Apps \ {job[w].app} : row'[b] = row[b]
      BY <1>1, <2>1, CommitFrame DEF SingleUseInv, GateInv
    <3>2. row[job[w].app].status # "submitted"
      BY <1>1, <2>1 DEF RequestCommit, RejectCommit, ApproveCommit, Finish, RowInv, Opened,
                        ApprovesRow, Approving
    <3> QED
      BY <3>1, <3>2
  <2>2. ASSUME NEW w \in Workers, NEW result \in Outcomes, Dispatch(w, result)
        PROVE  Kept
    BY <2>2 DEF Dispatch, store
  <2> QED
    BY <1>1, <2>1, <2>2, KindsOfSteps
<1>2. SingleUseInv /\ RowInv /\ [Next]_vars => [Kept]_vars
  BY <1>1
<1> QED
  BY <1>2, RowsStayTrue, OrderlyMeansOrderly, PTL DEF Spec, SubmittedIsTerminal

(* In orderly behaviours, nothing leaves the machine for an application    *)
(* whose row says rejected.                                                *)
THEOREM NothingSentWhileRejected == OrderlySpec => NoSendWhileRejected
<1> DEFINE Barred == \A a \in Apps : row[a].status = "rejected"
                       => \A e \in outbox' \ outbox : e.app # a
<1>1. ASSUME SingleUseInv, RowInv, [Next]_vars PROVE Barred
  <2>t. TypeOK
    BY <1>1 DEF SingleUseInv, GateInv
  <2>1. ASSUME NEW w \in Workers, RequestCommit(w) \/ RejectCommit(w) \/ ApproveCommit(w)
        PROVE  Barred
    BY <2>t, <2>1, CommitFrame
  <2>2. ASSUME NEW w \in Workers, NEW result \in Outcomes, Dispatch(w, result)
        PROVE  Barred
    <3>1. /\ pc[w] = "loaded"
          /\ \A e \in outbox' \ outbox : e.app = job[w].app
      BY <2>t, <2>2, DispatchedJob
    <3>2. row[job[w].app].status = "pending_approval"
      BY <1>1, <3>1 DEF RowInv, ApprovesRow, Approving
    <3> QED
      BY <3>1, <3>2
  <2> QED
    BY <1>1, <2>1, <2>2, KindsOfSteps
<1>2. SingleUseInv /\ RowInv /\ [Next]_vars => [Barred]_vars
  BY <1>1
<1> QED
  BY <1>2, RowsStayTrue, OrderlyMeansOrderly, PTL DEF Spec, NoSendWhileRejected

-----------------------------------------------------------------------------
(* In orderly behaviours the gate implements ApprovalLedger *)

NoncesAreBounded == lastNonce <= MaxTokens

NoncesAreUnique == \A s, t \in tokens : s.nonce = t.nonce => s = t

IssuedForItsApp == \A w \in Workers : pc[w] = "issued" => job[w].token.app = job[w].app

(* A row that waits for approval waits for a token of its application.     *)
PendingIsIssued ==
  \A a \in Apps : row[a].status = "pending_approval" =>
    \E t \in tokens : t.app = a /\ t.nonce = row[a].hash

(* A success is on the row, or its handler is about to put it there.       *)
SuccessIsOnRow ==
  \A e \in outbox : e.result = "ok" =>
    \/ row[e.app].status = "submitted"
    \/ \E w \in Workers : pc[w] = "sent" /\ job[w].token = e.token /\ job[w].result = "ok"

LedgerInv ==
  /\ NoncesAreBounded /\ NoncesAreUnique /\ IssuedForItsApp
  /\ PendingIsIssued /\ SuccessIsOnRow

(* What LedgerInv reads of the workers is what they do at "issued" and at  *)
(* "sent"; a step that touches neither, and no row, keeps it.              *)
LEMMA QuietLedger ==
  ASSUME LedgerInv, UNCHANGED <<row, tokens, outbox>>, lastNonce' <= MaxTokens,
         \A w \in Workers : pc'[w] = "issued" =>
           job'[w].token.app = job'[w].app,
         \A w \in Workers : pc[w] = "sent" => pc'[w] = "sent" /\ job'[w] = job[w]
  PROVE  LedgerInv'
<1>1. NoncesAreBounded' /\ NoncesAreUnique' /\ IssuedForItsApp'
  BY DEF LedgerInv, NoncesAreBounded, NoncesAreUnique, IssuedForItsApp
<1>2. PendingIsIssued'
  BY DEF LedgerInv, PendingIsIssued
<1>3. SuccessIsOnRow'
  BY DEF LedgerInv, SuccessIsOnRow
<1> QED
  BY <1>1, <1>2, <1>3 DEF LedgerInv

LEMMA RequestReadLedger ==
  ASSUME TypeOK, LedgerInv, NEW w \in Workers, RequestRead(w)
  PROVE  LedgerInv'
<1> DEFINE t == IssueToken(job[w].app, job[w].form, job[w].drafts)
<1>1. /\ UNCHANGED <<row, tokens, outbox>> /\ lastNonce < MaxTokens
      /\ lastNonce' = lastNonce + 1 /\ lastNonce \in Nat /\ MaxTokens \in Nat
  BY GateAssumption DEF RequestRead, store, history, TypeOK
<1>2. /\ pc[w] = "previewed" /\ pc'[w] = "issued" /\ job[w] \in Job
      /\ job'[w] = [job[w] EXCEPT !.row = row[job[w].app], !.token = t]
      /\ \A v \in Workers \ {w} : pc'[v] = pc[v] /\ job'[v] = job[v]
  BY DEF RequestRead, Advance, TypeOK
<1>3. t.app = job[w].app
  BY DEF IssueToken
<1> HIDE DEF t
<1>4. job'[w].token.app = job'[w].app
  BY <1>2, <1>3 DEF Job
<1>5. \A v \in Workers : pc'[v] = "issued" => job'[v].token.app = job'[v].app
  BY <1>2, <1>4 DEF LedgerInv, IssuedForItsApp
<1>6. \A v \in Workers : pc[v] = "sent" => pc'[v] = "sent" /\ job'[v] = job[v]
  BY <1>2
<1>7. lastNonce' <= MaxTokens
  BY <1>1
<1> QED
  BY <1>1, <1>5, <1>6, <1>7, QuietLedger

(* The handler of a success that is not on its row yet.                    *)
LEMMA SuccessHasHandler ==
  ASSUME SingleUseInv, LedgerInv, NEW e \in outbox, e.result = "ok",
         row[e.app].status # "submitted"
  PROVE  \E w \in Workers : /\ pc[w] = "sent" /\ job[w].app = e.app
                            /\ job[w].token = e.token /\ job[w].result = "ok"
<1>1. PICK w \in Workers : pc[w] = "sent" /\ job[w].token = e.token /\ job[w].result = "ok"
  BY DEF LedgerInv, SuccessIsOnRow
<1>2. job[w].app = e.app
  BY <1>1 DEF SingleUseInv, GateInv, ApproversVerified, Approved, SentWhatWasApproved
<1> QED
  BY <1>1, <1>2

(* A handler that will write the row of an application is the only one     *)
(* that can have a success for it.                                         *)
LEMMA NoOtherSuccess ==
  ASSUME Apart(HoldsRow), SingleUseInv, LedgerInv, NEW w \in Workers,
         pc[w] \in HoldsRow \ {"sent"}, row[job[w].app].status # "submitted"
  PROVE  \A e \in outbox : e.app = job[w].app => e.result # "ok"
<1> SUFFICES ASSUME NEW e \in outbox, e.app = job[w].app, e.result = "ok" PROVE FALSE
  OBVIOUS
<1>1. PICK v \in Workers : pc[v] = "sent" /\ job[v].app = e.app
  BY SuccessHasHandler
<1>2. pc[v] \in HoldsRow
  BY <1>1 DEF HoldsRow, Approving
<1>3. v = w
  BY <1>1, <1>2 DEF Apart
<1> QED
  BY <1>1, <1>3

(* Handlers that fail or die take no success with them: it would be lost.  *)
LEMMA EndsLedger ==
  ASSUME Orderly, NoDispatchIsLost', SingleUseInv, RowInv, LedgerInv,
         UNCHANGED <<row, tokens, outbox, lastNonce, events>>,
         \A v \in Workers : pc'[v] = "idle" \/ (pc'[v] = pc[v] /\ job'[v] = job[v])
  PROVE  LedgerInv'
<1>1. NoncesAreBounded' /\ NoncesAreUnique' /\ IssuedForItsApp' /\ PendingIsIssued'
  BY DEF LedgerInv, NoncesAreBounded, NoncesAreUnique, IssuedForItsApp, PendingIsIssued
<1>2. ASSUME NEW e \in outbox, e.result = "ok", row[e.app].status # "submitted"
      PROVE  \E w \in Workers : /\ pc'[w] = "sent" /\ job'[w].token = e.token
                                /\ job'[w].result = "ok"
  <2>1. PICK w \in Workers : /\ pc[w] = "sent" /\ job[w].app = e.app
                            /\ job[w].token = e.token /\ job[w].result = "ok"
    BY <1>2, SuccessHasHandler
  <2>2. row[e.app].hash = e.token.nonce
    BY <2>1 DEF RowInv, ApprovesRow, Approving, Loaded, SingleUseInv, GateInv,
                ApproversVerified, Approved
  <2>3. PICK v \in Workers : pc'[v] = "sent" /\ job'[v].token = e.token
    BY <2>2 DEF NoDispatchIsLost, SingleUseInv, GateInv, CompletionsRetireTokens
  <2>4. pc[v] = "sent" /\ job'[v] = job[v] /\ job[v].token = e.token
    BY <2>3
  <2>5. job[v].app = e.app
    BY <2>1, <2>4 DEF SingleUseInv, GateInv, ApproversVerified, Approved
  <2>6. v = w
    BY <2>1, <2>4, <2>5 DEF Orderly, Apart, HoldsRow, Approving
  <2> QED
    BY <2>1, <2>3, <2>4, <2>6
<1> QED
  BY <1>1, <1>2 DEF LedgerInv, SuccessIsOnRow

(* The other steps that write no row and send nothing.                     *)
LEMMA OtherStepsLedger ==
  ASSUME LedgerInv, NEW w \in Workers, OthersStay(w),
         UNCHANGED <<row, tokens, outbox, lastNonce>>,
         pc[w] # "sent", pc'[w] # "issued"
  PROVE  LedgerInv'
BY QuietLedger DEF LedgerInv, NoncesAreBounded, IssuedForItsApp, OthersStay

LEMMA CommitLedger ==
  ASSUME SingleUseInv, RowInv, LedgerInv, NEW w \in Workers,
         RequestCommit(w) \/ RejectCommit(w) \/ ApproveCommit(w)
  PROVE  LedgerInv'
<1> DEFINE a == job[w].app
           t == job[w].token
<1>t. TypeOK /\ NoncesAreFresh
  BY DEF SingleUseInv, GateInv
<1>1. /\ pc'[w] = "idle" /\ \A v \in Workers \ {w} : pc'[v] = pc[v] /\ job'[v] = job[v]
      /\ \A b \in Apps \ {a} : row'[b] = row[b]
      /\ UNCHANGED <<outbox, lastNonce>> /\ a \in Apps /\ tokens \subseteq tokens'
  BY <1>t, CommitFrame
<1>2. \/ tokens' = tokens
      \/ /\ tokens' = tokens \cup {t} /\ RequestCommit(w) /\ pc[w] = "issued"
         /\ t.app = a /\ \A s \in tokens : s.nonce # t.nonce
  BY <1>t DEF RequestCommit, RejectCommit, ApproveCommit, Finish, NoncesAreFresh, LedgerInv,
              IssuedForItsApp
<1>3. NoncesAreBounded' /\ NoncesAreUnique' /\ IssuedForItsApp'
  BY <1>1, <1>2 DEF LedgerInv, NoncesAreBounded, NoncesAreUnique, IssuedForItsApp
<1>4. PendingIsIssued'
  <2> SUFFICES ASSUME NEW b \in Apps, row'[b].status = "pending_approval"
               PROVE  \E s \in tokens' : s.app = b /\ s.nonce = row'[b].hash
    BY DEF PendingIsIssued
  <2>1. CASE b # a
    BY <1>1, <2>1 DEF LedgerInv, PendingIsIssued
  <2>2. CASE b = a
    <3>1. RequestCommit(w)
      BY <1>t, <2>2, CommittedRow
    <3>2. row'[a].hash = t.nonce
      BY <1>t, <3>1, CommittedRow
    <3>3. tokens' = tokens \cup {t} /\ t.app = a
      BY <3>1 DEF RequestCommit, Finish, LedgerInv, IssuedForItsApp
    <3> QED
      BY <2>2, <3>2, <3>3
  <2> QED
    BY <2>1, <2>2
<1>5. SuccessIsOnRow'
  <2> SUFFICES ASSUME NEW e \in outbox, e.result = "ok", row'[e.app].status # "submitted"
               PROVE  \E v \in Workers : /\ pc'[v] = "sent" /\ job'[v].token = e.token
                                         /\ job'[v].result = "ok"
    BY <1>1 DEF SuccessIsOnRow
  <2>1. e.app \in Apps
    BY <1>t DEF TypeOK, Sent
  <2>2. row[a].status # "submitted"
    BY DEF RequestCommit, RejectCommit, ApproveCommit, Finish, RowInv, Opened, ApprovesRow,
           Approving
  <2>3. row[e.app].status # "submitted"
    BY <1>1, <2>1, <2>2
  <2>4. PICK v \in Workers : /\ pc[v] = "sent" /\ job[v].app = e.app
                            /\ job[v].token = e.token /\ job[v].result = "ok"
    BY <2>3, SuccessHasHandler
  <2>5. v # w
    <3> SUFFICES ASSUME v = w PROVE FALSE
      OBVIOUS
    <3>1. ApproveCommit(w)
      BY <2>4 DEF RequestCommit, RejectCommit, Finish
    <3> QED
      BY <1>t, <2>4, <3>1, CommittedRow
  <2> QED
    BY <1>1, <2>4, <2>5
<1> QED
  BY <1>3, <1>4, <1>5 DEF LedgerInv

LEMMA DispatchLedger ==
  ASSUME SingleUseInv, LedgerInv, NEW w \in Workers,
         NEW result \in Outcomes, Dispatch(w, result)
  PROVE  LedgerInv'
<1>t. TypeOK
  BY DEF SingleUseInv, GateInv
<1>1. NoncesAreBounded' /\ NoncesAreUnique' /\ IssuedForItsApp' /\ PendingIsIssued'
  BY <1>t, DispatchedJob DEF LedgerInv, NoncesAreBounded, NoncesAreUnique, IssuedForItsApp,
                             PendingIsIssued, OthersStay
<1>2. SuccessIsOnRow'
  <2> SUFFICES ASSUME NEW e \in outbox', e.result = "ok", row'[e.app].status # "submitted"
               PROVE  \E v \in Workers : /\ pc'[v] = "sent" /\ job'[v].token = e.token
                                         /\ job'[v].result = "ok"
    BY DEF SuccessIsOnRow
  <2>1. CASE e \in outbox
    <3>1. PICK v \in Workers : pc[v] = "sent" /\ job[v].token = e.token /\ job[v].result = "ok"
      BY <1>t, <2>1, DispatchedJob DEF LedgerInv, SuccessIsOnRow
    <3>2. v # w /\ pc'[v] = pc[v] /\ job'[v] = job[v]
      BY <1>t, <3>1, DispatchedJob DEF OthersStay
    <3> QED
      BY <3>1, <3>2
  <2>2. CASE e \notin outbox
    BY <1>t, <2>2, DispatchedJob
  <2> QED
    BY <2>1, <2>2
<1> QED
  BY <1>1, <1>2 DEF LedgerInv

LEMMA PreviewLedger ==
  ASSUME SingleUseInv, LedgerInv, NEW w \in Workers, NEW a \in Apps,
         NEW adapter \in Adapters, RequestPreview(w, a, adapter)
  PROVE  LedgerInv'
<1>1. UNCHANGED <<row, tokens, outbox, lastNonce>> /\ OthersStay(w)
      /\ pc[w] = "idle" /\ pc'[w] = "previewed"
  BY DEF SingleUseInv, GateInv, TypeOK, RequestPreview, Begin, store, history,
         OthersStay
<1> QED
  BY <1>1, OtherStepsLedger

LEMMA RejectReadLedger ==
  ASSUME SingleUseInv, LedgerInv, NEW w \in Workers, NEW a \in Apps, RejectRead(w, a)
  PROVE  LedgerInv'
<1>1. UNCHANGED <<row, tokens, outbox, lastNonce>> /\ OthersStay(w)
      /\ pc[w] = "idle" /\ pc'[w] = "rejecting"
  BY DEF SingleUseInv, GateInv, TypeOK, RejectRead, Begin, store, history,
         OthersStay
<1> QED
  BY <1>1, OtherStepsLedger

LEMMA ApproveReadLedger ==
  ASSUME SingleUseInv, LedgerInv, NEW w \in Workers, NEW a \in Apps,
         NEW t \in tokens, ApproveRead(w, a, t)
  PROVE  LedgerInv'
<1>1. UNCHANGED <<row, tokens, outbox, lastNonce>> /\ OthersStay(w)
      /\ pc[w] = "idle" /\ pc'[w] = "verified"
  BY DEF SingleUseInv, GateInv, TypeOK, ApproveRead, Begin, store, history,
         OthersStay
<1> QED
  BY <1>1, OtherStepsLedger

LEMMA ApproveLoadLedger ==
  ASSUME SingleUseInv, LedgerInv, NEW w \in Workers, ApproveLoad(w)
  PROVE  LedgerInv'
<1>1. UNCHANGED <<row, tokens, outbox, lastNonce>> /\ OthersStay(w)
      /\ pc[w] = "verified" /\ pc'[w] = "loaded"
  BY DEF SingleUseInv, GateInv, TypeOK, ApproveLoad, Advance, store, history,
         OthersStay
<1> QED
  BY <1>1, OtherStepsLedger

LEMMA RefusedLedger ==
  ASSUME SingleUseInv, LedgerInv, NEW w \in Workers,
         RequestRefused(w) \/ RequestConflict(w)
  PROVE  LedgerInv'
<1>1. UNCHANGED <<row, tokens, outbox, lastNonce>> /\ OthersStay(w)
      /\ pc[w] # "sent" /\ pc'[w] = "idle"
  BY DEF SingleUseInv, GateInv, TypeOK, RequestRefused, RequestConflict, Finish, store, history,
         OthersStay
<1> QED
  BY <1>1, OtherStepsLedger

LEMMA NoHandlerLedger ==
  ASSUME LedgerInv, UNCHANGED <<row, tokens, outbox, lastNonce, pc, job>>
  PROVE  LedgerInv'
BY QuietLedger DEF LedgerInv, NoncesAreBounded, IssuedForItsApp

LEMMA DeniedLedger ==
  ASSUME LedgerInv, NEW w \in Workers, NEW a, NEW t, ApproveDenied(w, a, t)
  PROVE  LedgerInv'
BY NoHandlerLedger DEF ApproveDenied, history, control

LEMMA EnvironmentLedger ==
  ASSUME LedgerInv, Environment \/ UNCHANGED vars
  PROVE  LedgerInv'
<1>1. UNCHANGED <<row, tokens, outbox, lastNonce, pc, job>>
  BY DEF Environment, EditForm, PrepareStart, PrepareDone, Rediscover, Tick, vars,
         store, history, control
<1> QED
  BY <1>1, NoHandlerLedger

LEMMA NextLedger ==
  ASSUME Orderly, Orderly', SingleUseInv, RowInv, LedgerInv, [Next]_vars
  PROVE  LedgerInv'
<1>t. TypeOK /\ NoDispatchIsLost'
  BY DEF SingleUseInv, GateInv, Orderly
<1>1. ASSUME NEW w \in Workers, Request(w) PROVE LedgerInv'
  BY <1>t, <1>1, PreviewLedger, RequestReadLedger, RefusedLedger, CommitLedger DEF Request
<1>2. ASSUME NEW w \in Workers, Reject(w) PROVE LedgerInv'
  BY <1>2, RejectReadLedger, CommitLedger DEF Reject
<1>3. ASSUME NEW w \in Workers, Approve(w) PROVE LedgerInv'
  BY <1>3, ApproveReadLedger, DeniedLedger, ApproveLoadLedger, DispatchLedger, CommitLedger
     DEF Approve
<1>4. ASSUME Crash \/ \E w \in Workers : CommitFails(w) PROVE LedgerInv'
  <2>1. /\ UNCHANGED <<row, tokens, outbox, lastNonce, events>>
        /\ \A v \in Workers : pc'[v] = "idle" \/ (pc'[v] = pc[v] /\ job'[v] = job[v])
    BY <1>t, <1>4 DEF TypeOK, Crash, CommitFails, Finish, store, history
  <2> QED
    BY <1>t, <2>1, EndsLedger
<1> QED
  BY <1>1, <1>2, <1>3, <1>4, EnvironmentLedger DEF Next

LEMMA InitLedger == Init => LedgerInv
<1> SUFFICES ASSUME Init PROVE LedgerInv
  OBVIOUS
<1>1. /\ \A w \in Workers : pc[w] = "idle"
      /\ \A a \in Apps : row[a].status = "previewed"
      /\ tokens = {} /\ outbox = {} /\ lastNonce = 0 /\ MaxTokens \in Nat
  BY GateAssumption DEF Init, NewRow
<1> QED
  BY <1>1 DEF LedgerInv, NoncesAreBounded, NoncesAreUnique, IssuedForItsApp, PendingIsIssued,
              SuccessIsOnRow

LEMMA LedgerStaysTrue == OrderlySpec => [](SingleUseInv /\ RowInv /\ LedgerInv)
<1>1. Init => LedgerInv
  BY InitLedger
<1>2. Orderly /\ Orderly' /\ SingleUseInv /\ RowInv /\ LedgerInv /\ [Next]_vars => LedgerInv'
  BY NextLedger
<1> QED
  BY <1>1, <1>2, RowsStayTrue, OrderlyMeansOrderly, PTL DEF Spec

(* A commit issues the approval it returns, or takes the live one away.    *)
LEMMA CommitIsLedgerStep ==
  ASSUME Apart(HoldsRow), SingleUseInv, RowInv, LedgerInv, NEW w \in Workers,
         RequestCommit(w) \/ RejectCommit(w) \/ ApproveCommit(w)
  PROVE  Ledger!Next
<1> DEFINE a == job[w].app
           t == job[w].token
<1>t. /\ TypeOK /\ NoncesAreFresh /\ SentWhatWasApproved /\ lastNonce <= MaxTokens
      /\ MaxTokens \in Nat
  BY GateAssumption DEF SingleUseInv, GateInv, LedgerInv, NoncesAreBounded
<1>1. /\ \A b \in Apps \ {a} : row'[b] = row[b]
      /\ UNCHANGED outbox /\ a \in Apps
  BY <1>t, CommitFrame
<1>2. UNCHANGED <<AbsSent, AbsDone>>
  BY <1>1 DEF AbsSent, AbsDone
<1>3. ASSUME RequestCommit(w)
      PROVE  Ledger!Issue(AbsApproval(t)) /\ AbsApproval(t) \in Ledger!Approval
  <2>1. /\ pc[w] = "issued" /\ tokens' = tokens \cup {t} /\ t \in Token /\ t.app = a
        /\ row[a].status # "submitted"
    BY <1>t, <1>3 DEF RequestCommit, Finish, LedgerInv, IssuedForItsApp, TypeOK, Holds,
                      RowInv, Opened
  <2>2. t.nonce <= lastNonce /\ \A s \in tokens : s.nonce # t.nonce
    BY <1>t, <2>1 DEF NoncesAreFresh
  <2>3. row'[a].status = "pending_approval" /\ row'[a].hash = t.nonce
    BY <1>t, <1>3, CommittedRow
  <2>4. a \notin AbsDone
    BY <2>1, NoOtherSuccess DEF AbsDone, HoldsRow
  <2>5. \A other \in AbsIssued : other.nonce # t.nonce
    BY <2>2 DEF AbsIssued, AbsApproval
  <2>6. AbsIssued' = AbsIssued \cup {AbsApproval(t)}
    BY <2>1 DEF AbsIssued, AbsApproval
  <2>7. AbsLive' = [AbsLive EXCEPT ![a] = t.nonce]
    <3>1. \A e \in outbox : e.token.nonce # t.nonce
      BY <1>t, <2>2 DEF SentWhatWasApproved
    <3> QED
      BY <1>1, <2>3, <3>1 DEF AbsLive
  <2>8. AbsApproval(t) \in Ledger!Approval
    BY <1>t, <2>1, <2>2 DEF AbsApproval, Ledger!Approval, Token, TypeOK
  <2>9. AbsApproval(t).app = a /\ AbsApproval(t).nonce = t.nonce
    BY <2>1 DEF AbsApproval
  <2> QED
    BY <1>2, <2>4, <2>5, <2>6, <2>7, <2>8, <2>9 DEF Ledger!Issue
<1>4. ASSUME RejectCommit(w) \/ ApproveCommit(w) PROVE Ledger!Withdraw(a)
  <2>1. tokens' = tokens
    BY <1>4 DEF RejectCommit, ApproveCommit
  <2>2. row'[a].status # "pending_approval"
    BY <1>t, <1>4, CommittedRow
  <2>3. AbsLive' = [AbsLive EXCEPT ![a] = 0]
    BY <1>1, <2>2 DEF AbsLive
  <2>4. UNCHANGED AbsIssued
    BY <2>1 DEF AbsIssued
  <2> QED
    BY <1>2, <2>3, <2>4 DEF Ledger!Withdraw
<1> QED
  BY <1>1, <1>3, <1>4 DEF Ledger!Next

(* A dispatch that may have left the machine uses the live approval up.    *)
LEMMA DispatchIsLedgerStep ==
  ASSUME Apart(HoldsRow), SingleUseInv, RowInv, LedgerInv, NEW w \in Workers,
         NEW result \in Outcomes, Dispatch(w, result), result # "refused"
  PROVE  Ledger!Next
<1> DEFINE a == job[w].app
           t == job[w].token
<1>t. TypeOK /\ SentWhatWasApproved
  BY DEF SingleUseInv, GateInv
<1>1. UNCHANGED <<row, tokens>> /\ pc[w] = "loaded" /\ outbox \subseteq outbox'
  BY <1>t, DispatchedJob
<1>2. /\ t \in tokens /\ t.app = a /\ job[w].form = t.sha /\ a \in Apps
      /\ \A e \in outbox : e.token # t
  BY <1>t, <1>1 DEF SingleUseInv, GateInv, ApproversVerified, Approved, TypeOK, Holds
<1>3. row[a].status = "pending_approval" /\ row[a].hash = t.nonce
  BY <1>t, <1>1 DEF RowInv, ApprovesRow, Approving, Loaded, SingleUseInv, GateInv,
                    ApproversVerified, Approved
<1>4. /\ \A e \in outbox' \ outbox :
           e.app = a /\ e.payload = t.sha /\ e.token = t /\ e.result = result
      /\ \E e \in outbox' : e.app = a /\ e.payload = t.sha /\ e.token = t
                            /\ e.result = result
  BY <1>t, <1>2, DispatchedJob
<1>5. \A e \in outbox : e.token.nonce # t.nonce
  BY <1>t, <1>2 DEF SentWhatWasApproved, LedgerInv, NoncesAreUnique
<1>6. AbsApproval(t) \in AbsIssued /\ UNCHANGED AbsIssued
  BY <1>1, <1>2 DEF AbsIssued
<1>7. AbsLive[a] = t.nonce
  BY <1>2, <1>3, <1>5 DEF AbsLive
<1>8. AbsApproval(t) \notin AbsSent
  BY <1>5 DEF AbsSent, AbsApproval
<1>9. a \notin AbsDone
  BY <1>1, <1>3, NoOtherSuccess DEF AbsDone, HoldsRow, Approving
<1>10. AbsSent' = AbsSent \cup {AbsApproval(t)}
  BY <1>1, <1>2, <1>4 DEF AbsSent, AbsApproval
<1>11. AbsLive' = [AbsLive EXCEPT ![a] = 0]
  <2>1. AbsLive'[a] = 0
    BY <1>1, <1>2, <1>3, <1>4 DEF AbsLive
  <2>2. ASSUME NEW b \in Apps \ {a} PROVE AbsLive'[b] = AbsLive[b]
    <3>1. CASE row[b].status = "pending_approval"
      <4>1. row[b].hash # t.nonce
        BY <1>2, <2>2, <3>1 DEF LedgerInv, PendingIsIssued, NoncesAreUnique
      <4> QED
        BY <1>1, <1>4, <2>2, <3>1, <4>1 DEF AbsLive
    <3>2. CASE row[b].status # "pending_approval"
      BY <1>1, <2>2, <3>2 DEF AbsLive
    <3> QED
      BY <3>1, <3>2
  <2> QED
    BY <2>1, <2>2 DEF AbsLive
<1>12. AbsDone' \in {AbsDone, AbsDone \cup {a}}
  <2>1. CASE result = "ok"
    BY <1>1, <1>2, <1>4, <2>1 DEF AbsDone
  <2>2. CASE result # "ok"
    BY <1>1, <1>2, <1>4, <2>2 DEF AbsDone
  <2> QED
    BY <2>1, <2>2
<1>13. AbsApproval(t).app = a /\ AbsApproval(t).nonce = t.nonce
  BY <1>2 DEF AbsApproval
<1> QED
  BY <1>6, <1>7, <1>8, <1>9, <1>10, <1>11, <1>12, <1>13 DEF Ledger!Next, Ledger!Send

(* In orderly behaviours the gate implements ApprovalLedger: what its      *)
(* handlers issue, withdraw and send is what the ledger allows, and a step *)
(* that does neither changes nothing the ledger sees.                      *)
THEOREM GateImplementsLedger == OrderlySpec => ImplementsLedger
<1>1. Init => Ledger!Init
  <2> SUFFICES ASSUME Init PROVE Ledger!Init
    OBVIOUS
  <2>1. tokens = {} /\ outbox = {} /\ \A a \in Apps : row[a].status = "previewed"
    BY DEF Init, NewRow
  <2> QED
    BY <2>1 DEF Ledger!Init, AbsIssued, AbsLive, AbsSent, AbsDone
<1>2. ASSUME Orderly, SingleUseInv, RowInv, LedgerInv, [Next]_vars
      PROVE  [Ledger!Next]_Ledger!vars
  <2>1. UNCHANGED <<row, tokens, outbox>> => UNCHANGED Ledger!vars
    BY DEF Ledger!vars, AbsIssued, AbsLive, AbsSent, AbsDone
  <2>2. ASSUME NEW w \in Workers, NEW result \in Outcomes, Dispatch(w, result),
               result = "refused"
        PROVE  UNCHANGED <<row, tokens, outbox>>
    BY <2>2 DEF Dispatch, store, history
  <2> QED
    BY <1>2, <2>1, <2>2, KindsOfSteps, CommitIsLedgerStep, DispatchIsLedgerStep DEF Orderly
<1> QED
  BY <1>1, <1>2, LedgerStaysTrue, OrderlyMeansOrderly, PTL
     DEF Spec, ImplementsLedger, Ledger!Spec

-----------------------------------------------------------------------------
(* A token the row has given up is given up for ever: again under any      *)
(* interleaving, failure or crash.                                         *)

(* What a commit writes to the token hash of its row: nothing, "", or a    *)
(* token that no client holds yet.                                         *)
LEMMA CommittedHash ==
  ASSUME GateInv, NEW w \in Workers,
         RequestCommit(w) \/ RejectCommit(w) \/ ApproveCommit(w)
  PROVE  \/ row'[job[w].app].hash \in {row[job[w].app].hash, 0}
         \/ \A t \in tokens : t.nonce # row'[job[w].app].hash
<1> DEFINE j == job[w]
           a == j.app
           ok == j.result = "ok"
<1>1. /\ j \in Job /\ a \in Apps /\ j.row \in Row /\ row \in [Apps -> Row]
  BY CommitFrame DEF GateInv, TypeOK
<1>2. CASE RequestCommit(w)
  <2>1. row'[a] = WriteBack(row[a], j.row, Requested(j.row, j))
    BY <1>1, <1>2 DEF RequestCommit
  <2>2. row'[a].hash \in {row[a].hash, j.token.nonce}
    BY <1>1, <2>1, RequestedFields, WriteBackFields
  <2>3. \A t \in tokens : t.nonce # j.token.nonce
    BY <1>2 DEF RequestCommit, Finish, GateInv, NoncesAreFresh
  <2> QED
    BY <2>2, <2>3
<1>3. CASE RejectCommit(w)
  <2>1. row'[a] = WriteBack(row[a], j.row, Rejected(j.row))
    BY <1>1, <1>3 DEF RejectCommit
  <2> QED
    BY <1>1, <2>1, RejectedFields, WriteBackFields
<1>4. CASE ApproveCommit(w)
  <2>1. row'[a] = WriteBack(row[a], j.row, Concluded(j.row, ok))
    BY <1>1, <1>4 DEF ApproveCommit
  <2>2. Concluded(j.row, ok).hash = 0
    BY <1>1, ConcludedFields
  <2> QED
    BY <2>1, <2>2, WriteBackFields
<1> QED
  BY <1>2, <1>3, <1>4

(* Once an application's row holds another token than t, or none, it never *)
(* holds t again: approve_and_submit refuses t from then on, whatever the  *)
(* handlers that loaded the row before commit later.                       *)
THEOREM RetiredForEver == Spec => RetiredTokensStayRetired
<1>1. ASSUME GateInv, [Next]_vars, NEW t \in tokens, row[t.app].hash # t.nonce
      PROVE  row'[t.app].hash # t.nonce
  <2>1. t.app \in Apps /\ t.nonce # 0
    BY <1>1 DEF GateInv, TypeOK, Token
  <2>2. CASE UNCHANGED <<row, tokens, outbox>>
    BY <1>1, <2>2
  <2>3. ASSUME NEW w \in Workers, RequestCommit(w) \/ RejectCommit(w) \/ ApproveCommit(w)
        PROVE  row'[t.app].hash # t.nonce
    <3>1. \A b \in Apps \ {job[w].app} : row'[b] = row[b]
      BY <1>1, <2>3, CommitFrame DEF GateInv
    <3>2. \/ row'[job[w].app].hash \in {row[job[w].app].hash, 0}
          \/ \A other \in tokens : other.nonce # row'[job[w].app].hash
      BY <1>1, <2>3, CommittedHash
    <3> QED
      BY <1>1, <2>1, <3>1, <3>2
  <2>4. ASSUME NEW w \in Workers, NEW result \in Outcomes, Dispatch(w, result)
        PROVE  row'[t.app].hash # t.nonce
    BY <1>1, <2>4 DEF Dispatch, store
  <2> QED
    BY <1>1, <2>2, <2>3, <2>4, KindsOfSteps
<1>2. ASSUME GateInv, [Next]_vars
      PROVE  [\A t \in tokens :
                row[t.app].hash # t.nonce => row'[t.app].hash # t.nonce]_vars
  BY <1>1, <1>2
<1> QED
  BY <1>2, GateInvariant, PTL DEF Spec, RetiredTokensStayRetired
=============================================================================
