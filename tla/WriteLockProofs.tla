--------------------------- MODULE WriteLockProofs ---------------------------
(* Theorems about WriteLock, for any threads, processes and vacancies. *)
EXTENDS WriteLock, TLAPS

Searching == {"traceSearch", "search", "traceSearchEnd", "commitRun"}
Searched == {"traceSearchEnd", "commitRun"}
Reporting == {"dispatch", "commitDigest"}

(* Which stages the handlers pass through.                                 *)
Planned(w) ==
  /\ job[w].stage \in Searching \cup {"flushRun"} => job[w].op \in {"search", "nightly"}
  /\ job[w].stage \in Reporting \cup {"readIds", "flushDigest", "fill"} =>
       job[w].op \in {"nightly", "notify"}
  /\ At(w, "trace") => job[w].op \in {"nightly", "notify", "traced"}
  /\ At(w, "body") => job[w].op = "traced"

(* A search has the write lock from its flush to its commit; only then are *)
(* there vacancies that are added and not committed, and none of them is   *)
(* in the table.                                                           *)
Locked(w) ==
  /\ job[w].stage \in Searching => lock = w
  /\ job[w].stage \in {"traceSearch", "search"} => job[w].run = "running"
  /\ job[w].fresh # {} => job[w].stage \in Searched
  /\ job[w].fresh \cap opps = {}
  /\ job[w].stage \in Searched => job[w].run \in {"completed", "failed"}
  /\ rows[w].run # "running"

(* What a cycle has stored is new since its start, and gets into its       *)
(* report; the digest is complete from its commit on.                      *)
Reported(w) ==
  /\ job[w].before \subseteq opps
  /\ job[w].kept \subseteq opps
  /\ job[w].kept \cap job[w].before = {}
  /\ job[w].kept # {} => job[w].stage \in Reporting \cup {"fill", "traceEnd"} \cup Over
  /\ job[w].stage \in Reporting => job[w].kept \subseteq job[w].report
  /\ rows[w].telegram # "none" =>
       rows[w].telegram = job[w].told /\ job[w].stage \in {"traceEnd"} \cup Over
  /\ rows[w].digest = "filled" => job[w].stage \in {"traceEnd"} \cup Over
  /\ rows[w].sent <=> rows[w].digest = "filled"
  /\ /\ At(w, "done") \/ (At(w, "traceEnd") /\ ~job[w].error)
     /\ job[w].op \in {"nightly", "notify"}
     =>  /\ rows[w].digest = "filled"
         /\ rows[w].telegram = job[w].told
         /\ job[w].kept \subseteq job[w].report

Sound(w) == Planned(w) /\ Locked(w) /\ Reported(w)

IInv == \A w \in Workers : Sound(w)

-----------------------------------------------------------------------------

LEMMA TypeInit == Init => TypeOK
<1>1. NoJob \in Job /\ NoRow \in Row
  BY DEF NoJob, Job, NoRow, Row, Handlers, Stages, RunStatus, DigestStatus, Delivery
<1>2. 0 \in 0..MaxCrashes
  BY LockAssumption
<1>. QED
  BY <1>1, <1>2 DEF Init, TypeOK, TraceStatus

(* A job whose stage is set is a job.                                      *)
LEMMA GotoType ==
  ASSUME TypeOK, NEW w \in Workers, NEW s \in Stages, Goto(w, s)
  PROVE  job' \in [Workers -> Job]
<1>1. [job[w] EXCEPT !.stage = s] \in Job
  BY DEF TypeOK, Job
<1>. QED
  BY <1>1 DEF Goto, TypeOK

LEMMA AfterTraceType ==
  ASSUME TypeOK, NEW w \in Workers, job[w].stage \in Starts \cup Ends
  PROVE  AfterTrace(w) \in Stages
BY DEF AfterTrace, Stages, Writing, Starts, Ends, Over, At

LEMMA TypeStep == ASSUME TypeOK, [Next]_vars PROVE TypeOK'
<1>j. \A w \in Workers : job[w] \in Job
  BY DEF TypeOK
<1>r. \A w \in Workers : rows[w] \in Row
  BY DEF TypeOK
<1>1. ASSUME NEW w \in Workers, Begin(w) PROVE TypeOK'
  <2>1. PICK h \in Handlers : job' = [job EXCEPT ![w].op = h, ![w].stage = FirstStage[h]]
    BY <1>1 DEF Begin, Handlers
  <2>2. FirstStage[h] \in Stages
    BY DEF FirstStage, Stages, Writing, Starts, Handlers
  <2>3. [job[w] EXCEPT !.op = h, !.stage = FirstStage[h]] \in Job
    BY <1>j, <2>2 DEF Job
  <2>4. job' \in [Workers -> Job]
    BY <2>1, <2>3 DEF TypeOK
  <2>. QED
    BY <1>1, <2>4 DEF Begin, TypeOK
<1>2. ASSUME NEW w \in Workers, BusyTimeout(w) PROVE TypeOK'
  <2>. DEFINE s == IF At(w, "commitDigest") \/ At(w, "body") THEN "traceEnd" ELSE "raised"
  <2>1. s \in Stages
    BY DEF Stages, Ends, Over
  <2>2. job' = [job EXCEPT ![w].error = TRUE, ![w].stage = s]
    BY <1>2 DEF BusyTimeout
  <2>. HIDE DEF s
  <2>3. [job[w] EXCEPT !.error = TRUE, !.stage = s] \in Job
    BY <1>j, <2>1 DEF Job
  <2>4. job' \in [Workers -> Job]
    BY <2>2, <2>3 DEF TypeOK
  <2>. QED
    BY <1>2, <2>4 DEF BusyTimeout, TypeOK
<1>3. ASSUME NEW w \in Workers, TraceStart(w) \/ TraceEnd(w) PROVE TypeOK'
  <2>1. job' \in [Workers -> Job]
    BY <1>3, AfterTraceType, GotoType DEF TraceStart, TraceEnd
  <2>2. agentRuns' \in [Workers -> [{"handler", "search"} -> TraceStatus]]
    <3>1. Traced(w) \in {"handler", "search"} /\ Outcome(w) \in TraceStatus
      BY DEF Traced, Outcome, TraceStatus
    <3>2. PICK s \in TraceStatus : agentRuns' = [agentRuns EXCEPT ![w][Traced(w)] = s]
      BY <1>3, <3>1 DEF TraceStart, TraceEnd, TraceStatus
    <3>3. [agentRuns[w] EXCEPT ![Traced(w)] = s] \in [{"handler", "search"} -> TraceStatus]
      BY <3>1 DEF TypeOK
    <3>. QED
      BY <3>2, <3>3 DEF TypeOK
  <2>. QED
    BY <1>3, <2>1, <2>2 DEF TraceStart, TraceEnd, TypeOK
<1>4. ASSUME NEW w \in Workers, TraceEndNoRow(w) \/ TraceGivesUp(w) PROVE TypeOK'
  <2>1. job' \in [Workers -> Job]
    BY <1>4, AfterTraceType, GotoType DEF TraceEndNoRow, TraceGivesUp
  <2>. QED
    BY <1>4, <2>1 DEF TraceEndNoRow, TraceGivesUp, TypeOK
<1>5. ASSUME NEW w \in Workers, FlushRun(w) PROVE TypeOK'
  <2>1. [job[w] EXCEPT !.run = "running", !.stage = "traceSearch"] \in Job
    BY <1>j DEF Job, RunStatus, Stages, Starts
  <2>2. job' \in [Workers -> Job]
    BY <1>5, <2>1 DEF FlushRun, TypeOK
  <2>. QED
    BY <1>5, <2>2 DEF FlushRun, Flushed, TypeOK
<1>6. ASSUME NEW w \in Workers, Search(w) PROVE TypeOK'
  <2>1. PICK found \in SUBSET Urls :
          job' = [job EXCEPT ![w].fresh = found \ opps, ![w].run = "completed",
                             ![w].stage = "traceSearchEnd"]
    BY <1>6 DEF Search
  <2>2. [job[w] EXCEPT !.fresh = found \ opps, !.run = "completed", !.stage = "traceSearchEnd"]
          \in Job
    BY <1>j DEF Job, RunStatus, Stages, Ends
  <2>3. job' \in [Workers -> Job]
    BY <2>1, <2>2 DEF TypeOK
  <2>. QED
    BY <1>6, <2>3 DEF Search, TypeOK
<1>7. ASSUME NEW w \in Workers, SearchFails(w) PROVE TypeOK'
  <2>1. [job[w] EXCEPT !.run = "failed", !.stage = "traceSearchEnd"] \in Job
    BY <1>j DEF Job, RunStatus, Stages, Ends
  <2>2. job' \in [Workers -> Job]
    BY <1>7, <2>1 DEF SearchFails, TypeOK
  <2>. QED
    BY <1>7, <2>2 DEF SearchFails, TypeOK
<1>8. ASSUME NEW w \in Workers, CommitRun(w) PROVE TypeOK'
  <2>. DEFINE s == IF job[w].op = "nightly" THEN "fill" ELSE "done"
              d == IF job[w].op = "nightly" THEN "open" ELSE rows[w].digest
  <2>1. s \in Stages /\ d \in DigestStatus
    BY <1>r DEF Stages, Over, DigestStatus, Row
  <2>2. /\ job' = [job EXCEPT ![w].fresh = {}, ![w].kept = job[w].fresh, ![w].stage = s]
        /\ rows' = [rows EXCEPT ![w].run = job[w].run, ![w].digest = d]
    BY <1>8 DEF CommitRun
  <2>. HIDE DEF s, d
  <2>3. [job[w] EXCEPT !.fresh = {}, !.kept = job[w].fresh, !.stage = s] \in Job
    BY <1>j, <2>1 DEF Job
  <2>4. [rows[w] EXCEPT !.run = job[w].run, !.digest = d] \in Row
    BY <1>j, <1>r, <2>1 DEF Job, Row
  <2>5. job' \in [Workers -> Job]
    BY <2>2, <2>3 DEF TypeOK
  <2>6. rows' \in [Workers -> Row]
    BY <2>2, <2>4 DEF TypeOK
  <2>7. opps' \subseteq Urls
    BY <1>8, <1>j DEF CommitRun, TypeOK, Job
  <2>. QED
    BY <1>8, <2>5, <2>6, <2>7 DEF CommitRun, TypeOK
<1>9. ASSUME NEW w \in Workers, ReadIds(w) PROVE TypeOK'
  <2>1. [job[w] EXCEPT !.before = opps, !.stage = "flushDigest"] \in Job
    BY <1>j DEF Job, Stages, Writing, TypeOK
  <2>2. job' \in [Workers -> Job]
    BY <1>9, <2>1 DEF ReadIds, TypeOK
  <2>. QED
    BY <1>9, <2>2 DEF ReadIds, TypeOK
<1>10. ASSUME NEW w \in Workers, FlushDigest(w) \/ Body(w) PROVE TypeOK'
  <2>1. job' \in [Workers -> Job]
    BY <1>10, GotoType DEF FlushDigest, Body, Stages, Starts, Ends
  <2>. QED
    BY <1>10, <2>1 DEF FlushDigest, Body, TypeOK
<1>11. ASSUME NEW w \in Workers, Fill(w) PROVE TypeOK'
  <2>1. [job[w] EXCEPT !.report = opps \ job[w].before, !.stage = "dispatch"] \in Job
    BY <1>j DEF Job, Stages, TypeOK
  <2>2. job' \in [Workers -> Job]
    BY <1>11, <2>1 DEF Fill, TypeOK
  <2>. QED
    BY <1>11, <2>2 DEF Fill, TypeOK
<1>12. ASSUME NEW w \in Workers, Dispatch(w) PROVE TypeOK'
  <2>1. PICK t \in Delivery : job' = [job EXCEPT ![w].told = t, ![w].stage = "commitDigest"]
    BY <1>12 DEF Dispatch
  <2>2. [job[w] EXCEPT !.told = t, !.stage = "commitDigest"] \in Job
    BY <1>j DEF Job, Stages, Writing
  <2>3. job' \in [Workers -> Job]
    BY <2>1, <2>2 DEF TypeOK
  <2>. QED
    BY <1>12, <2>3 DEF Dispatch, TypeOK
<1>13. ASSUME NEW w \in Workers, CommitDigest(w) PROVE TypeOK'
  <2>1. job' \in [Workers -> Job]
    BY <1>13, GotoType DEF CommitDigest, Stages, Ends
  <2>2. [rows[w] EXCEPT !.digest = "filled", !.sent = SentAny(job[w].told),
                        !.telegram = job[w].told] \in Row
    BY <1>j, <1>r DEF Row, Job, DigestStatus, SentAny
  <2>3. rows' \in [Workers -> Row]
    BY <1>13, <2>2 DEF CommitDigest, TypeOK
  <2>. QED
    BY <1>13, <2>1, <2>3 DEF CommitDigest, TypeOK
<1>14. CASE Crash
  <2>1. PICK dead \in SUBSET Workers :
          /\ lock' = IF lock \in dead THEN NoWorker ELSE lock
          /\ job' = [w \in Workers |->
                       IF w \in dead THEN [job[w] EXCEPT !.fresh = {}, !.stage = "crashed"]
                                     ELSE job[w]]
    BY <1>14 DEF Crash, Workers
  <2>2. \A w \in Workers : [job[w] EXCEPT !.fresh = {}, !.stage = "crashed"] \in Job
    BY <1>j DEF Job, Stages, Over
  <2>3. job' \in [Workers -> Job]
    BY <1>j, <2>1, <2>2
  <2>4. crashes' \in 0..MaxCrashes
    <3>1. crashes < MaxCrashes /\ crashes' = crashes + 1 /\ crashes \in 0..MaxCrashes
      BY <1>14 DEF Crash, TypeOK
    <3>. QED
      BY <3>1, LockAssumption
  <2>. QED
    BY <1>14, <2>1, <2>3, <2>4 DEF Crash, TypeOK
<1>15. CASE UNCHANGED vars
  BY <1>15 DEF vars, TypeOK
<1>. QED
  BY <1>1, <1>2, <1>3, <1>4, <1>5, <1>6, <1>7, <1>8, <1>9, <1>10, <1>11, <1>12, <1>13,
     <1>14, <1>15 DEF Next, Step, Answer

(* The types of the state, for any number of workers.                      *)
THEOREM TypeCorrect == Spec => []TypeOK
BY TypeInit, TypeStep, PTL DEF Spec

-----------------------------------------------------------------------------

LEMMA SoundInit == Init => IInv
BY DEF Init, IInv, Sound, Planned, Locked, Reported, At, NoJob, NoRow, Searching, Searched,
       Reporting, Over

(* What w does leaves v as it was: the lock of v stays its own, and rows   *)
(* come into the table only while w has the lock.                          *)
LEMMA OthersStaySound ==
  ASSUME TypeOK, IInv, NEW v \in Workers,
         job'[v] = job[v], rows'[v] = rows[v],
         lock = v => lock' = v,
         opps \subseteq opps',
         opps' # opps => lock # v
  PROVE  Sound(v)'
<1>. USE DEF IInv, Sound
<1>1. Planned(v)'
  BY DEF Planned, At
<1>2. Locked(v)'
  BY DEF Locked, Searching, Searched
<1>3. Reported(v)'
  BY DEF Reported, At
<1>. QED
  BY <1>1, <1>2, <1>3

(* Of a step of w that adds no row, and keeps or takes or gives up only its*)
(* own lock, only the part of w is left to show.                           *)
LEMMA OwnStep ==
  ASSUME TypeOK, IInv, NEW w \in Workers, NEW j, NEW r,
         job' = [job EXCEPT ![w] = j], rows' = [rows EXCEPT ![w] = r],
         lock' = lock \/ lock \in {NoWorker, w},
         opps \subseteq opps', opps' # opps => lock = w,
         Sound(w)'
  PROVE  IInv'
<1>1. ASSUME NEW v \in Workers, v # w PROVE Sound(v)'
  <2>1. job'[v] = job[v] /\ rows'[v] = rows[v]
    BY <1>1 DEF TypeOK
  <2>2. lock = v => lock' = v
    BY <1>1, LockAssumption DEF Workers
  <2>. QED
    BY <1>1, <2>1, <2>2, OthersStaySound
<1>. QED
  BY <1>1 DEF IInv

(* A step of w that changes nothing but its job.                           *)
LEMMA JobStep ==
  ASSUME TypeOK, IInv, NEW w \in Workers, NEW j,
         job' = [job EXCEPT ![w] = j], UNCHANGED <<lock, opps, rows>>,
         job'[w] = j => Sound(w)'
  PROVE  IInv'
<1>1. job'[w] = j /\ rows' = [rows EXCEPT ![w] = rows[w]]
  BY DEF TypeOK
<1>. QED
  BY <1>1, OwnStep

LEMMA TraceSound ==
  ASSUME TypeOK, IInv, NEW w \in Workers, job[w].stage \in Starts \cup Ends,
         Goto(w, AfterTrace(w)), UNCHANGED <<lock, opps, rows>>
  PROVE  IInv'
<1>. DEFINE j == [job[w] EXCEPT !.stage = AfterTrace(w)]
<1>1. job' = [job EXCEPT ![w] = j]
  BY DEF Goto
<1>2. /\ j.stage = AfterTrace(w) /\ j.op = job[w].op /\ j.run = job[w].run
      /\ j.fresh = job[w].fresh /\ j.kept = job[w].kept /\ j.before = job[w].before
      /\ j.report = job[w].report /\ j.told = job[w].told /\ j.error = job[w].error
  BY DEF TypeOK, Job
<1>3. ASSUME job'[w] = j PROVE Sound(w)'
  <2>. HIDE DEF j
  <2>. USE <1>2, <1>3 DEF IInv, Sound
  <2>1. CASE At(w, "traceSearch")
    <3>1. j.stage = "search"
      BY <2>1 DEF AfterTrace, At
    <3>. QED
      BY <2>1, <3>1 DEF Planned, Locked, Reported, At, Searching, Searched, Reporting, Over
  <2>2. CASE At(w, "traceSearchEnd")
    <3>1. j.stage = "commitRun"
      BY <2>2 DEF AfterTrace, At
    <3>. QED
      BY <2>2, <3>1 DEF Planned, Locked, Reported, At, Searching, Searched, Reporting, Over
  <2>3. CASE At(w, "traceEnd")
    <3>1. j.stage = IF job[w].error THEN "raised" ELSE "done"
      BY <2>3 DEF AfterTrace, At
    <3>. QED
      BY <2>3, <3>1 DEF Planned, Locked, Reported, At, Searching, Searched, Reporting, Over
  <2>4. CASE At(w, "trace")
    <3>1. j.stage = IF job[w].op = "nightly" THEN "flushRun"
                    ELSE IF job[w].op = "notify" THEN "fill" ELSE "body"
      BY <2>4 DEF AfterTrace, At
    <3>. QED
      BY <2>4, <3>1 DEF Planned, Locked, Reported, At, Searching, Searched, Reporting, Over
  <2>. QED
    BY <2>1, <2>2, <2>3, <2>4 DEF Starts, Ends, At
<1>. QED
  BY <1>1, <1>3, JobStep

LEMMA SoundStep == ASSUME TypeOK, IInv, [Next]_vars PROVE IInv'
<1>1. ASSUME NEW w \in Workers, Begin(w) PROVE IInv'
  <2>p. PICK h \in Handlers : job' = [job EXCEPT ![w].op = h, ![w].stage = FirstStage[h]]
    BY <1>1 DEF Begin, Handlers
  <2>. DEFINE j == [job[w] EXCEPT !.op = h, !.stage = FirstStage[h]]
  <2>1. job' = [job EXCEPT ![w] = j]
    BY <1>1, <2>p DEF Begin
  <2>2. /\ j.op = h /\ j.stage = FirstStage[h] /\ j.run = job[w].run
        /\ j.fresh = job[w].fresh /\ j.kept = job[w].kept
        /\ j.before = job[w].before /\ j.report = job[w].report
        /\ j.told = job[w].told /\ j.error = job[w].error
    BY DEF TypeOK, Job
  <2>3. /\ UNCHANGED <<lock, opps, rows>> /\ At(w, "idle")
        /\ <<h, FirstStage[h]>> \in {<<"search", "flushRun">>, <<"nightly", "readIds">>,
                                     <<"notify", "readIds">>, <<"traced", "trace">>}
    BY <1>1, <2>p DEF Begin, FirstStage, Handlers
  <2>4. ASSUME job'[w] = j PROVE Sound(w)'
    <3>. HIDE DEF j
    <3>. USE <2>2, <2>3, <2>4 DEF IInv, Sound, At
    <3>1. Planned(w)'
      BY DEF Planned, Searching, Reporting
    <3>2. Locked(w)'
      BY DEF Locked, Searching, Searched
    <3>3. Reported(w)'
      BY DEF Reported, Reporting, Over
    <3>. QED
      BY <3>1, <3>2, <3>3
  <2>. QED
    BY <1>1, <2>1, <2>4, JobStep DEF Begin
<1>2. ASSUME NEW w \in Workers, BusyTimeout(w) PROVE IInv'
  <2>. DEFINE j == [job[w] EXCEPT !.error = TRUE, !.stage = IF At(w, "commitDigest") \/ At(w, "body") THEN "traceEnd" ELSE "raised"]
  <2>1. job' = [job EXCEPT ![w] = j]
    BY <1>2 DEF BusyTimeout
  <2>2. /\ j.op = job[w].op
        /\ j.stage = IF At(w, "commitDigest") \/ At(w, "body") THEN "traceEnd" ELSE "raised"
        /\ j.run = job[w].run /\ j.fresh = job[w].fresh
        /\ j.kept = job[w].kept /\ j.before = job[w].before
        /\ j.report = job[w].report /\ j.told = job[w].told /\ j.error = TRUE
    BY DEF TypeOK, Job
  <2>3. UNCHANGED <<lock, opps, rows>> /\ lock # w /\ job[w].stage \in Writing
    BY <1>2 DEF BusyTimeout, Free
  <2>4. ASSUME job'[w] = j PROVE Sound(w)'
    <3>. HIDE DEF j
    <3>. USE <2>2, <2>3, <2>4 DEF IInv, Sound, At
    <3>1. Planned(w)'
      BY DEF Planned, Searching, Reporting
    <3>2. Locked(w)'
      BY DEF Locked, Searching, Searched
    <3>3. Reported(w)'
      BY DEF Reported, Reporting, Over
    <3>. QED
      BY <3>1, <3>2, <3>3
  <2>. QED
    BY <1>2, <2>1, <2>4, JobStep DEF BusyTimeout
<1>3. ASSUME NEW w \in Workers,
             TraceStart(w) \/ TraceEnd(w) \/ TraceEndNoRow(w) \/ TraceGivesUp(w)
      PROVE  IInv'
  BY <1>3, TraceSound DEF TraceStart, TraceEnd, TraceEndNoRow, TraceGivesUp
<1>4. ASSUME NEW w \in Workers, FlushRun(w) PROVE IInv'
  <2>. DEFINE j == [job[w] EXCEPT !.run = "running", !.stage = "traceSearch"]
  <2>1. /\ job' = [job EXCEPT ![w] = j] /\ lock' = w /\ opps' = opps
        /\ rows' = [rows EXCEPT ![w] = rows[w]] /\ lock \in {NoWorker, w}
        /\ At(w, "flushRun")
    BY <1>4 DEF FlushRun, Flushed, Free, TypeOK
  <2>2. /\ j.op = job[w].op /\ j.stage = "traceSearch" /\ j.run = "running"
        /\ j.fresh = job[w].fresh /\ j.kept = job[w].kept
        /\ j.before = job[w].before /\ j.report = job[w].report
        /\ j.told = job[w].told /\ j.error = job[w].error
    BY DEF TypeOK, Job
  <2>3. job'[w] = j /\ rows'[w] = rows[w]
    BY <2>1 DEF TypeOK
  <2>. HIDE DEF j
  <2>4. Sound(w)'
    BY <2>1, <2>2, <2>3
       DEF IInv, Sound, Planned, Locked, Reported, At, Searching, Searched, Reporting, Over
  <2>. QED
    BY <2>1, <2>4, OwnStep
<1>5. ASSUME NEW w \in Workers, Search(w) PROVE IInv'
  <2>p. PICK found \in SUBSET Urls :
          job' = [job EXCEPT ![w].fresh = found \ opps, ![w].run = "completed",
                             ![w].stage = "traceSearchEnd"]
    BY <1>5 DEF Search
  <2>. DEFINE j == [job[w] EXCEPT !.fresh = found \ opps, !.run = "completed", !.stage = "traceSearchEnd"]
  <2>1. job' = [job EXCEPT ![w] = j]
    BY <1>5, <2>p DEF Search
  <2>2. /\ j.op = job[w].op /\ j.stage = "traceSearchEnd"
        /\ j.run = "completed" /\ j.fresh = found \ opps
        /\ j.kept = job[w].kept /\ j.before = job[w].before
        /\ j.report = job[w].report /\ j.told = job[w].told
        /\ j.error = job[w].error
    BY DEF TypeOK, Job
  <2>3. ASSUME job'[w] = j PROVE Sound(w)'
    <3>. HIDE DEF j
    <3>. QED
      BY <1>5, <2>2, <2>3
         DEF IInv, Sound, Search, Planned, Locked, Reported, At, Searching, Searched,
             Reporting, Over
  <2>. QED
    BY <1>5, <2>1, <2>3, JobStep DEF Search
<1>6. ASSUME NEW w \in Workers, SearchFails(w) PROVE IInv'
  <2>. DEFINE j == [job[w] EXCEPT !.run = "failed", !.stage = "traceSearchEnd"]
  <2>1. job' = [job EXCEPT ![w] = j]
    BY <1>6 DEF SearchFails
  <2>2. /\ j.op = job[w].op /\ j.stage = "traceSearchEnd" /\ j.run = "failed"
        /\ j.fresh = job[w].fresh /\ j.kept = job[w].kept
        /\ j.before = job[w].before /\ j.report = job[w].report
        /\ j.told = job[w].told /\ j.error = job[w].error
    BY DEF TypeOK, Job
  <2>3. ASSUME job'[w] = j PROVE Sound(w)'
    <3>. HIDE DEF j
    <3>. QED
      BY <1>6, <2>2, <2>3
         DEF IInv, Sound, SearchFails, Planned, Locked, Reported, At, Searching, Searched,
             Reporting, Over
  <2>. QED
    BY <1>6, <2>1, <2>3, JobStep DEF SearchFails
<1>7. ASSUME NEW w \in Workers, CommitRun(w) PROVE IInv'
  <2>. DEFINE s == IF job[w].op = "nightly" THEN "fill" ELSE "done"
              d == IF job[w].op = "nightly" THEN "open" ELSE rows[w].digest
              j == [job[w] EXCEPT !.fresh = {}, !.kept = job[w].fresh, !.stage = s]
              r == [rows[w] EXCEPT !.run = job[w].run, !.digest = d]
  <2>1. /\ job' = [job EXCEPT ![w] = j] /\ rows' = [rows EXCEPT ![w] = r]
        /\ lock' = NoWorker /\ opps' = opps \cup job[w].fresh /\ At(w, "commitRun")
    BY <1>7 DEF CommitRun
  <2>2. /\ j.op = job[w].op /\ j.stage = s /\ j.run = job[w].run
        /\ j.fresh = {} /\ j.kept = job[w].fresh /\ j.before = job[w].before
        /\ j.report = job[w].report /\ j.told = job[w].told
        /\ j.error = job[w].error
    BY DEF TypeOK, Job
  <2>3. /\ r.run = job[w].run /\ r.sent = rows[w].sent
        /\ r.telegram = rows[w].telegram
        /\ r.digest = "filled" <=> rows[w].digest = "filled"
    <3>1. /\ r.run = job[w].run /\ r.sent = rows[w].sent
          /\ r.telegram = rows[w].telegram /\ r.digest = d
      BY DEF TypeOK, Row
    <3>2. rows[w].digest # "filled"
      BY <2>1 DEF IInv, Sound, Reported, At, Over
    <3>. QED
      BY <3>1, <3>2
  <2>4. job'[w] = j /\ rows'[w] = r
    BY <2>1 DEF TypeOK
  <2>5. lock = w
    BY <2>1 DEF IInv, Sound, Locked, Searching, At
  <2>6. \/ s = "fill" /\ job[w].op = "nightly"
        \/ s = "done" /\ job[w].op = "search"
    BY <2>1 DEF IInv, Sound, Planned, Searching, At
  <2>. HIDE DEF j, r, s
  <2>7. Planned(w)' /\ Locked(w)'
    BY <2>1, <2>2, <2>3, <2>4, <2>6
       DEF IInv, Sound, Planned, Locked, Reported, At, Searching, Searched, Reporting, Over
  <2>8. Reported(w)'
    BY <2>1, <2>2, <2>3, <2>4, <2>6
       DEF IInv, Sound, Planned, Locked, Reported, At, Searching, Searched, Reporting, Over
  <2>. QED
    BY <2>1, <2>5, <2>7, <2>8, OwnStep DEF Sound
<1>8. ASSUME NEW w \in Workers, ReadIds(w) PROVE IInv'
  <2>. DEFINE j == [job[w] EXCEPT !.before = opps, !.stage = "flushDigest"]
  <2>1. job' = [job EXCEPT ![w] = j]
    BY <1>8 DEF ReadIds
  <2>2. /\ j.op = job[w].op /\ j.stage = "flushDigest" /\ j.run = job[w].run
        /\ j.fresh = job[w].fresh /\ j.kept = job[w].kept /\ j.before = opps
        /\ j.report = job[w].report /\ j.told = job[w].told
        /\ j.error = job[w].error
    BY DEF TypeOK, Job
  <2>3. UNCHANGED <<lock, opps, rows>> /\ At(w, "readIds")
    BY <1>8 DEF ReadIds
  <2>4. ASSUME job'[w] = j PROVE Sound(w)'
    <3>. HIDE DEF j
    <3>. USE <2>2, <2>3, <2>4 DEF IInv, Sound, At
    <3>1. Planned(w)'
      BY DEF Planned, Searching, Reporting
    <3>2. Locked(w)'
      BY DEF Locked, Searching, Searched
    <3>3. Reported(w)'
      BY DEF Reported, Reporting, Over
    <3>. QED
      BY <3>1, <3>2, <3>3
  <2>. QED
    BY <1>8, <2>1, <2>4, JobStep DEF ReadIds
<1>9. ASSUME NEW w \in Workers, FlushDigest(w) \/ Body(w) PROVE IInv'
  <2>. DEFINE s == IF At(w, "body") THEN "traceEnd" ELSE "trace"
              j == [job[w] EXCEPT !.stage = s]
  <2>1. /\ job' = [job EXCEPT ![w] = j] /\ opps' = opps
        /\ lock' = lock \/ lock \in {NoWorker, w}
        /\ rows' = [rows EXCEPT ![w] = rows[w]]
        /\ At(w, "body") \/ At(w, "flushDigest")
    BY <1>9 DEF FlushDigest, Body, Goto, At, Free, TypeOK
  <2>2. /\ j.op = job[w].op /\ j.stage = s /\ j.run = job[w].run
        /\ j.fresh = job[w].fresh /\ j.kept = job[w].kept
        /\ j.before = job[w].before /\ j.report = job[w].report
        /\ j.told = job[w].told /\ j.error = job[w].error
    BY DEF TypeOK, Job
  <2>3. job'[w] = j /\ rows'[w] = rows[w]
    BY <2>1 DEF TypeOK
  <2>4. \/ s = "traceEnd" /\ At(w, "body")
        \/ s = "trace" /\ At(w, "flushDigest")
    BY <2>1 DEF At
  <2>. HIDE DEF j, s
  <2>5. Sound(w)'
    BY <2>1, <2>2, <2>3, <2>4
       DEF IInv, Sound, Planned, Locked, Reported, At, Searching, Searched, Reporting, Over
  <2>. QED
    BY <2>1, <2>5, OwnStep
<1>10. ASSUME NEW w \in Workers, Fill(w) PROVE IInv'
  <2>. DEFINE j == [job[w] EXCEPT !.report = opps \ job[w].before, !.stage = "dispatch"]
  <2>1. job' = [job EXCEPT ![w] = j]
    BY <1>10 DEF Fill
  <2>2. /\ j.op = job[w].op /\ j.stage = "dispatch" /\ j.run = job[w].run
        /\ j.fresh = job[w].fresh /\ j.kept = job[w].kept
        /\ j.before = job[w].before /\ j.report = opps \ job[w].before
        /\ j.told = job[w].told /\ j.error = job[w].error
    BY DEF TypeOK, Job
  <2>3. ASSUME job'[w] = j PROVE Sound(w)'
    <3>. HIDE DEF j
    <3>. QED
      BY <1>10, <2>2, <2>3
         DEF IInv, Sound, Fill, Planned, Locked, Reported, At, Searching, Searched, Reporting,
             Over
  <2>. QED
    BY <1>10, <2>1, <2>3, JobStep DEF Fill
<1>11. ASSUME NEW w \in Workers, Dispatch(w) PROVE IInv'
  <2>p. PICK t \in Delivery : job' = [job EXCEPT ![w].told = t, ![w].stage = "commitDigest"]
    BY <1>11 DEF Dispatch
  <2>. DEFINE j == [job[w] EXCEPT !.told = t, !.stage = "commitDigest"]
  <2>1. job' = [job EXCEPT ![w] = j]
    BY <1>11, <2>p DEF Dispatch
  <2>2. /\ j.op = job[w].op /\ j.stage = "commitDigest" /\ j.run = job[w].run
        /\ j.fresh = job[w].fresh /\ j.kept = job[w].kept
        /\ j.before = job[w].before /\ j.report = job[w].report /\ j.told = t
        /\ j.error = job[w].error
    BY DEF TypeOK, Job
  <2>3. ASSUME job'[w] = j PROVE Sound(w)'
    <3>. HIDE DEF j
    <3>. QED
      BY <1>11, <2>2, <2>3
         DEF IInv, Sound, Dispatch, Planned, Locked, Reported, At, Searching, Searched,
             Reporting, Over
  <2>. QED
    BY <1>11, <2>1, <2>3, JobStep DEF Dispatch
<1>12. ASSUME NEW w \in Workers, CommitDigest(w) PROVE IInv'
  <2>. DEFINE j == [job[w] EXCEPT !.stage = "traceEnd"]
              r == [rows[w] EXCEPT !.digest = "filled", !.sent = SentAny(job[w].told),
                                   !.telegram = job[w].told]
  <2>1. /\ job' = [job EXCEPT ![w] = j] /\ rows' = [rows EXCEPT ![w] = r]
        /\ lock \in {NoWorker, w} /\ opps' = opps /\ At(w, "commitDigest")
    BY <1>12 DEF CommitDigest, Goto, Free
  <2>2. /\ j.op = job[w].op /\ j.stage = "traceEnd" /\ j.run = job[w].run
        /\ j.fresh = job[w].fresh /\ j.kept = job[w].kept
        /\ j.before = job[w].before /\ j.report = job[w].report
        /\ j.told = job[w].told /\ j.error = job[w].error
    BY DEF TypeOK, Job
  <2>3. /\ r.run = rows[w].run /\ r.digest = "filled" /\ r.sent
        /\ r.telegram = job[w].told
    BY DEF TypeOK, Row, SentAny
  <2>4. job'[w] = j /\ rows'[w] = r
    BY <2>1 DEF TypeOK
  <2>. HIDE DEF j, r
  <2>5. Sound(w)'
    BY <2>1, <2>2, <2>3, <2>4
       DEF IInv, Sound, Planned, Locked, Reported, At, Searching, Searched, Reporting, Over
  <2>. QED
    BY <2>1, <2>5, OwnStep
<1>13. CASE Crash
  <2>1. PICK dead \in SUBSET Workers :
          /\ lock' = IF lock \in dead THEN NoWorker ELSE lock
          /\ job' = [w \in Workers |->
                       IF w \in dead THEN [job[w] EXCEPT !.fresh = {}, !.stage = "crashed"]
                                     ELSE job[w]]
    BY <1>13 DEF Crash, Workers
  <2>2. opps' = opps /\ rows' = rows
    BY <1>13 DEF Crash
  <2>3. ASSUME NEW w \in Workers \ dead PROVE Sound(w)'
    <3>1. job'[w] = job[w] /\ (lock = w => lock' = w)
      BY <2>1, <2>3
    <3>. QED
      BY <2>2, <3>1, OthersStaySound
  <2>4. ASSUME NEW w \in dead PROVE Sound(w)'
    <3>. DEFINE j == [job[w] EXCEPT !.fresh = {}, !.stage = "crashed"]
    <3>1. job'[w] = j
      BY <2>1
    <3>2. /\ j.op = job[w].op /\ j.stage = "crashed" /\ j.run = job[w].run
          /\ j.fresh = {} /\ j.kept = job[w].kept /\ j.before = job[w].before
          /\ j.report = job[w].report /\ j.told = job[w].told
          /\ j.error = job[w].error
      BY DEF TypeOK, Job
    <3>. HIDE DEF j
    <3>. QED
      BY <2>2, <3>1, <3>2
         DEF IInv, Sound, Planned, Locked, Reported, At, Searching, Searched, Reporting, Over
  <2>. QED
    BY <2>3, <2>4 DEF IInv
<1>14. CASE UNCHANGED vars
  BY <1>14 DEF vars, IInv, Sound, Planned, Locked, Reported, At, Searching, Searched,
     Reporting, Over
<1>. QED
  BY <1>1, <1>2, <1>3, <1>4, <1>5, <1>6, <1>7, <1>8, <1>9, <1>10, <1>11, <1>12, <1>13,
     <1>14 DEF Next, Step, Answer

(* The invariant by which the theorems below hold.                         *)
THEOREM Soundness == Spec => [](TypeOK /\ IInv)
<1>1. Init => TypeOK /\ IInv
  BY TypeInit, SoundInit
<1>2. TypeOK /\ IInv /\ [Next]_vars => (TypeOK /\ IInv)'
  BY TypeStep, SoundStep
<1>. QED
  BY <1>1, <1>2, PTL DEF Spec

(* No handler commits what the open session of another is about to insert: *)
(* a search holds the write lock from the flush of its run to its commit   *)
(* (discovery/service.py:109-150).                                         *)
THEOREM NoCollision == Spec => []InsertsDoNotCollide
<1>1. IInv => InsertsDoNotCollide
  BY DEF IInv, Sound, Locked, InsertsDoNotCollide
<1>. QED
  BY <1>1, Soundness, PTL

(* A discovery run in the table has an outcome: "running" is flushed and   *)
(* never committed.                                                        *)
THEOREM RunsAreConcluded == Spec => []StoredRunsAreConcluded
<1>1. IInv => StoredRunsAreConcluded
  BY DEF IInv, Sound, Locked, StoredRunsAreConcluded
<1>. QED
  BY <1>1, Soundness, PTL

(* A nightly cycle that returns has reported what it stored, its           *)
(* notification says what Telegram did, and its digest says "sent" whatever*)
(* that was, whatever other threads and processes do                       *)
(* (ops/nightly.py:41-96).                                                 *)
THEOREM CyclesRecorded == Spec => []CyclesAreRecorded
<1>1. IInv => CyclesAreRecorded
  BY DEF IInv, Sound, Reported, CyclesAreRecorded, At
<1>. QED
  BY <1>1, Soundness, PTL

-----------------------------------------------------------------------------
(* The searches as SerialSearches sees them.                               *)

(* A worker in a search is the one SerialSearches sees, one that is not is *)
(* not seen.                                                               *)
LEMMA OpenSearch ==
  ASSUME TypeOK, IInv
  PROVE  /\ \A w \in Workers : job[w].stage \in Searching => lock = w /\ SearchIsOpen
         /\ SearchIsOpen => lock \in Workers /\ job[lock].stage \in Searching
<1>1. NoWorker \notin Workers
  BY LockAssumption DEF Workers
<1>. QED
  BY <1>1 DEF TypeOK, IInv, Sound, Locked, Searching, SearchIsOpen

(* What a worker does outside of a search is not seen.                     *)
LEMMA Unseen ==
  ASSUME TypeOK, NEW w \in Workers,
         \A v \in Workers \ {w} : job'[v] = job[v],
         opps' = opps,
         lock' = lock \/ (lock \in {NoWorker, w} /\ lock' \in {NoWorker, w}),
         job[w].stage \notin Searching, job'[w].stage \notin Searching
  PROVE  UNCHANGED Searches!vars
<1>. USE DEF SearchIsOpen, Searching, Searches!vars
<1>1. NoWorker \notin Workers /\ lock \in Workers \cup {NoWorker}
  BY LockAssumption DEF Workers, TypeOK
<1>2. CASE lock \in {NoWorker, w}
  <2>1. lock' \in {NoWorker, w}
    BY <1>2
  <2>2. ~SearchIsOpen /\ ~SearchIsOpen'
    BY <1>1, <1>2, <2>1
  <2>. QED
    BY <2>2
<1>3. CASE lock \notin {NoWorker, w}
  <2>1. lock' = lock /\ lock \in Workers /\ lock # w
    BY <1>1, <1>3
  <2>2. job'[lock'] = job[lock]
    BY <2>1 DEF TypeOK
  <2>. QED
    BY <2>1, <2>2
<1>. QED
  BY <1>2, <1>3

LEMMA SearchesInit == Init => Searches!Init
BY DEF Init, Searches!Init, SearchIsOpen

LEMMA SearchesStep ==
  ASSUME TypeOK, IInv, [Next]_vars
  PROVE  [Searches!Next]_(Searches!vars)
<1>1. ASSUME NEW w \in Workers, Begin(w) PROVE UNCHANGED Searches!vars
  <2>1. PICK h \in Handlers : job' = [job EXCEPT ![w].op = h, ![w].stage = FirstStage[h]]
    BY <1>1 DEF Begin, Handlers
  <2>2. /\ job[w].stage \notin Searching /\ job'[w].stage \notin Searching
        /\ UNCHANGED <<lock, opps>>
    BY <1>1, <2>1 DEF Begin, At, FirstStage, Handlers, Searching, TypeOK, Job
  <2>. QED
    BY <2>1, <2>2, Unseen DEF TypeOK
<1>2. ASSUME NEW w \in Workers, BusyTimeout(w) PROVE UNCHANGED Searches!vars
  <2>1. /\ job[w].stage \notin Searching /\ job'[w].stage \notin Searching
        /\ UNCHANGED <<lock, opps>>
    BY <1>2 DEF BusyTimeout, At, Writing, Searching, TypeOK, Job
  <2>. QED
    BY <1>2, <2>1, Unseen DEF BusyTimeout, TypeOK
<1>3. ASSUME NEW w \in Workers,
             TraceStart(w) \/ TraceEnd(w) \/ TraceEndNoRow(w) \/ TraceGivesUp(w)
      PROVE  UNCHANGED Searches!vars
  <2>1. /\ job' = [job EXCEPT ![w].stage = AfterTrace(w)] /\ UNCHANGED <<lock, opps>>
        /\ job[w].stage \in Starts \cup Ends
    BY <1>3 DEF TraceStart, TraceEnd, TraceEndNoRow, TraceGivesUp, Goto
  <2>2. CASE job[w].stage \in Searching
    <3>1. lock = w /\ job[w].stage \in {"traceSearch", "traceSearchEnd"}
      BY <2>1, <2>2, OpenSearch DEF Searching, Starts, Ends
    <3>2. /\ job'[w].stage \in {"search", "commitRun"}
          /\ job'[w].run = job[w].run /\ job'[w].fresh = job[w].fresh
      BY <2>1, <3>1 DEF AfterTrace, At, TypeOK, Job
    <3>. QED
      BY <2>1, <2>2, <3>1, <3>2 DEF SearchIsOpen, Searching, Searches!vars
  <2>3. CASE job[w].stage \notin Searching
    <3>1. job[w].stage \in {"trace", "traceEnd"}
      BY <2>1, <2>3 DEF Searching, Starts, Ends
    <3>2. job'[w].stage \notin Searching
      BY <2>1, <3>1 DEF AfterTrace, At, Searching, TypeOK, Job
    <3>. QED
      BY <2>1, <2>3, <3>2, Unseen DEF TypeOK
  <2>. QED
    BY <2>2, <2>3
<1>4. ASSUME NEW w \in Workers, FlushRun(w) PROVE Searches!Open
  <2>1. ~SearchIsOpen
    BY <1>4, OpenSearch DEF FlushRun, Free, At, Searching, SearchIsOpen
  <2>2. job[w].fresh = {}
    BY <1>4 DEF FlushRun, At, IInv, Sound, Locked, Searched
  <2>3. /\ lock' = w /\ lock' # NoWorker /\ opps' = opps
        /\ job'[w].stage = "traceSearch" /\ job'[w].run = "running" /\ job'[w].fresh = {}
    BY <1>4, <2>2, LockAssumption DEF FlushRun, Flushed, Workers, TypeOK, Job
  <2>. QED
    BY <2>1, <2>3 DEF SearchIsOpen, Searches!Open
<1>5. ASSUME NEW w \in Workers, Search(w) PROVE Searches!Complete
  <2>1. lock = w /\ SearchIsOpen /\ job[w].run = "running"
    BY <1>5, OpenSearch DEF Search, At, Searching, IInv, Sound, Locked
  <2>2. PICK found \in SUBSET Urls :
          job' = [job EXCEPT ![w].fresh = found \ opps, ![w].run = "completed",
                             ![w].stage = "traceSearchEnd"]
    BY <1>5 DEF Search
  <2>3. /\ UNCHANGED <<lock, opps>> /\ job'[w].fresh \subseteq Urls \ opps
        /\ job'[w].run = "completed" /\ job'[w].stage = "traceSearchEnd"
    BY <1>5, <2>2 DEF Search, TypeOK, Job
  <2>. QED
    BY <2>1, <2>3 DEF SearchIsOpen, Searches!Complete
<1>6. ASSUME NEW w \in Workers, SearchFails(w) PROVE Searches!Fail
  <2>1. lock = w /\ SearchIsOpen /\ job[w].run = "running"
    BY <1>6, OpenSearch DEF SearchFails, At, Searching, IInv, Sound, Locked
  <2>2. /\ UNCHANGED <<lock, opps>> /\ job'[w].fresh = job[w].fresh
        /\ job'[w].run = "failed" /\ job'[w].stage = "traceSearchEnd"
    BY <1>6 DEF SearchFails, TypeOK, Job
  <2>. QED
    BY <2>1, <2>2 DEF SearchIsOpen, Searches!Fail
<1>7. ASSUME NEW w \in Workers, CommitRun(w) PROVE Searches!Store
  <2>1. lock = w /\ SearchIsOpen /\ job[w].run \in {"completed", "failed"}
    BY <1>7, OpenSearch DEF CommitRun, At, Searching, Searched, IInv, Sound, Locked
  <2>2. lock' = NoWorker /\ opps' = opps \cup job[w].fresh
    BY <1>7 DEF CommitRun
  <2>. QED
    BY <2>1, <2>2 DEF SearchIsOpen, Searches!Store
<1>8. ASSUME NEW w \in Workers, ReadIds(w) \/ Fill(w) PROVE UNCHANGED Searches!vars
  <2>1. /\ job[w].stage \notin Searching /\ job'[w].stage \notin Searching
        /\ UNCHANGED <<lock, opps>>
    BY <1>8 DEF ReadIds, Fill, At, Searching, TypeOK, Job
  <2>. QED
    BY <1>8, <2>1, Unseen DEF ReadIds, Fill, TypeOK
<1>9. ASSUME NEW w \in Workers, FlushDigest(w) \/ Body(w) \/ CommitDigest(w)
      PROVE  UNCHANGED Searches!vars
  <2>1. PICK s \in {"trace", "traceEnd"} : job' = [job EXCEPT ![w].stage = s]
    BY <1>9 DEF FlushDigest, Body, CommitDigest, Goto
  <2>2. /\ job[w].stage \notin Searching /\ job'[w].stage \notin Searching
        /\ opps' = opps
    BY <1>9, <2>1 DEF FlushDigest, Body, CommitDigest, At, Searching, TypeOK, Job
  <2>3. lock' = lock \/ (lock \in {NoWorker, w} /\ lock' \in {NoWorker, w})
    BY <1>9 DEF FlushDigest, Body, CommitDigest, Free
  <2>4. \A v \in Workers \ {w} : job'[v] = job[v]
    BY <2>1 DEF TypeOK
  <2>. QED
    BY <2>2, <2>3, <2>4, Unseen
<1>10. ASSUME NEW w \in Workers, Dispatch(w) PROVE UNCHANGED Searches!vars
  <2>1. PICK t \in Delivery : job' = [job EXCEPT ![w].told = t, ![w].stage = "commitDigest"]
    BY <1>10 DEF Dispatch
  <2>2. /\ job[w].stage \notin Searching /\ job'[w].stage \notin Searching
        /\ UNCHANGED <<lock, opps>>
    BY <1>10, <2>1 DEF Dispatch, At, Searching, TypeOK, Job
  <2>. QED
    BY <2>1, <2>2, Unseen DEF TypeOK
<1>11. CASE Crash
  <2>1. PICK dead \in SUBSET Workers :
          /\ lock' = IF lock \in dead THEN NoWorker ELSE lock
          /\ job' = [w \in Workers |->
                       IF w \in dead THEN [job[w] EXCEPT !.fresh = {}, !.stage = "crashed"]
                                     ELSE job[w]]
    BY <1>11 DEF Crash, Workers
  <2>2. opps' = opps
    BY <1>11 DEF Crash
  <2>3. CASE lock \in dead
    <3>1. ~SearchIsOpen'
      BY <2>1, <2>3 DEF SearchIsOpen
    <3>2. SearchIsOpen => job[lock].run # "none"
      <4>1. SUFFICES ASSUME SearchIsOpen PROVE job[lock].run # "none"
        OBVIOUS
      <4>2. lock \in Workers /\ job[lock].stage \in Searching
        BY <4>1, OpenSearch
      <4>. QED
        BY <4>2 DEF IInv, Sound, Locked, Searching, Searched
    <3>. QED
      BY <2>2, <3>1, <3>2 DEF Searches!Lose, Searches!Next, Searches!vars
  <2>4. CASE lock \notin dead
    <3>1. lock' = lock /\ (lock \in Workers => job'[lock] = job[lock])
      BY <2>1, <2>4
    <3>2. lock \in Workers \cup {NoWorker}
      BY DEF TypeOK
    <3>3. SearchIsOpen' = SearchIsOpen /\ (SearchIsOpen => job'[lock'] = job[lock])
      BY <3>1, <3>2 DEF SearchIsOpen
    <3>. QED
      BY <2>2, <3>3 DEF Searches!vars
  <2>. QED
    BY <2>3, <2>4
<1>12. CASE UNCHANGED vars
  BY <1>12 DEF vars, SearchIsOpen, Searches!vars
<1>. QED
  BY <1>1, <1>2, <1>3, <1>4, <1>5, <1>6, <1>7, <1>8, <1>9, <1>10, <1>11, <1>12
     DEF Next, Step, Answer, Searches!Next

(* For any number of threads and processes, whatever waits, fails or dies: *)
(* the searches change the table as if they came one after the other, each *)
(* on a table that nobody touches until it is stored or lost.              *)
THEOREM SearchesAreSerial == Spec => ImplementsSearches
<1>1. Init => Searches!Init
  BY SearchesInit
<1>2. TypeOK /\ IInv /\ [Next]_vars => [Searches!Next]_(Searches!vars)
  BY SearchesStep
<1>. QED
  BY <1>1, <1>2, Soundness, PTL DEF Spec, ImplementsSearches, Searches!Spec

=============================================================================
