------------------------------ MODULE WriteLock ------------------------------
(***************************************************************************)
(* Who holds SQLite's write lock: db.py, discovery/service.py,             *)
(* ops/nightly.py and observability/trace.py.                              *)
(*                                                                         *)
(* A session takes the lock with its first flush and keeps it until it     *)
(* commits or rolls back.  agent_run writes its own rows through a second  *)
(* session of the same thread: when the traced handler has flushed, that   *)
(* session waits for the handler that waits for it, until the busy timeout *)
(* ends the wait.  A commit is one step.  Waiting is a step not taken; the *)
(* timeout of 30 s may come at any time while another session has the lock.*)
(*                                                                         *)
(* Four handlers: "search" is POST /discovery/run, "nightly" the cycle     *)
(* with its search, "notify" the cycle without, and "traced" any handler   *)
(* that traces first and writes in one commit (import, approve).           *)
(***************************************************************************)
EXTENDS Naturals

CONSTANTS
  Api,         \* request threads: one process
  Cli,         \* nightly_cli processes, one worker each
  Urls,        \* source_urls that searches can find
  NoWorker,    \* the lock's owner when it is free
  MaxCrashes   \* bound on the times a process dies

ASSUME LockAssumption ==
  /\ NoWorker \notin Api \cup Cli
  /\ MaxCrashes \in Nat

Workers == Api \cup Cli

VARIABLES
  lock,        \* the worker whose session holds the write lock
  opps,        \* source_urls in table opportunities
  rows,        \* what each worker's handler has committed
  agentRuns,   \* agent_runs rows of the handler and of the discovery run inside it
  job,         \* what each worker's handler holds in its session
  crashes

vars == <<lock, opps, rows, agentRuns, job, crashes>>

Handlers == {"search", "nightly", "notify", "traced"}

RunStatus == {"none", "running", "completed", "failed"}
DigestStatus == {"none", "open", "filled"}
TraceStatus == {"none", "running", "ok", "error"}

(* What became of the Telegram message; "none" before there is one.        *)
Delivery == {"none", "sent", "skipped", "failed"}

(* discovery_runs.status; nightly_digests (open: flushed with only its     *)
(* query and channel) with its sent column, and notifications, the         *)
(* Telegram row of it.                                                     *)
Row == [run : RunStatus, digest : DigestStatus, sent : BOOLEAN, telegram : Delivery]

NoRow == [run |-> "none", digest |-> "none", sent |-> FALSE, telegram |-> "none"]

Writing == {"flushDigest", "flushRun", "commitDigest", "body"}
Starts == {"trace", "traceSearch"}
Ends == {"traceEnd", "traceSearchEnd"}
Over == {"done", "raised", "crashed"}
Stages == {"idle", "readIds", "search", "commitRun", "fill", "dispatch"}
            \cup Writing \cup Starts \cup Ends \cup Over

(* fresh: opportunities added but not committed; kept: those committed;    *)
(* before: before_ids; report: the new rows of the digest; told: what      *)
(* Telegram did; error: the handler is being left by an exception.         *)
Job == [op : Handlers \cup {"none"}, stage : Stages, run : RunStatus,
        fresh : SUBSET Urls, kept : SUBSET Urls, before : SUBSET Urls,
        report : SUBSET Urls, told : Delivery, error : BOOLEAN]

NoJob == [op |-> "none", stage |-> "idle", run |-> "none", fresh |-> {}, kept |-> {},
          before |-> {}, report |-> {}, told |-> "none", error |-> FALSE]

TypeOK ==
  /\ lock \in Workers \cup {NoWorker}
  /\ opps \subseteq Urls
  /\ rows \in [Workers -> Row]
  /\ agentRuns \in [Workers -> [{"handler", "search"} -> TraceStatus]]
  /\ job \in [Workers -> Job]
  /\ crashes \in 0..MaxCrashes

Init ==
  /\ lock = NoWorker
  /\ opps = {}
  /\ rows = [w \in Workers |-> NoRow]
  /\ agentRuns = [w \in Workers |-> [r \in {"handler", "search"} |-> "none"]]
  /\ job = [w \in Workers |-> NoJob]
  /\ crashes = 0

At(w, s) == job[w].stage = s
Goto(w, s) == job' = [job EXCEPT ![w].stage = s]

(***************************************************************************)
(* The write lock.                                                         *)
(***************************************************************************)

Free(w) == lock \in {NoWorker, w}

(* Mutant of Flushed: the row is committed at once, so as not to keep the  *)
(* lock over the search.                                                   *)
FlushedAndCommitted(w, row) == lock' = NoWorker /\ rows' = [rows EXCEPT ![w] = row]

(* session.flush(): an INSERT that stays in the transaction.               *)
Flushed(w, row) == lock' = w /\ rows' = rows

(* Mutant of BusyTimeout: the failed commit is swallowed like a trace.     *)
BusyTimeoutSwallowed(w) ==
  /\ job[w].stage \in Writing
  /\ ~Free(w)
  /\ job' = [job EXCEPT ![w].stage = IF At(w, "commitDigest") \/ At(w, "body")
                                     THEN "traceEnd" ELSE "raised"]
  /\ UNCHANGED <<lock, opps, rows, agentRuns, crashes>>

(* "database is locked": another session has had the lock for the busy     *)
(* timeout.  The flush raises and the session is rolled back; inside       *)
(* agent_run the exception passes its finally clause first.                *)
BusyTimeout(w) ==
  /\ job[w].stage \in Writing
  /\ ~Free(w)
  /\ job' = [job EXCEPT ![w].error = TRUE,
               ![w].stage = IF At(w, "commitDigest") \/ At(w, "body")
                            THEN "traceEnd" ELSE "raised"]
  /\ UNCHANGED <<lock, opps, rows, agentRuns, crashes>>

(***************************************************************************)
(* agent_run: a row at the start, the same row at the end, each through a  *)
(* session of its own.  A failure of either is swallowed.                  *)
(***************************************************************************)

Traced(w) == IF job[w].stage \in {"traceSearch", "traceSearchEnd"} THEN "search" ELSE "handler"

AfterTrace(w) ==
  CASE At(w, "traceSearch") -> "search"
    [] At(w, "traceSearchEnd") -> "commitRun"
    [] At(w, "traceEnd") -> IF job[w].error THEN "raised" ELSE "done"
    [] At(w, "trace") /\ job[w].op = "nightly" -> "flushRun"
    [] At(w, "trace") /\ job[w].op = "notify" -> "fill"
    [] OTHER -> "body"

(* _persist_run_start: the second session gets the lock only when nobody,  *)
(* the handler itself included, has it.                                    *)
TraceStart(w) ==
  /\ job[w].stage \in Starts
  /\ lock = NoWorker
  /\ agentRuns' = [agentRuns EXCEPT ![w][Traced(w)] = "running"]
  /\ Goto(w, AfterTrace(w))
  /\ UNCHANGED <<lock, opps, rows, crashes>>

Outcome(w) == IF job[w].error \/ (At(w, "traceSearchEnd") /\ job[w].run = "failed")
              THEN "error" ELSE "ok"

(* _persist_run_end: db.get finds the row of the start and completes it.   *)
TraceEnd(w) ==
  /\ job[w].stage \in Ends
  /\ agentRuns[w][Traced(w)] # "none"
  /\ lock = NoWorker
  /\ agentRuns' = [agentRuns EXCEPT ![w][Traced(w)] = Outcome(w)]
  /\ Goto(w, AfterTrace(w))
  /\ UNCHANGED <<lock, opps, rows, crashes>>

(* _persist_run_end without the row of the start: nothing to write.        *)
TraceEndNoRow(w) ==
  /\ job[w].stage \in Ends
  /\ agentRuns[w][Traced(w)] = "none"
  /\ Goto(w, AfterTrace(w))
  /\ UNCHANGED <<lock, opps, rows, agentRuns, crashes>>

(* Mutant of TraceGivesUp: only a wait for another handler is given up.    *)
TraceGivesUpOnOthers(w) ==
  /\ job[w].stage \in Starts \cup Ends
  /\ ~Free(w)
  /\ Goto(w, AfterTrace(w))
  /\ UNCHANGED <<lock, opps, rows, agentRuns, crashes>>

(* The busy timeout of the second session, whoever has the lock.           *)
TraceGivesUp(w) ==
  /\ job[w].stage \in Starts \cup Ends
  /\ lock # NoWorker
  /\ Goto(w, AfterTrace(w))
  /\ UNCHANGED <<lock, opps, rows, agentRuns, crashes>>

(***************************************************************************)
(* run_discovery, on its own or inside run_nightly_cycle.                  *)
(***************************************************************************)

FlushRun(w) ==
  /\ At(w, "flushRun")
  /\ Free(w)
  /\ Flushed(w, [rows[w] EXCEPT !.run = "running"])
  /\ job' = [job EXCEPT ![w].run = "running", ![w].stage = "traceSearch"]
  /\ UNCHANGED <<opps, agentRuns, crashes>>

(* discover and upsert_listing, with the lock held: what the session does  *)
(* not find in the table it adds.  llm calls inside trace their spans like *)
(* agent_run does and wait out the timeout each; that changes no row.      *)
Search(w) ==
  /\ At(w, "search")
  /\ \E found \in SUBSET Urls :
       job' = [job EXCEPT ![w].fresh = found \ opps, ![w].run = "completed",
                          ![w].stage = "traceSearchEnd"]
  /\ UNCHANGED <<lock, opps, rows, agentRuns, crashes>>

(* An exception anywhere in discover is caught and persisted.              *)
SearchFails(w) ==
  /\ At(w, "search")
  /\ job' = [job EXCEPT ![w].run = "failed", ![w].stage = "traceSearchEnd"]
  /\ UNCHANGED <<lock, opps, rows, agentRuns, crashes>>

(* The commit takes the digest the nightly cycle has flushed along.        *)
CommitRun(w) ==
  /\ At(w, "commitRun")
  /\ opps' = opps \cup job[w].fresh
  /\ rows' = [rows EXCEPT ![w].run = job[w].run,
                          ![w].digest = IF job[w].op = "nightly" THEN "open" ELSE @]
  /\ lock' = NoWorker
  /\ job' = [job EXCEPT ![w].fresh = {}, ![w].kept = job[w].fresh,
                        ![w].stage = IF job[w].op = "nightly" THEN "fill" ELSE "done"]
  /\ UNCHANGED <<agentRuns, crashes>>

(***************************************************************************)
(* run_nightly_cycle.                                                      *)
(***************************************************************************)

ReadIds(w) ==
  /\ At(w, "readIds")
  /\ job' = [job EXCEPT ![w].before = opps, ![w].stage = "flushDigest"]
  /\ UNCHANGED <<lock, opps, rows, agentRuns, crashes>>

FlushDigest(w) ==
  /\ At(w, "flushDigest")
  /\ Free(w)
  /\ lock' = w
  /\ Goto(w, "trace")
  /\ UNCHANGED <<opps, rows, agentRuns, crashes>>

Fill(w) ==
  /\ At(w, "fill")
  /\ job' = [job EXCEPT ![w].report = opps \ job[w].before, ![w].stage = "dispatch"]
  /\ UNCHANGED <<lock, opps, rows, agentRuns, crashes>>

(* The message leaves; Telegram may be off, refuse or fail.                *)
Dispatch(w) ==
  /\ At(w, "dispatch")
  /\ \E told \in Delivery \ {"none"} :
       job' = [job EXCEPT ![w].told = told, ![w].stage = "commitDigest"]
  /\ UNCHANGED <<lock, opps, rows, agentRuns, crashes>>

(* sent_any: some channel took the message and did not skip it.  send_log  *)
(* always takes it, so that this is TRUE whatever Telegram did.            *)
SentAny(telegram) == \E status \in {"sent", telegram} : status = "sent"

(* Notifications are added and the digest is completed in one commit.      *)
CommitDigest(w) ==
  /\ At(w, "commitDigest")
  /\ Free(w)
  /\ rows' = [rows EXCEPT ![w].digest = "filled", ![w].sent = SentAny(job[w].told),
                          ![w].telegram = job[w].told]
  /\ lock' = NoWorker
  /\ Goto(w, "traceEnd")
  /\ UNCHANGED <<opps, agentRuns, crashes>>

(***************************************************************************)
(* A traced handler with one commit, requests, and the death of a process. *)
(***************************************************************************)

Body(w) ==
  /\ At(w, "body")
  /\ Free(w)
  /\ Goto(w, "traceEnd")
  /\ UNCHANGED <<lock, opps, rows, agentRuns, crashes>>

FirstStage == [search |-> "flushRun", nightly |-> "readIds", notify |-> "readIds",
               traced |-> "trace"]

Begin(w) ==
  /\ At(w, "idle")
  /\ \E h \in IF w \in Cli THEN {"nightly"} ELSE Handlers :
       job' = [job EXCEPT ![w].op = h, ![w].stage = FirstStage[h]]
  /\ UNCHANGED <<lock, opps, rows, agentRuns, crashes>>

InFlight(w) == job[w].stage \notin Over \cup {"idle"}

(* All request threads are one process, each nightly_cli is one.           *)
Crash ==
  /\ crashes < MaxCrashes
  /\ crashes' = crashes + 1
  /\ \E P \in {Api} \cup {{w} : w \in Cli} :
       LET dead == {w \in P : InFlight(w)} IN
       /\ dead # {}
       /\ lock' = IF lock \in dead THEN NoWorker ELSE lock
       /\ job' = [w \in Workers |->
                    IF w \in dead THEN [job[w] EXCEPT !.fresh = {}, !.stage = "crashed"]
                                  ELSE job[w]]
  /\ UNCHANGED <<opps, rows, agentRuns>>

(* The boards answer.                                                      *)
Answer(w) == Search(w) \/ SearchFails(w)

Step(w) ==
  \/ BusyTimeout(w)
  \/ TraceStart(w) \/ TraceEnd(w) \/ TraceEndNoRow(w) \/ TraceGivesUp(w)
  \/ FlushRun(w) \/ CommitRun(w)
  \/ ReadIds(w) \/ FlushDigest(w) \/ Fill(w) \/ Dispatch(w) \/ CommitDigest(w)
  \/ Body(w)

Next == (\E w \in Workers : Begin(w) \/ Step(w) \/ Answer(w)) \/ Crash

Spec == Init /\ [][Next]_vars

(* A thread that serves a request goes on: Telegram and the lock have      *)
(* timeouts.  Requests and crashes need not happen, and the boards need not*)
(* answer: feedparser.parse fetches a feed without a timeout               *)
(* (discovery/sources.py:95, :157, pipeline.py:82).                        *)
FairSpec == Spec /\ \A w \in Workers : WF_vars(Step(w))

(***************************************************************************)
(* Properties.                                                             *)
(***************************************************************************)

(* opportunities.source_url is UNIQUE and upsert_listing decides between   *)
(* INSERT and UPDATE long before its commit: no handler may commit what an *)
(* open session is about to insert, or that search loses all it found.     *)
InsertsDoNotCollide == \A w \in Workers : job[w].fresh \cap opps = {}

(* A discovery run in the table has its outcome: a crash or a lock timeout *)
(* leaves no run that says "running" for ever (discovery/service.py:107).  *)
StoredRunsAreConcluded == \A w \in Workers : rows[w].run # "running"

(* Whatever waits for whatever, and whoever dies: when a nightly cycle     *)
(* returns, its digest is complete and reports every vacancy its own search*)
(* stored, and its notification says what Telegram did; and at no time does*)
(* a stored notification claim a delivery that was none.  The digest's own *)
(* column "sent" is TRUE in every completed cycle and says nothing about   *)
(* Telegram (ops/nightly.py:41-96, notify.py:20).                          *)
CyclesAreRecorded ==
  \A w \in Workers :
    /\ rows[w].telegram # "none" => rows[w].telegram = job[w].told
    /\ rows[w].sent <=> rows[w].digest = "filled"
    /\ At(w, "done") /\ job[w].op \in {"nightly", "notify"} =>
         /\ rows[w].digest = "filled"
         /\ rows[w].telegram = job[w].told
         /\ job[w].kept \subseteq job[w].report

(* The searches of all threads and processes, with their timeouts, their   *)
(* failed traces and their deaths, change the table as if they came one    *)
(* after the other, which is what upsert_listing relies on when it decides *)
(* between INSERT and UPDATE (discovery/service.py:75, db.py:15).          *)
SearchIsOpen ==
  lock # NoWorker /\ job[lock].stage \in {"traceSearch", "search", "traceSearchEnd", "commitRun"}

Searches == INSTANCE SerialSearches WITH
  table <- opps,
  run <- IF SearchIsOpen THEN job[lock].run ELSE "none",
  fresh <- IF SearchIsOpen THEN job[lock].fresh ELSE {}

ImplementsSearches == Searches!Spec

(* Every handler ends, the ones that wait for themselves and those that    *)
(* wait for a search that never ends included, because each wait for the   *)
(* lock has a timeout (db.py:15, trace.py:61-126); only a handler whose own*)
(* search gets no answer does not.                                         *)
HandlersEnd ==
  \A w \in Workers : <>[]At(w, "search") \/ (InFlight(w) ~> job[w].stage \in Over)

=============================================================================
