# ScholarOps AI: verification project

TLA+ models of the parts of `opportunity_intel` where state, time and several
actors meet, TLC configurations that check them on small instances, and TLAPS
proofs of their main invariants. Paths below are relative to
`src/src/opportunity_intel/` unless they start with `src/`.

## 1. The system

A FastAPI server on SQLite finds PhD vacancies, scores them, prepares an
application packet with LLM-written drafts, and sends the application by e-mail
or through a browser once a human has approved it with a token.

| Component | State it keeps | Operations |
| --- | --- | --- |
| Approval gate (`apply/service.py`, `apply/tokens.py`) | `applications`, `application_events` rows; tokens held by clients | preview, request_approval, reject_application, approve_and_submit |
| Adapters and form mapping (`apply/adapters.py`, `email_send.py`, `portal.py`, `mapping.py`) | none (the outside world) | fill_form, validate_payload, submit |
| Supervised pipeline (`orchestrator/nodes.py`, `graph.py`, `memory/checkpoint.py`) | one JSON checkpoint per thread id | start_or_resume and the nodes ingestion, discovery, matchmaker, hitl, drafter, critic, browser |
| Packet preparation (`prepare/service.py`) | `application_packets`, requirement, paper and draft rows | prepare_packet: mark, extract, score, write, persist |
| Discovery (`discovery/service.py`, `pipeline.py`, `sources.py`) | `opportunities`, `discovery_runs` | run_discovery, upsert_listing, discover |
| Documents and profile (`agents/advisor.py`, `documents/`) | files, `uploaded_documents`, `evidence_items`, profile | upload, import, delete, build profile, chat |
| LLM budget and routing (`llm/`) | `data/logs/llm-spend.json` | charge, charge_from_usage, complete |
| Tracing (`observability/trace.py`) | `agent_runs`, `agent_spans`, a JSONL file | agent_run, span, record_llm_call |
| Nightly cycle (`ops/nightly.py`) | `nightly_digests`, `notifications` | run_nightly_cycle |
| Google workflow (`orchestrator/google_workflow.py`) | none between calls | a second graph with its own gate node |
| RAG studio (`rag/`) | in-memory semantic cache, vector store, knowledge graph | retrieve, generate_and_refine, cache get and put |
| HTTP API and dashboard (`api/`, `src/frontend/`) | none | validation and presentation |

**How they interact.** Every component is called from a synchronous endpoint,
which runs on a thread of its own with a database session of its own
(`api/deps.py`, `db.py`). SQLite is in WAL mode with a 30 s busy timeout: a
SELECT takes no lock, the first write of a session takes the only write lock,
and the lock is held to the commit. The flush of a session writes only the
columns it changed, so two sessions that read the same row can interleave their
columns. The pipeline calls discovery, preparation and the gate in the session
of its request; the dashboard calls the same functions in other sessions; the
LLM budget is a file that all of them read and rewrite; tracing opens a session
of its own inside the traced call.

**What is hard.** A human's approval and the send are separated in time, and
what was approved can change in between. The send is an effect no rollback takes
back, and it happens before the commit that records it. Requests overlap on
one application, one packet, one pipeline thread, one spend log. The pipeline's
state outlives its request as one blob. `PROJECT.json` lists each such place
under "hazards" with its line and the properties that watch it; the few without
a property carry a note that says why.

**What makes each component correct.**

- Gate: what is sent is what was approved, with a valid token, once; a submitted
  application stays submitted; what the tables say happened did happen, and the
  reverse.
- Pipeline: nothing is drafted or sent for a vacancy that was not approved;
  the pause before a send is real; a thread that stops has a match to approve.
- Preparation: a packet that says ready has one complete set of drafts, citing
  evidence that exists; no packet stays in "preparing" for ever.
- Discovery: a run inserts no vacancy twice, loses none that passed its filters,
  ranks by one measure and pays for a search only as the last resort.
- Database: a writer that waits gets the lock or fails cleanly; what a session
  found absent is still absent when it inserts it.
- Budget: the recorded spend never exceeds the budget; every admitted paid call
  is recorded.
- Documents: the facts of a document are those of its own text; files and rows
  stay in step; an id cited by a stored draft is in the table.
- Nightly: a cycle that returns has recorded what Telegram did with its message
  and reports every vacancy its search stored.
- RAG engine: an answer that is returned as passed was judged as it is.

## 2. Modules

| Module | What it is |
| --- | --- |
| `ApplyGate` | the gate: handlers as read, dispatch and commit steps of concurrent workers |
| `ApprovalLedger` | what the gate promises, without rows or handlers |
| `SerialSearches` | what searches do to the table of vacancies, without boards, sessions or locks |
| `MCApplyGate` | symmetry sets, and the mapping of `ApplyGate` to `ApprovalLedger` |
| `ApplyGateProofs` | theorems about `ApplyGate` |
| `Pipeline` | the supervised pipeline, with the steps of the gate that it shares with the dashboard |
| `MCPipeline` | symmetry and a ranking |
| `PipelineProofs` | theorems about `Pipeline` |
| `Prepare` | overlapping preparations of one packet, and the evidence they cite |
| `PrepareProofs` | theorems about `Prepare` |
| `LlmBudget` | the daily spend log, read and rewritten by concurrent threads |
| `MCLlmBudget` | symmetry and prices |
| `LlmBudgetProofs` | theorems about `LlmBudget` |
| `WriteLock` | who holds SQLite's write lock: searches, the nightly cycle, tracing |
| `WriteLockProofs` | theorems about `WriteLock` |
| `Discover` | one discovery run: boards, filters, search providers, pages, storing, scores |
| `MCDiscover` | two pages and two extra feeds |
| `DiscoverProofs` | theorems about `Discover` |
| `Documents` | uploads, imports, deletions and profile builds that overlap |
| `MCDocuments` | symmetry |
| `DocumentsProofs` | theorems about `Documents` |
| `Rag` | the answering engine with its semantic cache |
| `MCRag` | symmetry, and a similarity with two queries that only the service finds alike |
| `RagProofs` | theorems about `Rag` |

The modules meet where one component's commit is another's environment: the
rediscovery, preparation and edits in `ApplyGate` and `Pipeline` stand for what
`Discover`, `Prepare` and the profile do in detail; `Rebuild` in `Prepare` is the
end of the build that `Documents` takes step by step; the gate's steps in
`Pipeline` are those of `ApplyGate` with forms that stand still; `Search` in
`WriteLock` is a whole run of `Discover`, whose `Known` is a table that nobody else
changes while the run is open: `WriteLock`, shown to implement `SerialSearches`,
is the reason why it may assume that.

### ApplyGate

`row` is the `applications` table, one record per packet with the columns that
matter; `form` is what `fill_form` would return now, `drafts` the generation of
drafts the packet holds. A worker is a request thread; `pc` says where its
handler is and `job` what it has loaded.

| Action | Code |
| --- | --- |
| `RequestPreview`, `RequestRead`, `RequestCommit` | `request_approval`: the preview and its checks; the row read, the token issued; the commit |
| `RequestRefused`, `RequestConflict` | already submitted; the INSERT that meets the UNIQUE `packet_id` |
| `RejectRead`, `RejectCommit` | `reject_application` |
| `ApproveRead`, `ApproveLoad`, `Dispatch`, `ApproveCommit` | `approve_and_submit`: all checks on the row; the packet read; `_run_adapter`; the conclusion and commit |
| `ApproveDenied` | `parse_and_verify` raised: an event, nothing else |
| `CommitFails`, `Crash` | `get_db` rolls back; the process dies |
| `EditForm`, `PrepareStart`, `PrepareDone`, `Rediscover`, `Tick` | the rest of the system: profile or vacancy edits, `prepare_packet`, `upsert_listing`, the clock |

`WriteBack` is the flush: a column that the handler set to the value it had
loaded is not written, so a column another handler changed meanwhile stays.
`PrepareStart` and `PrepareDone` stand for preparations that may overlap: a packet
can be ready again while another run of it is still writing.
`AdapterOutcomes` lets a live adapter succeed ("ok"), fail before anything left
the machine ("refused") or fail after ("lost"); `outbox` collects what left.
SHA-256 and HMAC are taken as injective and unforgeable: a checksum is the
payload, a token hash is the nonce, and a client can present only tokens that
were issued, or something that no check accepts. The expiry is in the token, as
in the code, and `Accepts` tests it once, when the handler reads the row: a
slow adapter may send after it, in the model as in the code, and no property says
otherwise.

### Pipeline

A worker serves a request of a thread or a call of the dashboard. A request
loads `checkpoint[t]`, applies the caller's flags (`Instructed`), runs its nodes
on a local copy in `job`, and `Save` puts the whole copy back. The state record
keeps the fields the control depends on. The gate is taken step by step, for
threads and dashboard alike, with nothing locked in between:

| Action | Code |
| --- | --- |
| `RequestRead`, `RequestCommit` | `request_approval` of `drafter_node` or of the dashboard: status read; token issued, columns committed |
| `ApproveRead`, `Send`, `ApproveCommit` | `approve_and_submit` of `browser_node` or of the dashboard: all checks; `_run_adapter`; the conclusion and commit |
| `DashboardRejects`, `RejectCommit` | `reject_application`: read and test; commit |
| `BrowserReadsBack` | `browser_node` takes the status of the row as the phase of the thread |

`WriteBack` is that of `ApplyGate`, on the three columns that decide whether a token
is good: status, token hash and `token_used`. `Return` leads from a gate call back
to the node that made it, or ends the dashboard's call. `Abort` ends a request
anywhere, with everything committed or sent kept and the checkpoint unsaved: an
error no node catches, a commit that fails, or the process. `consent[t]` is a
history variable: the match of thread `t` at each moment a human approved in it;
`handed` is the token that the caller of this very request gave. `labs` holds every
known vacancy after a discovery, as the code stores every row of the table. A
packet belongs to one opportunity and an application to one packet, so one
identifier stands for all. Preparation marks, writes and reads back the packet in
separate steps, because others may mark it meanwhile; the read-back copy is what
later previews of the same request judge.

Simplifications: `save_checkpoint` is a write even when the state equals the one
that was loaded (the flush would leave the column alone); two requests of a
new thread that both insert its first checkpoint are one save and one `Abort`;
edits to the form, checksums and drafts are left to `ApplyGate`.

### LlmBudget

`router.complete` calls `charge` before it asks a provider. `Start` is the call up
to `date.today()`, `Load` and `LoadFails` read and check the log, `Truncate` and
`Write` are the two halves of `write_text`. `log.kind` tells an absent, an empty,
a valid and a mixed file apart; the last two make `json.loads` raise, so the call
fails, and so does every later one until somebody mends the file. A mixed file is
what two writers leave that truncated before either wrote, if the second text is
shorter than the first. `WriteFails` and `Restart` leave the file as it is at that
moment. `admitted` is a history variable: what the calls that were let through
cost. A call that is not charged (free role, free provider, no budget, no price)
touches nothing and is not a step. Money is in whole units: `round(…, 6)` makes
totals exact for the price table, but the comparison of binary fractions is not
modelled.

### Prepare

One packet and the evidence table, prepared by overlapping threads. `Begin` reads
everything, `Mark` commits "preparing", `Answered` or `NotAnswered` is the time
with the model, in which nothing is locked; `Reload` is the second
`session.get`, `Persist` and `MarkFailed` the outcome. A column is written only
if it differs from what the thread had read (`Update`), so a thread may leave
the status of another in place. `LockTimeout` ends the handler: the DELETEs are not
inside the retry, and after a failed flush the session refuses the second
commit, so that `_commit_with_lock_retry` never retries the work. `Rebuild` is
the commit of `_build_profile`: all evidence is deleted and the ids start again
at 1, since the key is a plain rowid.

### WriteLock

Four kinds of handlers: a discovery request, the nightly cycle with and without a
search, and any handler that traces first and writes in one commit. `lock` is the
worker whose session has flushed and not committed. `agent_run` writes its own
rows through a second session of the same thread (`TraceStart`, `TraceEnd`); when
the traced handler itself has flushed, the second session waits for a lock that
only its own thread can release, and `TraceGivesUp` is the busy timeout that ends
the wait. `BusyTimeout` is the same timeout in the handler's session. `FlushRun`,
`Search`, `SearchFails` and `CommitRun` are `run_discovery`; `ReadIds`,
`FlushDigest`, `Fill`, `Dispatch` and `CommitDigest` are `run_nightly_cycle`, whose
flushed digest row the inner `CommitRun` commits half filled. `Crash` ends all
request threads, which are one process, or one nightly process. `Dispatch` lets
Telegram send, skip or fail, and `told` keeps which; `CommitDigest` stores that in
the notification, and in the digest what `SentAny` makes of it: since the log
channel always reports success, the digest says sent in every case. `Answer`,
the end of the search itself, is apart from the other steps of a handler, because
it alone may never come. A wait is a step
not taken; how long it takes is not modelled. Two sessions may insert the same
URL in the code only one after the other, because the lock is held from the
first flush to the commit.

### Discover

One run, one thread. Every board is a record of what the code takes from a card:
whether it resolves, keeps or drops a link without a host, which country it puts
where none is named, whether its parser is inside a try statement. `ShowCard` lets
the board at work show any card; `AskProvider` lets a provider answer any hits;
`FetchHit` fetches the page (which may redirect anywhere) and extracts from it,
by the model if there is a key; `BoardRaises`, `ProviderRaises` and `FetchRaises`
are the failures no try statement catches. Texts are reduced to what the filters
read. `upsert_listing` stores, with its own second filter. `EmbedRow` compares a
row with the profile; each vector comes from the service ("real") or from the
hash that stands in when it fails, and the router's cache keeps the first one of
the profile.

### Documents

`rows` is `uploaded_documents`, `files` the uploads directory, `folder` what the
import folder holds. Uploads, imports and deletions change the directory at once
and the table at the commit. A session keeps what it has loaded until it commits
(`view`); the UPDATE writes the columns that differ from it and raises if the row
is gone. A profile build goes through the documents in order: `BuildReuse` takes
usable facts, `BuildMark` commits "processing" together with the facts of the
document before, `BuildExtract` and `BuildAnswer` are the call of the model,
`BuildDone` replaces the evidence. `Stops` ends any handler at any step: an
exception or the process. Two history variables support the properties:
`removed` (files a deletion removed) and `torn` (rows two overlapping handlers
both wrote). Facts are named by the text they came from. Ids are given again
after a deletion, as SQLite does without AUTOINCREMENT.

### Rag

One engine, one call after the other: `Ask`, the lookup (`LookupSkipped`, `Miss`,
`Hit`), `Retrieve` (hybrid search, rerank, pack), `Draft`, `Grade` (a judge that
fails counts as passed), `Refine`, and `Store` or `ReturnOnly`. Similarity is a
parameter: any function of the kind of vectors and two queries; vectors of
different kinds compare to zero. Drafts are numbered, so that a text can be told
from every other. The cache evicts its oldest entry.

### ApprovalLedger

An approval permits one payload to be sent for one application, once. Issuing
replaces the live approval, rejecting withdraws it, sending uses it up, and
after an acknowledged submission nothing more is issued or sent. It has three
actions. `ApplyGate` is mapped to it, for orderly behaviours: with approvals that
overlap the gate does not keep this promise (`gate_double`), alone or under the
pipeline. In `ApplyGate` the abstract
approval is gone as soon as the dispatch happens, one step before the row says
so: `AbsLive` looks at the outbox as well as at the row.

### SerialSearches

One run at a time is open; it fails, or it completes with vacancies that were not
in the table; then it is stored as a whole, or lost with its process, and until
then the table stays as it is. In `WriteLock` the table is `opps` and the open run
is that of the worker that holds the lock, from the flush of the run's row to its
commit.

## 3. Runs

| Run | Result | What it shows |
| --- | --- | --- |
| `gate_crash` | holds | two overlapping handlers, one re-filled form, two tokens, one failed commit or crash anywhere: the payload sent is the payload approved even when a row mixes columns of several requests, a recorded token is dead, a token the row gave up never comes back to it, "submitted" implies a successful dispatch, and dispatches are logged unless the failure took the log |
| `gate_orderly` | holds | two workers, two applications, two forms (one without e-mail), two adapters, two tokens, expiry, one edit, in orderly behaviours (section 4): tokens are single-use, rows and vacancies say what was sent, submitted stays submitted, nothing is sent while rejected, and `ApprovalLedger` |
| `gate_double` | violated | one token, two overlapping approves, two dispatches |
| `pipeline_threads` | holds | two workers, one thread and the dashboard, two vacancies, two tokens, five requests and calls, the gate's steps interleaved and any of them cut off: threads act only on vacancies approved in them, "submitted" in a row or a checkpoint means an adapter reported success for that application, and a token refused once is refused for ever |
| `pipeline_send` | violated | a resume that rejects, or gives no token, still sends |
| `budget_threads` | holds | two threads, two prices, a limit that one of them reaches exactly, midnight, a failed write or a restart anywhere: the log stays within the limit and claims nothing that was not spent, refusals are right, charges one at a time are exact |
| `prepare_threads` | holds | two threads, three preparations, two kinds of drafts, two evidence ids, one profile build and one timeout or restart, with fairness: drafts of one run only, no packet left "preparing", citations that exist, every preparation ends |
| `lock_threads` | holds | a request thread and a nightly process, two vacancies, timeouts anywhere and two deaths, with fairness: nobody commits what an open search is about to insert, stored runs have an outcome, a nightly cycle that returns has recorded what Telegram did and reported what it stored, every handler ends unless its own search never gets an answer, and the searches are those of `SerialSearches` |
| `discovery_run` | holds | all boards, two extra feeds, all providers, two pages with and without a query string, two cards and two hits per provider, any failure: inserts are distinct, nothing found is lost, all scores are against one vector of the profile, paid search last |
| `documents_threads` | holds | two overlapping handlers, four requests, one path, three contents (one without text), stops anywhere: no facts of another text, no file lost without a deletion, no document left in work by a build that ends |
| `documents_twice` | violated | two overlapping imports insert the same file twice |
| `rag_engine` | holds | four calls, three queries of which two are similar, a blank one, a cache of two, two rounds, models and an embedding service that answer anything or fail: what is returned as passed was judged as it is, no entry duplicates an older one |

**Bounds.** A race in the gate needs two handlers and one row: more workers add no
kind of step, and two applications share no row. `gate_crash` has two tokens,
which lets one supersede another while handlers overlap. A row whose token hash
and checksum come from different requests takes three (one to create the row and
two that overlap): that case, and every larger one, is covered by the proofs of
section 4, which hold for any number of tokens and workers. In `gate_orderly`
handlers of two applications overlap, two previews of one application do, and two
tokens are a live one and one that is superseded, rejected or used. It has no
failures: those are in `gate_crash`, and the theorems about orderly behaviours
allow any number. One edit is enough to make a form differ from the approved one,
two forms to tell them apart. `MaxFailures = 1` puts one crash or one failed
commit at every point. `TTL = 1` with `MaxTime = 1` gives a token a tick before
its expiry and the tick at which it expires. In the pipeline run the five requests
are shared by threads and dashboard: a first run, an approval and a resume leave
two calls of the dashboard to overlap any of them; two tokens let one supersede
another, and two vacancies let the match change. A row that mixes columns of three
requests needs a third token: that is left to the proofs. In `pipeline_send` one
worker and three requests suffice for the counterexample. In the budget run six
charges at prices 1 and 2 against a limit of 3 fill both days and are refused on
each; two threads suffice for a lost update and a mixed file. In the preparation
run the third preparation starts after one of the first two has ended and the
other has not. For the write lock one request thread and one nightly process are
the two kinds of worker that die separately; two vacancies let a search find one
that is stored and one that is not; two deaths let each process die once. In
discovery two cards make a duplicate, on one board or on two, two hits a repeated
page or a redirect onto a page that is known, and one of the two pages lies under
a country's domain; `NeedFloor` is 1 instead of 4, so that two hits can be enough
or not. For documents a third request meets the leavings of two that overlapped,
and the fourth a build after them; two ids let one be given again; two texts and
an empty one let a text be replaced and be unusable. In the RAG run a fourth call
meets a cache that is full and has evicted an entry. Every bound is a guard of the
action that counts it, so a run stops where the bound is reached: deadlock is not
checked, since the system may also be idle for ever.

**Fairness.** `prepare_threads` assumes weak fairness of each thread's own step
(`Fairness`): a request thread runs on, and each network call in it has a
timeout. `lock_threads` assumes it of each worker's `Step`: a handler that can go
on does, a wait for the lock ends at the latest with SQLite's busy timeout
(`db.py:15`), and the call of Telegram has a timeout (`ops/notify.py`). Nothing is
assumed of `Answer`: `feedparser.parse` fetches without a timeout
(`discovery/sources.py:95` and `:157`, `pipeline.py:82`), so a board that stalls
keeps a search open for ever. `HandlersEnd` exempts that search and nobody else: all
who wait for its lock still end. Nothing is assumed of new requests, profile
builds, crashes or faults. All other properties are safety
properties.

**Findings.** Three statements of the repository are contradicted by what the
code does; `PROJECT.json` quotes each.

1. A token is not single-use under concurrency (`gate_double`): the adapter runs
   before `token_used` is set, and no lock is held.
2. The pipeline stores the token it was to wait for, and any later request on the
   thread sends with it (`pipeline_send`).
3. Two imports that overlap insert a file twice, and every import after them
   fails on it (`documents_twice`).

**Observed while modelling**, without a run of their own:

- A reject that read the row before an approve committed overwrites the status
  of a submitted application; nothing but the handlers' own reads prevents it.
- The drafts that are sent are read at send time and are not part of the
  checksum (`apply/service.py:233`).
- The critic validates a dictionary that never holds the form
  (`orchestrator/nodes.py`), and its verdict stops nothing.
- Two overlapping charges that both pass the check on the same total can cost
  more than the budget. The log errs only in one direction, which
  `RecordedWasSpent` and `RefusalsAreJustified` show.
- A resume of a thread and the dashboard that hold one token can both send with
  it, each past its checks before the other commits: `gate_double` again,
  through the pipeline.
- A token is checked before the packet is read and the adapter runs, so a
  dispatch may follow the expiry.
- `nightly_digests.sent` is true in every completed cycle, whatever Telegram
  did: the log channel reports success without an error (`ops/notify.py:20-21`),
  and `sent_any` accepts any channel (`ops/nightly.py:80-93`). What Telegram did
  is in `notifications`, which `CyclesAreRecorded` speaks of.
- A feed that never answers keeps its request thread and the write lock (see
  Fairness); every other writer then ends with "database is locked".
- HTML boards cut query strings off, so that vacancies told apart by a query
  collapse into one.
- `search_euraxess` and `_rss_generic` have no try statement, although
  `discovery/sources.py:5-6` promises that no board raises; Brave, Tavily and
  Gemini (`llm/gemini.py:219`) parse the answer outside of theirs; a failing
  extraction by the model is not caught either. Each makes the run a failed one.
- Hits on skipped hosts count toward the hits wanted, and can keep the next
  provider from being asked.
- A vector of the embedding service and one of its stand-in compare to 0.0.
- A judge that fails counts as one that passed the draft.
- The routes build a RAG engine and its cache for each request
  (`api/routes.py:780-815`), so that an answer is never served from it there;
  the properties of the cache are of the class, for a caller that keeps one.
- The chunker (`rag/chunker.py:61-95`) does not measure joiners, title lines and
  the paragraph after an overlap, so chunks can exceed the window, and after the
  first chunk it drops sections shorter than `min_chunk_size` as a whole.
  `sync_all_to_vector_store`, which calls it, has no caller in the application.
- `/rag/search` without a reranker reads a field that `SearchResult` does not
  have (`api/routes.py:763-775`).

## 4. Proofs

`ApplyGateProofs` proves, for every value of the constants that satisfies
`GateAssumption`:

- `GateTypeCorrect`: `TypeOK`.
- `GateInvariant`: `GateInv`, and from it `SendsOnlyWhatWasApproved`,
  `SubmittedMeansSent`, `EveryDispatchIsLogged`,
  `RecordedTokenIsDead` and `RetiredForEver` (`RetiredTokensStayRetired`).
- `TokensAreSingleUse` (`AtMostOncePerToken`), of the behaviours in which
  `ApprovalsAreApart` always holds: no two approve handlers of one application
  overlap, and none ends between its dispatch and its commit. Everything else is
  as free as before: requests and rejections of the same application, handlers
  of others, crashes and failed commits anywhere else.
- of `OrderlySpec`, the behaviours in which `Orderly` always holds
  (`OrderlyMeansOrderly`): no two handlers of one application are together at
  steps where they will still write or send what they loaded, and no dispatch is
  lost. For any workers and applications: `OrderlyTokensAreSingleUse`,
  `RecordsMatchDispatches`, `OpportunityFollows`, `SubmittedStaysSubmitted`,
  `NothingSentWhileRejected`, and `GateImplementsLedger`, the refinement of
  `ApprovalLedger` with the mapping of `MCApplyGate`.

Nothing in the code enforces `ApprovalsAreApart` or `Orderly`. They say what the
promises of the gate rest on: a client that waits for one answer before it sends
the next request for the same application, and no failure between the send and
the commit after it. Run `gate_double` shows that the first half cannot be
dropped.

The properties are not inductive alone. `GateInv` adds: a token being issued is
fresh and no two handlers issue the same (`NoncesAreFresh`); a handler past its
checks holds an issued token for its application whose payload is the one it
will send and whose nonce is the hash it loaded (`ApproversVerified`); and an
outcome on record means that the row's hash is another one
(`CompletionsRetireTokens`). The last is the heart of it. The hash is always
among the columns an approve handler writes, because the token passed the
comparison with it, so the loaded value was not empty; and a request that
commits later writes a nonce that never was anyone's. Whichever columns
survive, the old nonce does not come back. `RecordedTokenIsDead` follows, since
`Accepts` requires the token's nonce to be the row's hash. `RetiredForEver` is the
same argument for tokens without an outcome: a commit leaves the hash of the row
alone, empties it, or writes a nonce that no client holds yet (`CommittedHash`).

The theorems about orderly behaviours rest on `RowInv`: the row a handler has
loaded still is the row, an approve handler holds a pending one and will send its
payload by its adapter, and no handler that is about to commit has found
"submitted". The refinement adds `LedgerInv`: nonces are unique, a pending row
waits for a token of its application, and a success is on the row unless its
handler is about to put it there. The last is why a dispatch, not the commit after
it, is the ledger's `Send`; the commit after it is a `Withdraw`, which finds
something live only if the adapter sent nothing.

`PipelineProofs` proves, under `PipelineAssumption` and for any number of workers,
threads and vacancies, `PipelineTypeCorrect`, `ThreadsActOnlyOnApproval`,
`SavedMeansSent` and `RefusedForEver`, all over the interleaved steps of the gate. For
`ThreadsActOnlyOnApproval` the strengthening is `ConsentInv`: in every checkpoint
and every running request, `human_approved` implies that the current match is
among those a human approved in the thread, and a stored application was one of
those (`ApprovedMatch`). It is carried by the matchmaker, which clears the
approval whenever it may change the match; the checkpoint may be overwritten by
any request because both what is there and what replaces it satisfy it.
`SavedMeansSent` (`SavedSubmissionsWereSent`) rests on `SubmissionInv`: a handler
knows of a success only after its send, and a state that says "submitted" is for
an application that was sent. The phase is copied from the row that was read back,
which may by then be another handler's work, and from there into checkpoints;
every row that says so was written by a handler that knew of a success, whichever
of its other columns were left alone.
`RefusedForEver` (`RefusedTokensStayRefused`) rests on `LiveIsIssued`: the rows and
the copies that handlers have loaded hold only nonces that were issued. So a
request that commits always writes its fresh nonce, which is no token anybody
holds yet, whatever happens to its other two columns; and no other commit sets
"pending_approval", clears `token_used` or puts a nonce back (`RequestColumns`,
`ConclusionColumns`). Expiry is final.

`LlmBudgetProofs` proves, under `BudgetAssumption`, every property of the run
`budget_threads`: `BudgetTypeCorrect`, `RecordedStaysWithinBudget`,
`RecordedIsSpent`, `NoUnjustRefusal` and `SerialChargesAreExact`. The inductive
invariant `Sound` adds what a thread carries between its read and its write: the
totals it loaded were within the limit and within what was admitted, and its own
charge fits. Others may write meanwhile, but `admitted` only grows, so a stale
copy stays sound. `Alone` is the serial part: at most one thread is busy, what
it loaded is what was admitted, and while it writes the file is empty.

`PrepareProofs` proves the four safety properties of `prepare_threads` and type
correctness under `PrepareAssumption`: `PrepareTypeCorrect`, `PacketHoldsOneRun`,
`NoOrphanedPreparing`, `CitationsAreStored`, `SerialDraftsAreStable`. The least
obvious is `NoOrphanedPreparing`, since a thread may skip its own write. A
thread that reloads a packet which says "preparing" has read neither "ready" nor
"failed", so its outcome will be written; a thread that read one of these ends
without a write only if somebody set "preparing" after it had read, and that
one has yet to reload (`WillConclude`).

`WriteLockProofs` proves, under `LockAssumption`, every safety property of
`lock_threads`: `NoCollision`, `RunsAreConcluded`, `CyclesRecorded`,
`SearchesAreSerial` (the refinement of `SerialSearches`) and type correctness, for
any number of threads and processes. The invariant `IInv` says for each worker
which stages its handler passes (`Planned`); that a search holds the lock from its
flush to its commit, and only then has vacancies that are added and not committed
(`Locked`); and that what a cycle has stored is new since it read the ids, and in
its report from `Fill` on (`Reported`), with the notification holding what its own
dispatch was told. Another worker can add to `opps` only by a commit that needs
the lock, which is why nothing it adds is among the vacancies a search holds.
`SearchesAreSerial` needs one thing more of `Locked`: while a search looks for
vacancies its run still says "running". While one is open a step of another worker
stutters, since it neither takes the lock nor changes `opps`; a death of the
holder is `Lose`.

`DiscoverProofs` proves, under `DiscoverAssumption` and `BoardAssumption`, the four
properties of `discovery_run` and type correctness. `Collected` carries the first
two: the listings `discover` returns have distinct URLs, pass the filters, and
none of them is inserted yet. That both filters agree is shown once, from
`infer_country` being the same in both. `Thin` is what is known while the search
goes on, `Measured` that every comparison used the cached vector of the profile.

`DocumentsProofs` proves, under `DocumentsAssumption`, the three properties of
`documents_threads` and type correctness, for any number of workers, paths,
contents and files. `InHand` says what a build or an import holds: facts that are
pending are of a text its session has seen. `Coherent` relates a session to the
table: what it sees of a row is the row, until somebody else writes it, and then
the row is in `crossed`. `Disk` gives every file one owner, a handler or a row;
`Settled` says that the documents a build is done with are parsed or failed,
those excepted whose facts are still pending. A step of one worker disturbs the
others only through rows it writes; lemmas `Quiet` and `Loud` say so once, and
the proof of each action uses one of the two.

`RagProofs` proves, under `RagAssumption` and `LikenessAssumption`, both
properties of `rag_engine` and type correctness, for any similarity. `Judged`: what
is in the cache, and what a call is about to return as passed, was judged.
`Looked`: a call that will store has compared the very vector it will store with
every entry; the router's cache keeps that vector, whichever service fails next.

Only model-checked: the liveness properties `PreparationEnds` and `HandlersEnd`.
The prover cannot do liveness, `ENABLED` or what a
recursive definition computes for every input. Type correctness is proved for all
eight detailed modules; of the runs only `budget_threads` checks `TypeOK` as well.

Every property of a passing run has a mutant: a definition of the model with a
plausible bug, kept beside the definition it would replace and marked "Mutant
of". The original definitions never use them.

## 5. Plan

Done: the gate with its ledger, the pipeline, the LLM budget, packet preparation,
the write lock with discovery and the nightly cycle as transactions, the
discovery run, documents with the profile builder, and the RAG engine, each with
its proofs. What is left, in this order:

1. `Pipeline`: when a thread that keeps a dead token drafts again. The safe half is
   done (`RefusedTokensStayRefused`); the code promises nothing about the other.
2. Pure operators: the chunker and `rule_fit_score` against reference definitions.
3. The Google workflow, once the API can call it.

## 6. Not modelled

Prompts and JSON repair (`llm/prompting.py`, `json_repair.py`), LaTeX export, the
dashboard, the read-only ops tools and request validation: input and output or
formatting without a state machine of its own. Of `rag/`, the chunker, the
knowledge graph, the filling of the vector stores and the arithmetic of ranking:
deterministic functions of one input. The advisor's chat, which appends messages
only, the fields of the profile, and the migration of the schema, which runs once
at start. `build_graph` in `orchestrator/graph.py` compiles a graph that
`start_or_resume` never runs. The Google workflow
(`orchestrator/google_workflow.py`): the route `/api/ops/google-workflow` passes an
argument that `run_google_phd_workflow` does not take (`api/routes.py:706`), so that
every request ends in a TypeError, and nothing else in the repository calls it.
