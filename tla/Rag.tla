--------------------------------- MODULE Rag ---------------------------------
(***************************************************************************)
(* The self-improving RAG engine: rag/self_improving_rag.py with its       *)
(* semantic cache, hybrid search and reranker.  One engine answers one     *)
(* call after the other; its cache and the router's embedding cache live   *)
(* as long as it does.                                                     *)
(*                                                                         *)
(* A draft is a number, 0 the blank one, a query a name, the passages found*)
(* are sets of document ids; what strip() removes is not in the names.     *)
(* Models and the embedding API may answer anything or fail.               *)
(***************************************************************************)
EXTENDS Naturals, Sequences, FiniteSets

CONSTANTS
  Queries,        \* queries that are asked
  BlankQuery,     \* the one with nothing but white space
  Evidence,       \* ids EV-<n> in the collection of evidence
  Dossier,        \* ids of the chunks of the applicant's documents
  TopK,           \* passages that are kept: 5 in the code
  Likeness,       \* kind of vector, query, query -> similarity in steps
  Threshold,      \* similarity_threshold, in the same steps
  MaxEntries,     \* max_entries of the cache
  HasToken,       \* HF_TOKEN is set
  MaxRounds,      \* bound on max_iterations
  MaxCalls        \* bound on the calls

Kinds == {"real", "hash"}

ASSUME LikenessAssumption == Likeness \in [Kinds \X Queries \X Queries -> Nat]

ASSUME RagAssumption ==
  /\ BlankQuery \in Queries
  /\ TopK \in Nat /\ Threshold \in Nat \ {0}
  /\ MaxEntries \in Nat \ {0} /\ MaxRounds \in Nat /\ MaxCalls \in Nat
  /\ HasToken \in BOOLEAN

VARIABLES
  vectors,        \* the router's cache: kind of the vector of each query, or "none"
  entries,        \* the semantic cache, oldest first
  call,           \* the call at work
  answer,         \* the last result
  drafts,         \* drafts written so far
  calls,          \* calls so far
  graded          \* history: drafts that passed, with the evidence they were judged by

vars == <<vectors, entries, call, answer, drafts, calls, graded>>

Texts == Nat

Entry == [query : Queries, kind : Kinds, text : Texts, evidence : SUBSET Evidence]

Stages == {"idle", "lookup", "retrieve", "draft", "grade", "judged"}

Call == [stage : Stages, query : Queries, cached : BOOLEAN, rounds : 0..MaxRounds,
         evidence : SUBSET Evidence, draft : Texts, passed : BOOLEAN, round : Nat]

Result == [text : Texts, evidence : SUBSET Evidence, passed : BOOLEAN, hit : BOOLEAN]

NoCall == [stage |-> "idle", query |-> BlankQuery, cached |-> FALSE, rounds |-> 0, evidence |-> {},
           draft |-> 0, passed |-> FALSE, round |-> 0]

NoResult == [text |-> 0, evidence |-> {}, passed |-> FALSE, hit |-> FALSE]

Init ==
  /\ vectors = [q \in Queries |-> "none"]
  /\ entries = <<>>
  /\ call = NoCall
  /\ answer = NoResult
  /\ drafts = 0 /\ calls = 0
  /\ graded = {}

Goto(stage) == call' = [call EXCEPT !.stage = stage]

(* generate_and_refine is called.                                          *)
Ask ==
  /\ call.stage = "idle"
  /\ calls < MaxCalls
  /\ calls' = calls + 1
  /\ \E q \in Queries, cached \in BOOLEAN, n \in 0..MaxRounds :
       call' = [stage |-> IF cached THEN "lookup" ELSE "retrieve", query |-> q,
                cached |-> cached, rounds |-> n, evidence |-> {}, draft |-> 0,
                passed |-> FALSE, round |-> 0]
  /\ UNCHANGED <<vectors, entries, answer, drafts, graded>>

(***************************************************************************)
(* The semantic cache.                                                     *)
(***************************************************************************)

(* Mutant of Embedded: a vector of the fallback is not kept.               *)
EmbeddedIfReal(q, kind) == vectors' = [vectors EXCEPT ![q] = IF kind = "real" THEN kind ELSE @]

(* router.embed keeps what it got, a fallback included.                    *)
Embedded(q, kind) == vectors' = [vectors EXCEPT ![q] = kind]

KindsFor(q) == IF vectors[q] # "none" THEN {vectors[q]}
               ELSE IF HasToken THEN Kinds ELSE {"hash"}

(* _cosine_similarity is 0 for vectors of different length.                *)
Similarity(kind, q, entry) == IF kind = entry.kind THEN Likeness[kind, q, entry.query] ELSE 0

(* Entry i is the first of the most similar ones.                          *)
Best(kind, q, i) ==
  \A j \in DOMAIN entries :
    \/ Similarity(kind, q, entries[j]) < Similarity(kind, q, entries[i])
    \/ Similarity(kind, q, entries[j]) = Similarity(kind, q, entries[i]) /\ i <= j

LookupSkipped ==
  /\ call.stage = "lookup"
  /\ call.query = BlankQuery \/ entries = <<>>
  /\ Goto("retrieve")
  /\ UNCHANGED <<vectors, entries, answer, drafts, calls, graded>>

Miss ==
  /\ call.stage = "lookup"
  /\ call.query # BlankQuery /\ entries # <<>>
  /\ \E kind \in KindsFor(call.query) :
       /\ \A i \in DOMAIN entries : Similarity(kind, call.query, entries[i]) < Threshold
       /\ Embedded(call.query, kind)
  /\ Goto("retrieve")
  /\ UNCHANGED <<entries, answer, drafts, calls, graded>>

(* The cached text is returned as passed.                                  *)
Hit ==
  /\ call.stage = "lookup"
  /\ call.query # BlankQuery /\ entries # <<>>
  /\ \E kind \in KindsFor(call.query), i \in DOMAIN entries :
       /\ Best(kind, call.query, i)
       /\ Similarity(kind, call.query, entries[i]) >= Threshold
       /\ Embedded(call.query, kind)
       /\ answer' = [text |-> entries[i].text, evidence |-> entries[i].evidence,
                     passed |-> TRUE, hit |-> TRUE]
  /\ call' = NoCall
  /\ UNCHANGED <<entries, drafts, calls, graded>>

Evicted == IF Len(entries) >= MaxEntries THEN Tail(entries) ELSE entries

(***************************************************************************)
(* retrieve_context.  The texts of queries, vectors and rankings are not   *)
(* modelled: any documents may come first, but never too few or too many.  *)
(***************************************************************************)

Least(m, n) == IF m < n THEN m ELSE n
Top(n, S) == {T \in SUBSET S : Cardinality(T) = Least(n, Cardinality(S))}

(* A blank query expands to a blank one, and finds nothing.                *)
enhance(q) == q # BlankQuery

(* Dense hits are as many as asked for, and the sparse ones only compete   *)
(* with them.                                                              *)
hybrid_search(collection, q, limit) == IF enhance(q) THEN Top(limit, collection) ELSE {{}}

(* By the model's scores or, if it fails, by the fused ranks.              *)
rerank(candidates, n) == Top(n, candidates)

Retrieve ==
  /\ call.stage = "retrieve"
  /\ \E ev \in hybrid_search(Evidence, call.query, 2 * TopK),
        ds \in hybrid_search(Dossier, call.query, TopK) :
       \E contexts \in rerank(ev \cup ds, TopK) :
         call' = [call EXCEPT !.evidence = contexts \cap Evidence, !.stage = "draft"]
  /\ UNCHANGED <<vectors, entries, answer, drafts, calls, graded>>

(***************************************************************************)
(* The drafting model and the judge.                                       *)
(***************************************************************************)

(* A model may also answer with a blank text, which is draft 0.            *)
Draft ==
  /\ call.stage = "draft"
  /\ drafts' = drafts + 1
  /\ \E text \in {0, drafts + 1} :
       call' = [call EXCEPT !.draft = text, !.round = @ + 1, !.stage = "grade"]
  /\ UNCHANGED <<vectors, entries, answer, calls, graded>>

(* The drafting model, or the vector store, raises: no result.             *)
Raises ==
  /\ call.stage \in {"retrieve", "draft"}
  /\ call' = NoCall
  /\ UNCHANGED <<vectors, entries, answer, drafts, calls, graded>>

(* grade_draft; a judge that fails lets the draft pass.                    *)
Grade ==
  /\ call.stage = "grade"
  /\ \E passed \in BOOLEAN :
       /\ call' = [call EXCEPT !.passed = passed, !.stage = "judged"]
       /\ graded' = IF passed THEN graded \cup {<<call.draft, call.evidence>>} ELSE graded
  /\ UNCHANGED <<vectors, entries, answer, drafts, calls>>

Refine ==
  /\ call.stage = "judged"
  /\ ~call.passed /\ call.round < call.rounds
  /\ Goto("draft")
  /\ UNCHANGED <<vectors, entries, answer, drafts, calls, graded>>

(* Mutant of Stores: whatever came out last is stored.                     *)
StoresUnpassed == call.cached

Stores == call.cached /\ call.passed

(* put leaves blank queries and blank texts alone.                         *)
Blank == call.query = BlankQuery \/ call.draft = 0

Returned == [text |-> call.draft, evidence |-> call.evidence, passed |-> call.passed,
             hit |-> FALSE]

Ended == call.passed \/ call.round >= call.rounds

Store ==
  /\ call.stage = "judged"
  /\ Ended /\ Stores /\ ~Blank
  /\ \E kind \in KindsFor(call.query) :
       /\ Embedded(call.query, kind)
       /\ entries' = Append(Evicted, [query |-> call.query, kind |-> kind,
                                      text |-> call.draft, evidence |-> call.evidence])
  /\ answer' = Returned
  /\ call' = NoCall
  /\ UNCHANGED <<drafts, calls, graded>>

ReturnOnly ==
  /\ call.stage = "judged"
  /\ Ended /\ (~Stores \/ Blank)
  /\ answer' = Returned
  /\ call' = NoCall
  /\ UNCHANGED <<vectors, entries, drafts, calls, graded>>

Next ==
  \/ Ask \/ LookupSkipped \/ Miss \/ Hit \/ Retrieve
  \/ Draft \/ Raises \/ Grade \/ Refine \/ Store \/ ReturnOnly

Spec == Init /\ [][Next]_vars

(***************************************************************************)
(* Properties.                                                             *)
(***************************************************************************)

TypeOK ==
  /\ vectors \in [Queries -> Kinds \cup {"none"}]
  /\ entries \in Seq(Entry) /\ Len(entries) <= MaxEntries
  /\ call \in Call
  /\ answer \in Result
  /\ drafts \in Nat /\ calls \in 0..MaxCalls
  /\ graded \subseteq Texts \X SUBSET Evidence

(* "Retrieved from verified Semantic Cache.": a text that is returned as   *)
(* passed, from the loop or calls later from the cache, is one that was    *)
(* judged as it is, with the evidence ids that are returned beside it, and *)
(* not found wanting (self_improving_rag.py:193-214, 239-284).             *)
ServedAsGraded == answer.passed => <<answer.text, answer.evidence>> \in graded

(* The cache is there "to eliminate redundant LLM calls": no entry answers *)
(* a query that an older one would have answered, although the embedding   *)
(* API may fail between the lookup and the put (semantic_cache.py:72-144,  *)
(* router.py:109-141).                                                     *)
EntriesAreDistinct ==
  \A i, j \in DOMAIN entries :
    i < j => Similarity(entries[j].kind, entries[j].query, entries[i]) < Threshold

=============================================================================
