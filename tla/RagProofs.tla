------------------------------ MODULE RagProofs ------------------------------
(* Theorems about Rag, for any queries, similarities, cache size and bounds. *)
EXTENDS Rag, TLAPS

(* What may be returned as passed, now or from the cache, was judged.      *)
Judged ==
  /\ \A i \in DOMAIN entries : <<entries[i].text, entries[i].evidence>> \in graded
  /\ call.stage = "judged" /\ call.passed => <<call.draft, call.evidence>> \in graded

(* A call that will store its text has looked: the vector it will store is *)
(* the one that it compared, and no entry is like it.                      *)
Looked ==
  call.stage \in {"retrieve", "draft", "grade", "judged"} /\ call.cached /\ call.query # BlankQuery =>
    \/ entries = <<>>
    \/ /\ vectors[call.query] # "none"
       /\ \A i \in DOMAIN entries :
            Similarity(vectors[call.query], call.query, entries[i]) < Threshold

-----------------------------------------------------------------------------

LEMMA TypeInit == Init => TypeOK
<1>. SUFFICES ASSUME Init PROVE TypeOK
  OBVIOUS
<1>1. NoCall \in Call
  <2>1. BlankQuery \in Queries /\ 0 \in 0..MaxRounds /\ {} \in SUBSET Evidence
    BY RagAssumption
  <2>. QED
    BY <2>1 DEF NoCall, Call, Stages, Texts
<1>2. NoResult \in Result
  BY DEF NoResult, Result, Texts
<1>3. entries \in Seq(Entry) /\ Len(entries) = 0
  BY DEF Init
<1>4. 0 \in 0..MaxCalls /\ 0 <= MaxEntries
  BY RagAssumption
<1>. QED
  BY <1>1, <1>2, <1>3, <1>4 DEF Init, TypeOK, Kinds

(* The kinds of vector a query can get, and the cache with room for one.   *)
LEMMA KindsAreKinds ==
  ASSUME TypeOK, NEW q \in Queries PROVE KindsFor(q) \subseteq Kinds
BY DEF TypeOK, KindsFor, Kinds

LEMMA EvictedType ==
  ASSUME TypeOK
  PROVE  /\ Evicted \in Seq(Entry)
         /\ Len(Evicted) + 1 <= MaxEntries
         /\ Evicted = entries \/ (entries # <<>> /\ Evicted = Tail(entries))
<1>1. /\ entries \in Seq(Entry) /\ Len(entries) <= MaxEntries /\ Len(entries) \in Nat
      /\ MaxEntries \in Nat \ {0}
  BY RagAssumption DEF TypeOK
<1>2. CASE Len(entries) >= MaxEntries
  <2>1. entries # <<>>
    BY <1>1, <1>2
  <2>2. Tail(entries) \in Seq(Entry) /\ Len(Tail(entries)) = Len(entries) - 1
    BY <1>1, <2>1
  <2>3. Evicted = Tail(entries)
    BY <1>2 DEF Evicted
  <2>4. Len(Evicted) + 1 = Len(entries)
    BY <1>1, <2>2, <2>3
  <2>. QED
    BY <1>1, <2>1, <2>2, <2>3, <2>4
<1>3. CASE ~(Len(entries) >= MaxEntries)
  BY <1>1, <1>3 DEF Evicted
<1>. QED
  BY <1>2, <1>3

(* The cache after a put: entries that were there, and the new one.        *)
LEMMA StoredEntries ==
  ASSUME TypeOK, NEW e \in Entry, entries' = Append(Evicted, e)
  PROVE  /\ entries' \in Seq(Entry) /\ Len(entries') <= MaxEntries
         /\ \A i \in DOMAIN entries' :
              \/ i = Len(entries') /\ entries'[i] = e
              \/ /\ i < Len(entries')
                 /\ \/ i \in DOMAIN entries /\ entries'[i] = entries[i]
                    \/ i + 1 \in DOMAIN entries /\ entries'[i] = entries[i + 1]
         /\ \A i, j \in DOMAIN entries' : i < j /\ j < Len(entries') =>
              \E k, l \in DOMAIN entries : k < l /\ entries'[i] = entries[k] /\ entries'[j] = entries[l]
         /\ entries = <<>> => Len(entries') = 1
<1>1. /\ Evicted \in Seq(Entry) /\ Len(Evicted) + 1 <= MaxEntries
      /\ entries \in Seq(Entry) /\ Len(entries) \in Nat /\ Len(Evicted) \in Nat
  BY EvictedType DEF TypeOK
<1>2. /\ entries' \in Seq(Entry)
      /\ Len(entries') = Len(Evicted) + 1
      /\ DOMAIN entries' = 1..(Len(Evicted) + 1)
      /\ entries'[Len(Evicted) + 1] = e
      /\ \A i \in 1..Len(Evicted) : entries'[i] = Evicted[i]
  BY <1>1
<1>3. CASE Evicted = entries
  <2>1. DOMAIN entries = 1..Len(entries)
    BY <1>1
  <2>2. \A i, j \in DOMAIN entries' : i < j /\ j < Len(entries') =>
          i \in DOMAIN entries /\ j \in DOMAIN entries
    BY <1>1, <1>2, <1>3, <2>1
  <2>. QED
    BY <1>1, <1>2, <1>3, <2>1, <2>2
<1>4. CASE entries # <<>> /\ Evicted = Tail(entries)
  <2>1. /\ DOMAIN entries = 1..Len(entries) /\ Len(Evicted) = Len(entries) - 1
        /\ \A i \in 1..Len(Evicted) : Evicted[i] = entries[i + 1]
    BY <1>1, <1>4
  <2>2. \A i \in 1..Len(Evicted) : i + 1 \in DOMAIN entries /\ entries'[i] = entries[i + 1]
    BY <1>1, <1>2, <2>1
  <2>3. ASSUME NEW i \in DOMAIN entries', NEW j \in DOMAIN entries', i < j, j < Len(entries')
        PROVE  \E k, l \in DOMAIN entries :
                 k < l /\ entries'[i] = entries[k] /\ entries'[j] = entries[l]
    <3>1. i \in 1..Len(Evicted) /\ j \in 1..Len(Evicted) /\ i + 1 < j + 1
      BY <1>1, <1>2, <2>3
    <3>. QED
      BY <2>2, <3>1
  <2>4. \A i \in DOMAIN entries' :
          \/ i = Len(entries') /\ entries'[i] = e
          \/ i < Len(entries') /\ i + 1 \in DOMAIN entries /\ entries'[i] = entries[i + 1]
    <3>. SUFFICES ASSUME NEW i \in 1..(Len(Evicted) + 1)
                  PROVE  \/ i = Len(entries') /\ entries'[i] = e
                         \/ /\ i < Len(entries') /\ i + 1 \in DOMAIN entries
                            /\ entries'[i] = entries[i + 1]
      BY <1>2
    <3>1. i = Len(Evicted) + 1 \/ i \in 1..Len(Evicted)
      BY <1>1
    <3>2. i \in 1..Len(Evicted) => i < Len(Evicted) + 1
      BY <1>1
    <3>. QED
      BY <1>2, <2>2, <3>1, <3>2
  <2>. QED
    BY <1>1, <1>2, <1>4, <2>3, <2>4
<1>. QED
  BY EvictedType, <1>3, <1>4

LEMMA TypeStep == ASSUME TypeOK, [Next]_vars PROVE TypeOK'
<1>. USE DEF TypeOK
<1>n. NoCall \in Call
  <2>1. BlankQuery \in Queries /\ 0 \in 0..MaxRounds /\ {} \in SUBSET Evidence
    BY RagAssumption
  <2>. QED
    BY <2>1 DEF NoCall, Call, Stages, Texts
<1>g. ASSUME NEW s \in Stages, Goto(s) PROVE call' \in Call
  BY <1>g DEF Goto, Call
<1>v. ASSUME NEW kind \in KindsFor(call.query), Embedded(call.query, kind)
      PROVE  vectors' \in [Queries -> Kinds \cup {"none"}]
  <2>1. call.query \in Queries
    BY DEF Call
  <2>2. kind \in Kinds
    BY <2>1, KindsAreKinds
  <2>. QED
    BY <1>v, <2>1, <2>2 DEF Embedded
<1>e. \A i \in DOMAIN entries : entries[i] \in Entry
  OBVIOUS
<1>r. Returned \in Result
  BY DEF Returned, Call, Result, Texts
<1>1. CASE Ask
  <2>1. PICK q \in Queries, cached \in BOOLEAN, n \in 0..MaxRounds :
          call' = [stage |-> IF cached THEN "lookup" ELSE "retrieve", query |-> q,
                   cached |-> cached, rounds |-> n, evidence |-> {}, draft |-> 0,
                   passed |-> FALSE, round |-> 0]
    BY <1>1 DEF Ask
  <2>2. call' \in Call
    BY <2>1 DEF Call, Stages, Texts
  <2>3. calls' \in 0..MaxCalls
    BY <1>1, RagAssumption DEF Ask
  <2>. QED
    BY <1>1, <2>2, <2>3 DEF Ask
<1>2. CASE LookupSkipped
  BY <1>2, <1>g DEF LookupSkipped, Stages
<1>3. CASE Miss
  BY <1>3, <1>g, <1>v DEF Miss, Stages
<1>4. CASE Hit
  <2>1. PICK kind \in KindsFor(call.query), i \in DOMAIN entries :
          /\ Embedded(call.query, kind)
          /\ answer' = [text |-> entries[i].text, evidence |-> entries[i].evidence,
                        passed |-> TRUE, hit |-> TRUE]
    BY <1>4 DEF Hit
  <2>2. answer' \in Result
    BY <1>e, <2>1 DEF Entry, Result
  <2>. QED
    BY <1>4, <1>n, <1>v, <2>1, <2>2 DEF Hit
<1>5. CASE Retrieve
  BY <1>5 DEF Retrieve, Call, Stages
<1>6. CASE Draft
  <2>1. PICK text \in {0, drafts + 1} :
          call' = [call EXCEPT !.draft = text, !.round = @ + 1, !.stage = "grade"]
    BY <1>6 DEF Draft
  <2>2. text \in Texts /\ call.round + 1 \in Nat
    BY DEF Texts, Call
  <2>3. call' \in Call
    BY <2>1, <2>2 DEF Call, Stages
  <2>. QED
    BY <1>6, <2>3 DEF Draft
<1>7. CASE Raises
  BY <1>7, <1>n DEF Raises
<1>8. CASE Grade
  <2>1. PICK passed \in BOOLEAN :
          /\ call' = [call EXCEPT !.passed = passed, !.stage = "judged"]
          /\ graded' = IF passed THEN graded \cup {<<call.draft, call.evidence>>} ELSE graded
    BY <1>8 DEF Grade
  <2>2. call' \in Call
    BY <2>1 DEF Call, Stages
  <2>3. graded' \subseteq Texts \X SUBSET Evidence
    BY <2>1 DEF Call
  <2>. QED
    BY <1>8, <2>2, <2>3 DEF Grade
<1>9. CASE Refine
  BY <1>9, <1>g DEF Refine, Stages
<1>10. CASE Store
  <2>1. PICK kind \in KindsFor(call.query) :
          /\ Embedded(call.query, kind)
          /\ entries' = Append(Evicted, [query |-> call.query, kind |-> kind,
                                         text |-> call.draft, evidence |-> call.evidence])
    BY <1>10 DEF Store
  <2>2. [query |-> call.query, kind |-> kind,
         text |-> call.draft, evidence |-> call.evidence] \in Entry
    <3>1. kind \in Kinds
      BY KindsAreKinds DEF Call
    <3>. QED
      BY <3>1 DEF Call, Entry
  <2>3. entries' \in Seq(Entry) /\ Len(entries') <= MaxEntries
    BY <2>1, <2>2, StoredEntries
  <2>. QED
    BY <1>10, <1>n, <1>r, <1>v, <2>1, <2>3 DEF Store
<1>11. CASE ReturnOnly
  BY <1>11, <1>n, <1>r DEF ReturnOnly
<1>12. CASE UNCHANGED vars
  BY <1>12 DEF vars
<1>. QED
  BY <1>1, <1>2, <1>3, <1>4, <1>5, <1>6, <1>7, <1>8, <1>9, <1>10, <1>11, <1>12 DEF Next

(* The types of the state, for every similarity and every bound.           *)
THEOREM TypeCorrect == Spec => []TypeOK
BY TypeInit, TypeStep, PTL DEF Spec

-----------------------------------------------------------------------------

LEMMA JudgedInit == Init => Judged /\ ServedAsGraded
BY DEF Init, NoCall, NoResult, Judged, ServedAsGraded

LEMMA JudgedStep ==
  ASSUME TypeOK, Judged, ServedAsGraded, [Next]_vars
  PROVE  Judged' /\ ServedAsGraded'
<1>. USE DEF Judged, ServedAsGraded
<1>c. call \in Call
  BY DEF TypeOK
<1>n. NoCall.stage = "idle"
  BY DEF NoCall
<1>1. CASE Ask
  <2>1. call'.stage # "judged"
    BY <1>1 DEF Ask
  <2>. QED
    BY <1>1, <2>1 DEF Ask
<1>2. CASE LookupSkipped \/ Miss \/ Refine
  <2>1. call'.stage # "judged"
    BY <1>2, <1>c DEF LookupSkipped, Miss, Refine, Goto, Call
  <2>. QED
    BY <1>2, <2>1 DEF LookupSkipped, Miss, Refine
<1>3. CASE Hit
  <2>1. PICK i \in DOMAIN entries :
          answer' = [text |-> entries[i].text, evidence |-> entries[i].evidence,
                     passed |-> TRUE, hit |-> TRUE]
    BY <1>3 DEF Hit
  <2>. QED
    BY <1>3, <1>n, <2>1 DEF Hit
<1>4. CASE Retrieve
  <2>1. call'.stage # "judged"
    BY <1>4, <1>c DEF Retrieve, Call
  <2>. QED
    BY <1>4, <2>1 DEF Retrieve
<1>5. CASE Draft
  <2>1. call'.stage # "judged"
    BY <1>5, <1>c DEF Draft, Call
  <2>. QED
    BY <1>5, <2>1 DEF Draft
<1>6. CASE Raises
  BY <1>6, <1>n DEF Raises
<1>7. CASE Grade
  <2>1. PICK passed \in BOOLEAN :
          /\ call' = [call EXCEPT !.passed = passed, !.stage = "judged"]
          /\ graded' = IF passed THEN graded \cup {<<call.draft, call.evidence>>} ELSE graded
    BY <1>7 DEF Grade
  <2>2. call'.passed = passed /\ call'.draft = call.draft /\ call'.evidence = call.evidence
    BY <1>c, <2>1 DEF Call
  <2>3. graded \subseteq graded'
    BY <2>1
  <2>. QED
    BY <1>7, <2>1, <2>2, <2>3 DEF Grade
<1>8. CASE Store
  <2>1. PICK kind \in KindsFor(call.query) :
          entries' = Append(Evicted, [query |-> call.query, kind |-> kind,
                                      text |-> call.draft, evidence |-> call.evidence])
    BY <1>8 DEF Store
  <2>2. call.stage = "judged" /\ call.passed
    BY <1>8 DEF Store, Stores
  <2>3. [query |-> call.query, kind |-> kind,
         text |-> call.draft, evidence |-> call.evidence] \in Entry
    BY <1>c, KindsAreKinds DEF Call, Entry
  <2>4. \A i \in DOMAIN entries' :
          \/ entries'[i].text = call.draft /\ entries'[i].evidence = call.evidence
          \/ \E k \in DOMAIN entries : entries'[i] = entries[k]
    BY <2>1, <2>3, StoredEntries
  <2>5. answer'.text = call.draft /\ answer'.evidence = call.evidence
    BY <1>8 DEF Store, Returned
  <2>. QED
    BY <1>8, <1>n, <2>2, <2>4, <2>5 DEF Store
<1>9. CASE ReturnOnly
  <2>1. /\ answer'.text = call.draft /\ answer'.evidence = call.evidence
        /\ answer'.passed = call.passed
    BY <1>9 DEF ReturnOnly, Returned
  <2>. QED
    BY <1>9, <1>n, <2>1 DEF ReturnOnly
<1>10. CASE UNCHANGED vars
  BY <1>10 DEF vars
<1>. QED
  BY <1>1, <1>2, <1>3, <1>4, <1>5, <1>6, <1>7, <1>8, <1>9, <1>10 DEF Next

(* What is returned as passed was judged as it is (semantic_cache.py,      *)
(* generate_and_refine): whatever is in the cache was, and so was a draft  *)
(* that passed.                                                            *)
THEOREM ServedIsGraded == Spec => []ServedAsGraded
<1>1. Init => TypeOK /\ Judged /\ ServedAsGraded
  BY TypeInit, JudgedInit
<1>2. TypeOK /\ Judged /\ ServedAsGraded /\ [Next]_vars
        => (TypeOK /\ Judged /\ ServedAsGraded)'
  BY TypeStep, JudgedStep
<1>. QED
  BY <1>1, <1>2, PTL DEF Spec

-----------------------------------------------------------------------------

(* A vector that the router has once is the one it keeps.                  *)
LEMMA VectorsAreKept ==
  ASSUME TypeOK, NEW kind \in KindsFor(call.query), Embedded(call.query, kind)
  PROVE  /\ vectors'[call.query] = kind /\ kind # "none"
         /\ vectors[call.query] # "none" => vectors' = vectors
<1>1. call.query \in Queries /\ vectors \in [Queries -> Kinds \cup {"none"}]
  BY DEF TypeOK, Call
<1>2. kind \in Kinds
  BY <1>1, KindsAreKinds
<1>3. vectors[call.query] # "none" => kind = vectors[call.query]
  BY DEF KindsFor
<1>. QED
  BY <1>1, <1>2, <1>3 DEF Embedded, Kinds

LEMMA LookedInit == Init => Looked /\ EntriesAreDistinct
BY DEF Init, NoCall, Looked, EntriesAreDistinct

(* A step that keeps the cache and the vectors, and goes on with its call. *)
LEMMA StillLooked ==
  ASSUME Looked, entries' = entries, vectors' = vectors,
         call.stage \in {"retrieve", "draft", "grade", "judged"},
         call'.cached = call.cached, call'.query = call.query
  PROVE  Looked'
BY DEF Looked, Similarity

LEMMA LookedStep ==
  ASSUME TypeOK, Looked, EntriesAreDistinct, [Next]_vars
  PROVE  Looked' /\ EntriesAreDistinct'
<1>c. call \in Call
  BY DEF TypeOK
<1>n. NoCall.stage = "idle"
  BY DEF NoCall
<1>s. ASSUME entries' = entries PROVE EntriesAreDistinct'
  BY <1>s DEF EntriesAreDistinct, Similarity
<1>1. CASE Ask
  <2>1. call'.stage = "lookup" \/ ~call'.cached
    BY <1>1 DEF Ask
  <2>. QED
    BY <1>1, <1>s, <2>1 DEF Ask, Looked
<1>2. CASE LookupSkipped
  <2>1. call'.query = call.query /\ (call.query = BlankQuery \/ entries' = <<>>)
    BY <1>2, <1>c DEF LookupSkipped, Goto, Call
  <2>. QED
    BY <1>2, <1>s, <2>1 DEF LookupSkipped, Looked
<1>3. CASE Miss
  <2>1. PICK kind \in KindsFor(call.query) :
          /\ \A i \in DOMAIN entries : Similarity(kind, call.query, entries[i]) < Threshold
          /\ Embedded(call.query, kind)
    BY <1>3 DEF Miss
  <2>2. call'.query = call.query /\ entries' = entries
    BY <1>3, <1>c DEF Miss, Goto, Call
  <2>3. vectors'[call.query] = kind /\ kind # "none"
    BY <2>1, VectorsAreKept
  <2>. QED
    BY <1>s, <2>1, <2>2, <2>3 DEF Looked, Similarity
<1>4. CASE Hit \/ Raises \/ ReturnOnly
  BY <1>4, <1>n, <1>s DEF Hit, Raises, ReturnOnly, Looked
<1>5. CASE Retrieve \/ Draft \/ Grade \/ Refine
  <2>1. /\ call.stage \in {"retrieve", "draft", "grade", "judged"}
        /\ entries' = entries /\ vectors' = vectors
    BY <1>5 DEF Retrieve, Draft, Grade, Refine
  <2>2. call'.cached = call.cached /\ call'.query = call.query
    BY <1>5, <1>c DEF Retrieve, Draft, Grade, Refine, Goto, Call
  <2>. QED
    BY <1>s, <2>1, <2>2, StillLooked
<1>6. CASE Store
  <2>1. PICK kind \in KindsFor(call.query) :
          /\ Embedded(call.query, kind)
          /\ entries' = Append(Evicted, [query |-> call.query, kind |-> kind,
                                         text |-> call.draft, evidence |-> call.evidence])
    BY <1>6 DEF Store
  <2>. DEFINE e == [query |-> call.query, kind |-> kind,
                    text |-> call.draft, evidence |-> call.evidence]
  <2>2. e \in Entry
    BY <1>c, KindsAreKinds DEF Call, Entry
  <2>3. \/ entries = <<>>
        \/ \A k \in DOMAIN entries : Similarity(kind, call.query, entries[k]) < Threshold
    <3>1. call.stage = "judged" /\ call.cached /\ call.query # BlankQuery
      BY <1>6 DEF Store, Stores, Blank
    <3>2. vectors[call.query] # "none" => kind = vectors[call.query]
      BY DEF KindsFor
    <3>. QED
      BY <3>1, <3>2 DEF Looked
  <2>4. ASSUME NEW i \in DOMAIN entries', NEW j \in DOMAIN entries', i < j
        PROVE  Similarity(entries'[j].kind, entries'[j].query, entries'[i]) < Threshold
    <3>. HIDE DEF e
    <3>0. entries' = Append(Evicted, e)
      BY <2>1 DEF e
    <3>1. /\ entries' \in Seq(Entry)
          /\ \A m \in DOMAIN entries' :
               \/ m = Len(entries') /\ entries'[m] = e
               \/ m < Len(entries') /\ \E k \in DOMAIN entries : entries'[m] = entries[k]
          /\ \A m, n \in DOMAIN entries' : m < n /\ n < Len(entries') =>
               \E k, l \in DOMAIN entries :
                 k < l /\ entries'[m] = entries[k] /\ entries'[n] = entries[l]
          /\ entries = <<>> => Len(entries') = 1
      BY <2>2, <3>0, StoredEntries
    <3>2. i \in Nat /\ j \in Nat /\ i >= 1 /\ Len(entries') \in Nat /\ j <= Len(entries')
      BY <3>1
    <3>3. CASE j < Len(entries')
      <4>1. PICK k \in DOMAIN entries, l \in DOMAIN entries :
              k < l /\ entries'[i] = entries[k] /\ entries'[j] = entries[l]
        BY <2>4, <3>1, <3>3
      <4>. QED
        BY <4>1 DEF EntriesAreDistinct
    <3>4. CASE j = Len(entries')
      <4>1. entries'[j] = e /\ i < Len(entries') /\ Len(entries') # 1
        BY <2>4, <3>1, <3>2, <3>4
      <4>2. PICK k \in DOMAIN entries : entries'[i] = entries[k]
        BY <3>1, <3>2, <4>1
      <4>3. Similarity(kind, call.query, entries[k]) < Threshold
        BY <2>3, <3>1, <4>1, <4>2
      <4>. QED
        BY <4>1, <4>2, <4>3 DEF e
    <3>. QED
      BY <3>2, <3>3, <3>4
  <2>5. EntriesAreDistinct'
    BY <2>4 DEF EntriesAreDistinct, Similarity
  <2>. QED
    BY <1>6, <1>n, <2>5 DEF Store, Looked
<1>7. CASE UNCHANGED vars
  BY <1>7, <1>s DEF vars, Looked, Similarity
<1>. QED
  BY <1>1, <1>2, <1>3, <1>4, <1>5, <1>6, <1>7 DEF Next

(* No entry of the cache answers the query of a later one, for a cache of  *)
(* any size (semantic_cache.py): a put is preceded by a lookup of the same *)
(* call, and the router embeds the same text the same way for as long as   *)
(* it lives.                                                               *)
THEOREM DistinctEntries == Spec => []EntriesAreDistinct
<1>1. Init => TypeOK /\ Looked /\ EntriesAreDistinct
  BY TypeInit, LookedInit
<1>2. TypeOK /\ Looked /\ EntriesAreDistinct /\ [Next]_vars
        => (TypeOK /\ Looked /\ EntriesAreDistinct)'
  BY TypeStep, LookedStep
<1>. QED
  BY <1>1, <1>2, PTL DEF Spec

=============================================================================
