---------------------------- MODULE DiscoverProofs ----------------------------
(* Theorems about Discover, for any boards, pages, providers and limits. *)
EXTENDS Discover, TLAPS

Early == {"boards", "filter", "search", "fetch"}

(* What discover will return: each source_url once, and every listing one  *)
(* that upsert_listing stores; what is inserted already is not in it.      *)
Collected ==
  /\ stage \in Early => inserts = <<>>
  /\ \A i, j \in DOMAIN combined : combined[i].url = combined[j].url => i = j
  /\ \A i \in DOMAIN combined : is_keepable(combined[i])
  /\ \A i \in DOMAIN combined, k \in DOMAIN inserts : combined[i].url # inserts[k]

(* The search goes on while it is thin.                                    *)
Thin ==
  stage = "search" =>
    /\ Len(combined) < MinResults
    /\ source > 1 => "duckduckgo" \in asked
    /\ source > 2 /\ "brave" \in Keys => "brave" \in asked \/ Len(hits) >= need

(* Once there is a vector of the profile, every row is compared with it.   *)
Measured ==
  /\ cache = "none" => fits = <<>>
  /\ \A i \in DOMAIN fits : fits[i][1] = cache

-----------------------------------------------------------------------------

LEMMA TypeInit == Init => TypeOK /\ source = 1
<1>1. 0 \in 0..MaxCards
  BY DiscoverAssumption
<1>. QED
  BY <1>1 DEF Init, TypeOK, Stages

(* A sequence without its head.                                            *)
LEMMA TailFacts ==
  ASSUME NEW S, NEW s \in Seq(S), s # <<>>
  PROVE  /\ Head(s) \in S /\ Head(s) = s[1] /\ 1 \in DOMAIN s
         /\ Tail(s) \in Seq(S)
         /\ \A i \in DOMAIN Tail(s) :
              i \in Nat /\ i + 1 \in DOMAIN s /\ Tail(s)[i] = s[i + 1] /\ i + 1 # 1
<1>1. Len(s) \in Nat /\ Len(s) # 0 /\ DOMAIN s = 1..Len(s)
  OBVIOUS
<1>2. Tail(s) \in Seq(S) /\ DOMAIN Tail(s) = 1..(Len(s) - 1)
  BY <1>1
<1>. QED
  BY <1>1, <1>2

(* A sequence with one more element.                                       *)
LEMMA AppendFacts ==
  ASSUME NEW S, NEW s \in Seq(S), NEW e \in S
  PROVE  /\ Append(s, e) \in Seq(S)
         /\ \A i \in DOMAIN Append(s, e) :
              \/ i = Len(s) + 1 /\ Append(s, e)[i] = e
              \/ i \in DOMAIN s /\ Append(s, e)[i] = s[i]
         /\ \A i \in DOMAIN s : i \in DOMAIN Append(s, e) /\ Append(s, e)[i] = s[i]
OBVIOUS

(* A card becomes a listing whatever board shows it.                       *)
LEMMA ListingType ==
  ASSUME NEW b \in DOMAIN Boards, NEW card \in Cards
  PROVE  RawListing(Boards[b], card) \in Listings
<1>1. Boards[b].place \in Codes
  <2>. DEFINE Board == [name : STRING, links : {"any", "resolve", "strict", "absolute"},
                        guarded : BOOLEAN, place : Codes, fixed : BOOLEAN]
  <2>1. Boards \in Seq(Board)
    BY BoardAssumption
  <2>2. Boards[b] \in Board
    <3>. HIDE DEF Board
    <3>. QED
      BY <2>1
  <2>. QED
    BY <2>2
<1>2. /\ card.text \in Texts /\ card.text.country \in Codes /\ card.text.phd \in BOOLEAN
      /\ card.page \in Pages /\ card.query \in BOOLEAN
  BY DEF Cards, Texts
<1>3. CardCountry(Boards[b], card) \in Codes
  BY <1>1, <1>2 DEF CardCountry
<1>4. CardUrl(Boards[b], card) \in Urls
  BY <1>2 DEF CardUrl, Urls
<1>5. [card.text EXCEPT !.country = CardCountry(Boards[b], card)] \in Texts
  BY <1>2, <1>3 DEF Texts
<1>. QED
  BY <1>4, <1>5 DEF RawListing, Listings

(* What a provider answers is a sequence of hits.                          *)
LEMMA AnswersType ==
  ASSUME NEW p \in {"duckduckgo", "brave", "tavily", "gemini"}, NEW hs \in Answers(p)
  PROVE  hs \in Seq(Hits)
<1>1. ASSUME NEW limit, NEW S \in SUBSET Hits, NEW t \in UpTo(limit, S) PROVE t \in Seq(Hits)
  <2>1. PICK n \in 0..MaxHits : t \in [1..n -> S]
    BY <1>1 DEF UpTo
  <2>2. n \in Nat
    BY DiscoverAssumption
  <2>. QED
    BY <2>1, <2>2
<1>2. Unsocial \in SUBSET Hits
  BY DEF Unsocial
<1>3. hs \in UpTo(need, Unsocial) \/ hs \in UpTo(need, Hits) \/ hs = <<>>
  BY DEF Answers, search_duckduckgo, search_brave, search_tavily, search_gemini_grounded,
         hits_from_response
<1>4. Hits \in SUBSET Hits /\ <<>> \in Seq(Hits)
  OBVIOUS
<1>5. hs \in UpTo(need, Unsocial) => hs \in Seq(Hits)
  BY <1>1, <1>2
<1>6. hs \in UpTo(need, Hits) => hs \in Seq(Hits)
  BY <1>1, <1>4
<1>. QED
  BY <1>3, <1>4, <1>5, <1>6

LEMMA ProvidersFacts ==
  /\ Len(Providers) = 4 /\ DOMAIN Providers = 1..4
  /\ Providers[1] = "duckduckgo" /\ Providers[2] = "brave"
  /\ Providers[3] = "tavily" /\ Providers[4] = "gemini"
  /\ \A i \in 1..4 : Providers[i] \in {"duckduckgo", "brave", "tavily", "gemini"}
BY DEF Providers

LEMMA FetchedType ==
  ASSUME NEW h \in Hits, NEW url \in fetch_page(h), NEW local \in extract_local(url),
         NEW final \in extract_with_groq(local)
  PROVE  final \in Listings
<1>1. url \in Urls
  BY DEF fetch_page, Hits, WebUrls, Urls
<1>2. local \in Listings
  BY <1>1 DEF extract_local, Listings
<1>3. CASE final = local
  BY <1>2, <1>3
<1>4. CASE final # local
  <2>1. PICK t \in Texts : final = [local EXCEPT !.text = t]
    BY <1>4 DEF extract_with_groq
  <2>. QED
    BY <1>2, <2>1 DEF Listings
<1>. QED
  BY <1>3, <1>4

(* The board at work is one of the boards.                                 *)
BoardAtWork ==
  /\ source # 0
  /\ stage = "boards" => source \in DOMAIN Boards

LEMMA TypeStep ==
  ASSUME TypeOK, BoardAtWork, [Next]_vars
  PROVE  TypeOK' /\ BoardAtWork'
<1>. USE DEF TypeOK, BoardAtWork
<1>1. CASE ShowCard
  <2>1. PICK card \in Cards : listings' = Append(listings, RawListing(Boards[source], card))
    BY <1>1 DEF ShowCard
  <2>2. RawListing(Boards[source], card) \in Listings
    BY <1>1, ListingType DEF ShowCard
  <2>3. shown' \in 0..MaxCards
    BY <1>1, DiscoverAssumption DEF ShowCard
  <2>. HIDE DEF BoardAtWork
  <2>4. listings' \in Seq(Listings)
    BY <2>1, <2>2
  <2>5. BoardAtWork'
    BY <1>1 DEF ShowCard, BoardAtWork
  <2>. QED
    BY <1>1, <2>3, <2>4, <2>5 DEF ShowCard, searching, storing
<1>2. CASE NextBoard
  <2>1. source' \in Nat /\ source' \in DOMAIN Boards
    BY <1>2, BoardAssumption DEF NextBoard
  <2>. QED
    BY <1>2, <2>1 DEF NextBoard, searching, storing
<1>3. CASE BoardsDone \/ BoardRaises \/ Searched \/ ProviderRaises \/ FetchRaises \/ Fetched
           \/ StoreDone \/ EmbedDone
  BY <1>3 DEF BoardsDone, BoardRaises, Searched, ProviderRaises, FetchRaises, Fetched, StoreDone,
              EmbedDone, Stages, searching, storing
<1>4. CASE Filter
  <2>1. Head(listings) \in Listings /\ Tail(listings) \in Seq(Listings)
    BY <1>4, TailFacts DEF Filter
  <2>2. listings' \in Seq(Listings) /\ combined' \in Seq(Listings)
    BY <1>4, <2>1 DEF Filter
  <2>. QED
    BY <1>4, <2>2 DEF Filter, searching, storing
<1>5. CASE Filtered
  BY <1>5 DEF Filtered, Stages, searching, storing
<1>6. CASE AskProvider
  <2>1. source \in Nat /\ source # 0 /\ source <= Len(Providers)
    BY <1>6 DEF AskProvider
  <2>2. /\ Providers[source] \in {"duckduckgo", "brave", "tavily", "gemini"}
        /\ Providers[source] \in {Providers[i] : i \in DOMAIN Providers}
    BY <2>1, ProvidersFacts
  <2>3. PICK hs \in Answers(Providers[source]) : hits' = hits \o hs
    BY <1>6 DEF AskProvider
  <2>4. hits' \in Seq(Hits)
    BY <2>2, <2>3, AnswersType
  <2>. QED
    BY <1>6, <2>2, <2>4 DEF AskProvider, storing, Stages
<1>7. CASE PassProvider
  BY <1>7 DEF PassProvider, searching, storing
<1>8. CASE DropHit
  BY <1>8, TailFacts DEF DropHit, storing
<1>9. CASE FetchHit
  <2>1. Head(hits) \in Hits /\ Tail(hits) \in Seq(Hits)
    BY <1>9, TailFacts DEF FetchHit
  <2>2. combined' \in Seq(Listings)
    <3>1. CASE combined' = combined
      BY <3>1
    <3>2. CASE combined' # combined
      <4>1. PICK url \in fetch_page(Head(hits)) : \E local \in extract_local(url) :
               \E final \in extract_with_groq(local) : combined' = Append(combined, final)
        BY <1>9, <3>2 DEF FetchHit
      <4>. QED
        BY <2>1, <4>1, FetchedType
    <3>. QED
      BY <3>1, <3>2
  <2>3. tried' \subseteq Pages
    BY <1>9, <2>1 DEF FetchHit, Hits, WebUrls
  <2>. QED
    BY <1>9, <2>1, <2>2, <2>3 DEF FetchHit, storing
<1>10. CASE upsert_listing
  <2>1. Head(combined).url \in Urls /\ Tail(combined) \in Seq(Listings)
    <3>1. combined # <<>>
      BY <1>10 DEF upsert_listing
    <3>2. Head(combined) \in Listings /\ Tail(combined) \in Seq(Listings)
      BY <3>1, TailFacts
    <3>. QED
      BY <3>2 DEF Listings
  <2>2. inserts' \in Seq(Urls) /\ todo' \in Nat
    <3>1. \/ inserts' = Append(inserts, Head(combined).url) /\ todo' = todo + 1
          \/ inserts' = inserts /\ todo' \in {todo, todo + 1}
      BY <1>10 DEF upsert_listing
    <3>2. Append(inserts, Head(combined).url) \in Seq(Urls)
      BY <2>1
    <3>3. inserts' \in Seq(Urls)
      BY <3>1, <3>2
    <3>4. todo' \in Nat
      BY <3>1
    <3>. QED
      BY <3>3, <3>4
  <2>3. kept' \in Nat /\ found' \in Nat
    BY <1>10 DEF upsert_listing
  <2>. QED
    BY <1>10, <2>1, <2>2, <2>3 DEF upsert_listing, searching
<1>11. CASE EmbedRow
  <2>1. PICK p \in IF cache = "none" THEN Vectors ELSE {cache}, r \in Vectors :
          cache' = Embedded(p) /\ fits' = Append(fits, <<p, r>>)
    BY <1>11 DEF EmbedRow
  <2>2. p \in {"real", "hash"} /\ r \in {"real", "hash"}
    BY <2>1 DEF Vectors
  <2>3. cache' \in {"none", "real", "hash"} /\ fits' \in Seq({"real", "hash"} \X {"real", "hash"})
    BY <2>1, <2>2 DEF Embedded
  <2>4. todo' \in Nat
    BY <1>11 DEF EmbedRow
  <2>. QED
    BY <1>11, <2>3, <2>4 DEF EmbedRow, searching
<1>12. CASE UNCHANGED vars
  BY <1>12 DEF vars
<1>. QED
  BY <1>1, <1>2, <1>3, <1>4, <1>5, <1>6, <1>7, <1>8, <1>9, <1>10, <1>11, <1>12 DEF Next

LEMMA BoardInit == Init => BoardAtWork
BY BoardAssumption DEF Init, BoardAtWork

(* The types of the state, for any boards and limits.                      *)
THEOREM TypeCorrect == Spec => []TypeOK
<1>1. Init => TypeOK /\ BoardAtWork
  BY TypeInit, BoardInit
<1>2. TypeOK /\ BoardAtWork /\ [Next]_vars => (TypeOK /\ BoardAtWork)'
  BY TypeStep
<1>. QED
  BY <1>1, <1>2, PTL DEF Spec

-----------------------------------------------------------------------------

LEMMA CollectedInit == Init => Collected /\ InsertsAreDistinct /\ kept = found
BY DEF Init, Collected, InsertsAreDistinct

(* One more listing that is new keeps the collection good.                 *)
LEMMA OneMore ==
  ASSUME TypeOK, Collected, InsertsAreDistinct, stage \in Early, stage' \in Early,
         NEW l \in Listings, New(l),
         combined' = Append(combined, l), inserts' = inserts
  PROVE  Collected' /\ InsertsAreDistinct'
<1>1. inserts = <<>>
  BY DEF Collected
<1>2. \A i \in DOMAIN combined : combined[i].url # l.url
  BY DEF New, HasUrl
<1>3. \A i \in DOMAIN combined' :
        \/ i = Len(combined) + 1 /\ combined'[i] = l
        \/ i \in DOMAIN combined /\ combined'[i] = combined[i]
  BY AppendFacts DEF TypeOK
<1>4. is_keepable(l)
  BY DEF New
<1>5. ASSUME NEW i \in DOMAIN combined', NEW j \in DOMAIN combined',
             combined'[i].url = combined'[j].url
      PROVE  i = j
  BY <1>2, <1>3, <1>5 DEF Collected
<1>6. \A i \in DOMAIN combined' : is_keepable(combined'[i])
  BY <1>3, <1>4 DEF Collected
<1>. QED
  BY <1>1, <1>5, <1>6
     DEF Collected, InsertsAreDistinct, is_keepable, is_phd_vacancy, infer_country

(* What is_keepable lets through is_allowed_country lets through too.      *)
LEMMA FiltersAgree ==
  ASSUME NEW l, is_keepable(l) PROVE Stored(l)
BY DEF is_keepable, is_allowed_country, Stored

(* The head of the collection is inserted or updated, and is gone from it. *)
LEMMA UpsertKeeps ==
  ASSUME TypeOK, Collected, InsertsAreDistinct, kept = found, upsert_listing
  PROVE  Collected' /\ InsertsAreDistinct' /\ kept' = found'
<1>1. combined # <<>> /\ stage' = stage /\ stage = "store"
  BY DEF upsert_listing
<1>2. /\ Head(combined) = combined[1] /\ 1 \in DOMAIN combined
      /\ \A i \in DOMAIN Tail(combined) :
           i \in Nat /\ i + 1 \in DOMAIN combined /\ Tail(combined)[i] = combined[i + 1]
             /\ i + 1 # 1
  BY <1>1, TailFacts DEF TypeOK
<1>3. Stored(Head(combined))
  BY <1>2, FiltersAgree DEF Collected
<1>4. /\ combined' = Tail(combined)
      /\ kept' = kept + 1 /\ found' = found + 1
      /\ inserts' = inserts \/ inserts' = Append(inserts, Head(combined).url)
  BY <1>3 DEF upsert_listing
<1>5. \A k \in DOMAIN inserts' :
        \/ k = Len(inserts) + 1 /\ inserts'[k] = combined[1].url
        \/ k \in DOMAIN inserts /\ inserts'[k] = inserts[k]
  <2>1. combined[1].url \in Urls
    <3>1. combined[1] \in Listings
      BY <1>2 DEF TypeOK
    <3>. QED
      BY <3>1 DEF Listings
  <2>2. inserts \in Seq(Urls)
    BY DEF TypeOK
  <2>3. CASE inserts' = inserts
    BY <2>3
  <2>4. CASE inserts' = Append(inserts, Head(combined).url)
    BY <1>2, <2>1, <2>2, <2>4, AppendFacts
  <2>. QED
    BY <1>4, <2>3, <2>4
<1>6. ASSUME NEW i \in DOMAIN combined', NEW j \in DOMAIN combined',
             combined'[i].url = combined'[j].url
      PROVE  i = j
  <2>1. i + 1 = j + 1
    BY <1>2, <1>4, <1>6 DEF Collected
  <2>2. i \in Nat /\ j \in Nat
    BY <1>2, <1>4
  <2>. QED
    BY <2>1, <2>2
<1>7. \A i \in DOMAIN combined' : is_keepable(combined'[i])
  BY <1>2, <1>4 DEF Collected
<1>8. ASSUME NEW i \in DOMAIN combined', NEW k \in DOMAIN inserts'
      PROVE  combined'[i].url # inserts'[k]
  <2>1. i + 1 \in DOMAIN combined /\ combined'[i] = combined[i + 1] /\ i + 1 # 1
    BY <1>2, <1>4
  <2>2. combined[i + 1].url # combined[1].url
    BY <1>2, <2>1 DEF Collected
  <2>. QED
    BY <1>5, <2>1, <2>2 DEF Collected
<1>9. ASSUME NEW i \in DOMAIN inserts', NEW j \in DOMAIN inserts', inserts'[i] = inserts'[j]
      PROVE  i = j
  <2>1. \A k \in DOMAIN inserts : inserts[k] # combined[1].url
    BY <1>2 DEF Collected
  <2>. QED
    BY <1>5, <1>9, <2>1 DEF InsertsAreDistinct
<1>10. kept' = found'
  BY <1>4
<1>. QED
  BY <1>1, <1>6, <1>7, <1>8, <1>9, <1>10
     DEF Collected, InsertsAreDistinct, Early, is_keepable, is_phd_vacancy, infer_country

LEMMA CollectedStep ==
  ASSUME TypeOK, Collected, InsertsAreDistinct, kept = found, [Next]_vars
  PROVE  Collected' /\ InsertsAreDistinct' /\ kept' = found'
<1>u. ASSUME UNCHANGED <<combined, inserts, found, kept>>, stage' \in Early => stage \in Early
      PROVE  Collected' /\ InsertsAreDistinct' /\ kept' = found'
  BY <1>u DEF Collected, InsertsAreDistinct, is_keepable, is_phd_vacancy, infer_country
<1>1. CASE \/ ShowCard \/ NextBoard \/ BoardsDone \/ BoardRaises \/ Filtered
           \/ AskProvider \/ PassProvider \/ ProviderRaises \/ Searched
           \/ DropHit \/ FetchRaises \/ Fetched \/ StoreDone \/ EmbedRow \/ EmbedDone
           \/ UNCHANGED vars
  <2>1. /\ UNCHANGED <<combined, inserts, found, kept>>
        /\ stage' \in Early => stage \in Early
    BY <1>1 DEF ShowCard, NextBoard, BoardsDone, BoardRaises, Filtered, AskProvider,
       PassProvider, ProviderRaises, Searched, DropHit, FetchRaises, Fetched, StoreDone,
       EmbedRow, EmbedDone, vars, storing, searching, Early
  <2>. QED
    BY <1>u, <2>1
<1>2. CASE Filter
  <2>1. /\ stage = "filter" /\ stage' = "filter" /\ inserts' = inserts
        /\ found' = found /\ kept' = kept
        /\ Head(listings) \in Listings
    BY <1>2, TailFacts DEF Filter, storing, TypeOK
  <2>2. CASE New(Head(listings))
    <3>1. combined' = Append(combined, Head(listings))
      BY <1>2, <2>2 DEF Filter
    <3>. QED
      BY <2>1, <2>2, <3>1, OneMore DEF Early
  <2>3. CASE ~New(Head(listings))
    BY <1>2, <1>u, <2>1, <2>3 DEF Filter
  <2>. QED
    BY <2>2, <2>3
<1>3. CASE FetchHit
  <2>1. /\ stage = "fetch" /\ stage' = "fetch" /\ inserts' = inserts
        /\ found' = found /\ kept' = kept
        /\ Head(hits) \in Hits
    BY <1>3, TailFacts DEF FetchHit, storing, TypeOK
  <2>2. CASE combined' = combined
    BY <1>u, <2>1, <2>2
  <2>3. CASE combined' # combined
    <3>1. PICK url \in fetch_page(Head(hits)) : \E local \in extract_local(url) :
             \E final \in extract_with_groq(local) :
               New(final) /\ combined' = Append(combined, final)
      BY <1>3, <2>3 DEF FetchHit, Accepted
    <3>2. PICK local \in extract_local(url) : \E final \in extract_with_groq(local) :
            New(final) /\ combined' = Append(combined, final)
      BY <3>1
    <3>3. PICK final \in extract_with_groq(local) :
            New(final) /\ combined' = Append(combined, final)
      BY <3>2
    <3>4. final \in Listings
      BY <2>1, FetchedType
    <3>. QED
      BY <2>1, <3>3, <3>4, OneMore DEF Early
  <2>. QED
    BY <2>2, <2>3
<1>4. CASE upsert_listing
  BY <1>4, UpsertKeeps
<1>. QED
  BY <1>1, <1>2, <1>3, <1>4 DEF Next

LEMMA Collecting == Spec => [](Collected /\ InsertsAreDistinct /\ kept = found)
<1>1. Init => TypeOK /\ BoardAtWork /\ Collected /\ InsertsAreDistinct /\ kept = found
  BY TypeInit, BoardInit, CollectedInit
<1>2. TypeOK /\ BoardAtWork /\ Collected /\ InsertsAreDistinct /\ kept = found /\ [Next]_vars
        => (TypeOK /\ BoardAtWork /\ Collected /\ InsertsAreDistinct /\ kept = found)'
  BY TypeStep, CollectedStep
<1>. QED
  BY <1>1, <1>2, PTL DEF Spec

(* No source_url is inserted twice, whatever boards and pages show and     *)
(* however many there are (discovery/pipeline.py, upsert_listing).         *)
THEOREM DistinctInserts == Spec => []InsertsAreDistinct
BY Collecting, PTL

(* kept_count says what found_count says.                                  *)
THEOREM EverythingIsKept == Spec => []KeptIsFound
<1>1. kept = found => KeptIsFound
  BY DEF KeptIsFound
<1>. QED
  BY <1>1, Collecting, PTL

-----------------------------------------------------------------------------

(* All rows of a run are compared with one vector, whenever the embedding  *)
(* API fails (router.embed keeps the fallback it gave first).              *)
THEOREM OneYardstick == Spec => []SameYardstick
<1>1. Init => TypeOK /\ BoardAtWork /\ Measured
  BY TypeInit, BoardInit DEF Init, Measured
<1>2. ASSUME TypeOK, Measured, [Next]_vars PROVE Measured'
  <2>1. CASE EmbedRow
    <3>1. PICK p \in IF cache = "none" THEN Vectors ELSE {cache}, r \in Vectors :
            cache' = p /\ fits' = Append(fits, <<p, r>>)
      BY <2>1 DEF EmbedRow, Embedded
    <3>2. p \in {"real", "hash"} /\ r \in {"real", "hash"}
      <4>1. Vectors \subseteq {"real", "hash"}
        BY DEF Vectors
      <4>2. cache # "none" => cache \in {"real", "hash"}
        BY <1>2 DEF TypeOK
      <4>3. r \in Vectors /\ (p \in Vectors \/ (cache # "none" /\ p = cache))
        BY <3>1
      <4>. QED
        BY <4>1, <4>2, <4>3
    <3>3. \A i \in DOMAIN fits : fits[i][1] = p
      <4>1. CASE cache = "none"
        BY <1>2, <4>1 DEF Measured
      <4>2. CASE cache # "none"
        BY <1>2, <3>1, <4>2 DEF Measured
      <4>. QED
        BY <4>1, <4>2
    <3>4. \A i \in DOMAIN fits' :
            fits'[i] = <<p, r>> \/ (i \in DOMAIN fits /\ fits'[i] = fits[i])
      BY <1>2, <3>1, <3>2, AppendFacts DEF TypeOK
    <3>5. cache' = p /\ p # "none"
      BY <3>1, <3>2
    <3>6. \A i \in DOMAIN fits' : fits'[i][1] = p
      BY <3>3, <3>4
    <3>. QED
      BY <3>5, <3>6 DEF Measured
  <2>2. CASE ~EmbedRow
    <3>1. UNCHANGED <<cache, fits>>
      BY <1>2, <2>2 DEF Next, ShowCard, NextBoard, BoardsDone, BoardRaises, Filter, Filtered,
         AskProvider, PassProvider, ProviderRaises, Searched, DropHit, FetchHit, FetchRaises,
         Fetched, upsert_listing, StoreDone, EmbedDone, vars, storing
    <3>. QED
      BY <1>2, <3>1 DEF Measured
  <2>. QED
    BY <2>1, <2>2
<1>3. TypeOK /\ BoardAtWork /\ Measured /\ [Next]_vars => (TypeOK /\ BoardAtWork /\ Measured)'
  BY <1>2, TypeStep
<1>4. Measured => SameYardstick
  BY DEF Measured, SameYardstick
<1>. QED
  BY <1>1, <1>3, <1>4, PTL DEF Spec

-----------------------------------------------------------------------------

LEMMA ThinStep ==
  ASSUME TypeOK, BoardAtWork, Thin, [Next]_vars PROVE Thin'
<1>1. CASE Filtered
  <2>1. stage' = "search" => Len(combined) < MinResults
    BY <1>1, DiscoverAssumption DEF Filtered, Enough, TypeOK
  <2>2. source' = 1 /\ combined' = combined
    BY <1>1 DEF Filtered
  <2>. QED
    BY <2>1, <2>2 DEF Thin
<1>2. CASE AskProvider
  <2>1. /\ stage = "search" /\ combined' = combined /\ source' = source + 1
        /\ asked' = asked \cup {Providers[source]} /\ source <= Len(Providers)
    BY <1>2 DEF AskProvider
  <2>2. source \in 1..4
    BY <2>1, ProvidersFacts DEF TypeOK, BoardAtWork
  <2>3. PICK hs \in Answers(Providers[source]) : hits' = hits \o hs
    BY <1>2 DEF AskProvider
  <2>4. hs \in Seq(Hits)
    BY <2>2, ProvidersFacts, AnswersType
  <2>5. Len(hits') >= Len(hits) /\ Len(hits) \in Nat
    BY <2>3, <2>4 DEF TypeOK
  <2>6. need' = need /\ need \in Nat
    BY <2>1, DiscoverAssumption DEF need, TypeOK
  <2>7. source = 1 => Providers[source] = "duckduckgo"
    BY ProvidersFacts
  <2>8. source = 2 => Providers[source] = "brave"
    BY ProvidersFacts
  <2>. QED
    BY <2>1, <2>2, <2>5, <2>6, <2>7, <2>8 DEF Thin
<1>3. CASE PassProvider
  <2>1. /\ stage = "search" /\ source' = source + 1 /\ source <= Len(Providers)
        /\ ~Wanted(Providers[source])
        /\ UNCHANGED <<combined, hits, asked>>
    BY <1>3 DEF PassProvider, searching
  <2>2. source \in 1..4
    BY <2>1, ProvidersFacts DEF TypeOK, BoardAtWork
  <2>3. need' = need /\ need \in Nat /\ Len(hits) \in Nat
    BY <2>1, DiscoverAssumption DEF need, TypeOK
  <2>4. source # 1
    BY <2>1, ProvidersFacts DEF Wanted
  <2>5. source = 2 /\ "brave" \in Keys => Len(hits) >= need
    BY <2>1, <2>3, ProvidersFacts DEF Wanted
  <2>. QED
    BY <2>1, <2>2, <2>3, <2>4, <2>5 DEF Thin
<1>4. CASE UNCHANGED vars
  BY <1>4 DEF vars, Thin, need
<1>5. CASE ~(Filtered \/ AskProvider \/ PassProvider \/ UNCHANGED vars)
  <2>1. stage' # "search"
    BY <1>5 DEF Next, ShowCard, NextBoard, BoardsDone, BoardRaises, Filter, ProviderRaises,
       Searched, DropHit, FetchHit, FetchRaises, Fetched, upsert_listing, StoreDone, EmbedRow,
       EmbedDone, vars
  <2>. QED
    BY <2>1 DEF Thin
<1>. QED
  BY <1>1, <1>2, <1>3, <1>4, <1>5

(* Tavily, the paid provider, is asked only when what is free was asked    *)
(* and was not enough, whatever the boards and the limits are.             *)
THEOREM PaidLast == Spec => PaidOnlyWhenThin
<1>. DEFINE Paid == "tavily" \in asked' \ asked =>
                      /\ Len(combined) < MinResults
                      /\ Len(hits) < need
                      /\ "duckduckgo" \in asked
                      /\ "brave" \in Keys => "brave" \in asked
<1>1. Init => TypeOK /\ BoardAtWork /\ Thin
  BY TypeInit, BoardInit DEF Init, Thin
<1>2. TypeOK /\ BoardAtWork /\ Thin /\ [Next]_vars => (TypeOK /\ BoardAtWork /\ Thin)'
  BY TypeStep, ThinStep
<1>3. ASSUME TypeOK, BoardAtWork, Thin, [Next]_vars PROVE Paid
  <2>1. CASE AskProvider
    <3>1. SUFFICES ASSUME "tavily" \in asked' \ asked PROVE Paid
      OBVIOUS
    <3>2. /\ stage = "search" /\ Wanted(Providers[source])
          /\ asked' = asked \cup {Providers[source]} /\ source <= Len(Providers)
      BY <2>1 DEF AskProvider
    <3>3. source \in 1..4 /\ Providers[source] = "tavily"
      <4>1. source \in 1..4
        BY <1>3, <3>2, ProvidersFacts DEF TypeOK, BoardAtWork
      <4>2. Providers[source] = "tavily"
        BY <3>1, <3>2
      <4>. QED
        BY <4>1, <4>2
    <3>4. source = 3
      BY <3>3, ProvidersFacts
    <3>5. Len(hits) < need /\ Len(hits) \in Nat /\ need \in Nat
      BY <1>3, <3>2, <3>3, DiscoverAssumption DEF Wanted, need, TypeOK
    <3>6. /\ Len(combined) < MinResults /\ "duckduckgo" \in asked
          /\ "brave" \in Keys => "brave" \in asked
      BY <1>3, <3>2, <3>4, <3>5 DEF Thin
    <3>. QED
      BY <3>5, <3>6
  <2>2. CASE ~AskProvider
    <3>1. asked' = asked
      BY <1>3, <2>2 DEF Next, ShowCard, NextBoard, BoardsDone, BoardRaises, Filter, Filtered,
         PassProvider, ProviderRaises, Searched, DropHit, FetchHit, FetchRaises,
         Fetched, upsert_listing, StoreDone, EmbedRow, EmbedDone, vars, searching
    <3>. QED
      BY <3>1
  <2>. QED
    BY <2>1, <2>2
<1>4. TypeOK /\ BoardAtWork /\ Thin /\ [Next]_vars => [Paid]_vars
  BY <1>3
<1>. QED
  BY <1>1, <1>2, <1>4, PTL DEF Spec, PaidOnlyWhenThin

=============================================================================
