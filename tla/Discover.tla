------------------------------- MODULE Discover -------------------------------
(***************************************************************************)
(* One discovery run: discovery/pipeline.py over sources.py, web_search.py,*)
(* gemini.py, fetch.py and extract.py, then upsert_listing and the embed   *)
(* scores of discovery/service.py.  It is one thread; what is hard is what *)
(* the network answers: every board, provider and page is free to show     *)
(* anything or to fail.                                                    *)
(*                                                                         *)
(* A URL is a page and whether a query string follows; texts are reduced   *)
(* to what the filters read: does it look like a vacancy (PHD_HINTS and no *)
(* GUIDE_HINTS), and which country does normalize_country find in it.      *)
(***************************************************************************)
EXTENDS Naturals, Sequences, FiniteSets

CONSTANTS
  Pages,          \* pages on boards and on the web
  Relative,       \* what is left of a link that names no host
  Countries,      \* country codes
  NoCountry,      \* the empty code
  HostCountry,    \* country_from_host
  Allowed,        \* target_countries, {} for all
  Excluded,       \* excluded_countries
  Feeds,          \* extra rss_feeds of discovery.yaml, a sequence
  Keys,           \* which API keys are set: brave, tavily, gemini, groq, hf
  MinResults,     \* discovery_min_results
  NeedFloor,      \* the least number of hits asked for: 4 in the code
  FetchLimit,     \* discovery_fetch_limit
  Known,          \* source_urls in the table before the run
  MaxCards,       \* bound on the cards all boards show in one run
  MaxHits         \* bound on the hits of one provider

Urls == [page : Pages \cup {Relative}, query : BOOLEAN]
Codes == Countries \cup {NoCountry}
Texts == [phd : BOOLEAN, country : Codes]
Listings == [url : Urls, text : Texts]

ASSUME DiscoverAssumption ==
  /\ HostCountry \in [Pages \cup {Relative} -> Codes]
  /\ Known \subseteq Urls
  /\ NoCountry \notin Countries
  /\ MinResults \in Nat /\ NeedFloor \in Nat /\ FetchLimit \in Nat
  /\ MaxCards \in Nat /\ MaxHits \in Nat

VARIABLES
  stage,          \* boards, filter, search, fetch, store, embed, done or failed
  source,         \* index of the board or of the provider at work
  shown,          \* cards shown so far
  listings,       \* what the boards have given, in order
  combined,       \* what discover returns
  hits,           \* search hits still to be looked at
  tried,          \* pages of the hits that survived the deduplication
  asked,          \* providers that were called
  found, kept,    \* found_count and kept_count of the run
  inserts,        \* source_urls this run INSERTs, in order
  todo,           \* rows without an embed_fit
  cache,          \* the router's cached vector of the profile: its kind or "none"
  fits            \* for each embed_fit: the kinds of the two vectors compared

vars == <<stage, source, shown, listings, combined, hits, tried, asked,
          found, kept, inserts, todo, cache, fits>>

HasUrl(ls, u) == \E i \in DOMAIN ls : ls[i].url = u

(***************************************************************************)
(* sources.py: one record per board.  A guarded feed swallows what its     *)
(* parser raises.  An HTML board takes links that are absolute; it resolves*)
(* those that start with "/" and keeps others as they are ("resolve") or   *)
(* drops them ("strict"), or takes absolute links only ("absolute").       *)
(* place is the location of a card that has none, of every card if fixed.  *)
(***************************************************************************)

Rss(name, guarded) ==
  [name |-> name, links |-> "any", guarded |-> guarded, place |-> NoCountry, fixed |-> FALSE]

Html(name, links) ==
  [name |-> name, links |-> links, guarded |-> TRUE, place |-> NoCountry, fixed |-> FALSE]

Located(board, place) == [board EXCEPT !.place = place]
FixedAt(board, place) == [board EXCEPT !.place = place, !.fixed = TRUE]

search_euraxess == Rss("euraxess", FALSE)
search_findaphd == Html("findaphd", "resolve")
search_academictransfer == Rss("academictransfer", TRUE)
search_phdportal == Html("phdportal", "resolve")
search_academicpositions == Rss("academicpositions", TRUE)
search_academickeys == Html("academickeys", "strict")
search_myscience == Rss("myscience", TRUE)
search_jobs_ac_uk == Located(Html("jobs_ac_uk", "resolve"), "GB")
search_daad == FixedAt(Html("daad", "resolve"), "DE")
search_jobbnorge == FixedAt(Html("jobbnorge", "resolve"), "NO")
search_workindenmark == FixedAt(Html("workindenmark", "resolve"), "DK")
search_scholarshipdb == Html("scholarshipdb", "resolve")
search_nature_careers == Rss("nature_careers", TRUE)
search_science_careers == Rss("science_careers", TRUE)
search_higheredjobs == Html("higheredjobs", "resolve")
search_profellow == Html("profellow", "absolute")
search_researchtweet == Rss("researchtweet", TRUE)
search_fellowshipbard == Html("fellowshipbard", "absolute")

ALL_SOURCE_FUNCTIONS ==
  <<search_euraxess, search_findaphd, search_academictransfer, search_phdportal,
    search_academicpositions, search_academickeys, search_myscience, search_jobs_ac_uk,
    search_daad, search_jobbnorge, search_workindenmark, search_scholarshipdb,
    search_nature_careers, search_science_careers, search_higheredjobs, search_profellow,
    search_researchtweet, search_fellowshipbard>>

KnownNames == {ALL_SOURCE_FUNCTIONS[i].name : i \in DOMAIN ALL_SOURCE_FUNCTIONS}

_rss_generic(name) == Rss(name, FALSE)

(* The order of the calls: FindAPhD is called last, by discover itself.    *)
Boards ==
  LET builtin == SelectSeq(ALL_SOURCE_FUNCTIONS, LAMBDA b : b.name # "findaphd")
      extra == SelectSeq(Feeds, LAMBDA name : name \notin KnownNames)
  IN builtin \o [i \in DOMAIN extra |-> _rss_generic(extra[i])] \o <<search_findaphd>>

(* The boards' own countries are codes.                                    *)
ASSUME BoardAssumption ==
  /\ Boards # <<>>
  /\ Boards \in Seq([name : STRING, links : {"any", "resolve", "strict", "absolute"},
                     guarded : BOOLEAN, place : Codes, fixed : BOOLEAN])

(* What a card of a page, or an entry of a feed, may look like: its link is*)
(* missing, absolute, a path or anything else; it has a title or not; its  *)
(* text names a country or not; the place of the location is empty or not. *)
Cards == [href : {"none", "url", "path", "other"}, page : Pages, query : BOOLEAN,
          title : BOOLEAN, located : BOOLEAN, text : Texts]

Usable(board, card) ==
  /\ card.title
  /\ card.href # "none"
  /\ board.links = "strict" => card.href # "other"
  /\ board.links = "absolute" => card.href = "url"

(* An HTML board cuts the query string off; a feed's link is kept whole.   *)
CardUrl(board, card) ==
  CASE board.links = "any" -> [page |-> card.page, query |-> card.query]
    [] board.links # "any" /\ card.href = "other" -> [page |-> Relative, query |-> FALSE]
    [] OTHER -> [page |-> card.page, query |-> FALSE]

CardCountry(board, card) ==
  IF card.text.country = NoCountry /\ (board.fixed \/ ~card.located)
  THEN board.place ELSE card.text.country

RawListing(board, card) ==
  [url |-> CardUrl(board, card),
   text |-> [card.text EXCEPT !.country = CardCountry(board, card)]]

(***************************************************************************)
(* quality.py and scoring/rules.py: what is kept.                          *)
(***************************************************************************)

infer_country(l) == IF l.text.country # NoCountry THEN l.text.country ELSE HostCountry[l.url.page]

is_phd_vacancy(l) == l.text.phd

is_keepable(l) ==
  /\ is_phd_vacancy(l)
  /\ infer_country(l) # NoCountry =>
       /\ infer_country(l) \notin Excluded
       /\ Allowed # {} => infer_country(l) \in Allowed

is_allowed_country(code) ==
  /\ code # NoCountry => code \notin Excluded
  /\ Allowed = {} \/ code = NoCountry \/ code \in Allowed

(***************************************************************************)
(* _search_rss: the boards one after the other.                            *)
(***************************************************************************)

Init ==
  /\ stage = "boards" /\ source = 1 /\ shown = 0
  /\ listings = <<>> /\ combined = <<>>
  /\ hits = <<>> /\ tried = {} /\ asked = {}
  /\ found = 0 /\ kept = 0 /\ inserts = <<>> /\ todo = 0
  /\ cache = "none" /\ fits = <<>>

storing == <<found, kept, inserts, todo, cache, fits>>
searching == <<hits, tried, asked>>

(* The board at work shows one more card; within _search_rss a source_url  *)
(* that was seen is not added again.                                       *)
ShowCard ==
  /\ stage = "boards"
  /\ shown < MaxCards
  /\ shown' = shown + 1
  /\ \E card \in Cards :
       LET board == Boards[source]
           l == RawListing(board, card)
       IN /\ Usable(board, card)
          /\ ~HasUrl(listings, l.url) \/ board = search_findaphd
          /\ listings' = Append(listings, l)
  /\ UNCHANGED <<stage, source, combined, searching, storing>>

NextBoard ==
  /\ stage = "boards"
  /\ source < Len(Boards)
  /\ source' = source + 1
  /\ UNCHANGED <<stage, shown, listings, combined, searching, storing>>

BoardsDone ==
  /\ stage = "boards"
  /\ source = Len(Boards)
  /\ stage' = "filter"
  /\ UNCHANGED <<source, shown, listings, combined, searching, storing>>

(* feedparser raises in a feed that is not guarded: discover is left and   *)
(* run_discovery stores a failed run.                                      *)
BoardRaises ==
  /\ stage = "boards"
  /\ ~Boards[source].guarded
  /\ stage' = "failed"
  /\ UNCHANGED <<source, shown, listings, combined, searching, storing>>

(***************************************************************************)
(* discover: the listings of the boards are filtered; enough of them end   *)
(* the search.                                                             *)
(***************************************************************************)

(* Mutant of New: what was seen is not looked up again.                    *)
NewUnlooked(l) == is_keepable(l)

New(l) == ~HasUrl(combined, l.url) /\ is_keepable(l)

Filter ==
  /\ stage = "filter"
  /\ listings # <<>>
  /\ listings' = Tail(listings)
  /\ combined' = IF New(Head(listings)) THEN Append(combined, Head(listings)) ELSE combined
  /\ UNCHANGED <<stage, source, shown, searching, storing>>

(* Mutant of Enough: the search is always extended.                        *)
EnoughNever == FALSE

Enough == Len(combined) >= MinResults

Filtered ==
  /\ stage = "filter"
  /\ listings = <<>>
  /\ stage' = IF Enough THEN "store" ELSE "search"
  /\ source' = 1
  /\ UNCHANGED <<shown, listings, combined, searching, storing>>

(***************************************************************************)
(* _collect_search_hits: providers are called while hits are missing.      *)
(***************************************************************************)

Providers == <<"duckduckgo", "brave", "tavily", "gemini">>

need == IF Len(combined) + NeedFloor < MinResults THEN MinResults - Len(combined) ELSE NeedFloor

Wanted(p) == p = "duckduckgo" \/ (Len(hits) < need /\ p \in Keys)

(* A hit's host is on SKIP_HOST_FRAGMENTS ("social"), on skip_domains      *)
(* ("unwanted"), or neither.                                               *)
WebUrls == [page : Pages, query : BOOLEAN]
Hits == [url : WebUrls, host : {"ok", "social", "unwanted"}]

UpTo(limit, S) == {hs \in UNION {[1..n -> S] : n \in 0..MaxHits} : Len(hs) <= limit}

Unsocial == {h \in Hits : h.host # "social"}

search_duckduckgo(limit) == UpTo(limit, Unsocial)
search_brave(limit) == UpTo(limit, Unsocial)
search_tavily(limit) == UpTo(limit, Unsocial)

(* No URL twice; hosts are not looked at here.  An answer it cannot read   *)
(* raises (ProviderRaises).                                                *)
hits_from_response(limit) ==
  {hs \in UpTo(limit, Hits) : \A i, j \in DOMAIN hs : hs[i].url = hs[j].url => i = j}

(* An error of the call gives no hits.                                     *)
search_gemini_grounded(limit) == {<<>>} \cup hits_from_response(limit)

Answers(p) ==
  CASE p = "duckduckgo" -> search_duckduckgo(need)
    [] p = "brave" -> search_brave(need)
    [] p = "tavily" -> search_tavily(need)
    [] p = "gemini" -> search_gemini_grounded(need)

AskProvider ==
  /\ stage = "search"
  /\ source <= Len(Providers)
  /\ Wanted(Providers[source])
  /\ \E hs \in Answers(Providers[source]) : hits' = hits \o hs
  /\ asked' = asked \cup {Providers[source]}
  /\ source' = source + 1
  /\ UNCHANGED <<stage, shown, listings, combined, tried, storing>>

PassProvider ==
  /\ stage = "search"
  /\ source <= Len(Providers)
  /\ ~Wanted(Providers[source])
  /\ source' = source + 1
  /\ UNCHANGED <<stage, shown, listings, combined, searching, storing>>

(* The answer of Brave, Tavily or Gemini is parsed outside of the try.     *)
ProviderRaises ==
  /\ stage = "search"
  /\ source <= Len(Providers)
  /\ Providers[source] \in {"brave", "tavily", "gemini"}
  /\ Wanted(Providers[source])
  /\ stage' = "failed"
  /\ UNCHANGED <<source, shown, listings, combined, searching, storing>>

Searched ==
  /\ stage = "search"
  /\ source > Len(Providers)
  /\ stage' = "fetch"
  /\ UNCHANGED <<source, shown, listings, combined, searching, storing>>

(***************************************************************************)
(* The hits: skipped hosts and repeated pages are dropped, the rest is cut *)
(* at the fetch limit, and each is fetched, read and judged.               *)
(***************************************************************************)

is_skipped_url(h) == h.host # "ok"

(* _dedupe_hits goes by the URL without its query string.                  *)
Repeated(h) == h.url.page \in tried

Dropped(h) == is_skipped_url(h) \/ Repeated(h) \/ Cardinality(tried) >= FetchLimit

DropHit ==
  /\ stage = "fetch"
  /\ hits # <<>> /\ Dropped(Head(hits))
  /\ hits' = Tail(hits)
  /\ UNCHANGED <<stage, source, shown, listings, combined, tried, asked, storing>>

(* The URL of the page that was read: redirects may land anywhere, and a   *)
(* page that cannot be read leaves the hit's own.                          *)
fetch_page(h) == {h.url} \cup WebUrls

(* What the page, or else the hit's title and snippet, says; a result that *)
(* is no listing is one that does not look like a vacancy.                 *)
extract_local(url) == {[url |-> url, text |-> t] : t \in Texts}

(* A thin listing is replaced by what the model reads in the page, if it   *)
(* sees a position there.                                                  *)
extract_with_groq(l) ==
  {l} \cup IF "groq" \in Keys THEN {[l EXCEPT !.text = t] : t \in Texts} ELSE {}

(* Mutant of Accepted: the page is judged before the model has read it.    *)
AcceptedLocally(local, final) == ~HasUrl(combined, final.url) /\ is_keepable(local)

Accepted(local, final) == New(final)

FetchHit ==
  /\ stage = "fetch"
  /\ hits # <<>> /\ ~Dropped(Head(hits))
  /\ hits' = Tail(hits)
  /\ tried' = tried \cup {Head(hits).url.page}
  /\ \/ HasUrl(combined, Head(hits).url) /\ combined' = combined
     \/ /\ ~HasUrl(combined, Head(hits).url)
        /\ \E url \in fetch_page(Head(hits)) : \E local \in extract_local(url) :
             \E final \in extract_with_groq(local) :
               combined' = IF Accepted(local, final) THEN Append(combined, final) ELSE combined
  /\ UNCHANGED <<stage, source, shown, listings, asked, storing>>

(* router.complete raises: no key left, the budget, the network.           *)
FetchRaises ==
  /\ stage = "fetch"
  /\ hits # <<>> /\ ~Dropped(Head(hits)) /\ ~HasUrl(combined, Head(hits).url)
  /\ "groq" \in Keys
  /\ stage' = "failed"
  /\ UNCHANGED <<source, shown, listings, combined, searching, storing>>

Fetched ==
  /\ stage = "fetch"
  /\ hits = <<>>
  /\ stage' = "store"
  /\ UNCHANGED <<source, shown, listings, combined, searching, storing>>

(***************************************************************************)
(* run_discovery: what was found is upserted, then scored.                 *)
(***************************************************************************)

Stored(l) == is_keepable(l) /\ is_allowed_country(infer_country(l))

(* The lookup does not see what this session has added (autoflush is off). *)
Absent(l) == l.url \notin Known

(* An old row may lack its embed_fit.  Enrichment raises nothing.          *)
upsert_listing ==
  /\ stage = "store"
  /\ combined # <<>>
  /\ LET l == Head(combined) IN
       /\ kept' = kept + (IF Stored(l) THEN 1 ELSE 0)
       /\ \/ /\ Stored(l) /\ Absent(l)
             /\ inserts' = Append(inserts, l.url) /\ todo' = todo + 1
          \/ /\ Stored(l) /\ ~Absent(l)
             /\ inserts' = inserts /\ todo' \in {todo, todo + 1}
          \/ /\ ~Stored(l)
             /\ UNCHANGED <<inserts, todo>>
  /\ found' = found + 1
  /\ combined' = Tail(combined)
  /\ UNCHANGED <<stage, source, shown, listings, searching, cache, fits>>

StoreDone ==
  /\ stage = "store"
  /\ combined = <<>>
  /\ stage' = "embed"
  /\ UNCHANGED <<source, shown, listings, combined, searching, storing>>

(* router.embed: 384 dimensions from the API, or 256 of the hash trick     *)
(* without a token or when the call fails.                                 *)
Vectors == IF "hf" \in Keys THEN {"real", "hash"} ELSE {"hash"}

(* Mutant of Embedded: a fallback vector is not put into the cache.        *)
EmbeddedUnlessHashed(v) == IF v = "real" THEN v ELSE "none"

(* What the cache holds after a text was embedded.                         *)
Embedded(v) == v

(* alignment_score: the profile's vector comes from the cache after the    *)
(* first row, each row's is new.                                           *)
EmbedRow ==
  /\ stage = "embed"
  /\ todo > 0
  /\ todo' = todo - 1
  /\ \E p \in IF cache = "none" THEN Vectors ELSE {cache}, r \in Vectors :
       cache' = Embedded(p) /\ fits' = Append(fits, <<p, r>>)
  /\ UNCHANGED <<stage, source, shown, listings, combined, searching, found, kept, inserts>>

EmbedDone ==
  /\ stage = "embed"
  /\ todo = 0
  /\ stage' = "done"
  /\ UNCHANGED <<source, shown, listings, combined, searching, storing>>

Next ==
  \/ ShowCard \/ NextBoard \/ BoardsDone \/ BoardRaises
  \/ Filter \/ Filtered
  \/ AskProvider \/ PassProvider \/ ProviderRaises \/ Searched
  \/ DropHit \/ FetchHit \/ FetchRaises \/ Fetched
  \/ upsert_listing \/ StoreDone \/ EmbedRow \/ EmbedDone

Spec == Init /\ [][Next]_vars

(***************************************************************************)
(* Properties.                                                             *)
(***************************************************************************)

Stages == {"boards", "filter", "search", "fetch", "store", "embed", "done", "failed"}

TypeOK ==
  /\ stage \in Stages
  /\ source \in Nat /\ shown \in 0..MaxCards
  /\ listings \in Seq(Listings) /\ combined \in Seq(Listings)
  /\ hits \in Seq(Hits) /\ tried \subseteq Pages
  /\ asked \subseteq {Providers[i] : i \in DOMAIN Providers}
  /\ found \in Nat /\ kept \in Nat /\ todo \in Nat
  /\ inserts \in Seq(Urls)
  /\ cache \in {"none", "real", "hash"}
  /\ fits \in Seq({"real", "hash"} \X {"real", "hash"})

(* Boards overlap, links carry query strings and pages redirect, and yet   *)
(* no source_url is inserted twice in the one transaction of the run: the  *)
(* UNIQUE constraint would cost all of its listings (pipeline.py:191-226). *)
InsertsAreDistinct ==
  \A i, j \in DOMAIN inserts : inserts[i] = inserts[j] => i = j

(* discover and upsert_listing filter with different functions, and the    *)
(* model may replace a listing in between: what discover returns is all    *)
(* stored, so kept_count says what found_count says (service.py:121-139).  *)
KeptIsFound == stage \in {"embed", "done"} => kept = found

(* "Paid last resort. Only called when RSS + free search are thin."        *)
(* (web_search.py:121): whatever the boards and the free providers gave,   *)
(* Tavily is called only with fewer than MinResults listings that are kept *)
(* and fewer hits than wanted, and after the free search.                  *)
PaidOnlyWhenThin ==
  [][ "tavily" \in asked' \ asked =>
        /\ Len(combined) < MinResults
        /\ Len(hits) < need
        /\ "duckduckgo" \in asked
        /\ "brave" \in Keys => "brave" \in asked ]_vars

(* All embed_fits of a run are measured against the same vector of the     *)
(* profile, whichever calls to the embedding API fail (router.py:88-141).  *)
(* A row whose own vector is of the other kind scores 0.0 all the same.    *)
SameYardstick == \A i, j \in DOMAIN fits : fits[i][1] = fits[j][1]

=============================================================================
