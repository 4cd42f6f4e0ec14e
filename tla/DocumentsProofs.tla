--------------------------- MODULE DocumentsProofs ---------------------------
(* Theorems about Documents, for any workers, paths, contents and bounds. *)
EXTENDS Documents, WellFoundedInduction, TLAPS

Statuses == {"uploaded", "processing", "parsed", "failed"}
Updates == [doc : Ids, status : Statuses, facts : Facts]

-----------------------------------------------------------------------------

(* The first of a set of ids.                                              *)
LEMMA MinExists ==
  ASSUME NEW T, T \subseteq Nat, T # {}
  PROVE  \E d \in T : \A e \in T : d <= e
<1>. DEFINE R == OpToRel(<, Nat)
<1>1. IsWellFoundedOn(R, Nat)
  BY NatLessThanWellFounded
<1>2. \A x, y \in Nat : <<x, y>> \in R <=> x < y
  BY DEF OpToRel
<1>. HIDE DEF R
<1>3. PICK d \in T : \A e \in T : ~ (<<e, d>> \in R)
  BY <1>1, WFMin
<1>4. \A e \in T : ~(e < d)
  BY <1>2, <1>3
<1>5. \A e \in T : d <= e
  BY <1>4
<1>. QED
  BY <1>5

LEMMA CurrentLeft ==
  ASSUME NEW w \in Workers, job[w].left # {}, job[w].left \subseteq Ids
  PROVE  Current(w) \in job[w].left
<1>1. job[w].left \subseteq Nat
  BY DEF Ids
<1>2. \E d \in job[w].left : \A e \in job[w].left : d <= e
  BY <1>1, MinExists
<1>. QED
  BY <1>2 DEF Current

(* A row is no missing row.                                                *)
LEMMA RowFacts ==
  /\ \A r \in Row : r # NoRow
  /\ Unloaded \in Table
  /\ \A d \in Ids : Unloaded[d] = NoRow
<1>1. ASSUME NEW r \in Row PROVE r # NoRow
  <2>1. r.file # 0
    BY DocumentsAssumption DEF Row, Files
  <2>. QED
    BY <2>1 DEF NoRow
<1>. QED
  BY <1>1 DEF Unloaded, Table

LEMMA NoJobType == NoJob \in Job
<1>1. /\ "idle" \in Stages /\ Unloaded \in Table
  BY RowFacts DEF Stages
<1>. QED
  BY <1>1 DEF NoJob, Job

(* The types of the state without those of the history in the jobs.        *)
LEMMA TypeInit == Init => TypeOK
<1>1. 0 \in 0..MaxFiles /\ 0 \in 0..MaxRequests
  BY DocumentsAssumption
<1>. QED
  BY <1>1, NoJobType, RowFacts DEF Init, TypeOK

(* A job with another stage is a job.                                      *)
LEMMA GotoType ==
  ASSUME TypeOK, NEW w \in Workers, NEW s \in Stages, Goto(w, s)
  PROVE  job' \in [Workers -> Job]
<1>1. [job[w] EXCEPT !.stage = s] \in Job
  BY DEF TypeOK, Job
<1>. QED
  BY <1>1 DEF Goto, TypeOK

LEMMA BeginsType ==
  ASSUME TypeOK, NEW w \in Workers, NEW j \in Job, Begins(w, j)
  PROVE  job' \in [Workers -> Job] /\ requests' \in 0..MaxRequests
<1>1. requests < MaxRequests /\ requests' = requests + 1 /\ requests \in 0..MaxRequests
  BY DEF Begins, TypeOK
<1>2. requests' \in 0..MaxRequests
  BY <1>1, DocumentsAssumption
<1>. QED
  BY <1>2 DEF Begins, TypeOK

(* A commit of w to rows D, as the other handlers notice it.               *)
OthersNotice(w, D) ==
  \A v \in Workers : v # w =>
    /\ job'[v].stage = job[v].stage /\ job'[v].view = job[v].view
    /\ job'[v].left = job[v].left /\ job'[v].docs = job[v].docs
    /\ job'[v].new = job[v].new /\ job'[v].pending = job[v].pending
    /\ job'[v].crossed = job[v].crossed \cup D

LEMMA NoticedFacts ==
  ASSUME TypeOK, NEW w \in Workers, NEW jobs \in [Workers -> Job], NEW D \in SUBSET Ids,
         \A v \in Workers : v # w => jobs[v] = job[v],
         job' = Noticed(w, jobs, D)
  PROVE  /\ job' \in [Workers -> Job]
         /\ job'[w] = jobs[w]
         /\ OthersNotice(w, D)
<1>1. \A v \in Workers : job'[v] = IF v = w THEN jobs[v]
                                   ELSE [jobs[v] EXCEPT !.crossed = jobs[v].crossed \cup D]
  BY DEF Noticed
<1>2. \A v \in Workers : [jobs[v] EXCEPT !.crossed = jobs[v].crossed \cup D] \in Job
  BY DEF Job
<1>3. job' = [v \in Workers |-> job'[v]]
  BY DEF Noticed
<1>4. OthersNotice(w, D)
  <2>1. ASSUME NEW v \in Workers, v # w
        PROVE  job'[v] = [job[v] EXCEPT !.crossed = job[v].crossed \cup D] /\ job[v] \in Job
    BY <1>1, <2>1 DEF TypeOK
  <2>. QED
    BY <2>1 DEF OthersNotice, Job
<1>. QED
  BY <1>1, <1>2, <1>3, <1>4

(* The jobs after the commit that ends a handler.                          *)
LEMMA DoneFacts ==
  ASSUME TypeOK, NEW w \in Workers, NEW D \in SUBSET Ids,
         job' = Noticed(w, [job EXCEPT ![w].stage = "done"], D)
  PROVE  /\ job' \in [Workers -> Job]
         /\ job'[w].stage = "done" /\ job'[w].pending = job[w].pending
         /\ job'[w].docs = job[w].docs /\ job'[w].new = job[w].new
         /\ job'[w].crossed = job[w].crossed
         /\ OthersNotice(w, D)
<1>. DEFINE j == [job[w] EXCEPT !.stage = "done"]
            jobs == [job EXCEPT ![w] = j]
<1>1. job[w] \in Job /\ job \in [Workers -> Job]
  BY DEF TypeOK
<1>2. j \in Job
  BY <1>1 DEF Job, Stages
<1>3. /\ j.stage = "done" /\ j.pending = job[w].pending /\ j.docs = job[w].docs
      /\ j.new = job[w].new /\ j.crossed = job[w].crossed
  BY <1>1 DEF Job
<1>4. job' = Noticed(w, jobs, D)
  OBVIOUS
<1>. HIDE DEF j
<1>5. jobs \in [Workers -> Job] /\ jobs[w] = j /\ \A v \in Workers : v # w => jobs[v] = job[v]
  BY <1>1, <1>2
<1>. HIDE DEF jobs
<1>6. job' \in [Workers -> Job] /\ job'[w] = jobs[w] /\ OthersNotice(w, D)
  BY <1>4, <1>5, NoticedFacts
<1>. QED
  BY <1>3, <1>5, <1>6

(* What a commit of a build leaves of the rows.                            *)
Changed(view, updates) ==
  {u \in updates : u.status # view[u.doc].status \/ u.facts # view[u.doc].facts}

Docs(updates) == {u.doc : u \in updates}

(* The row after the UPDATE u of a session that has loaded old.            *)
Updated(new, row, old, u) ==
  /\ new.file = row.file /\ new.path = row.path /\ new.text = row.text
  /\ new.status = IF u.status = old.status THEN row.status ELSE u.status
  /\ new.facts = IF u.facts = old.facts THEN row.facts ELSE u.facts

LEMMA CommittedFacts ==
  ASSUME TypeOK, NEW w \in Workers, NEW view \in Table, NEW updates \in SUBSET Updates,
         NEW next \in Job, Committed(w, view, updates, next)
  PROVE  /\ TypeOK'
         /\ Docs(Changed(view, updates)) \in SUBSET Ids
         /\ Docs(Changed(view, updates)) \subseteq Existing
         /\ \A d \in Ids : d \notin Docs(Changed(view, updates)) => rows'[d] = rows[d]
         /\ \A d \in Docs(Changed(view, updates)) :
              /\ rows'[d] \in Row
              /\ \E u \in Changed(view, updates) :
                   u.doc = d /\ Updated(rows'[d], rows[d], view[d], u)
         /\ torn' = torn \cup (Docs(Changed(view, updates)) \cap job[w].crossed)
         /\ job'[w].view = Unloaded /\ job'[w].pending = {}
         /\ job'[w].stage = next.stage /\ job'[w].left = next.left
         /\ job'[w].docs = next.docs /\ job'[w].crossed = next.crossed
         /\ OthersNotice(w, Docs(Changed(view, updates)))
         /\ UNCHANGED <<evidence, files, stored, folder, requests, removed>>
<1>. DEFINE C == Changed(view, updates)
            W == Docs(C)
            r(d) == LET u == CHOOSE u \in C : u.doc = d IN
                    [rows[d] EXCEPT
                       !.status = IF u.status = view[d].status THEN rows[d].status ELSE u.status,
                       !.facts = IF u.facts = view[d].facts THEN rows[d].facts ELSE u.facts]
            j == [next EXCEPT !.view = Unloaded, !.pending = {}]
            jobs == [job EXCEPT ![w] = j]
<1>1. /\ W \subseteq Existing
      /\ rows' = [d \in Ids |-> IF d \in W THEN r(d) ELSE rows[d]]
      /\ torn' = torn \cup (W \cap job[w].crossed)
      /\ job' = Noticed(w, jobs, W)
      /\ UNCHANGED <<evidence, files, stored, folder, requests, removed>>
  BY DEF Committed, Changed, Docs, disk
<1>2. \A d \in W : \E u \in C : u.doc = d
  BY DEF Docs
<1>3. C \subseteq Updates /\ W \subseteq Ids
  BY DEF Changed, Docs, Updates
<1>4. /\ j \in Job /\ j.view = Unloaded /\ j.pending = {}
      /\ j.stage = next.stage /\ j.left = next.left /\ j.docs = next.docs
      /\ j.crossed = next.crossed
  BY RowFacts DEF Job
<1>5. /\ job' \in [Workers -> Job] /\ job'[w] = j /\ OthersNotice(w, W)
  <2>. HIDE DEF j, W
  <2>1. jobs \in [Workers -> Job] /\ jobs[w] = j /\ \A v \in Workers : v # w => jobs[v] = job[v]
    BY <1>4 DEF TypeOK
  <2>2. job' = Noticed(w, jobs, W) /\ W \in SUBSET Ids
    BY <1>1, <1>3
  <2>. HIDE DEF jobs
  <2>. QED
    BY <2>1, <2>2, NoticedFacts
<1>6. ASSUME NEW d \in W
      PROVE  \E u \in C : u.doc = d /\ rows'[d] =
                [rows[d] EXCEPT
                     !.status = IF u.status = view[d].status THEN rows[d].status ELSE u.status,
                     !.facts = IF u.facts = view[d].facts THEN rows[d].facts ELSE u.facts]
  <2>1. rows'[d] = r(d)
    BY <1>1, <1>3
  <2>. QED
    BY <1>2, <2>1
<1>7. ASSUME NEW d \in W
      PROVE  rows'[d] \in Row /\ \E u \in C : u.doc = d /\ Updated(rows'[d], rows[d], view[d], u)
  <2>1. PICK u \in C : u.doc = d /\ rows'[d] =
              [rows[d] EXCEPT
                   !.status = IF u.status = view[d].status THEN rows[d].status ELSE u.status,
                   !.facts = IF u.facts = view[d].facts THEN rows[d].facts ELSE u.facts]
    BY <1>6
  <2>2. u \in Updates /\ rows[d] \in Row
    BY <1>1, <1>3 DEF Existing, TypeOK, Table
  <2>. QED
    BY <2>1, <2>2 DEF Updates, Row, Statuses, Updated
<1>8. \A d \in Ids : d \notin W => rows'[d] = rows[d]
  BY <1>1
<1>9. rows' \in Table
  <2>. HIDE DEF W, r
  <2>1. rows' = [d \in Ids |-> rows'[d]]
    BY <1>1
  <2>. QED
    BY <1>7, <1>8, <2>1 DEF TypeOK, Table
<1>10. TypeOK'
  BY <1>1, <1>3, <1>5, <1>9 DEF TypeOK
<1>. HIDE DEF j, jobs
<1>. QED
  BY <1>1, <1>3, <1>4, <1>5, <1>7, <1>8, <1>10

-----------------------------------------------------------------------------

Building == {"look", "extract", "answer", "synthesize"}

(* What a build has in hand: the documents still to do, the one at work,   *)
(* and the facts of the one before, which the next commit takes along.     *)
(* And an import: paths, and the rows it will replace.                     *)
InHand(w) ==
  LET j == job[w] IN
  /\ j.stage \in Building => j.left \subseteq j.docs
  /\ j.stage \in {"extract", "answer"} => j.left # {}
  /\ j.stage = "answer" => j.view[Current(w)] # NoRow
  /\ j.stage = "synthesize" => j.left = {}
  /\ j.stage = "import" => /\ j.left \subseteq Paths
                           /\ \A n \in j.new : n.id # 0 => j.view[n.id] # NoRow
  /\ j.pending # {} => j.stage = "look"
  /\ \A u, t \in j.pending : u = t
  /\ \A u \in j.pending :
       /\ u.doc \in j.docs \ j.left
       /\ j.view[u.doc] # NoRow
       /\ u.facts \in {"error", j.view[u.doc].text}

LEMMA InHandInit == Init => \A w \in Workers : InHand(w)
BY DEF Init, InHand, NoJob, Building

(* The job at work, its document and what the session sees of it.          *)
LEMMA AtWork ==
  ASSUME TypeOK, NEW w \in Workers, InHand(w), job[w].stage \in Building, job[w].left # {}
  PROVE  /\ Current(w) \in job[w].left /\ Current(w) \in Ids /\ Current(w) \in job[w].docs
         /\ Seen(w, Current(w)) \in Row \cup {NoRow}
<1>1. job[w].docs \subseteq Ids /\ job[w].view \in Table /\ rows \in Table
  BY DEF TypeOK, Job
<1>2. Current(w) \in job[w].left /\ job[w].left \subseteq job[w].docs
  BY <1>1, CurrentLeft DEF InHand
<1>. QED
  BY <1>1, <1>2 DEF Seen, Table

(* The UPDATEs of a build.                                                 *)
LEMMA UpdateTypes ==
  ASSUME TypeOK, NEW w \in Workers
  PROVE  /\ job[w].pending \in SUBSET Updates
         /\ \A d \in Ids, r \in Row :
              /\ Update(d, "processing", r.facts) \in Updates
              /\ Update(d, "failed", "error") \in Updates
BY DEF TypeOK, Job, Update, Updates, Statuses, Facts, Row

(* Where the commits of a build are, and what they write.                  *)
LEMMA CommitsOfABuild ==
  ASSUME TypeOK, NEW w \in Workers, InHand(w)
  PROVE  /\ BuildMark(w) =>
              LET d == Current(w)
                  r == Seen(w, d)
                  view == [job[w].view EXCEPT ![d] = r]
                  updates == job[w].pending \cup {Update(d, "processing", r.facts)}
                  next == [job[w] EXCEPT !.stage = "extract"]
              IN /\ view \in Table /\ updates \in SUBSET Updates /\ next \in Job
                 /\ d \in Ids /\ r \in Row
                 /\ Committed(w, view, updates, next)
         /\ BuildNoText(w) =>
              LET d == Current(w)
                  r == Seen(w, d)
                  view == [job[w].view EXCEPT ![d] = r]
                  updates == job[w].pending \cup {Update(d, "failed", "error")}
                  next == [job[w] EXCEPT !.left = @ \ {d}]
              IN /\ view \in Table /\ updates \in SUBSET Updates /\ next \in Job
                 /\ d \in Ids /\ r \in Row
                 /\ Committed(w, view, updates, next)
         /\ BuildNoAnswer(w) =>
              LET d == Current(w)
                  updates == {Update(d, "failed", "error")}
                  next == [job[w] EXCEPT !.left = @ \ {d}, !.stage = "look"]
              IN /\ job[w].view \in Table /\ updates \in SUBSET Updates /\ next \in Job
                 /\ d \in Ids
                 /\ Committed(w, job[w].view, updates, next)
         /\ BuildParsed(w) =>
              LET next == [job[w] EXCEPT !.stage = "synthesize"]
              IN /\ job[w].view \in Table /\ job[w].pending \in SUBSET Updates /\ next \in Job
                 /\ Committed(w, job[w].view, job[w].pending, next)
<1>. DEFINE d == Current(w)
            r == Seen(w, d)
<1>0. job[w] \in Job /\ job[w].view \in Table /\ job[w].left \in SUBSET (Ids \cup Paths)
  BY DEF TypeOK, Job
<1>s. {"look", "extract", "synthesize"} \subseteq Stages
  BY DEF Stages
<1>n. /\ \A s \in Stages : [job[w] EXCEPT !.stage = s] \in Job
      /\ \A S \in SUBSET (Ids \cup Paths) : [job[w] EXCEPT !.left = S] \in Job
      /\ \A s \in Stages, S \in SUBSET (Ids \cup Paths) :
           [job[w] EXCEPT !.left = S, !.stage = s] \in Job
  BY <1>0 DEF Job
<1>l. job[w].left \ {d} \in SUBSET (Ids \cup Paths)
  BY <1>0
<1>v. ASSUME d \in Ids, r \in Row PROVE [job[w].view EXCEPT ![d] = r] \in Table
  <2>. HIDE DEF d, r
  <2>. QED
    BY <1>0, <1>v DEF Table
<1>1. ASSUME BuildMark(w)
      PROVE  /\ [job[w].view EXCEPT ![d] = r] \in Table
             /\ job[w].pending \cup {Update(d, "processing", r.facts)} \in SUBSET Updates
             /\ [job[w] EXCEPT !.stage = "extract"] \in Job
             /\ d \in Ids /\ r \in Row
             /\ Committed(w, [job[w].view EXCEPT ![d] = r],
                           job[w].pending \cup {Update(d, "processing", r.facts)},
                           [job[w] EXCEPT !.stage = "extract"])
  <2>1. At(w, "look") /\ job[w].left # {} /\ r # NoRow
    BY <1>1 DEF BuildMark
  <2>2. d \in Ids /\ r \in Row
    BY <2>1, AtWork DEF Building, At
  <2>3. Committed(w, [job[w].view EXCEPT ![d] = r],
                  job[w].pending \cup {Update(d, "processing", r.facts)},
                  [job[w] EXCEPT !.stage = "extract"])
    BY <1>1 DEF BuildMark
  <2>. HIDE DEF d, r
  <2>. QED
    BY <1>n, <1>s, <1>v, <2>2, <2>3, UpdateTypes
<1>2. ASSUME BuildNoText(w)
      PROVE  /\ [job[w].view EXCEPT ![d] = r] \in Table
             /\ job[w].pending \cup {Update(d, "failed", "error")} \in SUBSET Updates
             /\ [job[w] EXCEPT !.left = job[w].left \ {d}] \in Job
             /\ d \in Ids /\ r \in Row
             /\ Committed(w, [job[w].view EXCEPT ![d] = r],
                           job[w].pending \cup {Update(d, "failed", "error")},
                           [job[w] EXCEPT !.left = job[w].left \ {d}])
  <2>1. At(w, "look") /\ job[w].left # {} /\ r # NoRow
    BY <1>2 DEF BuildNoText
  <2>2. d \in Ids /\ r \in Row
    BY <2>1, AtWork DEF Building, At
  <2>3. Committed(w, [job[w].view EXCEPT ![d] = r],
                  job[w].pending \cup {Update(d, "failed", "error")},
                  [job[w] EXCEPT !.left = job[w].left \ {d}])
    BY <1>2 DEF BuildNoText
  <2>. HIDE DEF d, r
  <2>. QED
    BY <1>l, <1>n, <1>v, <2>2, <2>3, UpdateTypes
<1>3. ASSUME BuildNoAnswer(w)
      PROVE  /\ job[w].view \in Table
             /\ {Update(d, "failed", "error")} \in SUBSET Updates
             /\ [job[w] EXCEPT !.left = job[w].left \ {d}, !.stage = "look"] \in Job
             /\ d \in Ids
             /\ Committed(w, job[w].view, {Update(d, "failed", "error")},
                           [job[w] EXCEPT !.left = job[w].left \ {d}, !.stage = "look"])
  <2>1. job[w].stage \in Building /\ job[w].left # {}
    BY <1>3 DEF BuildNoAnswer, At, InHand, Building
  <2>2. d \in Ids
    BY <2>1, AtWork
  <2>3. Committed(w, job[w].view, {Update(d, "failed", "error")},
                  [job[w] EXCEPT !.left = job[w].left \ {d}, !.stage = "look"])
    BY <1>3 DEF BuildNoAnswer
  <2>4. Update(d, "failed", "error") \in Updates
    BY <2>2 DEF Update, Updates, Statuses, Facts
  <2>. HIDE DEF d, r
  <2>. QED
    BY <1>0, <1>l, <1>n, <1>s, <2>2, <2>3, <2>4
<1>4. ASSUME BuildParsed(w)
      PROVE  /\ job[w].view \in Table /\ job[w].pending \in SUBSET Updates
             /\ [job[w] EXCEPT !.stage = "synthesize"] \in Job
             /\ Committed(w, job[w].view, job[w].pending, [job[w] EXCEPT !.stage = "synthesize"])
  BY <1>4, <1>0, <1>n, <1>s, UpdateTypes DEF BuildParsed
<1>. QED
  BY <1>1, <1>2, <1>3, <1>4

-----------------------------------------------------------------------------

(* A step of w that commits nothing leaves the rows and the others alone.  *)
Quiet(w) ==
  /\ rows' = rows /\ torn' = torn
  /\ \A v \in Workers : v # w => job'[v] = job[v]

(* A commit of w to rows D.                                                *)
Loud(w, D) ==
  /\ \A d \in Ids : d \notin D => rows'[d] = rows[d]
  /\ OthersNotice(w, D)

LEMMA QuietSteps ==
  ASSUME TypeOK, NEW w \in Workers,
         \/ UploadSave(w) \/ UploadUnreadable(w)
         \/ ImportStart(w) \/ ImportSkip(w) \/ ImportSave(w) \/ ImportError(w)
         \/ DeleteFile(w) \/ BuildStart(w) \/ BuildReuse(w) \/ BuildExtract(w)
         \/ BuildAnswer(w) \/ BuildDone(w) \/ Stops(w)
  PROVE  Quiet(w)
<1>1. job = [v \in Workers |-> job[v]]
  BY DEF TypeOK
<1>2. CASE UploadSave(w) \/ UploadUnreadable(w)
  BY <1>1, <1>2 DEF UploadSave, UploadUnreadable, Begins, Goto, Quiet
<1>3. CASE ImportStart(w) \/ ImportSkip(w) \/ ImportError(w)
  BY <1>1, <1>3 DEF ImportStart, ImportSkip, ImportError, Begins, Quiet
<1>4. CASE ImportSave(w)
  BY <1>1, <1>4 DEF ImportSave, Quiet
<1>5. CASE DeleteFile(w) \/ BuildStart(w)
  BY <1>1, <1>5 DEF DeleteFile, BuildStart, Begins, Quiet
<1>6. CASE BuildReuse(w) \/ BuildExtract(w) \/ BuildAnswer(w)
  BY <1>1, <1>6 DEF BuildReuse, BuildExtract, BuildAnswer, Quiet
<1>7. CASE BuildDone(w) \/ Stops(w)
  BY <1>1, <1>7 DEF BuildDone, Stops, Quiet
<1>. QED
  BY <1>2, <1>3, <1>4, <1>5, <1>6, <1>7

(* What the steps of an import change.                                     *)
Saving(w, p, f, i) ==
  /\ p \in Paths
  /\ SavedAs(f)
  /\ i = 0 <=> RowsOf(p) = {}
  /\ job'[w].left = job[w].left \ {p}
  /\ job'[w].view = [d \in Ids |-> IF d \in RowsOf(p) THEN rows[d] ELSE job[w].view[d]]
  /\ job'[w].new = job[w].new \cup {[id |-> i, file |-> f, path |-> p, text |-> folder[p]]}

LEMMA ImportSaveFacts ==
  ASSUME TypeOK, NEW w \in Workers, InHand(w), ImportSave(w)
  PROVE  /\ job' \in [Workers -> Job]
         /\ job'[w].stage = "import" /\ At(w, "import")
         /\ job'[w].pending = job[w].pending /\ job'[w].crossed = job[w].crossed
         /\ job'[w].docs = job[w].docs
         /\ \E p \in job[w].left, f \in Files : \E i \in {0} \cup RowsOf(p) : Saving(w, p, f, i)
<1>. DEFINE i(p) == IF RowsOf(p) = {} THEN 0 ELSE CHOOSE d \in RowsOf(p) : TRUE
            v(p) == [d \in Ids |-> IF d \in RowsOf(p) THEN rows[d] ELSE job[w].view[d]]
            n(p, f) == [id |-> i(p), file |-> f, path |-> p, text |-> folder[p]]
<1>1. /\ At(w, "import")
      /\ \E p \in job[w].left, f \in Files :
           /\ SavedAs(f)
           /\ job' = [job EXCEPT ![w].left = @ \ {p}, ![w].view = v(p),
                                 ![w].new = @ \cup {n(p, f)}]
  BY DEF ImportSave
<1>2. PICK p \in job[w].left, f \in Files :
           /\ SavedAs(f)
           /\ job' = [job EXCEPT ![w].left = @ \ {p}, ![w].view = v(p),
                                 ![w].new = @ \cup {n(p, f)}]
  BY <1>1
<1>3. p \in Paths
  BY <1>1, <1>2 DEF InHand, At
<1>4. i(p) \in {0} \cup RowsOf(p) /\ (i(p) = 0 <=> RowsOf(p) = {})
  <2>1. 0 \notin RowsOf(p)
    BY DocumentsAssumption DEF RowsOf, Existing, Ids
  <2>. QED
    BY <2>1
<1>5. job \in [Workers -> Job] /\ job[w] \in Job
  BY DEF TypeOK
<1>6. v(p) \in Table /\ n(p, f) \in New
  <2>1. rows \in Table /\ job[w].view \in Table /\ folder[p] \in Contents /\ i(p) \in {0} \cup Ids
    BY <1>3, <1>4, <1>5 DEF TypeOK, Job, RowsOf, Existing
  <2>. HIDE DEF i
  <2>. QED
    BY <1>3, <2>1 DEF Table, New
<1>. DEFINE j == [job[w] EXCEPT !.left = job[w].left \ {p}, !.view = v(p),
                                !.new = job[w].new \cup {n(p, f)}]
<1>7. /\ j \in Job
      /\ j.stage = job[w].stage /\ j.pending = job[w].pending /\ j.crossed = job[w].crossed
      /\ j.docs = job[w].docs /\ j.left = job[w].left \ {p}
      /\ j.view = v(p) /\ j.new = job[w].new \cup {n(p, f)}
  <2>. HIDE DEF v, n
  <2>. QED
    BY <1>5, <1>6 DEF Job
<1>8. job' = [job EXCEPT ![w] = j]
  <2>. HIDE DEF v, n
  <2>. QED
    BY <1>2, <1>5 DEF Job
<1>9. job' \in [Workers -> Job] /\ job'[w] = j
  <2>. HIDE DEF j
  <2>. QED
    BY <1>5, <1>7, <1>8
<1>10. PICK x \in {0} \cup RowsOf(p) :
          /\ x = 0 <=> RowsOf(p) = {}
          /\ n(p, f) = [id |-> x, file |-> f, path |-> p, text |-> folder[p]]
  <2>1. n(p, f) = [id |-> i(p), file |-> f, path |-> p, text |-> folder[p]]
    OBVIOUS
  <2>. HIDE DEF i, n
  <2>. QED
    BY <1>4, <2>1
<1>. HIDE DEF j, n
<1>11. /\ job'[w].left = job[w].left \ {p} /\ job'[w].view = v(p)
       /\ job'[w].new = job[w].new \cup {[id |-> x, file |-> f, path |-> p, text |-> folder[p]]}
  BY <1>7, <1>9, <1>10
<1>12. job'[w].stage = "import" /\ At(w, "import")
  BY <1>1, <1>7, <1>9 DEF At
<1>13. Saving(w, p, f, x)
  BY <1>2, <1>3, <1>10, <1>11 DEF Saving
<1>. QED
  BY <1>7, <1>9, <1>12, <1>13

(* What the commit of an import changes: the rows W are replaced, the rows *)
(* I are new.                                                              *)
Imported(w, W, I) ==
  /\ At(w, "import")
  /\ W = {n.id : n \in {n \in job[w].new : n.id # 0}} /\ W \subseteq Existing
  /\ rows' \in Table
  /\ \A d \in Ids \ (W \cup I) : rows'[d] = rows[d]
  /\ \A d \in I : \E n \in job[w].new : rows'[d] = Inserted(n)
  /\ \A d \in W \ I : \E n \in job[w].new :
       n.id = d /\ rows'[d] = Replaced(rows[d], job[w].view[d], n)
  /\ torn' = (torn \ W) \cup (W \cap job[w].crossed)
  /\ job' = Noticed(w, [job EXCEPT ![w].stage = "done"], W \cup I)
  /\ UNCHANGED <<evidence, files, stored, folder, requests, removed>>

LEMMA ImportCommitFacts ==
  ASSUME TypeOK, NEW w \in Workers, ImportCommit(w)
  PROVE  \E W \in SUBSET Ids, I \in SUBSET Ids : Imported(w, W, I)
<1>. DEFINE updates == {n \in job[w].new : n.id # 0}
            inserts == {n \in job[w].new : n.id = 0}
            W == {n.id : n \in updates}
            R(give) == [d \in Ids |->
              IF \E n \in inserts : give[n] = d
              THEN Inserted(CHOOSE n \in inserts : give[n] = d)
              ELSE IF d \in W
              THEN Replaced(rows[d], job[w].view[d], CHOOSE n \in updates : n.id = d)
              ELSE rows[d]]
<1>1. /\ At(w, "import") /\ W \subseteq Existing
      /\ torn' = (torn \ W) \cup (W \cap job[w].crossed)
      /\ UNCHANGED <<evidence, files, stored, folder, requests, removed>>
  BY DEF ImportCommit, disk
<1>2. PICK give \in [inserts -> {d \in Ids : NextId <= d /\ d < NextId + Cardinality(inserts)}] :
        /\ rows' = R(give)
        /\ job' = Noticed(w, [job EXCEPT ![w].stage = "done"], W \cup {give[n] : n \in inserts})
  BY DEF ImportCommit
<1>. DEFINE I == {give[n] : n \in inserts}
<1>3. job' = Noticed(w, [job EXCEPT ![w].stage = "done"], W \cup I)
  BY <1>2
<1>4. I \subseteq Ids /\ W \subseteq Ids /\ job[w].new \subseteq New
      /\ rows \in Table /\ job[w].view \in Table
  BY <1>1, <1>2 DEF Existing, TypeOK, Job
<1>5. \A d \in Ids \ (W \cup I) : rows'[d] = rows[d]
  BY <1>2
<1>6. ASSUME NEW d \in I PROVE \E n \in job[w].new : rows'[d] = Inserted(n)
  <2>1. \E n \in inserts : give[n] = d
    OBVIOUS
  <2>. DEFINE c == CHOOSE n \in inserts : give[n] = d
  <2>2. c \in inserts
    BY <2>1
  <2>3. rows'[d] = Inserted(c)
    BY <1>2, <1>4, <2>1
  <2>. HIDE DEF c
  <2>. QED
    BY <2>2, <2>3
<1>7. ASSUME NEW d \in W \ I
      PROVE  \E n \in job[w].new : n.id = d /\ rows'[d] = Replaced(rows[d], job[w].view[d], n)
  <2>1. ~ \E n \in inserts : give[n] = d
    OBVIOUS
  <2>. DEFINE c == CHOOSE n \in updates : n.id = d
  <2>2. c \in updates /\ c.id = d
    OBVIOUS
  <2>3. rows'[d] = Replaced(rows[d], job[w].view[d], c)
    BY <1>2, <1>4, <2>1
  <2>. HIDE DEF c
  <2>. QED
    BY <2>2, <2>3
<1>8. rows' \in Table
  <2>1. \A n \in New : Inserted(n) \in Row
    BY DEF Inserted, New, Row, Facts
  <2>2. \A r \in Row, n \in New, old \in Row \cup {NoRow} : Replaced(r, old, n) \in Row
    BY DEF Replaced, New, Row, Facts
  <2>3. \A d \in I : rows'[d] \in Row
    BY <1>4, <1>6, <2>1
  <2>4. \A d \in W \ I : rows'[d] \in Row
    <3>1. ASSUME NEW d \in W \ I PROVE rows'[d] \in Row
      <4>1. PICK n \in job[w].new : rows'[d] = Replaced(rows[d], job[w].view[d], n)
        BY <1>7
      <4>2. rows[d] \in Row /\ job[w].view[d] \in Row \cup {NoRow} /\ n \in New
        <5>1. d \in Ids /\ d \in Existing
          BY <1>1, <1>4
        <5>. QED
          BY <1>4, <5>1 DEF Existing, Table
      <4>. QED
        BY <2>2, <4>1, <4>2
    <3>. QED
      BY <3>1
  <2>5. \A d \in Ids : rows'[d] \in Row \cup {NoRow}
    <3>1. \A d \in Ids : rows[d] \in Row \cup {NoRow}
      BY <1>4 DEF Table
    <3>. QED
      BY <1>5, <2>3, <2>4, <3>1
  <2>. HIDE DEF I, W
  <2>. QED
    BY <1>2, <2>5 DEF Table
<1>. HIDE DEF I, W
<1>9. W = {n.id : n \in {n \in job[w].new : n.id # 0}}
  BY DEF W
<1>10. Imported(w, W, I)
  BY <1>1, <1>3, <1>4, <1>5, <1>6, <1>7, <1>8, <1>9 DEF Imported
<1>. QED
  BY <1>4, <1>10

-----------------------------------------------------------------------------

(* TypeOK: one step per action. *)
LEMMA TypeStep ==
  ASSUME TypeOK, \A w \in Workers : InHand(w), [Next]_vars
  PROVE  TypeOK'
<1>0. CASE UNCHANGED vars
  BY <1>0 DEF vars, disk, TypeOK
<1>e. CASE Edit
  <2>1. PICK p \in Paths, c \in Contents : folder' = [folder EXCEPT ![p] = c]
    BY <1>e DEF Edit
  <2>. QED
    BY <1>e, <2>1 DEF Edit, TypeOK
<1>w. ASSUME NEW w \in Workers, Step(w)
      PROVE  TypeOK'
  <2>j. job[w] \in Job /\ InHand(w) /\ job[w].left \in SUBSET (Ids \cup Paths)
    BY DEF TypeOK, Job
  <2>s. /\ {"idle", "insert", "import", "delete", "look", "extract", "answer",
             "synthesize", "done"} = Stages
    BY DEF Stages
  <2>. DEFINE Rest == /\ rows \in Table /\ evidence \subseteq [doc : {0} \cup Ids, facts : Contents]
                      /\ files \subseteq Files /\ stored \in 0..MaxFiles
                      /\ folder \in [Paths -> Contents]
                      /\ requests \in 0..MaxRequests
                      /\ removed \subseteq Files /\ torn \subseteq Ids
  <2>r. Rest /\ (Rest' /\ job' \in [Workers -> Job] => TypeOK')
    BY DEF TypeOK
  <2>f. ASSUME NEW f \in Files, SavedAs(f)
        PROVE  files' \subseteq Files /\ stored' \in 0..MaxFiles
    BY <2>f, <2>r, DocumentsAssumption DEF SavedAs, Files
  <2>1. CASE UploadSave(w)
    <3>. DEFINE n(c, f) == [id |-> 0, file |-> f, path |-> NoPath, text |-> c]
                j(c, f) == [NoJob EXCEPT !.stage = "insert", !.new = {n(c, f)}]
    <3>1. PICK c \in Contents, f \in Files : SavedAs(f) /\ Begins(w, j(c, f))
      BY <2>1 DEF UploadSave
    <3>2. j(c, f) \in Job
      <4>1. n(c, f) \in New
        BY DEF New
      <4>. HIDE DEF n, Rest
      <4>. QED
        BY NoJobType, <2>s, <4>1 DEF Job
    <3>. HIDE DEF j
    <3>3. job' \in [Workers -> Job] /\ requests' \in 0..MaxRequests
      BY <3>1, <3>2, BeginsType
    <3>. QED
      BY <2>1, <2>f, <2>r, <3>1, <3>3 DEF UploadSave
  <2>2. CASE UploadUnreadable(w)
    <3>1. job' \in [Workers -> Job]
      BY <2>2, <2>s, GotoType DEF UploadUnreadable
    <3>. QED
      BY <2>2, <2>r, <3>1 DEF UploadUnreadable
  <2>3. CASE UploadInsert(w)
    <3>1. PICK n \in job[w].new :
            /\ rows' = [rows EXCEPT ![NextId] = Inserted(n)]
            /\ job' = Noticed(w, [job EXCEPT ![w].stage = "done"], {NextId})
      BY <2>3 DEF UploadInsert
    <3>2. Inserted(n) \in Row /\ NextId \in Ids
      BY <2>3, <2>j DEF UploadInsert, Inserted, Row, Job, New, Facts
    <3>3. rows' \in Table
      <4>. HIDE DEF Rest
      <4>. QED BY <3>1, <3>2 DEF TypeOK, Table
    <3>4. job' \in [Workers -> Job]
      BY <3>1, <3>2, DoneFacts
    <3>. QED
      BY <2>3, <2>r, <3>3, <3>4 DEF UploadInsert, disk
  <2>4. CASE ImportStart(w)
    <3>1. [NoJob EXCEPT !.stage = "import", !.left = Paths] \in Job
      BY NoJobType, <2>s DEF Job
    <3>2. job' \in [Workers -> Job] /\ requests' \in 0..MaxRequests
      BY <2>4, <3>1, BeginsType DEF ImportStart
    <3>. QED
      BY <2>4, <2>r, <3>2 DEF ImportStart, disk
  <2>5. CASE ImportSkip(w) \/ ImportError(w)
    <3>1. PICK p \in job[w].left : job' = [job EXCEPT ![w].left = @ \ {p}]
      BY <2>5 DEF ImportSkip, ImportError
    <3>2. job' = [job EXCEPT ![w] = [job[w] EXCEPT !.left = job[w].left \ {p}]]
      BY <3>1
    <3>3. [job[w] EXCEPT !.left = job[w].left \ {p}] \in Job
      BY <2>j DEF Job
    <3>4. job' \in [Workers -> Job]
      BY <3>2, <3>3 DEF TypeOK
    <3>5. files' \subseteq Files /\ stored' \in 0..MaxFiles
      BY <2>5, <2>f, <2>r DEF ImportSkip, ImportError, disk
    <3>. QED
      BY <2>5, <2>r, <3>4, <3>5 DEF ImportSkip, ImportError, disk
  <2>6. CASE ImportSave(w)
    <3>5. job' \in [Workers -> Job] /\ \E f \in Files : SavedAs(f)
      BY <2>6, <2>j, ImportSaveFacts DEF Saving
    <3>6. files' \subseteq Files /\ stored' \in 0..MaxFiles
      BY <2>f, <3>5
    <3>. QED
      BY <2>6, <2>r, <3>5, <3>6 DEF ImportSave
  <2>7. CASE ImportCommit(w)
    <3>1i. PICK W \in SUBSET Ids, I \in SUBSET Ids : Imported(w, W, I)
      BY <2>7, ImportCommitFacts
    <3>1. /\ rows' \in Table
          /\ torn' = (torn \ W) \cup (W \cap job[w].crossed)
          /\ job' = Noticed(w, [job EXCEPT ![w].stage = "done"], W \cup I)
          /\ UNCHANGED <<evidence, files, stored, folder, requests, removed>>
      BY <3>1i DEF Imported
    <3>2. job' \in [Workers -> Job]
      BY <3>1, DoneFacts
    <3>. QED
      BY <2>r, <3>1, <3>2
  <2>8. CASE DeleteFile(w)
    <3>1. PICK d \in Existing :
            /\ files' = files \ {rows[d].file} /\ removed' = removed \cup {rows[d].file}
            /\ Begins(w, [NoJob EXCEPT !.stage = "delete", !.docs = {d}])
      BY <2>8 DEF DeleteFile
    <3>2. d \in Ids /\ rows[d] \in Row
      BY DEF Existing, TypeOK, Table
    <3>3. [NoJob EXCEPT !.stage = "delete", !.docs = {d}] \in Job
      BY NoJobType, <2>s, <3>2 DEF Job
    <3>4. job' \in [Workers -> Job] /\ requests' \in 0..MaxRequests
      BY <3>1, <3>3, BeginsType
    <3>5. removed' \subseteq Files
      BY <2>r, <3>1, <3>2 DEF Row
    <3>. QED
      BY <2>8, <2>r, <3>1, <3>4, <3>5 DEF DeleteFile
  <2>9. CASE DeleteRow(w)
    <3>1. rows' \in Table
      BY <2>9 DEF DeleteRow, TypeOK, Table
    <3>2. evidence' \subseteq [doc : {0} \cup Ids, facts : Contents]
      BY <2>9, <2>r DEF DeleteRow
    <3>3. job[w].docs \in SUBSET Ids
      BY <2>j DEF Job
    <3>4. job' = Noticed(w, [job EXCEPT ![w].stage = "done"], job[w].docs)
      BY <2>9 DEF DeleteRow
    <3>5. job' \in [Workers -> Job]
      BY <3>3, <3>4, DoneFacts
    <3>. QED
      BY <2>9, <2>r, <3>1, <3>2, <3>5 DEF DeleteRow, disk
  <2>10. CASE BuildStart(w)
    <3>1. [NoJob EXCEPT !.stage = "look", !.view = rows, !.left = Existing, !.docs = Existing] \in Job
      BY NoJobType, <2>s, <2>r DEF Job, Existing
    <3>2. job' \in [Workers -> Job] /\ requests' \in 0..MaxRequests
      BY <2>10, <3>1, BeginsType DEF BuildStart
    <3>. QED
      BY <2>10, <2>r, <3>2 DEF BuildStart, disk
  <2>11. CASE BuildReuse(w)
    <3>. DEFINE d == Current(w)
    <3>1. /\ At(w, "look") /\ job[w].left # {} /\ Seen(w, d) # NoRow
          /\ job' = [job EXCEPT ![w].left = @ \ {d}, ![w].any = TRUE, ![w].view[d] = Seen(w, d)]
      BY <2>11 DEF BuildReuse
    <3>2. d \in Ids /\ Seen(w, d) \in Row
      BY <2>j, <3>1, AtWork DEF Building, At
    <3>. DEFINE j == [job[w] EXCEPT !.left = job[w].left \ {d}, !.any = TRUE,
                                    !.view = [job[w].view EXCEPT ![d] = Seen(w, d)]]
    <3>3. j \in Job
      <4>. HIDE DEF d, Rest
      <4>. QED
        BY <2>j, <3>2 DEF Job, Table
    <3>4. job' = [job EXCEPT ![w] = j]
      <4>. HIDE DEF d
      <4>1. job \in [Workers -> Job]
        BY DEF TypeOK
      <4>. QED
        BY <3>1, <4>1 DEF Job
    <3>5. job' \in [Workers -> Job]
      <4>. HIDE DEF j
      <4>. QED
        BY <3>3, <3>4 DEF TypeOK
    <3>. QED
      BY <2>11, <2>r, <3>5 DEF BuildReuse, disk
  <2>12. CASE BuildMark(w) \/ BuildNoText(w) \/ BuildNoAnswer(w) \/ BuildParsed(w)
    <3>1. \E view \in Table, updates \in SUBSET Updates, next \in Job :
            Committed(w, view, updates, next)
      BY <2>12, <2>j, CommitsOfABuild
    <3>. QED
      BY <3>1, CommittedFacts
  <2>13. CASE BuildExtract(w)
    <3>. DEFINE d == Current(w)
    <3>1. /\ At(w, "extract") /\ rows[d] # NoRow
          /\ job' = [job EXCEPT ![w].view[d] = rows[d], ![w].stage = "answer"]
      BY <2>13 DEF BuildExtract
    <3>2. d \in Ids /\ rows[d] \in Row
      <4>1. job[w].left # {}
        BY <2>j, <3>1 DEF InHand, At
      <4>2. d \in Ids
        BY <2>j, <3>1, <4>1, AtWork DEF Building, At
      <4>. QED
        BY <2>r, <3>1, <4>2 DEF Table
    <3>. DEFINE j == [job[w] EXCEPT !.stage = "answer",
                                    !.view = [job[w].view EXCEPT ![d] = rows[d]]]
    <3>3. j \in Job
      <4>. HIDE DEF d, Rest
      <4>. QED
        BY <2>j, <2>s, <3>2 DEF Job, Table
    <3>4. job' = [job EXCEPT ![w] = j]
      <4>. HIDE DEF d
      <4>1. job \in [Workers -> Job]
        BY DEF TypeOK
      <4>. QED
        BY <3>1, <4>1 DEF Job
    <3>5. job' \in [Workers -> Job]
      <4>. HIDE DEF j
      <4>. QED
        BY <3>3, <3>4 DEF TypeOK
    <3>. QED
      BY <2>13, <2>r, <3>5 DEF BuildExtract, disk
  <2>14. CASE BuildAnswer(w)
    <3>. DEFINE d == Current(w)
                j(f) == [job[w] EXCEPT !.pending = {Update(d, "parsed", f)}, !.any = TRUE,
                                       !.left = job[w].left \ {d}, !.stage = "look"]
    <3>1. At(w, "answer")
      BY <2>14 DEF BuildAnswer
    <3>2. PICK f \in {job[w].view[d].text, "error"} :
            job' = [job EXCEPT ![w].pending = {Update(d, "parsed", f)}, ![w].any = TRUE,
                               ![w].left = @ \ {d}, ![w].stage = "look"]
      BY <2>14 DEF BuildAnswer
    <3>3. d \in Ids /\ job[w].view[d] \in Row
      <4>1. job[w].left # {} /\ job[w].view[d] # NoRow
        BY <2>j, <3>1 DEF InHand, At
      <4>2. d \in Ids
        BY <2>j, <3>1, <4>1, AtWork DEF Building, At
      <4>. QED
        BY <2>j, <4>1, <4>2 DEF Job, Table
    <3>4. f \in Facts /\ Update(d, "parsed", f) \in [doc : Ids, status : {"parsed"}, facts : Facts]
      <4>1. f \in Facts
        BY <3>2, <3>3 DEF Row, Facts
      <4>. QED
        BY <3>3, <4>1 DEF Update
    <3>5. j(f) \in Job
      <4>. HIDE DEF d, Rest
      <4>. QED
        BY <2>j, <2>s, <3>4 DEF Job
    <3>6. job' = [job EXCEPT ![w] = j(f)]
      <4>. HIDE DEF d
      <4>1. job \in [Workers -> Job]
        BY DEF TypeOK
      <4>. QED
        BY <3>2, <4>1 DEF Job
    <3>7. job' \in [Workers -> Job]
      <4>. HIDE DEF j
      <4>. QED
        BY <3>5, <3>6 DEF TypeOK
    <3>. QED
      BY <2>14, <2>r, <3>7 DEF BuildAnswer, disk
  <2>15. CASE BuildDone(w)
    <3>1. job' \in [Workers -> Job]
      <4>1. [job[w] EXCEPT !.stage = "done"] \in Job
        BY <2>j, <2>s DEF Job
      <4>. QED
        BY <2>15, <4>1 DEF BuildDone, TypeOK
    <3>2. evidence' \subseteq [doc : {0} \cup Ids, facts : Contents]
      <4>1. job[w].docs \subseteq Existing
        BY <2>15 DEF BuildDone
      <4>2. \A d \in job[w].docs : d \in Ids /\ rows[d].facts \in Facts
        BY <4>1, <2>r DEF Existing, Table, Row
      <4>. QED
        BY <2>15, <4>2 DEF BuildDone, Facts
    <3>. QED
      BY <2>15, <2>r, <3>1, <3>2 DEF BuildDone, disk
  <2>16. CASE Stops(w)
    <3>1. job' \in [Workers -> Job]
      BY <2>16, NoJobType DEF Stops, TypeOK
    <3>. QED
      BY <2>16, <2>r, <3>1 DEF Stops, disk
  <2>. HIDE DEF Rest
  <2>. QED
    BY <1>w, <2>1, <2>2, <2>3, <2>4, <2>5, <2>6, <2>7, <2>8, <2>9, <2>10, <2>11, <2>12,
       <2>13, <2>14, <2>15, <2>16 DEF Step
<1>. QED
  BY <1>0, <1>e, <1>w DEF Next

-----------------------------------------------------------------------------

(* The job after a commit of a build.                                      *)
LEMMA BuildCommits ==
  ASSUME TypeOK, NEW w \in Workers, InHand(w)
  PROVE  /\ BuildMark(w) \/ BuildNoText(w) \/ BuildNoAnswer(w) \/ BuildParsed(w) =>
              /\ job'[w].view = Unloaded /\ job'[w].pending = {}
              /\ job'[w].docs = job[w].docs /\ job'[w].crossed = job[w].crossed
         /\ BuildMark(w) => job'[w].stage = "extract" /\ job'[w].left = job[w].left
         /\ BuildNoText(w) \/ BuildNoAnswer(w) =>
              job'[w].stage = "look" /\ job'[w].left = job[w].left \ {Current(w)}
         /\ BuildParsed(w) => job'[w].stage = "synthesize" /\ job'[w].left = job[w].left
<1>j. job[w] \in Job
  BY DEF TypeOK
<1>1. ASSUME NEW view \in Table, NEW updates \in SUBSET Updates, NEW next \in Job,
             Committed(w, view, updates, next)
      PROVE  /\ job'[w].view = Unloaded /\ job'[w].pending = {}
             /\ job'[w].docs = next.docs /\ job'[w].crossed = next.crossed
             /\ job'[w].stage = next.stage /\ job'[w].left = next.left
  BY <1>1, CommittedFacts
<1>2. CASE BuildMark(w)
  <2>. DEFINE next == [job[w] EXCEPT !.stage = "extract"]
  <2>1. \E view \in Table, updates \in SUBSET Updates : next \in Job /\ Committed(w, view, updates, next)
    BY <1>2, CommitsOfABuild
  <2>2. /\ next.docs = job[w].docs /\ next.crossed = job[w].crossed
        /\ next.stage = "extract" /\ next.left = job[w].left
    BY <1>j DEF Job
  <2>3. ~BuildNoText(w) /\ ~BuildNoAnswer(w) /\ ~BuildParsed(w)
    BY <1>2 DEF BuildMark, BuildNoText, BuildNoAnswer, BuildParsed, At
  <2>. HIDE DEF next
  <2>. QED
    BY <1>1, <2>1, <2>2, <2>3
<1>3. CASE BuildNoText(w)
  <2>. DEFINE next == [job[w] EXCEPT !.left = job[w].left \ {Current(w)}]
  <2>1. \E view \in Table, updates \in SUBSET Updates : next \in Job /\ Committed(w, view, updates, next)
    BY <1>3, CommitsOfABuild
  <2>2. /\ next.docs = job[w].docs /\ next.crossed = job[w].crossed
        /\ next.stage = "look" /\ next.left = job[w].left \ {Current(w)}
    BY <1>3, <1>j DEF Job, BuildNoText, At
  <2>3. ~BuildMark(w) /\ ~BuildParsed(w)
    BY <1>3 DEF BuildMark, BuildNoText, BuildParsed
  <2>. HIDE DEF next
  <2>. QED
    BY <1>1, <2>1, <2>2, <2>3
<1>4. CASE BuildNoAnswer(w)
  <2>. DEFINE next == [job[w] EXCEPT !.left = job[w].left \ {Current(w)}, !.stage = "look"]
  <2>1. \E view \in Table, updates \in SUBSET Updates : next \in Job /\ Committed(w, view, updates, next)
    BY <1>4, CommitsOfABuild
  <2>2. /\ next.docs = job[w].docs /\ next.crossed = job[w].crossed
        /\ next.stage = "look" /\ next.left = job[w].left \ {Current(w)}
    BY <1>4, <1>j DEF Job, BuildNoAnswer, At
  <2>3. ~BuildMark(w) /\ ~BuildParsed(w)
    BY <1>4 DEF BuildMark, BuildNoAnswer, BuildParsed, At
  <2>. HIDE DEF next
  <2>. QED
    BY <1>1, <2>1, <2>2, <2>3
<1>5. CASE BuildParsed(w)
  <2>. DEFINE next == [job[w] EXCEPT !.stage = "synthesize"]
  <2>1. \E view \in Table, updates \in SUBSET Updates : next \in Job /\ Committed(w, view, updates, next)
    BY <1>5, CommitsOfABuild
  <2>2. /\ next.docs = job[w].docs /\ next.crossed = job[w].crossed
        /\ next.stage = "synthesize" /\ next.left = job[w].left
    BY <1>j DEF Job
  <2>3. ~BuildMark(w) /\ ~BuildNoText(w) /\ ~BuildNoAnswer(w)
    BY <1>5 DEF BuildMark, BuildNoText, BuildNoAnswer, BuildParsed, At
  <2>. HIDE DEF next
  <2>. QED
    BY <1>1, <2>1, <2>2, <2>3
<1>. QED
  BY <1>2, <1>3, <1>4, <1>5

(* The steps that commit, and the rows they write.                         *)
LEMMA LoudSteps ==
  ASSUME TypeOK, NEW w \in Workers, InHand(w),
         \/ UploadInsert(w) \/ ImportCommit(w) \/ DeleteRow(w)
         \/ BuildMark(w) \/ BuildNoText(w) \/ BuildNoAnswer(w) \/ BuildParsed(w)
  PROVE  \E D \in SUBSET Ids : Loud(w, D)
<1>1. CASE UploadInsert(w)
  <2>1. NextId \in Ids /\ \A d \in Ids : d # NextId => rows'[d] = rows[d]
    BY <1>1 DEF UploadInsert, TypeOK, Table
  <2>2. job' = Noticed(w, [job EXCEPT ![w].stage = "done"], {NextId})
    BY <1>1 DEF UploadInsert
  <2>3. Loud(w, {NextId})
    BY <2>1, <2>2, DoneFacts DEF Loud
  <2>. QED
    BY <2>1, <2>3
<1>2. CASE ImportCommit(w)
  <2>1i. PICK W \in SUBSET Ids, I \in SUBSET Ids : Imported(w, W, I)
    BY <1>2, ImportCommitFacts
  <2>1. /\ \A d \in Ids \ (W \cup I) : rows'[d] = rows[d]
        /\ job' = Noticed(w, [job EXCEPT ![w].stage = "done"], W \cup I)
    BY <2>1i DEF Imported
  <2>2. W \cup I \in SUBSET Ids
    OBVIOUS
  <2>3. Loud(w, W \cup I)
    BY <2>1, <2>2, DoneFacts DEF Loud
  <2>. QED
    BY <2>2, <2>3
<1>3. CASE DeleteRow(w)
  <2>1. \A d \in Ids : d \notin job[w].docs => rows'[d] = rows[d]
    BY <1>3 DEF DeleteRow
  <2>2. job' = Noticed(w, [job EXCEPT ![w].stage = "done"], job[w].docs)
    BY <1>3 DEF DeleteRow
  <2>3. job[w].docs \in SUBSET Ids
    BY DEF TypeOK, Job
  <2>4. Loud(w, job[w].docs)
    BY <2>1, <2>2, <2>3, DoneFacts DEF Loud
  <2>. QED
    BY <2>3, <2>4
<1>4. CASE BuildMark(w) \/ BuildNoText(w) \/ BuildNoAnswer(w) \/ BuildParsed(w)
  <2>1. PICK view \in Table, updates \in SUBSET Updates, next \in Job :
          Committed(w, view, updates, next)
    BY <1>4, CommitsOfABuild
  <2>2. Docs(Changed(view, updates)) \in SUBSET Ids
    BY DEF Docs, Changed, Updates
  <2>3. Loud(w, Docs(Changed(view, updates)))
    BY <2>1, CommittedFacts DEF Loud
  <2>. QED
    BY <2>2, <2>3
<1>. QED
  BY <1>1, <1>2, <1>3, <1>4

(* What a session sees of a row is the row, until somebody else writes it. *)
Coherent(w) ==
  job[w].stage \in {"import", "look", "extract", "answer"} =>
    \A d \in Ids : job[w].view[d] # NoRow /\ d \notin job[w].crossed => rows[d] = job[w].view[d]

LEMMA OthersKeepTheirs ==
  ASSUME TypeOK, NEW w \in Workers, NEW v \in Workers, v # w, InHand(v), Coherent(v),
         Quiet(w) \/ \E D \in SUBSET Ids : Loud(w, D)
  PROVE  InHand(v)' /\ Coherent(v)'
<1>1. CASE Quiet(w)
  <2>1. job'[v] = job[v] /\ rows' = rows
    BY <1>1 DEF Quiet
  <2>2. Current(v)' = Current(v)
    BY <2>1 DEF Current
  <2>. QED
    BY <2>1, <2>2 DEF InHand, Coherent
<1>2. ASSUME NEW D \in SUBSET Ids, Loud(w, D) PROVE InHand(v)' /\ Coherent(v)'
  <2>1. /\ job'[v].stage = job[v].stage /\ job'[v].view = job[v].view
        /\ job'[v].left = job[v].left /\ job'[v].docs = job[v].docs
        /\ job'[v].new = job[v].new /\ job'[v].pending = job[v].pending
        /\ job'[v].crossed = job[v].crossed \cup D
    BY <1>2 DEF Loud, OthersNotice
  <2>2. Current(v)' = Current(v)
    BY <2>1 DEF Current
  <2>3. \A d \in Ids : d \notin D => rows'[d] = rows[d]
    BY <1>2 DEF Loud
  <2>4. InHand(v)'
    BY <2>1, <2>2 DEF InHand
  <2>5. Coherent(v)'
    BY <2>1, <2>3 DEF Coherent
  <2>. QED
    BY <2>4, <2>5
<1>. QED
  BY <1>1, <1>2

(* A handler that has ended, or has not begun, holds nothing.              *)
LEMMA Ended ==
  ASSUME NEW w \in Workers, job'[w].stage \in {"idle", "done", "insert", "delete"},
         job'[w].pending = {}
  PROVE  InHand(w)' /\ Coherent(w)'
BY DEF InHand, Coherent, Building

LEMMA OwnStep ==
  ASSUME TypeOK, NEW w \in Workers, InHand(w), Coherent(w), Step(w)
  PROVE  InHand(w)' /\ Coherent(w)'
<1>j. job \in [Workers -> Job] /\ job[w] \in Job /\ rows \in Table
  BY DEF TypeOK
<1>p. job[w].stage # "look" => job[w].pending = {}
  BY DEF InHand
<1>1. CASE UploadSave(w)
  <2>1. job'[w].stage = "insert" /\ job'[w].pending = {}
    BY <1>1, <1>j DEF UploadSave, Begins, NoJob
  <2>. QED
    BY <2>1, Ended
<1>2. CASE UploadUnreadable(w)
  <2>1. job'[w].stage = "done" /\ job'[w].pending = {}
    BY <1>2, <1>j, <1>p DEF UploadUnreadable, Goto, At, Job
  <2>. QED
    BY <2>1, Ended
<1>3. CASE UploadInsert(w)
  <2>1. /\ At(w, "insert") /\ NextId \in Ids
        /\ job' = Noticed(w, [job EXCEPT ![w].stage = "done"], {NextId})
    BY <1>3 DEF UploadInsert
  <2>2. job'[w].stage = "done" /\ job'[w].pending = {}
    BY <2>1, <1>p, DoneFacts DEF At
  <2>. QED
    BY <2>2, Ended
<1>4. CASE ImportStart(w)
  <2>1. job'[w] = [NoJob EXCEPT !.stage = "import", !.left = Paths]
    BY <1>4, <1>j DEF ImportStart, Begins
  <2>. QED
    BY <2>1, RowFacts DEF InHand, Coherent, NoJob, Building
<1>5. CASE ImportSkip(w) \/ ImportError(w)
  <2>1. At(w, "import") /\ rows' = rows
    BY <1>5 DEF ImportSkip, ImportError
  <2>2. PICK p \in job[w].left : job' = [job EXCEPT ![w].left = @ \ {p}]
    BY <1>5 DEF ImportSkip, ImportError
  <2>3. /\ job'[w].stage = "import" /\ job'[w].view = job[w].view
        /\ job'[w].left \subseteq job[w].left
        /\ job'[w].new = job[w].new /\ job'[w].pending = job[w].pending
        /\ job'[w].crossed = job[w].crossed
    BY <2>1, <2>2, <1>j DEF At, Job
  <2>. QED
    BY <2>1, <2>3, <1>p DEF InHand, Coherent, Building, At
<1>6. CASE ImportSave(w)
  <2>. DEFINE V(p) == [d \in Ids |-> IF d \in RowsOf(p) THEN rows[d] ELSE job[w].view[d]]
              n(i, f, p) == [id |-> i, file |-> f, path |-> p, text |-> folder[p]]
  <2>1. PICK p \in job[w].left, f \in Files : \E i \in {0} \cup RowsOf(p) : Saving(w, p, f, i)
    BY <1>6, ImportSaveFacts
  <2>2i. PICK i \in {0} \cup RowsOf(p) : Saving(w, p, f, i)
    BY <2>1
  <2>2. /\ job'[w].left = job[w].left \ {p} /\ job'[w].view = V(p)
        /\ job'[w].new = job[w].new \cup {n(i, f, p)}
    BY <2>2i DEF Saving
  <2>3. rows' = rows
    BY <1>6 DEF ImportSave
  <2>4. /\ job'[w].stage = "import" /\ At(w, "import") /\ job'[w].view = V(p)
        /\ job'[w].left = job[w].left \ {p}
        /\ job'[w].pending = {} /\ job'[w].crossed = job[w].crossed
    BY <1>6, <1>p, <2>2, ImportSaveFacts DEF At
  <2>5. \A d \in RowsOf(p) : d \in Ids /\ rows[d] # NoRow
    BY DEF RowsOf, Existing
  <2>6. \A d \in Ids : job[w].view[d] # NoRow => V(p)[d] # NoRow
    BY <2>5
  <2>7. \A m \in job[w].new : m.id # 0 => m.id \in Ids /\ job[w].view[m.id] # NoRow
    BY <1>j, <2>4 DEF InHand, At, Job, New
  <2>8. \A m \in job[w].new \cup {n(i, f, p)} : m.id # 0 => V(p)[m.id] # NoRow
    <3>1. i # 0 => V(p)[i] # NoRow
      BY <2>5
    <3>. QED
      BY <2>6, <2>7, <3>1
  <2>9. InHand(w)'
    <3>1. job[w].left \subseteq Paths
      BY <2>4 DEF InHand, At
    <3>. HIDE DEF V, n
    <3>. QED
      BY <2>2, <2>4, <2>8, <3>1 DEF InHand, Building
  <2>10. Coherent(w)'
    BY <2>3, <2>4 DEF Coherent, At
  <2>. QED
    BY <2>9, <2>10
<1>7. CASE ImportCommit(w)
  <2>1i. PICK W \in SUBSET Ids, I \in SUBSET Ids : Imported(w, W, I)
    BY <1>7, ImportCommitFacts
  <2>1. /\ At(w, "import") /\ job' = Noticed(w, [job EXCEPT ![w].stage = "done"], W \cup I)
    BY <2>1i DEF Imported
  <2>2. job'[w].stage = "done" /\ job'[w].pending = {}
    BY <2>1, <1>p, DoneFacts DEF At
  <2>. QED
    BY <2>2, Ended
<1>8. CASE DeleteFile(w)
  <2>1. job'[w].stage = "delete" /\ job'[w].pending = {}
    BY <1>8, <1>j DEF DeleteFile, Begins, NoJob
  <2>. QED
    BY <2>1, Ended
<1>9. CASE DeleteRow(w)
  <2>1. /\ At(w, "delete") /\ job[w].docs \in SUBSET Ids
        /\ job' = Noticed(w, [job EXCEPT ![w].stage = "done"], job[w].docs)
    BY <1>9, <1>j DEF DeleteRow, Job
  <2>2. job'[w].stage = "done" /\ job'[w].pending = {}
    BY <2>1, <1>p, DoneFacts DEF At
  <2>. QED
    BY <2>2, Ended
<1>10. CASE BuildStart(w)
  <2>1. job'[w] = [NoJob EXCEPT !.stage = "look", !.view = rows, !.left = Existing,
                                !.docs = Existing] /\ rows' = rows
    BY <1>10, <1>j DEF BuildStart, Begins
  <2>. QED
    BY <2>1 DEF InHand, Coherent, NoJob, Building
<1>11. CASE BuildReuse(w)
  <2>. DEFINE d == Current(w)
  <2>1. /\ At(w, "look") /\ job[w].left # {} /\ Seen(w, d) # NoRow /\ rows' = rows
        /\ job' = [job EXCEPT ![w].left = @ \ {d}, ![w].any = TRUE, ![w].view[d] = Seen(w, d)]
    BY <1>11 DEF BuildReuse
  <2>2. d \in Ids /\ d \in job[w].left /\ d \in job[w].docs
    BY <2>1, AtWork DEF Building, At
  <2>3. /\ job'[w].stage = "look" /\ job'[w].left = job[w].left \ {d}
        /\ job'[w].view = [job[w].view EXCEPT ![d] = Seen(w, d)]
        /\ job'[w].docs = job[w].docs /\ job'[w].new = job[w].new
        /\ job'[w].pending = job[w].pending /\ job'[w].crossed = job[w].crossed
    <3>. HIDE DEF d
    <3>. QED
      BY <2>1, <1>j DEF At, Job
  <2>4. \A e \in Ids : job'[w].view[e] = IF e = d THEN Seen(w, d) ELSE job[w].view[e]
    <3>. HIDE DEF d
    <3>. QED
      BY <2>3, <1>j DEF Job, Table
  <2>5. job[w].left \subseteq job[w].docs /\ job[w].docs \subseteq Ids
    BY <2>1, <1>j DEF InHand, Building, At, Job
  <2>6. \A u \in job[w].pending : u.doc # d /\ u.doc \in Ids
    BY <2>2, <1>j DEF InHand, Job
  <2>7. InHand(w)'
    <3>1. \A u \in job[w].pending : job'[w].view[u.doc] = job[w].view[u.doc]
      BY <2>4, <2>6
    <3>. HIDE DEF d
    <3>. QED
      BY <2>3, <2>5, <3>1 DEF InHand, Building
  <2>8. Coherent(w)'
    <3>1. \A e \in Ids : job[w].view[e] # NoRow /\ e \notin job[w].crossed => rows[e] = job[w].view[e]
      BY <2>1 DEF Coherent, At
    <3>2. job[w].view[d] # NoRow \/ Seen(w, d) = rows[d]
      BY DEF Seen
    <3>3. job[w].view[d] # NoRow => Seen(w, d) = job[w].view[d]
      BY DEF Seen
    <3>. HIDE DEF d
    <3>. QED
      BY <2>1, <2>2, <2>3, <2>4, <3>1, <3>2, <3>3 DEF Coherent
  <2>. QED
    BY <2>7, <2>8
<1>12. CASE BuildMark(w)
  <2>1. job[w].left # {} /\ job[w].left \subseteq job[w].docs
    BY <1>12 DEF BuildMark, InHand, Building, At
  <2>. QED
    BY <1>12, <2>1, BuildCommits, RowFacts DEF InHand, Coherent, Building
<1>13. CASE BuildNoText(w)
  <2>1. job[w].left \subseteq job[w].docs
    BY <1>13 DEF BuildNoText, InHand, Building, At
  <2>. QED
    BY <1>13, <2>1, BuildCommits, RowFacts DEF InHand, Coherent, Building
<1>14. CASE BuildExtract(w)
  <2>. DEFINE d == Current(w)
  <2>1. /\ At(w, "extract") /\ rows[d] # NoRow /\ rows' = rows
        /\ job' = [job EXCEPT ![w].view[d] = rows[d], ![w].stage = "answer"]
    BY <1>14 DEF BuildExtract
  <2>2. job[w].left # {} /\ job[w].pending = {} /\ job[w].left \subseteq job[w].docs
    BY <2>1 DEF InHand, Building, At
  <2>3. d \in Ids
    BY <2>1, <2>2, AtWork DEF Building, At
  <2>4. /\ job'[w].stage = "answer" /\ job'[w].left = job[w].left
        /\ job'[w].view = [job[w].view EXCEPT ![d] = rows[d]]
        /\ job'[w].docs = job[w].docs /\ job'[w].new = job[w].new
        /\ job'[w].pending = {} /\ job'[w].crossed = job[w].crossed
    <3>. HIDE DEF d
    <3>. QED
      BY <2>1, <2>2, <1>j DEF At, Job
  <2>5. \A e \in Ids : job'[w].view[e] = IF e = d THEN rows[d] ELSE job[w].view[e]
    <3>. HIDE DEF d
    <3>. QED
      BY <2>4, <1>j DEF Job, Table
  <2>6. Current(w)' = d
    BY <2>4 DEF Current
  <2>7. InHand(w)'
    <3>1. job'[w].view[Current(w)'] # NoRow
      BY <2>1, <2>3, <2>5, <2>6
    <3>. HIDE DEF d
    <3>. QED
      BY <2>2, <2>4, <3>1 DEF InHand, Building
  <2>8. Coherent(w)'
    <3>. HIDE DEF d
    <3>. QED
      BY <2>1, <2>3, <2>4, <2>5 DEF Coherent, At
  <2>. QED
    BY <2>7, <2>8
<1>15. CASE BuildAnswer(w)
  <2>. DEFINE d == Current(w)
  <2>1. At(w, "answer") /\ rows' = rows
    BY <1>15 DEF BuildAnswer
  <2>2. PICK f \in {job[w].view[d].text, "error"} :
          job' = [job EXCEPT ![w].pending = {Update(d, "parsed", f)}, ![w].any = TRUE,
                             ![w].left = @ \ {d}, ![w].stage = "look"]
    BY <1>15 DEF BuildAnswer
  <2>3. job[w].left # {} /\ job[w].left \subseteq job[w].docs /\ job[w].view[d] # NoRow
    BY <2>1 DEF InHand, Building, At
  <2>4. d \in Ids /\ d \in job[w].docs
    BY <2>1, <2>3, AtWork DEF Building, At
  <2>5. /\ job'[w].stage = "look" /\ job'[w].left = job[w].left \ {d}
        /\ job'[w].view = job[w].view
        /\ job'[w].docs = job[w].docs /\ job'[w].new = job[w].new
        /\ job'[w].pending = {Update(d, "parsed", f)} /\ job'[w].crossed = job[w].crossed
    <3>. HIDE DEF d
    <3>. QED
      BY <2>2, <1>j DEF Job
  <2>6. /\ Update(d, "parsed", f).doc = d
        /\ Update(d, "parsed", f).facts \in {"error", job[w].view[d].text}
    BY <2>2 DEF Update
  <2>7. InHand(w)'
    <3>. HIDE DEF d
    <3>. QED
      BY <2>3, <2>4, <2>5, <2>6 DEF InHand, Building
  <2>8. Coherent(w)'
    BY <2>1, <2>5 DEF Coherent, At
  <2>. QED
    BY <2>7, <2>8
<1>16. CASE BuildNoAnswer(w)
  <2>1. job[w].left \subseteq job[w].docs
    BY <1>16 DEF BuildNoAnswer, InHand, Building, At
  <2>. QED
    BY <1>16, <2>1, BuildCommits, RowFacts DEF InHand, Coherent, Building
<1>17. CASE BuildParsed(w)
  <2>1. job[w].left = {}
    BY <1>17 DEF BuildParsed
  <2>. QED
    BY <1>17, <2>1, BuildCommits DEF InHand, Coherent, Building
<1>18. CASE BuildDone(w)
  <2>1. job'[w].stage = "done" /\ job'[w].pending = {}
    BY <1>18, <1>j, <1>p DEF BuildDone, At, Job
  <2>. QED
    BY <2>1, Ended
<1>19. CASE Stops(w)
  <2>1. job'[w].stage = "idle" /\ job'[w].pending = {}
    BY <1>19, <1>j DEF Stops, NoJob
  <2>. QED
    BY <2>1, Ended
<1>. QED
  BY <1>1, <1>2, <1>3, <1>4, <1>5, <1>6, <1>7, <1>8, <1>9, <1>10, <1>11, <1>12, <1>13, <1>14,
     <1>15, <1>16, <1>17, <1>18, <1>19 DEF Step

-----------------------------------------------------------------------------

Held == \A w \in Workers : InHand(w) /\ Coherent(w)

LEMMA HeldInit == Init => Held
BY InHandInit DEF Init, Held, Coherent, NoJob

LEMMA HeldStep ==
  ASSUME TypeOK, Held, [Next]_vars
  PROVE  Held'
<1>1. CASE UNCHANGED vars \/ Edit
  <2>1. job' = job /\ rows' = rows
    BY <1>1 DEF vars, Edit
  <2>2. ASSUME NEW w \in Workers PROVE InHand(w)' /\ Coherent(w)'
    <3>1. Current(w)' = Current(w)
      BY <2>1 DEF Current
    <3>2. InHand(w) /\ Coherent(w)
      BY DEF Held
    <3>. QED
      BY <2>1, <3>1, <3>2 DEF InHand, Coherent
  <2>. QED
    BY <2>2 DEF Held
<1>2. ASSUME NEW w \in Workers, Step(w) PROVE Held'
  <2>1. InHand(w) /\ Coherent(w)
    BY DEF Held
  <2>2. Quiet(w) \/ \E D \in SUBSET Ids : Loud(w, D)
    BY <1>2, <2>1, QuietSteps, LoudSteps DEF Step
  <2>3. InHand(w)' /\ Coherent(w)'
    BY <1>2, <2>1, OwnStep
  <2>4. \A v \in Workers : v # w => InHand(v)' /\ Coherent(v)'
    BY <2>2, OthersKeepTheirs DEF Held
  <2>. QED
    BY <2>3, <2>4 DEF Held
<1>. QED
  BY <1>1, <1>2 DEF Next

(* Every state is well typed, and every handler holds what its session has *)
(* seen.                                                                   *)
THEOREM TypeCorrect == Spec => [](TypeOK /\ Held)
<1>1. Init => TypeOK /\ Held
  BY TypeInit, HeldInit
<1>2. TypeOK /\ Held /\ [Next]_vars => (TypeOK /\ Held)'
  BY TypeStep, HeldStep DEF Held
<1>. QED
  BY <1>1, <1>2, PTL DEF Spec

-----------------------------------------------------------------------------

(* What a build writes: columns of rows its session has loaded, and facts  *)
(* only of the text it has seen.                                           *)
LEMMA BuildWrites ==
  ASSUME TypeOK, NEW w \in Workers, InHand(w), Coherent(w),
         BuildMark(w) \/ BuildNoText(w) \/ BuildNoAnswer(w) \/ BuildParsed(w)
  PROVE  \E view \in Table, updates \in SUBSET Updates, next \in Job :
           /\ Committed(w, view, updates, next)
           /\ \A u \in updates :
                /\ view[u.doc] # NoRow
                /\ u.doc \notin job[w].crossed => rows[u.doc] = view[u.doc]
                /\ u.status = "parsed" => u.facts \in {"error", view[u.doc].text}
<1>. DEFINE d == Current(w)
            r == Seen(w, d)
            V == [job[w].view EXCEPT ![d] = r]
            P == job[w].pending
<1>j. job[w] \in Job /\ job[w].view \in Table
  BY DEF TypeOK, Job
<1>p. \A u \in P :
        /\ u.doc \in Ids /\ job[w].view[u.doc] # NoRow
        /\ u.facts \in {"error", job[w].view[u.doc].text}
        /\ u.doc \notin job[w].left
  BY <1>j DEF InHand, Job
<1>c. job[w].stage \in {"look", "extract", "answer"} =>
        \A e \in Ids : job[w].view[e] # NoRow /\ e \notin job[w].crossed => rows[e] = job[w].view[e]
  BY DEF Coherent
<1>1. ASSUME NEW s \in {"processing", "failed"}, NEW f, NEW next \in Job,
             At(w, "look"), d \in Ids, d \in job[w].left, r \in Row, V \in Table,
             P \cup {Update(d, s, f)} \in SUBSET Updates,
             Committed(w, V, P \cup {Update(d, s, f)}, next)
      PROVE  \A u \in P \cup {Update(d, s, f)} :
                /\ V[u.doc] # NoRow
                /\ u.doc \notin job[w].crossed => rows[u.doc] = V[u.doc]
                /\ u.status = "parsed" => u.facts \in {"error", V[u.doc].text}
  <2>1. \A e \in Ids : V[e] = IF e = d THEN r ELSE job[w].view[e]
    <3>. HIDE DEF d, r
    <3>. QED
      BY <1>j DEF Table
  <2>2. r # NoRow /\ (d \notin job[w].crossed => rows[d] = r)
    BY <1>1, <1>c, RowFacts DEF Seen, At
  <2>3. /\ Update(d, s, f).doc = d /\ Update(d, s, f).status = s
        /\ s # "parsed"
    BY DEF Update
  <2>4. ASSUME NEW u \in P
        PROVE  /\ V[u.doc] # NoRow
               /\ u.doc \notin job[w].crossed => rows[u.doc] = V[u.doc]
               /\ u.facts \in {"error", V[u.doc].text}
    <3>1. u.doc # d /\ u.doc \in Ids
      BY <1>1, <1>p
    <3>2. V[u.doc] = job[w].view[u.doc]
      BY <2>1, <3>1
    <3>. HIDE DEF V, d
    <3>. QED
      BY <1>1, <1>c, <1>p, <3>1, <3>2 DEF At
  <2>. HIDE DEF V, d, r, P
  <2>. QED
    BY <1>1, <2>1, <2>2, <2>3, <2>4
<1>2. CASE BuildMark(w)
  <2>. DEFINE U == Update(d, "processing", r.facts)
              next == [job[w] EXCEPT !.stage = "extract"]
  <2>1. /\ V \in Table /\ P \cup {U} \in SUBSET Updates /\ next \in Job
        /\ d \in Ids /\ r \in Row /\ Committed(w, V, P \cup {U}, next)
    BY <1>2, CommitsOfABuild
  <2>2. At(w, "look") /\ d \in job[w].left
    BY <1>2, AtWork DEF BuildMark, Building, At
  <2>. HIDE DEF V, d, r, P, next
  <2>3. \A u \in P \cup {U} :
          /\ V[u.doc] # NoRow
          /\ u.doc \notin job[w].crossed => rows[u.doc] = V[u.doc]
          /\ u.status = "parsed" => u.facts \in {"error", V[u.doc].text}
    BY <1>1, <2>1, <2>2
  <2>. HIDE DEF U
  <2>. QED
    BY <2>1, <2>3
<1>3. CASE BuildNoText(w)
  <2>. DEFINE U == Update(d, "failed", "error")
              next == [job[w] EXCEPT !.left = job[w].left \ {d}]
  <2>1. /\ V \in Table /\ P \cup {U} \in SUBSET Updates /\ next \in Job
        /\ d \in Ids /\ r \in Row /\ Committed(w, V, P \cup {U}, next)
    BY <1>3, CommitsOfABuild
  <2>2. At(w, "look") /\ d \in job[w].left
    BY <1>3, AtWork DEF BuildNoText, Building, At
  <2>. HIDE DEF V, d, r, P, next
  <2>3. \A u \in P \cup {U} :
          /\ V[u.doc] # NoRow
          /\ u.doc \notin job[w].crossed => rows[u.doc] = V[u.doc]
          /\ u.status = "parsed" => u.facts \in {"error", V[u.doc].text}
    BY <1>1, <2>1, <2>2
  <2>. HIDE DEF U
  <2>. QED
    BY <2>1, <2>3
<1>4. CASE BuildNoAnswer(w)
  <2>. DEFINE U == Update(d, "failed", "error")
              next == [job[w] EXCEPT !.left = job[w].left \ {d}, !.stage = "look"]
  <2>1. /\ {U} \in SUBSET Updates /\ next \in Job
        /\ d \in Ids /\ Committed(w, job[w].view, {U}, next)
    BY <1>4, CommitsOfABuild
  <2>2. At(w, "answer") /\ job[w].view[d] # NoRow
    BY <1>4 DEF BuildNoAnswer, At, InHand
  <2>3. U.doc = d /\ U.status = "failed"
    BY DEF Update
  <2>. HIDE DEF V, d, r, P, next, U
  <2>4. \A u \in {U} :
          /\ job[w].view[u.doc] # NoRow
          /\ u.doc \notin job[w].crossed => rows[u.doc] = job[w].view[u.doc]
          /\ u.status = "parsed" => u.facts \in {"error", job[w].view[u.doc].text}
    BY <1>c, <2>1, <2>2, <2>3 DEF At
  <2>. QED
    BY <1>j, <2>1, <2>4
<1>5. CASE BuildParsed(w)
  <2>. DEFINE next == [job[w] EXCEPT !.stage = "synthesize"]
  <2>1. P \in SUBSET Updates /\ next \in Job /\ Committed(w, job[w].view, P, next)
    BY <1>5, CommitsOfABuild
  <2>2. At(w, "look")
    BY <1>5 DEF BuildParsed
  <2>. HIDE DEF P, next
  <2>3. \A u \in P :
          /\ job[w].view[u.doc] # NoRow
          /\ u.doc \notin job[w].crossed => rows[u.doc] = job[w].view[u.doc]
          /\ u.status = "parsed" => u.facts \in {"error", job[w].view[u.doc].text}
    BY <1>c, <1>p, <2>2 DEF At
  <2>. QED
    BY <1>j, <2>1, <2>3
<1>. QED
  BY <1>2, <1>3, <1>4, <1>5

LEMMA FactsStep ==
  ASSUME TypeOK, Held, FactsAreOfTheText, [Next]_vars
  PROVE  FactsAreOfTheText'
<1>0. ASSUME rows' = rows, torn' = torn PROVE FactsAreOfTheText'
  BY <1>0 DEF FactsAreOfTheText, Existing
<1>1. CASE UNCHANGED vars \/ Edit
  BY <1>0, <1>1 DEF vars, Edit
<1>2. ASSUME NEW w \in Workers, Step(w) PROVE FactsAreOfTheText'
  <2>h. InHand(w) /\ Coherent(w) /\ rows \in Table
    BY DEF Held, TypeOK
  <2>f. ASSUME NEW d \in Ids, rows'[d] = rows[d], d \notin torn' => d \notin torn,
               rows'[d] # NoRow, rows'[d].status = "parsed", rows'[d].facts # "error", d \notin torn'
        PROVE  rows'[d].facts = rows'[d].text
    BY <2>f DEF FactsAreOfTheText, Existing
  <2>1. CASE Quiet(w)
    BY <1>0, <2>1 DEF Quiet
  <2>2. CASE UploadInsert(w)
    <3>1. PICK n \in job[w].new : rows' = [rows EXCEPT ![NextId] = Inserted(n)] /\ torn' = torn
      BY <2>2 DEF UploadInsert
    <3>2. \A d \in Ids : rows'[d] = rows[d] \/ rows'[d].status = "uploaded"
      BY <2>h, <3>1 DEF Inserted, Table
    <3>. QED
      BY <2>f, <3>1, <3>2 DEF FactsAreOfTheText, Existing
  <2>3. CASE ImportCommit(w)
    <3>1i. PICK W \in SUBSET Ids, I \in SUBSET Ids : Imported(w, W, I)
      BY <2>3, ImportCommitFacts
    <3>1. /\ At(w, "import")
          /\ W = {n.id : n \in {n \in job[w].new : n.id # 0}} /\ W \subseteq Existing
          /\ rows' \in Table
          /\ \A d \in Ids \ (W \cup I) : rows'[d] = rows[d]
          /\ \A d \in I : \E n \in job[w].new : rows'[d] = Inserted(n)
          /\ \A d \in W \ I : \E n \in job[w].new :
               n.id = d /\ rows'[d] = Replaced(rows[d], job[w].view[d], n)
          /\ torn' = (torn \ W) \cup (W \cap job[w].crossed)
      BY <3>1i DEF Imported
    <3>2. ASSUME NEW d \in W \ I, d \notin torn' PROVE rows'[d].status = "uploaded"
      <4>1. PICK n \in job[w].new : n.id = d /\ rows'[d] = Replaced(rows[d], job[w].view[d], n)
        BY <3>1
      <4>2. job[w].view[d] # NoRow
        <5>1. n.id # 0
          BY <4>1, DocumentsAssumption DEF Ids
        <5>. QED
          BY <2>h, <3>1, <4>1, <5>1 DEF InHand, At
      <4>3. d \in Ids /\ d \notin job[w].crossed
        BY <3>1, <3>2
      <4>4. rows[d] = job[w].view[d]
        BY <2>h, <3>1, <4>2, <4>3 DEF Coherent, At
      <4>5. rows[d] \in Row
        BY <2>h, <3>1 DEF Existing, Table
      <4>. QED
        BY <4>1, <4>4, <4>5 DEF Replaced, Row
    <3>3. \A d \in I : rows'[d].status = "uploaded"
      <4>1. \A n : Inserted(n).status = "uploaded"
        BY DEF Inserted
      <4>2. \A d \in I : \E n \in job[w].new : rows'[d] = Inserted(n)
        BY <3>1
      <4>. QED
        BY <4>1, <4>2
    <3>4. \A d \in Ids \ (W \cup I) : rows'[d] = rows[d] /\ (d \notin torn' => d \notin torn)
      BY <3>1
    <3>. QED
      BY <2>f, <3>2, <3>3, <3>4 DEF FactsAreOfTheText, Existing
  <2>4. CASE DeleteRow(w)
    <3>1. /\ rows' = [d \in Ids |-> IF d \in job[w].docs THEN NoRow ELSE rows[d]]
          /\ torn' = torn \ job[w].docs
      BY <2>4 DEF DeleteRow
    <3>2. \A d \in Ids : \/ rows'[d] = NoRow
                         \/ rows'[d] = rows[d] /\ (d \notin torn' => d \notin torn)
      BY <3>1
    <3>. QED
      BY <2>f, <3>2 DEF FactsAreOfTheText, Existing
  <2>5. CASE BuildMark(w) \/ BuildNoText(w) \/ BuildNoAnswer(w) \/ BuildParsed(w)
    <3>1. PICK view \in Table, updates \in SUBSET Updates, next \in Job :
            /\ Committed(w, view, updates, next)
            /\ \A u \in updates :
                 /\ view[u.doc] # NoRow
                 /\ u.doc \notin job[w].crossed => rows[u.doc] = view[u.doc]
                 /\ u.status = "parsed" => u.facts \in {"error", view[u.doc].text}
      BY <2>5, <2>h, BuildWrites
    <3>. DEFINE W == Docs(Changed(view, updates))
    <3>2. /\ W \subseteq Ids
          /\ \A d \in Ids : d \notin W => rows'[d] = rows[d]
          /\ \A d \in W : \E u \in Changed(view, updates) :
               u.doc = d /\ Updated(rows'[d], rows[d], view[d], u)
          /\ torn' = torn \cup (W \cap job[w].crossed)
      BY <3>1, CommittedFacts
    <3>3. ASSUME NEW d \in W, d \notin torn', rows'[d].status = "parsed", rows'[d].facts # "error"
          PROVE  rows'[d].facts = rows'[d].text
      <4>1. PICK u \in Changed(view, updates) : u.doc = d /\ Updated(rows'[d], rows[d], view[d], u)
        BY <3>2
      <4>2. u \in updates
        BY DEF Changed
      <4>3. rows[d] = view[d]
        BY <3>1, <3>2, <3>3, <4>1, <4>2
      <4>4. rows'[d].status = u.status /\ rows'[d].facts = u.facts /\ rows'[d].text = view[d].text
        BY <4>1, <4>3 DEF Updated
      <4>. QED
        BY <3>1, <3>3, <4>1, <4>2, <4>4
    <3>. HIDE DEF W
    <3>. QED
      BY <2>f, <3>2, <3>3 DEF FactsAreOfTheText, Existing
  <2>. QED
    BY <1>2, <2>1, <2>2, <2>3, <2>4, <2>5, QuietSteps DEF Step
<1>. QED
  BY <1>1, <1>2 DEF Next

(* A document that says "parsed" has the facts of its own text: an import  *)
(* that replaces the text, an id that is given again, a build that was cut *)
(* off or repeated never leave the facts of another text to be reused as   *)
(* evidence, unless two handlers overlapped and both wrote the row         *)
(* (advisor.py:83-99, import_folder.py:123-131).                           *)
THEOREM OwnFacts == Spec => []FactsAreOfTheText
<1>1. Init => FactsAreOfTheText
  <2>1. Init => Existing = {}
    BY RowFacts DEF Init, Existing
  <2>. QED
    BY <2>1 DEF FactsAreOfTheText
<1>2. TypeOK /\ Held /\ FactsAreOfTheText /\ [Next]_vars => FactsAreOfTheText'
  BY FactsStep
<1>. QED
  BY <1>1, <1>2, TypeCorrect, PTL DEF Spec

-----------------------------------------------------------------------------

(* The files of the rows, and those an upload or import has stored for rows*)
(* it has not written yet.                                                 *)
RowFiles == {rows[d].file : d \in Existing}

InFlight(w) == {x \in Files : /\ job[w].stage \in {"insert", "import"}
                              /\ \E n \in job[w].new : n.file = x}

(* No file is of two handlers, nor of a handler and a row.                 *)
Disk ==
  /\ \A x \in RowFiles : x <= stored /\ x \in files \cup removed
  /\ \A w \in Workers : \A x \in InFlight(w) : x <= stored /\ x \in files /\ x \notin RowFiles
  /\ \A v, w \in Workers : v # w => InFlight(v) \cap InFlight(w) = {}

(* What a step may do with files: store one, drop those in flight, hand    *)
(* them to rows, delete one of a row, or none of these.                    *)
LEMMA DiskMoves ==
  ASSUME TypeOK, NEW w \in Workers, InHand(w), Step(w)
  PROVE  /\ \A v \in Workers : v # w => InFlight(v)' = InFlight(v)
         /\ \/ /\ RowFiles' = RowFiles /\ removed' = removed
               /\ \E f \in Files : SavedAs(f) /\ InFlight(w)' \subseteq InFlight(w) \cup {f}
            \/ /\ RowFiles' = RowFiles /\ removed' = removed /\ stored' = stored
               /\ files' = files \ InFlight(w) /\ InFlight(w)' = {}
            \/ /\ RowFiles' \subseteq RowFiles \cup InFlight(w) /\ InFlight(w)' = {}
               /\ UNCHANGED <<files, stored, removed>>
            \/ /\ RowFiles' = RowFiles /\ InFlight(w)' = {} /\ stored' = stored
               /\ \E x \in RowFiles : files' = files \ {x} /\ removed' = removed \cup {x}
            \/ /\ RowFiles' \subseteq RowFiles /\ InFlight(w)' \subseteq InFlight(w)
               /\ UNCHANGED <<files, stored, removed>>
<1>j. job \in [Workers -> Job] /\ job[w] \in Job /\ rows \in Table
  BY DEF TypeOK
<1>o. \A v \in Workers : v # w => InFlight(v)' = InFlight(v)
  <2>1. Quiet(w) \/ \E D \in SUBSET Ids : Loud(w, D)
    BY QuietSteps, LoudSteps DEF Step
  <2>. QED
    BY <2>1 DEF Quiet, Loud, OthersNotice, InFlight
<1>r. rows' = rows => RowFiles' = RowFiles
  BY DEF RowFiles, Existing
<1>n. job'[w].stage \notin {"insert", "import"} => InFlight(w)' = {}
  BY DEF InFlight
<1>1. CASE UploadSave(w)
  <2>. DEFINE n(c, f) == [id |-> 0, file |-> f, path |-> NoPath, text |-> c]
  <2>1. PICK c \in Contents, f \in Files :
          SavedAs(f) /\ Begins(w, [NoJob EXCEPT !.stage = "insert", !.new = {n(c, f)}])
    BY <1>1 DEF UploadSave
  <2>2. job'[w].new = {n(c, f)}
    <3>. HIDE DEF n
    <3>. QED
      BY <1>j, <2>1 DEF Begins, NoJob
  <2>3. InFlight(w)' \subseteq {f}
    BY <2>2 DEF InFlight
  <2>4. rows' = rows /\ removed' = removed
    BY <1>1 DEF UploadSave
  <2>. QED
    BY <1>o, <1>r, <2>1, <2>3, <2>4
<1>2. CASE UploadUnreadable(w)
  <2>1. /\ At(w, "insert") /\ files' = files \ {n.file : n \in job[w].new}
        /\ rows' = rows /\ removed' = removed /\ stored' = stored
        /\ job' = [job EXCEPT ![w].stage = "done"]
    BY <1>2 DEF UploadUnreadable, Goto
  <2>2. job'[w].stage = "done"
    BY <1>j, <2>1 DEF Job
  <2>3. {n.file : n \in job[w].new} = InFlight(w)
    <3>1. \A n \in job[w].new : n.file \in Files
      BY <1>j DEF Job, New
    <3>. QED
      BY <2>1, <3>1 DEF InFlight, At
  <2>. QED
    BY <1>n, <1>o, <1>r, <2>1, <2>2, <2>3
<1>3. CASE UploadInsert(w)
  <2>1. PICK n \in job[w].new :
          /\ At(w, "insert") /\ NextId \in Ids
          /\ rows' = [rows EXCEPT ![NextId] = Inserted(n)]
          /\ job' = Noticed(w, [job EXCEPT ![w].stage = "done"], {NextId})
          /\ UNCHANGED <<files, stored, removed>>
    BY <1>3 DEF UploadInsert, disk
  <2>2. n.file \in InFlight(w)
    BY <1>j, <2>1 DEF InFlight, At, Job, New
  <2>3. \A d \in Ids : \/ rows'[d] = rows[d]
                       \/ rows'[d].file = n.file
    BY <1>j, <2>1 DEF Inserted, Table
  <2>4. RowFiles' \subseteq RowFiles \cup InFlight(w)
    BY <2>2, <2>3 DEF RowFiles, Existing
  <2>5. job'[w].stage = "done"
    BY <2>1, DoneFacts
  <2>. QED
    BY <1>n, <1>o, <2>1, <2>4, <2>5
<1>4. CASE ImportCommit(w)
  <2>1i. PICK W \in SUBSET Ids, I \in SUBSET Ids : Imported(w, W, I)
    BY <1>4, ImportCommitFacts
  <2>1. /\ At(w, "import")
        /\ W = {n.id : n \in {n \in job[w].new : n.id # 0}} /\ W \subseteq Existing
        /\ rows' \in Table
        /\ \A d \in Ids \ (W \cup I) : rows'[d] = rows[d]
        /\ \A d \in I : \E n \in job[w].new : rows'[d] = Inserted(n)
        /\ \A d \in W \ I : \E n \in job[w].new :
             n.id = d /\ rows'[d] = Replaced(rows[d], job[w].view[d], n)
        /\ job' = Noticed(w, [job EXCEPT ![w].stage = "done"], W \cup I)
        /\ UNCHANGED <<files, stored, removed>>
    BY <2>1i DEF Imported
  <2>2. \A n \in job[w].new : n.file \in InFlight(w)
    BY <1>j, <2>1 DEF InFlight, At, Job, New
  <2>3. \A n : Inserted(n).file = n.file
    BY DEF Inserted
  <2>4. \A r \in Row : \A old, n : Replaced(r, old, n).file = n.file
    BY DEF Replaced, Row
  <2>5. \A d \in W : rows[d] \in Row
    BY <1>j, <2>1 DEF Existing, Table
  <2>6. \A d \in I : rows'[d].file \in InFlight(w)
    <3>1. \A d \in I : \E n \in job[w].new : rows'[d] = Inserted(n)
      BY <2>1
    <3>. QED
      BY <2>2, <2>3, <3>1
  <2>7. \A d \in W \ I : rows'[d].file \in InFlight(w)
    <3>1. \A d \in W \ I : \E n \in job[w].new : rows'[d] = Replaced(rows[d], job[w].view[d], n)
      BY <2>1
    <3>. QED
      BY <2>2, <2>4, <2>5, <3>1
  <2>8. RowFiles' \subseteq RowFiles \cup InFlight(w)
    BY <2>1, <2>6, <2>7 DEF RowFiles, Existing
  <2>9. job'[w].stage = "done"
    BY <2>1, DoneFacts
  <2>. QED
    BY <1>n, <1>o, <2>1, <2>8, <2>9
<1>5. CASE ImportSkip(w) \/ ImportError(w)
  <2>1. /\ rows' = rows /\ removed' = removed
        /\ UNCHANGED <<files, stored>> \/ \E f \in Files : SavedAs(f)
    BY <1>5 DEF ImportSkip, ImportError, disk
  <2>2. PICK p \in job[w].left : job' = [job EXCEPT ![w].left = @ \ {p}]
    BY <1>5 DEF ImportSkip, ImportError
  <2>3. job'[w].stage = job[w].stage /\ job'[w].new = job[w].new
    BY <1>j, <2>2 DEF Job
  <2>4. InFlight(w)' = InFlight(w)
    BY <2>3 DEF InFlight
  <2>. QED
    BY <1>o, <1>r, <2>1, <2>4
<1>6. CASE ImportSave(w)
  <2>1i. PICK p \in job[w].left, f \in Files : \E i \in {0} \cup RowsOf(p) : Saving(w, p, f, i)
    BY <1>6, ImportSaveFacts
  <2>1. /\ SavedAs(f)
        /\ \E i \in {0} \cup RowsOf(p) :
             job'[w].new = job[w].new \cup {[id |-> i, file |-> f, path |-> p, text |-> folder[p]]}
    BY <2>1i DEF Saving
  <2>2. At(w, "import") /\ rows' = rows /\ removed' = removed
    BY <1>6 DEF ImportSave
  <2>3. InFlight(w)' \subseteq InFlight(w) \cup {f}
    BY <2>1, <2>2 DEF InFlight, At
  <2>. QED
    BY <1>o, <1>r, <2>1, <2>2, <2>3
<1>7. CASE DeleteFile(w)
  <2>1. PICK d \in Existing :
          /\ files' = files \ {rows[d].file} /\ removed' = removed \cup {rows[d].file}
          /\ Begins(w, [NoJob EXCEPT !.stage = "delete", !.docs = {d}])
    BY <1>7 DEF DeleteFile
  <2>2. rows' = rows /\ stored' = stored
    BY <1>7 DEF DeleteFile
  <2>3. job'[w].stage = "delete"
    BY <1>j, <2>1 DEF Begins, NoJob
  <2>4. rows[d].file \in RowFiles
    BY DEF RowFiles
  <2>. QED
    BY <1>n, <1>o, <1>r, <2>1, <2>2, <2>3, <2>4
<1>8. CASE DeleteRow(w)
  <2>1. /\ rows' = [d \in Ids |-> IF d \in job[w].docs THEN NoRow ELSE rows[d]]
        /\ job' = Noticed(w, [job EXCEPT ![w].stage = "done"], job[w].docs)
        /\ UNCHANGED <<files, stored, removed>>
    BY <1>8 DEF DeleteRow, disk
  <2>2. RowFiles' \subseteq RowFiles
    BY <2>1 DEF RowFiles, Existing
  <2>3. job'[w].stage = "done"
    BY <1>j, <2>1, DoneFacts DEF Job
  <2>. QED
    BY <1>n, <1>o, <2>1, <2>2, <2>3
<1>9. CASE ImportStart(w) \/ BuildStart(w)
  <2>1. rows' = rows /\ UNCHANGED <<files, stored, removed>>
    BY <1>9 DEF ImportStart, BuildStart, disk
  <2>2. job'[w].new = {}
    BY <1>9, <1>j DEF ImportStart, BuildStart, Begins, NoJob
  <2>3. InFlight(w)' = {}
    BY <2>2 DEF InFlight
  <2>. QED
    BY <1>o, <1>r, <2>1, <2>3
<1>10. CASE BuildReuse(w) \/ BuildExtract(w) \/ BuildAnswer(w) \/ BuildDone(w) \/ Stops(w)
  <2>1. rows' = rows /\ UNCHANGED <<files, stored, removed>>
    BY <1>10 DEF BuildReuse, BuildExtract, BuildAnswer, BuildDone, Stops, disk
  <2>2. job'[w].stage \in {"look", "answer", "done", "idle"}
    <3>1. CASE BuildReuse(w)
      BY <1>j, <3>1 DEF BuildReuse, At, Job
    <3>2. CASE BuildExtract(w) \/ BuildAnswer(w)
      BY <1>j, <3>2 DEF BuildExtract, BuildAnswer, Job
    <3>3. CASE BuildDone(w) \/ Stops(w)
      BY <1>j, <3>3 DEF BuildDone, Stops, NoJob, Job
    <3>. QED
      BY <1>10, <3>1, <3>2, <3>3
  <2>. QED
    BY <1>n, <1>o, <1>r, <2>1, <2>2
<1>11. CASE BuildMark(w) \/ BuildNoText(w) \/ BuildNoAnswer(w) \/ BuildParsed(w)
  <2>1. PICK view \in Table, updates \in SUBSET Updates, next \in Job :
          Committed(w, view, updates, next)
    BY <1>11, CommitsOfABuild
  <2>. DEFINE W == Docs(Changed(view, updates))
  <2>2. /\ W \subseteq Existing
        /\ \A d \in Ids : d \notin W => rows'[d] = rows[d]
        /\ \A d \in W : \E u \in Changed(view, updates) : Updated(rows'[d], rows[d], view[d], u)
        /\ UNCHANGED <<files, stored, removed>>
    BY <2>1, CommittedFacts
  <2>3. \A d \in W : rows'[d].file = rows[d].file
    BY <2>2 DEF Updated
  <2>4. RowFiles' \subseteq RowFiles
    <3>. HIDE DEF W
    <3>. QED
      BY <2>2, <2>3 DEF RowFiles, Existing
  <2>5. job'[w].stage \in {"extract", "look", "synthesize"}
    BY <1>11, BuildCommits
  <2>. QED
    BY <1>n, <1>o, <2>2, <2>4, <2>5
<1>. QED
  BY <1>1, <1>2, <1>3, <1>4, <1>5, <1>6, <1>7, <1>8, <1>9, <1>10, <1>11 DEF Step

LEMMA DiskStep ==
  ASSUME TypeOK, Held, Disk, [Next]_vars
  PROVE  Disk'
<1>1. CASE UNCHANGED vars \/ Edit
  <2>1. UNCHANGED <<rows, files, stored, removed, job>>
    BY <1>1 DEF vars, disk, Edit
  <2>. QED
    BY <2>1 DEF Disk, RowFiles, Existing, InFlight
<1>2. ASSUME NEW w \in Workers, Step(w) PROVE Disk'
  <2>t. /\ stored \in Nat /\ RowFiles \subseteq Files
        /\ \A v \in Workers : InFlight(v) \subseteq Files
    BY DocumentsAssumption DEF TypeOK, RowFiles, Existing, Table, Row, InFlight
  <2>m. /\ \A v \in Workers : v # w => InFlight(v)' = InFlight(v)
        /\ \/ /\ RowFiles' = RowFiles /\ removed' = removed
              /\ \E f \in Files : SavedAs(f) /\ InFlight(w)' \subseteq InFlight(w) \cup {f}
           \/ /\ RowFiles' = RowFiles /\ removed' = removed /\ stored' = stored
              /\ files' = files \ InFlight(w) /\ InFlight(w)' = {}
           \/ /\ RowFiles' \subseteq RowFiles \cup InFlight(w) /\ InFlight(w)' = {}
              /\ UNCHANGED <<files, stored, removed>>
           \/ /\ RowFiles' = RowFiles /\ InFlight(w)' = {} /\ stored' = stored
              /\ \E x \in RowFiles : files' = files \ {x} /\ removed' = removed \cup {x}
           \/ /\ RowFiles' \subseteq RowFiles /\ InFlight(w)' \subseteq InFlight(w)
              /\ UNCHANGED <<files, stored, removed>>
    BY <1>2, DiskMoves DEF Held
  <2>1. ASSUME RowFiles' = RowFiles, removed' = removed, NEW f \in Files, SavedAs(f),
               InFlight(w)' \subseteq InFlight(w) \cup {f}
        PROVE  Disk'
    <3>1. /\ stored' = stored + 1 /\ f = stored + 1 /\ files' = files \cup {f}
      BY <2>1 DEF SavedAs
    <3>2. ASSUME NEW x \in Nat, x <= stored PROVE x # f /\ x <= stored'
      BY <2>t, <3>1, <3>2
    <3>3. \A x \in RowFiles : x \in Nat /\ x <= stored
      BY <2>t DEF Disk, Files
    <3>4. \A v \in Workers : \A x \in InFlight(v) : x \in Nat /\ x <= stored
      BY <2>t DEF Disk, Files
    <3>5. f <= stored'
      BY <2>t, <3>1
    <3>6. \A x \in RowFiles' : x <= stored' /\ x \in files' \cup removed'
      BY <2>1, <3>1, <3>2, <3>3 DEF Disk
    <3>7. \A v \in Workers : \A x \in InFlight(v)' :
            x <= stored' /\ x \in files' /\ x \notin RowFiles'
      BY <2>1, <2>m, <3>1, <3>2, <3>3, <3>4, <3>5 DEF Disk
    <3>8. \A u, v \in Workers : u # v => InFlight(u)' \cap InFlight(v)' = {}
      BY <2>1, <2>m, <3>2, <3>4 DEF Disk
    <3>. QED
      BY <3>6, <3>7, <3>8 DEF Disk
  <2>2. ASSUME RowFiles' = RowFiles, removed' = removed, stored' = stored,
               files' = files \ InFlight(w), InFlight(w)' = {}
        PROVE  Disk'
    <3>1. \A x \in RowFiles' : x <= stored' /\ x \in files' \cup removed'
      BY <2>2 DEF Disk
    <3>2. \A v \in Workers : \A x \in InFlight(v)' :
            x <= stored' /\ x \in files' /\ x \notin RowFiles'
      BY <2>2, <2>m DEF Disk
    <3>3. \A u, v \in Workers : u # v => InFlight(u)' \cap InFlight(v)' = {}
      BY <2>2, <2>m DEF Disk
    <3>. QED
      BY <3>1, <3>2, <3>3 DEF Disk
  <2>3. ASSUME RowFiles' \subseteq RowFiles \cup InFlight(w), InFlight(w)' = {},
               UNCHANGED <<files, stored, removed>>
        PROVE  Disk'
    <3>1. \A x \in RowFiles' : x <= stored' /\ x \in files' \cup removed'
      BY <2>3 DEF Disk
    <3>2. \A v \in Workers : \A x \in InFlight(v)' :
            x <= stored' /\ x \in files' /\ x \notin RowFiles'
      BY <2>3, <2>m DEF Disk
    <3>3. \A u, v \in Workers : u # v => InFlight(u)' \cap InFlight(v)' = {}
      BY <2>3, <2>m DEF Disk
    <3>. QED
      BY <3>1, <3>2, <3>3 DEF Disk
  <2>4. ASSUME RowFiles' = RowFiles, InFlight(w)' = {}, stored' = stored,
               NEW y \in RowFiles, files' = files \ {y}, removed' = removed \cup {y}
        PROVE  Disk'
    <3>1. \A x \in RowFiles' : x <= stored' /\ x \in files' \cup removed'
      BY <2>4 DEF Disk
    <3>2. \A v \in Workers : \A x \in InFlight(v)' :
            x <= stored' /\ x \in files' /\ x \notin RowFiles'
      BY <2>4, <2>m DEF Disk
    <3>3. \A u, v \in Workers : u # v => InFlight(u)' \cap InFlight(v)' = {}
      BY <2>4, <2>m DEF Disk
    <3>. QED
      BY <3>1, <3>2, <3>3 DEF Disk
  <2>5. ASSUME RowFiles' \subseteq RowFiles, InFlight(w)' \subseteq InFlight(w),
               UNCHANGED <<files, stored, removed>>
        PROVE  Disk'
    <3>1. \A x \in RowFiles' : x <= stored' /\ x \in files' \cup removed'
      BY <2>5 DEF Disk
    <3>2. \A v \in Workers : \A x \in InFlight(v)' :
            x <= stored' /\ x \in files' /\ x \notin RowFiles'
      BY <2>5, <2>m DEF Disk
    <3>3. \A u, v \in Workers : u # v => InFlight(u)' \cap InFlight(v)' = {}
      BY <2>5, <2>m DEF Disk
    <3>. QED
      BY <3>1, <3>2, <3>3 DEF Disk
  <2>. QED
    BY <2>m, <2>1, <2>2, <2>3, <2>4, <2>5
<1>. QED
  BY <1>1, <1>2 DEF Next

(* A file leaves the directory only by a deletion somebody asked for:      *)
(* whatever upload, import or delete fails half way, a row without its     *)
(* file is one whose deletion was not committed (routes.py:154-208).       *)
THEOREM KeptFiles == Spec => []RowsKeepTheirFiles
<1>1. Init => Disk
  <2>. SUFFICES ASSUME Init PROVE Disk
    OBVIOUS
  <2>1. Existing = {}
    BY RowFacts DEF Init, Existing
  <2>2. \A w \in Workers : InFlight(w) = {}
    BY DEF Init, NoJob, InFlight
  <2>. QED
    BY <2>1, <2>2 DEF Disk, RowFiles
<1>2. TypeOK /\ Held /\ Disk /\ [Next]_vars => Disk'
  BY DiskStep
<1>3. Disk => RowsKeepTheirFiles
  BY DEF Disk, RowFiles, RowsKeepTheirFiles
<1>. QED
  BY <1>1, <1>2, <1>3, TypeCorrect, PTL DEF Spec

-----------------------------------------------------------------------------

(* The documents a build is done with are settled, those whose facts are   *)
(* not committed yet excepted; and only a build or a delete has documents. *)
Settled(w) ==
  LET j == job[w] IN
  /\ j.stage \in Building =>
       \A d \in j.docs \ (j.left \cup j.crossed) :
         d \in Existing /\ (\A u \in j.pending : u.doc # d) => rows[d].status \in {"parsed", "failed"}
  /\ j.stage \in {"insert", "import"} => j.docs = {}
  /\ j.stage = "done" =>
       \A d \in j.docs \ j.crossed : d \in Existing => rows[d].status \in {"parsed", "failed"}

(* Every update of a commit settles its document, but the one of the       *)
(* document that is marked; what leaves the list has one.                  *)
LEMMA BuildSettlesRows ==
  ASSUME TypeOK, NEW w \in Workers, InHand(w), Coherent(w),
         BuildMark(w) \/ BuildNoText(w) \/ BuildNoAnswer(w) \/ BuildParsed(w)
  PROVE  \E view \in Table, updates \in SUBSET Updates, next \in Job :
           /\ Committed(w, view, updates, next)
           /\ job[w].pending \subseteq updates
           /\ \A u \in updates :
                /\ u.doc \notin job[w].crossed => rows[u.doc] = view[u.doc]
                /\ u.doc \in job'[w].left \/ u.status \in {"parsed", "failed"}
           /\ \A d \in job[w].left \ job'[w].left : \E u \in updates : u.doc = d
<1>. DEFINE d == Current(w)
            r == Seen(w, d)
            V == [job[w].view EXCEPT ![d] = r]
            P == job[w].pending
            Loaded(view, u) == u.doc \notin job[w].crossed => rows[u.doc] = view[u.doc]
<1>j. job[w] \in Job /\ job[w].view \in Table
  BY DEF TypeOK, Job
<1>p. \A u \in P :
        /\ u.doc \in Ids /\ job[w].view[u.doc] # NoRow
        /\ u.status = "parsed" /\ u.doc \notin job[w].left
  BY <1>j DEF InHand, Job
<1>c. job[w].stage \in {"look", "extract", "answer"} =>
        \A e \in Ids : job[w].view[e] # NoRow /\ e \notin job[w].crossed => rows[e] = job[w].view[e]
  BY DEF Coherent
<1>v. ASSUME At(w, "look"), d \in Ids, d \in job[w].left
      PROVE  /\ d \notin job[w].crossed => rows[d] = V[d]
             /\ \A u \in P : Loaded(V, u)
  <2>1. V[d] = r /\ \A e \in Ids : e # d => V[e] = job[w].view[e]
    <3>. HIDE DEF d, r
    <3>. QED
      BY <1>j, <1>v DEF Table
  <2>2. d \notin job[w].crossed => rows[d] = r
    BY <1>c, <1>v DEF Seen, At
  <2>3. \A u \in P : u.doc # d /\ (u.doc \notin job[w].crossed => rows[u.doc] = job[w].view[u.doc])
    BY <1>c, <1>p, <1>v DEF At
  <2>4. \A u \in P : Loaded(V, u)
    <3>. HIDE DEF V, d, r, P
    <3>. QED
      BY <1>p, <2>1, <2>3
  <2>. QED
    BY <2>1, <2>2, <2>4
<1>2. CASE BuildMark(w)
  <2>. DEFINE U == Update(d, "processing", r.facts)
              next == [job[w] EXCEPT !.stage = "extract"]
  <2>1. /\ V \in Table /\ P \cup {U} \in SUBSET Updates /\ next \in Job
        /\ d \in Ids /\ Committed(w, V, P \cup {U}, next)
    BY <1>2, CommitsOfABuild
  <2>2. At(w, "look") /\ d \in job[w].left
    BY <1>2, AtWork DEF BuildMark, Building, At
  <2>3. job'[w].left = job[w].left
    BY <1>2, BuildCommits
  <2>4. U.doc = d
    BY DEF Update
  <2>. HIDE DEF V, d, r, P, next, U
  <2>5. \A u \in P \cup {U} :
          Loaded(V, u) /\ (u.doc \in job'[w].left \/ u.status \in {"parsed", "failed"})
    BY <1>p, <1>v, <2>1, <2>2, <2>3, <2>4
  <2>6. P = job[w].pending
    BY DEF P
  <2>. QED
    BY <2>1, <2>3, <2>5, <2>6
<1>3. CASE BuildNoText(w)
  <2>. DEFINE U == Update(d, "failed", "error")
              next == [job[w] EXCEPT !.left = job[w].left \ {d}]
  <2>1. /\ V \in Table /\ P \cup {U} \in SUBSET Updates /\ next \in Job
        /\ d \in Ids /\ Committed(w, V, P \cup {U}, next)
    BY <1>3, CommitsOfABuild
  <2>2. At(w, "look") /\ d \in job[w].left
    BY <1>3, AtWork DEF BuildNoText, Building, At
  <2>3. job'[w].left = job[w].left \ {d}
    BY <1>3, BuildCommits
  <2>4. U.doc = d /\ U.status = "failed"
    BY DEF Update
  <2>. HIDE DEF V, d, r, P, next, U
  <2>5. \A u \in P \cup {U} :
          Loaded(V, u) /\ (u.doc \in job'[w].left \/ u.status \in {"parsed", "failed"})
    BY <1>p, <1>v, <2>1, <2>2, <2>3, <2>4
  <2>6. P = job[w].pending
    BY DEF P
  <2>7. \A e \in job[w].left \ job'[w].left : \E u \in P \cup {U} : u.doc = e
    BY <2>3, <2>4
  <2>. QED
    BY <2>1, <2>5, <2>6, <2>7
<1>4. CASE BuildNoAnswer(w)
  <2>. DEFINE U == Update(d, "failed", "error")
              next == [job[w] EXCEPT !.left = job[w].left \ {d}, !.stage = "look"]
  <2>1. /\ {U} \in SUBSET Updates /\ next \in Job
        /\ d \in Ids /\ Committed(w, job[w].view, {U}, next)
    BY <1>4, CommitsOfABuild
  <2>2. At(w, "answer") /\ job[w].view[d] # NoRow /\ job[w].pending = {}
    BY <1>4 DEF BuildNoAnswer, At, InHand
  <2>3. job'[w].left = job[w].left \ {d}
    BY <1>4, BuildCommits
  <2>4. U.doc = d /\ U.status = "failed"
    BY DEF Update
  <2>. HIDE DEF V, d, r, P, next, U
  <2>5. \A u \in {U} :
          Loaded(job[w].view, u) /\ (u.doc \in job'[w].left \/ u.status \in {"parsed", "failed"})
    BY <1>c, <2>1, <2>2, <2>4 DEF At
  <2>6. \A e \in job[w].left \ job'[w].left : \E u \in {U} : u.doc = e
    BY <2>3, <2>4
  <2>. QED
    BY <1>j, <2>1, <2>2, <2>5, <2>6
<1>5. CASE BuildParsed(w)
  <2>. DEFINE next == [job[w] EXCEPT !.stage = "synthesize"]
  <2>1. P \in SUBSET Updates /\ next \in Job /\ Committed(w, job[w].view, P, next)
    BY <1>5, CommitsOfABuild
  <2>2. At(w, "look") /\ job'[w].left = job[w].left
    BY <1>5, BuildCommits DEF BuildParsed
  <2>. HIDE DEF next
  <2>3. \A u \in P :
          Loaded(job[w].view, u) /\ (u.doc \in job'[w].left \/ u.status \in {"parsed", "failed"})
    BY <1>c, <1>p, <2>2 DEF At
  <2>4. P = job[w].pending
    OBVIOUS
  <2>. HIDE DEF P
  <2>. QED
    BY <1>j, <2>1, <2>2, <2>3, <2>4
<1>. QED
  BY <1>2, <1>3, <1>4, <1>5

LEMMA OthersStaySettled ==
  ASSUME TypeOK, NEW w \in Workers, NEW v \in Workers, v # w, Settled(v),
         Quiet(w) \/ \E D \in SUBSET Ids : Loud(w, D)
  PROVE  Settled(v)'
<1>1. CASE Quiet(w)
  BY <1>1 DEF Quiet, Settled, Existing
<1>2. ASSUME NEW D \in SUBSET Ids, Loud(w, D) PROVE Settled(v)'
  <2>1. /\ job'[v].stage = job[v].stage /\ job'[v].left = job[v].left
        /\ job'[v].docs = job[v].docs /\ job'[v].pending = job[v].pending
        /\ job'[v].crossed = job[v].crossed \cup D
    BY <1>2 DEF Loud, OthersNotice
  <2>2. \A d \in Ids : d \notin D => rows'[d] = rows[d]
    BY <1>2 DEF Loud
  <2>. QED
    BY <2>1, <2>2 DEF Settled, Existing
<1>. QED
  BY <1>1, <1>2

LEMMA OwnSettled ==
  ASSUME TypeOK, NEW w \in Workers, InHand(w), Coherent(w), Settled(w), Step(w)
  PROVE  Settled(w)'
<1>j. job \in [Workers -> Job] /\ job[w] \in Job /\ rows \in Table
  BY DEF TypeOK
<1>p. job[w].stage # "look" => job[w].pending = {}
  BY DEF InHand
<1>n. ASSUME job'[w].docs = {} PROVE Settled(w)'
  BY <1>n DEF Settled
<1>1. CASE UploadSave(w) \/ ImportStart(w) \/ Stops(w)
  <2>1. job'[w].docs = {}
    <3>1. CASE UploadSave(w)
      BY <3>1, <1>j DEF UploadSave, Begins, NoJob
    <3>2. CASE ImportStart(w)
      BY <3>2, <1>j DEF ImportStart, Begins, NoJob
    <3>3. CASE Stops(w)
      BY <3>3, <1>j DEF Stops, NoJob
    <3>. QED
      BY <1>1, <3>1, <3>2, <3>3
  <2>. QED
    BY <1>n, <2>1
<1>2. CASE UploadUnreadable(w) \/ UploadInsert(w) \/ ImportCommit(w)
  <2>1. job[w].docs = {}
    <3>1. job[w].stage \in {"insert", "import"}
      BY <1>2 DEF UploadUnreadable, UploadInsert, ImportCommit, At
    <3>. QED
      BY <3>1 DEF Settled
  <2>2. job'[w].docs = job[w].docs
    <3>1. CASE UploadUnreadable(w)
      BY <3>1, <1>j DEF UploadUnreadable, Goto, Job
    <3>2. CASE UploadInsert(w)
      <4>1. NextId \in Ids /\ job' = Noticed(w, [job EXCEPT ![w].stage = "done"], {NextId})
        BY <3>2 DEF UploadInsert
      <4>. QED
        BY <4>1, DoneFacts
    <3>3. CASE ImportCommit(w)
      <4>1. PICK W \in SUBSET Ids, I \in SUBSET Ids : Imported(w, W, I)
        BY <3>3, ImportCommitFacts
      <4>2. job' = Noticed(w, [job EXCEPT ![w].stage = "done"], W \cup I)
        BY <4>1 DEF Imported
      <4>. QED
        BY <4>2, DoneFacts
    <3>. QED
      BY <1>2, <3>1, <3>2, <3>3
  <2>. QED
    BY <1>n, <2>1, <2>2
<1>3. CASE ImportSkip(w) \/ ImportError(w) \/ ImportSave(w)
  <2>1. job[w].docs = {}
    BY <1>3 DEF Settled, ImportSkip, ImportError, ImportSave, At
  <2>2. job'[w].docs = job[w].docs
    <3>1. CASE ImportSkip(w) \/ ImportError(w)
      <4>1. PICK p \in job[w].left : job' = [job EXCEPT ![w].left = @ \ {p}]
        BY <3>1 DEF ImportSkip, ImportError
      <4>. QED
        BY <1>j, <4>1 DEF Job
    <3>2. CASE ImportSave(w)
      BY <3>2, ImportSaveFacts
    <3>. QED
      BY <1>3, <3>1, <3>2
  <2>. QED
    BY <1>n, <2>1, <2>2
<1>4. CASE DeleteFile(w)
  <2>1. job'[w].stage = "delete"
    BY <1>4, <1>j DEF DeleteFile, Begins, NoJob
  <2>. QED
    BY <2>1 DEF Settled, Building
<1>5. CASE DeleteRow(w)
  <2>1. /\ rows' = [d \in Ids |-> IF d \in job[w].docs THEN NoRow ELSE rows[d]]
        /\ job' = Noticed(w, [job EXCEPT ![w].stage = "done"], job[w].docs)
    BY <1>5 DEF DeleteRow
  <2>2. job'[w].stage = "done" /\ job'[w].docs = job[w].docs /\ job[w].docs \in SUBSET Ids
    BY <1>j, <2>1, DoneFacts DEF Job
  <2>. QED
    BY <2>1, <2>2 DEF Settled, Existing, Building
<1>6. CASE BuildStart(w)
  <2>1. job'[w].stage = "look" /\ job'[w].left = job'[w].docs
    BY <1>6, <1>j DEF BuildStart, Begins, NoJob
  <2>. QED
    BY <2>1 DEF Settled
<1>7. CASE BuildReuse(w)
  <2>. DEFINE d == Current(w)
  <2>1. /\ At(w, "look") /\ job[w].left # {} /\ Reusable(Seen(w, d)) /\ rows' = rows
        /\ job' = [job EXCEPT ![w].left = @ \ {d}, ![w].any = TRUE, ![w].view[d] = Seen(w, d)]
    BY <1>7 DEF BuildReuse
  <2>2. d \in Ids
    BY <2>1, AtWork DEF Building, At
  <2>3. /\ job'[w].stage = "look" /\ job'[w].left = job[w].left \ {d}
        /\ job'[w].docs = job[w].docs
        /\ job'[w].pending = job[w].pending /\ job'[w].crossed = job[w].crossed
    <3>. HIDE DEF d
    <3>. QED
      BY <2>1, <1>j DEF At, Job
  <2>4. d \notin job[w].crossed => rows[d].status = "parsed"
    <3>1. d \notin job[w].crossed => Seen(w, d) = rows[d]
      BY <2>1, <2>2 DEF Seen, Coherent, At
    <3>. HIDE DEF d
    <3>. QED
      BY <2>1, <3>1 DEF Reusable
  <2>. HIDE DEF d
  <2>. QED
    BY <2>1, <2>3, <2>4 DEF Settled, Existing, Building, At
<1>8. CASE BuildExtract(w)
  <2>1. At(w, "extract") /\ rows' = rows
    BY <1>8 DEF BuildExtract
  <2>2. /\ job'[w].stage = "answer" /\ job'[w].left = job[w].left
        /\ job'[w].docs = job[w].docs
        /\ job'[w].pending = job[w].pending /\ job'[w].crossed = job[w].crossed
    BY <1>8, <1>j DEF BuildExtract, Job
  <2>. QED
    BY <2>1, <2>2 DEF Settled, Existing, Building, At
<1>9. CASE BuildAnswer(w)
  <2>. DEFINE d == Current(w)
  <2>1. At(w, "answer") /\ rows' = rows
    BY <1>9 DEF BuildAnswer
  <2>2. PICK f \in {job[w].view[d].text, "error"} :
          job' = [job EXCEPT ![w].pending = {Update(d, "parsed", f)}, ![w].any = TRUE,
                             ![w].left = @ \ {d}, ![w].stage = "look"]
    BY <1>9 DEF BuildAnswer
  <2>3. /\ job'[w].stage = "look" /\ job'[w].left = job[w].left \ {d}
        /\ job'[w].docs = job[w].docs
        /\ job'[w].pending = {Update(d, "parsed", f)} /\ job'[w].crossed = job[w].crossed
    <3>. HIDE DEF d
    <3>. QED
      BY <2>2, <1>j DEF Job
  <2>4. Update(d, "parsed", f).doc = d /\ job[w].pending = {}
    BY <1>p, <2>1 DEF Update, At
  <2>. HIDE DEF d
  <2>. QED
    BY <2>1, <2>3, <2>4 DEF Settled, Existing, Building, At
<1>10. CASE BuildDone(w)
  <2>1. At(w, "synthesize") /\ rows' = rows /\ job' = [job EXCEPT ![w].stage = "done"]
    BY <1>10 DEF BuildDone
  <2>2. /\ job'[w].stage = "done" /\ job'[w].docs = job[w].docs
        /\ job'[w].crossed = job[w].crossed
    BY <1>j, <2>1 DEF Job
  <2>3. job[w].left = {} /\ job[w].pending = {}
    BY <1>p, <2>1 DEF InHand, At
  <2>. QED
    BY <2>1, <2>2, <2>3 DEF Settled, Existing, Building, At
<1>11. CASE BuildMark(w) \/ BuildNoText(w) \/ BuildNoAnswer(w) \/ BuildParsed(w)
  <2>1. PICK view \in Table, updates \in SUBSET Updates, next \in Job :
          /\ Committed(w, view, updates, next)
          /\ job[w].pending \subseteq updates
          /\ \A u \in updates :
               /\ u.doc \notin job[w].crossed => rows[u.doc] = view[u.doc]
               /\ u.doc \in job'[w].left \/ u.status \in {"parsed", "failed"}
          /\ \A d \in job[w].left \ job'[w].left : \E u \in updates : u.doc = d
    BY <1>11, BuildSettlesRows
  <2>. DEFINE W == Docs(Changed(view, updates))
  <2>2. /\ W \subseteq Existing
        /\ \A d \in Ids : d \notin W => rows'[d] = rows[d]
        /\ \A d \in W : \E u \in Changed(view, updates) :
             u.doc = d /\ Updated(rows'[d], rows[d], view[d], u)
    BY <2>1, CommittedFacts
  <2>3. /\ job'[w].docs = job[w].docs /\ job'[w].crossed = job[w].crossed
        /\ job'[w].pending = {}
        /\ job'[w].stage \in Building /\ job[w].stage \in Building
    BY <1>11, BuildCommits DEF BuildMark, BuildNoText, BuildNoAnswer, BuildParsed, At, Building
  <2>4. ASSUME NEW d \in job[w].docs, d \notin job'[w].left, d \notin job[w].crossed, d \in Existing'
        PROVE  rows'[d].status \in {"parsed", "failed"}
    <3>0. d \in Ids
      BY <1>j DEF Job
    <3>1. CASE d \in W
      <4>1. PICK u \in Changed(view, updates) : u.doc = d /\ Updated(rows'[d], rows[d], view[d], u)
        BY <2>2, <3>1
      <4>2. u \in updates
        BY DEF Changed
      <4>3. rows[d] = view[d] /\ u.status \in {"parsed", "failed"}
        BY <2>1, <2>4, <4>1, <4>2
      <4>4. rows'[d].status = u.status
        BY <4>1, <4>3 DEF Updated
      <4>. QED
        BY <4>3, <4>4
    <3>2. CASE d \notin W
      <4>1. rows'[d] = rows[d] /\ d \in Existing
        BY <2>2, <2>4, <3>0, <3>2 DEF Existing
      <4>2. CASE \E u \in updates : u.doc = d
        <5>1. PICK u \in updates : u.doc = d
          BY <4>2
        <5>2. u \notin Changed(view, updates)
          BY <3>2, <5>1 DEF Docs
        <5>3. u.status = view[d].status
          BY <5>1, <5>2 DEF Changed
        <5>. QED
          BY <2>1, <2>4, <4>1, <5>1, <5>3
      <4>3. CASE ~ \E u \in updates : u.doc = d
        <5>1. d \notin job[w].left /\ \A u \in job[w].pending : u.doc # d
          BY <2>1, <2>4, <4>3
        <5>. QED
          BY <2>3, <2>4, <4>1, <5>1 DEF Settled
      <4>. QED
        BY <4>2, <4>3
    <3>. QED
      BY <3>1, <3>2
  <2>5. job'[w].stage \notin {"insert", "import", "done"}
    BY <2>3 DEF Building
  <2>. QED
    BY <2>3, <2>4, <2>5 DEF Settled
<1>. QED
  BY <1>1, <1>2, <1>3, <1>4, <1>5, <1>6, <1>7, <1>8, <1>9, <1>10, <1>11 DEF Step

LEMMA SettledStep ==
  ASSUME TypeOK, Held, \A w \in Workers : Settled(w), [Next]_vars
  PROVE  \A w \in Workers : Settled(w)'
<1>1. CASE UNCHANGED vars \/ Edit
  <2>1. job' = job /\ rows' = rows
    BY <1>1 DEF vars, Edit
  <2>. QED
    BY <2>1 DEF Settled, Existing
<1>2. ASSUME NEW w \in Workers, Step(w) PROVE \A v \in Workers : Settled(v)'
  <2>1. InHand(w) /\ Coherent(w)
    BY DEF Held
  <2>2. Quiet(w) \/ \E D \in SUBSET Ids : Loud(w, D)
    BY <1>2, <2>1, QuietSteps, LoudSteps DEF Step
  <2>3. Settled(w)'
    BY <1>2, <2>1, OwnSettled
  <2>4. \A v \in Workers : v # w => Settled(v)'
    BY <2>2, OthersStaySettled
  <2>. QED
    BY <2>3, <2>4
<1>. QED
  BY <1>1, <1>2 DEF Next

(* A build that ends has settled each of its documents, also one that an   *)
(* earlier build left "processing" when it died, unless somebody else      *)
(* wrote the document meanwhile (advisor.py:82-107).                       *)
THEOREM SettledAtTheEnd == Spec => []BuildsSettle
<1>. DEFINE AllSettled == \A w \in Workers : Settled(w)
<1>1. Init => AllSettled
  BY DEF Init, NoJob, Settled, Building
<1>2. TypeOK /\ Held /\ AllSettled /\ [Next]_vars => AllSettled'
  BY SettledStep
<1>3. AllSettled => BuildsSettle
  BY DEF Settled, BuildsSettle, At
<1>. QED
  BY <1>1, <1>2, <1>3, TypeCorrect, PTL DEF Spec

=============================================================================
