------------------------------ MODULE Documents ------------------------------
(***************************************************************************)
(* Uploaded and imported documents and the profile builder that reads them:*)
(* the handlers of api/routes.py, documents/storage.py, import_folder.py   *)
(* and agents/advisor.py, each a request thread with a session of its own. *)
(*                                                                         *)
(* A session keeps the rows it has loaded until it commits (view); its     *)
(* UPDATE then writes the columns that differ from what was loaded, and    *)
(* raises when the row is gone.  Files are written and removed at once,    *)
(* rows only by the commit.  Facts are named by the text they came from.   *)
(***************************************************************************)
EXTENDS Naturals, FiniteSets

CONSTANTS
  Workers,      \* request threads
  Paths,        \* files of the import folder
  NoPath,       \* source_path of an upload
  Contents,     \* contents of files
  NoText,       \* the content of a file that has no text
  MaxIds,       \* bound on the rows at one time
  MaxFiles,     \* bound on the files ever stored
  MaxRequests   \* bound on the requests

ASSUME DocumentsAssumption ==
  /\ NoPath \notin Paths
  /\ NoText \in Contents /\ {"none", "error"} \cap Contents = {}
  /\ MaxIds \in Nat /\ MaxFiles \in Nat /\ MaxRequests \in Nat

Ids == 1..MaxIds
Files == 1..MaxFiles

VARIABLES
  rows,       \* table uploaded_documents
  evidence,   \* table evidence_items: the document (0: NULL) and the facts cited
  files,      \* the uploads directory
  stored,     \* files stored so far: each gets a new name
  folder,     \* what the import folder holds
  requests,   \* requests so far
  job,        \* what each worker's handler holds
  removed,    \* history: the files that delete_document has removed
  torn        \* history: rows that two handlers wrote while they overlapped

disk == <<files, stored, folder>>
vars == <<rows, evidence, files, stored, folder, requests, job, removed, torn>>

Facts == Contents \cup {"none", "error"}

Row == [file : Files, path : Paths \cup {NoPath}, text : Contents,
        status : {"uploaded", "processing", "parsed", "failed"}, facts : Facts]

NoRow == [file |-> 0]

Table == [Ids -> Row \cup {NoRow}]

Unloaded == [d \in Ids |-> NoRow]

Stages == {"idle", "insert", "import", "delete", "look", "extract", "answer",
           "synthesize", "done"}

(* view: the rows the session has loaded; left: documents or paths still   *)
(* to do; docs: the documents of a build; new: the rows an import or upload*)
(* will write, with the id of the row they replace or 0; pending: the facts*)
(* of a build that are not committed, with their document; any: fact_blocks*)
(* is not empty; crossed: history, the rows others wrote since the handler *)
(* began.                                                                  *)
New == [id : {0} \cup Ids, file : Files, path : Paths \cup {NoPath}, text : Contents]

NoJob == [stage |-> "idle", view |-> Unloaded, left |-> {}, docs |-> {}, new |-> {},
          pending |-> {}, any |-> FALSE, crossed |-> {}]

Init ==
  /\ rows = Unloaded
  /\ evidence = {}
  /\ files = {} /\ stored = 0
  /\ folder \in [Paths -> Contents]
  /\ requests = 0
  /\ job = [w \in Workers |-> NoJob]
  /\ removed = {} /\ torn = {}

At(w, s) == job[w].stage = s
Existing == {d \in Ids : rows[d] # NoRow}

(* An INTEGER PRIMARY KEY without AUTOINCREMENT: one more than the largest,*)
(* so that the id of a deleted row is given again.                         *)
NextId == CHOOSE n \in 1..(MaxIds + 1) :
            /\ \A d \in Existing : d < n
            /\ n = 1 \/ n - 1 \in Existing

(* The job after worker w has committed to rows D.                         *)
Noticed(w, jobs, D) ==
  [v \in Workers |-> IF v = w THEN jobs[v] ELSE [jobs[v] EXCEPT !.crossed = @ \cup D]]

(* A new request of worker w.                                              *)
Begins(w, j) ==
  /\ job[w].stage \in {"idle", "done"}
  /\ requests < MaxRequests
  /\ requests' = requests + 1
  /\ job' = [job EXCEPT ![w] = j]

Goto(w, s) == job' = [job EXCEPT ![w].stage = s]

(***************************************************************************)
(* POST /api/documents/upload: the file first, then the row.               *)
(***************************************************************************)

(* save_upload: a new uuid is the name.                                    *)
SavedAs(f) ==
  /\ stored < MaxFiles
  /\ f = stored + 1
  /\ stored' = f
  /\ files' = files \cup {f}

UploadSave(w) ==
  /\ \E c \in Contents, f \in Files :
       /\ SavedAs(f)
       /\ Begins(w, [NoJob EXCEPT !.stage = "insert",
                                  !.new = {[id |-> 0, file |-> f, path |-> NoPath, text |-> c]}])
  /\ UNCHANGED <<rows, evidence, folder, removed, torn>>

(* extract_text raises: the file is removed again.                         *)
UploadUnreadable(w) ==
  /\ At(w, "insert")
  /\ files' = files \ {n.file : n \in job[w].new}
  /\ Goto(w, "done")
  /\ UNCHANGED <<rows, evidence, stored, folder, requests, removed, torn>>

Inserted(n) == [file |-> n.file, path |-> n.path, text |-> n.text,
                status |-> "uploaded", facts |-> "none"]

UploadInsert(w) ==
  /\ At(w, "insert")
  /\ NextId \in Ids
  /\ \E n \in job[w].new :
       /\ rows' = [rows EXCEPT ![NextId] = Inserted(n)]
       /\ job' = Noticed(w, [job EXCEPT ![w].stage = "done"], {NextId})
  /\ UNCHANGED <<evidence, disk, requests, removed, torn>>

(***************************************************************************)
(* import_documents_from_folder: file after file, and one commit.          *)
(***************************************************************************)

ImportStart(w) ==
  /\ Begins(w, [NoJob EXCEPT !.stage = "import", !.left = Paths])
  /\ UNCHANGED <<rows, evidence, disk, removed, torn>>

RowsOf(p) == {d \in Existing : rows[d].path = p}

(* content_hash is the one of the row's text.                              *)
ImportSkip(w) ==
  /\ At(w, "import")
  /\ \E p \in job[w].left :
       /\ \E d \in RowsOf(p) : RowsOf(p) = {d} /\ rows[d].text = folder[p]
       /\ job' = [job EXCEPT ![w].left = @ \ {p}]
  /\ UNCHANGED <<rows, evidence, disk, requests, removed, torn>>

(* Mutant of ImportSave: the file that is replaced is removed at once.     *)
ImportSaveAndRemove(w) ==
  /\ At(w, "import")
  /\ \E p \in job[w].left, f \in Files :
       /\ Cardinality(RowsOf(p)) <= 1
       /\ \A d \in RowsOf(p) : rows[d].text # folder[p]
       /\ stored < MaxFiles /\ f = stored + 1 /\ stored' = f
       /\ files' = (files \ {rows[d].file : d \in RowsOf(p)}) \cup {f}
       /\ job' = [job EXCEPT
            ![w].left = @ \ {p},
            ![w].view = [d \in Ids |-> IF d \in RowsOf(p) THEN rows[d] ELSE @[d]],
            ![w].new = @ \cup {[id |-> IF RowsOf(p) = {} THEN 0 ELSE CHOOSE d \in RowsOf(p) : TRUE,
                                file |-> f, path |-> p, text |-> folder[p]]}]
  /\ UNCHANGED <<rows, evidence, folder, requests, removed, torn>>

(* The row of the path, if there is one, is loaded and the file copied.    *)
ImportSave(w) ==
  /\ At(w, "import")
  /\ \E p \in job[w].left, f \in Files :
       /\ Cardinality(RowsOf(p)) <= 1
       /\ \A d \in RowsOf(p) : rows[d].text # folder[p]
       /\ SavedAs(f)
       /\ job' = [job EXCEPT
            ![w].left = @ \ {p},
            ![w].view = [d \in Ids |-> IF d \in RowsOf(p) THEN rows[d] ELSE @[d]],
            ![w].new = @ \cup {[id |-> IF RowsOf(p) = {} THEN 0 ELSE CHOOSE d \in RowsOf(p) : TRUE,
                                file |-> f, path |-> p, text |-> folder[p]]}]
  /\ UNCHANGED <<rows, evidence, folder, requests, removed, torn>>

(* The file cannot be read, or its copy not be parsed: the copy stays.     *)
ImportError(w) ==
  /\ At(w, "import")
  /\ \E p \in job[w].left : job' = [job EXCEPT ![w].left = @ \ {p}]
  /\ \/ UNCHANGED <<files, stored>>
     \/ \E f \in Files : SavedAs(f)
  /\ UNCHANGED <<rows, evidence, folder, requests, removed, torn>>

(* Mutant of Replaced: the new text keeps the facts of the old one.        *)
ReplacedKeepingFacts(r, old, n) == [r EXCEPT !.file = n.file, !.text = n.text]

(* The UPDATE of a changed file: status and facts are written only when    *)
(* they differ from what the session has loaded.                           *)
Replaced(r, old, n) ==
  [r EXCEPT !.file = n.file, !.text = n.text,
            !.status = IF old.status = "uploaded" THEN @ ELSE "uploaded",
            !.facts = IF old.facts = "none" THEN @ ELSE "none"]

(* One INSERT at a time gets its id; the rows of one commit are inserted in*)
(* some order.                                                             *)
ImportCommit(w) ==
  LET j == job[w]
      updates == {n \in j.new : n.id # 0}
      inserts == {n \in j.new : n.id = 0}
      written == {n.id : n \in updates}
  IN
  /\ At(w, "import")
  /\ j.left = {}
  /\ written \subseteq Existing
  /\ \E give \in [inserts -> {d \in Ids : NextId <= d /\ d < NextId + Cardinality(inserts)}] :
       /\ \A m, n \in inserts : give[m] = give[n] => m = n
       /\ rows' = [d \in Ids |->
            IF \E n \in inserts : give[n] = d
            THEN Inserted(CHOOSE n \in inserts : give[n] = d)
            ELSE IF d \in written
            THEN Replaced(rows[d], j.view[d], CHOOSE n \in updates : n.id = d)
            ELSE rows[d]]
       /\ job' = Noticed(w, [job EXCEPT ![w].stage = "done"],
                         written \cup {give[n] : n \in inserts})
  /\ torn' = (torn \ written) \cup (written \cap j.crossed)
  /\ UNCHANGED <<evidence, disk, requests, removed>>

(***************************************************************************)
(* DELETE /api/documents/{id}: the file first, then the row.               *)
(***************************************************************************)

DeleteFile(w) ==
  /\ \E d \in Existing :
       /\ files' = files \ {rows[d].file}
       /\ removed' = removed \cup {rows[d].file}
       /\ Begins(w, [NoJob EXCEPT !.stage = "delete", !.docs = {d}])
  /\ UNCHANGED <<rows, evidence, stored, folder, torn>>

(* The evidence loses its document; a row that is gone is only warned of.  *)
DeleteRow(w) ==
  /\ At(w, "delete")
  /\ rows' = [d \in Ids |-> IF d \in job[w].docs THEN NoRow ELSE rows[d]]
  /\ evidence' = {[e EXCEPT !.doc = IF @ \in job[w].docs THEN 0 ELSE @] : e \in evidence}
  /\ job' = Noticed(w, [job EXCEPT ![w].stage = "done"], job[w].docs)
  /\ torn' = torn \ job[w].docs
  /\ UNCHANGED <<disk, requests, removed>>

(***************************************************************************)
(* build_profile_from_documents.                                           *)
(***************************************************************************)

BuildStart(w) ==
  /\ Existing # {}
  /\ Begins(w, [NoJob EXCEPT !.stage = "look", !.view = rows, !.left = Existing,
                             !.docs = Existing])
  /\ UNCHANGED <<rows, evidence, disk, removed, torn>>

Current(w) == CHOOSE d \in job[w].left : \A e \in job[w].left : d <= e

(* The row of a document as the session sees it.                           *)
Seen(w, d) == IF job[w].view[d] # NoRow THEN job[w].view[d] ELSE rows[d]

(* Mutant of Reusable: a document in work is left to whoever works on it.  *)
ReusableOrInWork(r) ==
  \/ r.status = "parsed" /\ r.facts \notin {"none", "error"}
  \/ r.status = "processing"

(* usable_parsed_facts *)
Reusable(r) == r.status = "parsed" /\ r.facts \notin {"none", "error"}

Update(d, status, facts) == [doc |-> d, status |-> status, facts |-> facts]

(* session.commit() of a build: the columns that differ from what was      *)
(* loaded; everything the session has loaded expires.                      *)
Committed(w, view, updates, next) ==
  LET changed == {u \in updates : u.status # view[u.doc].status \/ u.facts # view[u.doc].facts}
      written == {u.doc : u \in changed}
  IN
  /\ written \subseteq Existing
  /\ rows' = [d \in Ids |->
       IF d \in written
       THEN LET u == CHOOSE u \in changed : u.doc = d IN
            [rows[d] EXCEPT !.status = IF u.status = view[d].status THEN @ ELSE u.status,
                            !.facts = IF u.facts = view[d].facts THEN @ ELSE u.facts]
       ELSE rows[d]]
  /\ torn' = torn \cup (written \cap job[w].crossed)
  /\ job' = Noticed(w, [job EXCEPT ![w] = [next EXCEPT !.view = Unloaded, !.pending = {}]],
                    written)
  /\ UNCHANGED <<evidence, disk, requests, removed>>

BuildReuse(w) ==
  LET d == Current(w) IN
  /\ At(w, "look") /\ job[w].left # {}
  /\ Seen(w, d) # NoRow /\ Reusable(Seen(w, d))
  /\ job' = [job EXCEPT ![w].left = @ \ {d}, ![w].any = TRUE, ![w].view[d] = Seen(w, d)]
  /\ UNCHANGED <<rows, evidence, disk, requests, removed, torn>>

(* The next document is marked; the commit takes the pending facts of the  *)
(* one before along.                                                       *)
BuildMark(w) ==
  LET d == Current(w)
      r == Seen(w, d)
  IN
  /\ At(w, "look") /\ job[w].left # {}
  /\ r # NoRow /\ ~Reusable(r) /\ r.text # NoText
  /\ Committed(w, [job[w].view EXCEPT ![d] = r],
               job[w].pending \cup {Update(d, "processing", r.facts)},
               [job[w] EXCEPT !.stage = "extract"])

BuildNoText(w) ==
  LET d == Current(w)
      r == Seen(w, d)
  IN
  /\ At(w, "look") /\ job[w].left # {}
  /\ r # NoRow /\ ~Reusable(r) /\ r.text = NoText
  /\ Committed(w, [job[w].view EXCEPT ![d] = r],
               job[w].pending \cup {Update(d, "failed", "error")},
               [job[w] EXCEPT !.left = @ \ {d}])

(* extract_document_facts reads the text after the commit, so anew.        *)
BuildExtract(w) ==
  LET d == Current(w) IN
  /\ At(w, "extract")
  /\ rows[d] # NoRow
  /\ job' = [job EXCEPT ![w].view[d] = rows[d], ![w].stage = "answer"]
  /\ UNCHANGED <<rows, evidence, disk, requests, removed, torn>>

(* The answer may itself be an object with a key "error"; no text gives no *)
(* evidence and asks nobody.  It stays in the session until the next       *)
(* commit.                                                                 *)
BuildAnswer(w) ==
  LET d == Current(w) IN
  /\ At(w, "answer")
  /\ \E f \in {job[w].view[d].text, "error"} :
       /\ f = "error" => job[w].view[d].text # NoText
       /\ job' = [job EXCEPT ![w].pending = {Update(d, "parsed", f)}, ![w].any = TRUE,
                             ![w].left = @ \ {d}, ![w].stage = "look"]
  /\ UNCHANGED <<rows, evidence, disk, requests, removed, torn>>

(* The model fails or its answer is no JSON.                               *)
BuildNoAnswer(w) ==
  LET d == Current(w) IN
  /\ At(w, "answer")
  /\ job[w].view[d].text # NoText
  /\ Committed(w, job[w].view, {Update(d, "failed", "error")},
               [job[w] EXCEPT !.left = @ \ {d}, !.stage = "look"])

(* Without facts of any document the build ends here.                      *)
BuildParsed(w) ==
  /\ At(w, "look") /\ job[w].left = {} /\ job[w].any
  /\ Committed(w, job[w].view, job[w].pending, [job[w] EXCEPT !.stage = "synthesize"])

(* The UPDATE of the old suggestions takes the write lock; the evidence is *)
(* made of the rows as they are then, up to the commit.  A document that is*)
(* gone raises.                                                            *)
BuildDone(w) ==
  /\ At(w, "synthesize")
  /\ job[w].docs \subseteq Existing
  /\ evidence' = {[doc |-> d, facts |-> rows[d].facts] :
                    d \in {e \in job[w].docs : rows[e].facts \notin {"none", "error", NoText}}}
  /\ job' = [job EXCEPT ![w].stage = "done"]
  /\ UNCHANGED <<rows, disk, requests, removed, torn>>

(***************************************************************************)
(* An exception (a lock timeout, a row that is gone, two rows of one path, *)
(* an error of the model) or the death of the process ends a handler; what *)
(* its session held is lost.  And the user edits the folder.               *)
(***************************************************************************)

Stops(w) ==
  /\ job[w].stage \notin {"idle", "done"}
  /\ job' = [job EXCEPT ![w] = NoJob]
  /\ UNCHANGED <<rows, evidence, disk, requests, removed, torn>>

Edit ==
  /\ \E p \in Paths, c \in Contents : c # folder[p] /\ folder' = [folder EXCEPT ![p] = c]
  /\ UNCHANGED <<rows, evidence, files, stored, requests, job, removed, torn>>

Step(w) ==
  \/ UploadSave(w) \/ UploadUnreadable(w) \/ UploadInsert(w)
  \/ ImportStart(w) \/ ImportSkip(w) \/ ImportSave(w) \/ ImportError(w) \/ ImportCommit(w)
  \/ DeleteFile(w) \/ DeleteRow(w)
  \/ BuildStart(w) \/ BuildReuse(w) \/ BuildMark(w) \/ BuildNoText(w)
  \/ BuildExtract(w) \/ BuildAnswer(w) \/ BuildNoAnswer(w) \/ BuildParsed(w) \/ BuildDone(w)
  \/ Stops(w)

Next == (\E w \in Workers : Step(w)) \/ Edit

Spec == Init /\ [][Next]_vars

(***************************************************************************)
(* Properties.                                                             *)
(***************************************************************************)

Job == [stage : Stages, view : Table, left : SUBSET (Ids \cup Paths), docs : SUBSET Ids,
        new : SUBSET New,
        pending : SUBSET [doc : Ids, status : {"parsed"}, facts : Facts],
        any : BOOLEAN, crossed : SUBSET Ids]

TypeOK ==
  /\ rows \in Table
  /\ evidence \subseteq [doc : {0} \cup Ids, facts : Contents]
  /\ files \subseteq Files /\ stored \in 0..MaxFiles
  /\ folder \in [Paths -> Contents]
  /\ requests \in 0..MaxRequests
  /\ job \in [Workers -> Job]
  /\ removed \subseteq Files /\ torn \subseteq Ids

(* A document that says "parsed" has the facts of its own text: an import  *)
(* that replaces the text, an id that is given again, a build that was cut *)
(* off or repeated never leave the facts of another text to be reused as   *)
(* evidence, unless two handlers overlapped and both wrote the row         *)
(* (advisor.py:83-99, import_folder.py:123-131).                           *)
FactsAreOfTheText ==
  \A d \in Existing :
    rows[d].status = "parsed" /\ rows[d].facts # "error" /\ d \notin torn =>
      rows[d].facts = rows[d].text

(* A file leaves the directory only by a deletion somebody asked for:      *)
(* whatever upload, import or delete fails half way, a row without its     *)
(* file is one whose deletion was not committed (routes.py:154-208).       *)
RowsKeepTheirFiles == \A d \in Existing : rows[d].file \notin files => rows[d].file \in removed

(* A build that ends has settled each of its documents, also one that an   *)
(* earlier build left "processing" when it died, unless somebody else      *)
(* wrote the document meanwhile (advisor.py:82-107).                       *)
BuildsSettle ==
  \A w \in Workers : At(w, "done") =>
    \A d \in job[w].docs \ job[w].crossed :
      d \in Existing => rows[d].status \in {"parsed", "failed"}

(* "source_path=source ... one_or_none()": an imported file has at most    *)
(* one row (import_folder.py:111).                                         *)
OneRowPerPath ==
  \A d, e \in Existing : rows[d].path = rows[e].path /\ rows[d].path # NoPath => d = e

=============================================================================
