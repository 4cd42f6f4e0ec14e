---------------------------- MODULE PrepareProofs ----------------------------
(* Theorems about Prepare, for any number of threads, runs and builds. *)
EXTENDS Prepare, TLAPS

Phases == {"idle", "mark", "ask", "load", "fail", "persist", "failing"}
Job == [run : 0..MaxRuns, read : Statuses, seen : Evidence, out : SUBSET Draft]

(* What a thread that was answered will store. *)
OutSound ==
  \A w \in Workers : pc[w] \in {"load", "persist"} =>
    /\ \A d \in job[w].out : /\ d.run = job[w].run
                             /\ d.build = job[w].seen.build
                             /\ d.cites \subseteq job[w].seen.ids
    /\ \E d \in job[w].out : d.kind = Fallback

(* A thread that saw the present build saw the present evidence. *)
SeenSound ==
  \A w \in Workers : pc[w] # "idle" =>
    /\ job[w].seen.build <= evidence.build
    /\ job[w].seen.build = evidence.build => job[w].seen.ids = evidence.ids

(* Nothing stored is of a later build than the table. *)
DraftsSound ==
  /\ DraftsOfOneRun
  /\ CitesStoredEvidence
  /\ \A d \in drafts : d.build <= evidence.build

(* A thread whose outcome will replace the status it has read. *)
WillConclude(w) ==
  \/ pc[w] \in {"ask", "load", "fail"}
  \/ pc[w] = "persist" /\ job[w].read # "ready"
  \/ pc[w] = "failing" /\ job[w].read # "failed"

PreparingWillEnd ==
  packet = "preparing" /\ faults = 0 => \E w \in Workers : WillConclude(w)

Sound == OutSound /\ SeenSound /\ DraftsSound /\ PreparingWillEnd

(* One preparation at a time. *)
Alone ==
  /\ \A v, w \in Workers : InFlight(v) /\ InFlight(w) => v = w
  /\ \A w \in Workers : pc[w] = "mark" => job[w].read = packet
  /\ \A w \in Workers : pc[w] \notin {"idle", "mark"} => packet = "preparing"

SerialSound == ~overlapped => Alone

-----------------------------------------------------------------------------

LEMMA TypeInit == Init => TypeOK
<1>1. [ids |-> {}, build |-> 0] \in Evidence
  BY PrepareAssumption DEF Evidence
<1>2. NoJob \in Job
  BY <1>1, PrepareAssumption DEF NoJob, Job, Statuses
<1>3. ASSUME Init PROVE TypeOK
  <2>1. job \in [Workers -> Job]
    BY <1>2, <1>3 DEF Init
  <2>2. pc \in [Workers -> Phases] /\ packet \in Statuses /\ drafts \subseteq Draft
    BY <1>3 DEF Init, Statuses, Phases
  <2>3. runs \in 0..MaxRuns /\ faults \in 0..MaxFaults
    BY <1>3, PrepareAssumption DEF Init
  <2>. QED
    BY <1>1, <1>3, <2>1, <2>2, <2>3 DEF Init, TypeOK, Job, Phases
<1>. QED
  BY <1>3

LEMMA UpdateType ==
  ASSUME packet \in Statuses, NEW was, NEW new \in Statuses
  PROVE  Update(was, new) \in Statuses
  BY DEF Update

LEMMA WrittenType ==
  ASSUME NEW j \in Job, NEW kinds \in SUBSET Kinds, NEW claimed \in SUBSET Ids
  PROVE  Written(j, kinds, claimed) \in SUBSET Draft
<1>1. ASSUME NEW k \in kinds \cup {Fallback}
      PROVE [run |-> j.run, kind |-> k, cites |-> Allowed(claimed, j.seen.ids),
             build |-> j.seen.build] \in Draft
  <2>1. k \in Kinds
    BY PrepareAssumption
  <2>2. Allowed(claimed, j.seen.ids) \in SUBSET Ids
    BY DEF Allowed
  <2>3. j.seen.build \in 0..MaxBuilds /\ j.run \in 0..MaxRuns
    BY DEF Job, Evidence
  <2>. QED
    BY <2>1, <2>2, <2>3 DEF Draft
<1>. QED
  BY <1>1 DEF Written

LEMMA TypeStep ==
  ASSUME TypeOK, [Next]_vars PROVE TypeOK'
<1>t. /\ packet \in Statuses /\ drafts \subseteq Draft /\ evidence \in Evidence
      /\ pc \in [Workers -> Phases] /\ job \in [Workers -> Job]
      /\ runs \in 0..MaxRuns /\ faults \in 0..MaxFaults /\ overlapped \in BOOLEAN
  BY DEF TypeOK, Phases, Job
<1>. DEFINE Typed ==
       /\ packet' \in Statuses /\ drafts' \subseteq Draft /\ evidence' \in Evidence
       /\ pc' \in [Workers -> Phases] /\ job' \in [Workers -> Job]
       /\ runs' \in 0..MaxRuns /\ faults' \in 0..MaxFaults /\ overlapped' \in BOOLEAN
<1>. SUFFICES Typed
  BY DEF TypeOK, Phases, Job
<1>1. ASSUME NEW w \in Workers, Begin(w) PROVE Typed
  <2>1. runs + 1 \in 0..MaxRuns
    BY <1>1, <1>t, PrepareAssumption DEF Begin
  <2>2. [NoJob EXCEPT !.run = runs + 1, !.read = packet, !.seen = evidence] \in Job
    BY <2>1, <1>t DEF NoJob, Job
  <2>3. job' \in [Workers -> Job]
    BY <1>1, <2>2, <1>t DEF Begin
  <2>4. pc' \in [Workers -> Phases] /\ overlapped' \in BOOLEAN
    BY <1>1, <1>t DEF Begin, Phases
  <2>. QED
    BY <1>1, <2>1, <2>3, <2>4, <1>t DEF Begin
<1>2. ASSUME NEW w \in Workers, Mark(w) PROVE Typed
  <2>1. packet' \in Statuses
    BY <1>2, <1>t, UpdateType DEF Mark, Marked, Statuses
  <2>2. pc' \in [Workers -> Phases]
    BY <1>2, <1>t DEF Mark, Phases
  <2>. QED
    BY <1>2, <2>1, <2>2, <1>t DEF Mark
<1>3. ASSUME NEW w \in Workers, MarkConflict(w) PROVE Typed
  BY <1>3, <1>t DEF MarkConflict, Phases
<1>4. ASSUME NEW w \in Workers, Answered(w) PROVE Typed
  <2>1. PICK kinds \in SUBSET Kinds, claimed \in SUBSET Ids :
          job' = [job EXCEPT ![w].out = Written(job[w], kinds, claimed)]
    BY <1>4 DEF Answered
  <2>2. Written(job[w], kinds, claimed) \in SUBSET Draft
    BY <1>t, WrittenType
  <2>3. job' \in [Workers -> Job]
    BY <2>1, <2>2, <1>t DEF Job
  <2>4. pc' \in [Workers -> Phases]
    BY <1>4, <1>t DEF Answered, Phases
  <2>. QED
    BY <1>4, <2>3, <2>4, <1>t DEF Answered
<1>5. ASSUME NEW w \in Workers, NotAnswered(w) PROVE Typed
  BY <1>5, <1>t DEF NotAnswered, Phases
<1>6. ASSUME NEW w \in Workers, Reload(w) PROVE Typed
  <2>1. job' \in [Workers -> Job]
    BY <1>6, <1>t DEF Reload, Job
  <2>2. pc' \in [Workers -> Phases]
    BY <1>6, <1>t DEF Reload, Phases
  <2>. QED
    BY <1>6, <2>1, <2>2, <1>t DEF Reload
<1>7. ASSUME NEW w \in Workers, Persist(w) PROVE Typed
  <2>1. packet' \in Statuses
    BY <1>7, <1>t, UpdateType DEF Persist, Statuses
  <2>2. drafts' \subseteq Draft
    BY <1>7, <1>t DEF Persist, Replaced, Job
  <2>3. pc' \in [Workers -> Phases]
    BY <1>7, <1>t DEF Persist, Phases
  <2>. QED
    BY <1>7, <2>1, <2>2, <2>3, <1>t DEF Persist
<1>8. ASSUME NEW w \in Workers, MarkFailed(w) PROVE Typed
  <2>1. packet' \in Statuses
    BY <1>8, <1>t, UpdateType DEF MarkFailed, Statuses
  <2>2. pc' \in [Workers -> Phases]
    BY <1>8, <1>t DEF MarkFailed, Phases
  <2>. QED
    BY <1>8, <2>1, <2>2, <1>t DEF MarkFailed
<1>9. ASSUME NEW w \in Workers, LockTimeout(w) PROVE Typed
  <2>1. faults' \in 0..MaxFaults
    BY <1>9, <1>t, PrepareAssumption DEF LockTimeout
  <2>. QED
    BY <1>9, <2>1, <1>t DEF LockTimeout, Phases
<1>10. CASE Restart
  <2>1. faults' \in 0..MaxFaults
    BY <1>10, <1>t, PrepareAssumption DEF Restart
  <2>2. NoJob \in Job
    BY PrepareAssumption DEF NoJob, Job, Evidence, Statuses
  <2>3. job' \in [Workers -> Job] /\ pc' \in [Workers -> Phases]
    BY <1>10, <2>2 DEF Restart, Phases
  <2>. QED
    BY <1>10, <2>1, <2>3, <1>t DEF Restart
<1>11. CASE Rebuild
  <2>1. PICK n \in 0..MaxEvidence :
          evidence' = [ids |-> 1..n, build |-> evidence.build + 1]
    BY <1>11 DEF Rebuild
  <2>2. 1..n \subseteq Ids
    BY PrepareAssumption DEF Ids
  <2>3. evidence.build + 1 \in 0..MaxBuilds
    BY <1>11, <1>t, PrepareAssumption DEF Rebuild, Evidence
  <2>4. evidence' \in Evidence
    BY <2>1, <2>2, <2>3 DEF Evidence
  <2>. QED
    BY <1>11, <2>4, <1>t DEF Rebuild
<1>12. CASE UNCHANGED vars
  BY <1>12, <1>t DEF vars
<1>. QED
  BY <1>1, <1>2, <1>3, <1>4, <1>5, <1>6, <1>7, <1>8, <1>9, <1>10, <1>11, <1>12
  DEF Next, Step

(* Every variable keeps its type. *)
THEOREM PrepareTypeCorrect == Spec => []TypeOK
  BY TypeInit, TypeStep, PTL DEF Spec

-----------------------------------------------------------------------------

(* A thread moves itself only. *)
LEMMA Frame ==
  ASSUME TypeOK, NEW w \in Workers, Begin(w) \/ Step(w) \/ LockTimeout(w)
  PROVE  /\ \A v \in Workers \ {w} : pc'[v] = pc[v] /\ job'[v] = job[v]
         /\ evidence' = evidence
<1>. USE DEF TypeOK
<1>1. CASE Begin(w)
  BY <1>1 DEF Begin
<1>2. CASE Mark(w) \/ MarkConflict(w) \/ NotAnswered(w) \/ MarkFailed(w)
  BY <1>2 DEF Mark, MarkConflict, NotAnswered, MarkFailed
<1>3. CASE Answered(w)
  <2>1. PICK x : job' = [job EXCEPT ![w].out = x]
    BY <1>3 DEF Answered
  <2>. QED
    BY <1>3, <2>1 DEF Answered
<1>4. CASE Reload(w) \/ Persist(w) \/ LockTimeout(w)
  BY <1>4 DEF Reload, Persist, LockTimeout
<1>. QED
  BY <1>1, <1>2, <1>3, <1>4 DEF Step

(* What each step does to the thread that takes it. *)
LEMMA Own ==
  ASSUME TypeOK, NEW w \in Workers
  PROVE  /\ Begin(w) => pc'[w] = "mark" /\ job'[w].seen = evidence /\ job'[w].read = packet
         /\ Mark(w) => pc'[w] = "ask" /\ job' = job
         /\ MarkConflict(w) => pc'[w] = "idle" /\ job' = job
         /\ NotAnswered(w) => pc'[w] = "fail" /\ job' = job
         /\ Answered(w) =>
              /\ pc'[w] = "load" /\ job'[w].seen = job[w].seen /\ job'[w].run = job[w].run
              /\ job'[w].read = job[w].read
              /\ \E kinds \in SUBSET Kinds, claimed \in SUBSET Ids :
                   job'[w].out = Written(job[w], kinds, claimed)
         /\ Reload(w) =>
              /\ pc'[w] = IF pc[w] = "load" THEN "persist" ELSE "failing"
              /\ job'[w] = [job[w] EXCEPT !.read = packet]
         /\ Persist(w) \/ MarkFailed(w) \/ LockTimeout(w) => pc'[w] = "idle" /\ job' = job
<1>. USE DEF TypeOK
<1>1. Begin(w) => pc'[w] = "mark" /\ job'[w].seen = evidence /\ job'[w].read = packet
  BY DEF Begin, NoJob
<1>2. /\ Mark(w) => pc'[w] = "ask" /\ job' = job
      /\ MarkConflict(w) => pc'[w] = "idle" /\ job' = job
      /\ NotAnswered(w) => pc'[w] = "fail" /\ job' = job
  BY DEF Mark, MarkConflict, NotAnswered
<1>3. ASSUME Answered(w)
      PROVE  /\ pc'[w] = "load" /\ job'[w].seen = job[w].seen /\ job'[w].run = job[w].run
             /\ job'[w].read = job[w].read
             /\ \E kinds \in SUBSET Kinds, claimed \in SUBSET Ids :
                  job'[w].out = Written(job[w], kinds, claimed)
  <2>1. PICK kinds \in SUBSET Kinds, claimed \in SUBSET Ids :
          job' = [job EXCEPT ![w].out = Written(job[w], kinds, claimed)]
    BY <1>3 DEF Answered
  <2>2. pc'[w] = "load"
    BY <1>3 DEF Answered
  <2>. QED
    BY <2>1, <2>2
<1>4. Reload(w) =>
        /\ pc'[w] = IF pc[w] = "load" THEN "persist" ELSE "failing"
        /\ job'[w] = [job[w] EXCEPT !.read = packet]
  BY DEF Reload
<1>5. Persist(w) \/ MarkFailed(w) \/ LockTimeout(w) => pc'[w] = "idle" /\ job' = job
  BY DEF Persist, MarkFailed, LockTimeout
<1>. QED
  BY <1>1, <1>2, <1>3, <1>4, <1>5

(* Who moves, or that nobody does. *)
LEMMA Movers ==
  ASSUME [Next]_vars
  PROVE  \/ \E w \in Workers : Begin(w) \/ Step(w) \/ LockTimeout(w)
         \/ Restart \/ Rebuild \/ UNCHANGED vars
  BY DEF Next

LEMMA OutStep ==
  ASSUME TypeOK, OutSound, [Next]_vars PROVE OutSound'
<1>1. ASSUME NEW w \in Workers, Begin(w) \/ Step(w) \/ LockTimeout(w)
      PROVE  OutSound'
  <2>. DEFINE Fine(v) == pc'[v] \in {"load", "persist"} =>
         /\ \A d \in job'[v].out : /\ d.run = job'[v].run
                                   /\ d.build = job'[v].seen.build
                                   /\ d.cites \subseteq job'[v].seen.ids
         /\ \E d \in job'[v].out : d.kind = Fallback
  <2>1. \A v \in Workers \ {w} : Fine(v)
    BY <1>1, Frame DEF OutSound
  <2>2. ASSUME Answered(w) PROVE Fine(w)
    <3>1. PICK kinds \in SUBSET Kinds, claimed \in SUBSET Ids :
            job'[w].out = Written(job[w], kinds, claimed)
      BY <2>2, Own
    <3>2. \A d \in Written(job[w], kinds, claimed) :
            /\ d.run = job[w].run /\ d.build = job[w].seen.build
            /\ d.cites \subseteq job[w].seen.ids
      BY DEF Written, Allowed
    <3>3. \E d \in Written(job[w], kinds, claimed) : d.kind = Fallback
      <4>. DEFINE e == [run |-> job[w].run, kind |-> Fallback,
                        cites |-> Allowed(claimed, job[w].seen.ids),
                        build |-> job[w].seen.build]
      <4>1. e \in Written(job[w], kinds, claimed)
        BY DEF Written
      <4>. QED
        BY <4>1
    <3>4. job'[w].seen = job[w].seen /\ job'[w].run = job[w].run
      BY <2>2, Own
    <3>. QED
      BY <3>1, <3>2, <3>3, <3>4
  <2>3. ASSUME Reload(w) PROVE Fine(w)
    <3>1. job'[w] = [job[w] EXCEPT !.read = packet] /\ job[w] \in Job
      BY <2>3, Own DEF TypeOK, Job
    <3>2. /\ job'[w].out = job[w].out /\ job'[w].run = job[w].run
          /\ job'[w].seen = job[w].seen
      BY <3>1 DEF Job
    <3>3. pc'[w] = "persist" => pc[w] = "load"
      BY <2>3, Own
    <3>4. pc'[w] # "load"
      BY <2>3, Own
    <3>. QED
      BY <3>2, <3>3, <3>4 DEF OutSound
  <2>4. ASSUME ~Answered(w) /\ ~Reload(w) PROVE Fine(w)
    <3>1. pc'[w] \notin {"load", "persist"}
      BY <1>1, <2>4, Own DEF Step
    <3>. QED
      BY <3>1
  <2>5. Fine(w)
    BY <2>2, <2>3, <2>4
  <2>. QED
    BY <2>1, <2>5 DEF OutSound
<1>2. CASE Restart
  BY <1>2 DEF Restart, OutSound
<1>3. CASE UNCHANGED <<pc, job>>
  BY <1>3 DEF OutSound
<1>. QED
  BY <1>1, <1>2, <1>3, Movers DEF Rebuild, vars

LEMMA SeenStep ==
  ASSUME TypeOK, SeenSound, [Next]_vars PROVE SeenSound'
<1>t. evidence.build \in Nat /\ \A v \in Workers : job[v].seen.build \in Nat
  BY PrepareAssumption DEF TypeOK, Evidence
<1>1. ASSUME NEW w \in Workers, Begin(w) \/ Step(w) \/ LockTimeout(w)
      PROVE  SeenSound'
  <2>1. evidence' = evidence /\ \A v \in Workers \ {w} : pc'[v] = pc[v] /\ job'[v] = job[v]
    BY <1>1, Frame
  <2>2. CASE Begin(w)
    <3>1. job'[w].seen = evidence
      BY <2>2, Own
    <3>2. job'[w].seen.build <= evidence'.build /\ job'[w].seen.ids = evidence'.ids
      BY <3>1, <2>1, <1>t
    <3>. QED
      BY <2>1, <3>2 DEF SeenSound
  <2>3. CASE Reload(w)
    <3>1. job'[w].seen = job[w].seen
      BY <2>3, Own DEF TypeOK
    <3>2. pc[w] # "idle"
      BY <2>3 DEF Reload
    <3>. QED
      BY <2>1, <3>1, <3>2 DEF SeenSound
  <2>4. CASE Mark(w) \/ NotAnswered(w) \/ Answered(w)
    <3>1. job'[w].seen = job[w].seen
      BY <2>4, Own
    <3>2. pc[w] # "idle"
      BY <2>4 DEF Mark, NotAnswered, Answered
    <3>. QED
      BY <2>1, <3>1, <3>2 DEF SeenSound
  <2>5. CASE MarkConflict(w) \/ Persist(w) \/ MarkFailed(w) \/ LockTimeout(w)
    <3>1. pc'[w] = "idle"
      BY <2>5, Own
    <3>. QED
      BY <2>1, <3>1 DEF SeenSound
  <2>. QED
    BY <1>1, <2>2, <2>3, <2>4, <2>5 DEF Step
<1>2. CASE Restart
  BY <1>2 DEF Restart, SeenSound
<1>3. CASE Rebuild
  <2>1. evidence'.build = evidence.build + 1 /\ pc' = pc /\ job' = job
    BY <1>3 DEF Rebuild
  <2>. QED
    BY <2>1, <1>t DEF SeenSound
<1>4. CASE UNCHANGED vars
  BY <1>4 DEF SeenSound, vars
<1>. QED
  BY <1>1, <1>2, <1>3, <1>4, Movers

LEMMA DraftsStep ==
  ASSUME TypeOK, OutSound, SeenSound, DraftsSound, [Next]_vars PROVE DraftsSound'
<1>t. evidence.build \in Nat /\ \A d \in drafts : d.build \in Nat
  BY PrepareAssumption DEF TypeOK, Evidence, Draft
<1>1. ASSUME NEW w \in Workers, Persist(w) PROVE DraftsSound'
  <2>1. drafts' = job[w].out /\ evidence' = evidence /\ pc[w] = "persist"
    BY <1>1 DEF Persist, Replaced
  <2>. QED
    BY <2>1 DEF OutSound, SeenSound, DraftsSound, DraftsOfOneRun, CitesStoredEvidence
<1>2. CASE drafts' = drafts /\ evidence' = evidence /\ (packet' = "ready" => packet = "ready")
  BY <1>2 DEF DraftsSound, DraftsOfOneRun, CitesStoredEvidence
<1>3. CASE Rebuild
  <2>1. evidence'.build = evidence.build + 1 /\ drafts' = drafts /\ packet' = packet
    BY <1>3 DEF Rebuild
  <2>2. \A d \in drafts : d.build <= evidence.build
    BY DEF DraftsSound
  <2>3. \A d \in drafts' : d.build < evidence'.build
    BY <2>1, <2>2, <1>t
  <2>. QED
    BY <2>1, <2>3, <1>t DEF DraftsSound, DraftsOfOneRun, CitesStoredEvidence
<1>4. ASSUME NEW w \in Workers, Begin(w) \/ Step(w) \/ LockTimeout(w), ~Persist(w)
      PROVE  drafts' = drafts /\ evidence' = evidence /\ (packet' = "ready" => packet = "ready")
  BY <1>4 DEF Begin, Step, Mark, MarkConflict, Answered, NotAnswered, Reload, MarkFailed,
              LockTimeout, Marked, Update
<1>. QED
  BY <1>1, <1>2, <1>3, <1>4, Movers DEF Restart, vars

LEMMA WillEndStep ==
  ASSUME TypeOK, PreparingWillEnd, [Next]_vars PROVE PreparingWillEnd'
<1>. SUFFICES ASSUME packet' = "preparing", faults' = 0
              PROVE  \E v \in Workers : WillConclude(v)'
  BY DEF PreparingWillEnd
<1>t. faults \in Nat
  BY PrepareAssumption DEF TypeOK
<1>1. ASSUME NEW w \in Workers, Begin(w) \/ Step(w) \/ LockTimeout(w)
      PROVE  \E v \in Workers : WillConclude(v)'
  <2>0. faults = 0
    BY <1>1, <1>t DEF Begin, Step, Mark, MarkConflict, Answered, NotAnswered, Reload,
                      Persist, MarkFailed, LockTimeout
  <2>f. \A v \in Workers \ {w} : pc'[v] = pc[v] /\ job'[v] = job[v]
    BY <1>1, Frame
  (* Whoever was to conclude still is, unless it is the one that moves. *)
  <2>k. ASSUME packet = "preparing", ~WillConclude(w) \/ WillConclude(w)'
        PROVE  \E v \in Workers : WillConclude(v)'
    <3>1. PICK v \in Workers : WillConclude(v)
      BY <2>0, <2>k DEF PreparingWillEnd
    <3>2. CASE v = w
      BY <2>k, <3>1, <3>2
    <3>3. CASE v # w
      BY <2>f, <3>1, <3>3 DEF WillConclude
    <3>. QED
      BY <3>2, <3>3
  <2>1. CASE Begin(w)
    <3>1. packet = "preparing" /\ ~WillConclude(w)
      BY <2>1 DEF Begin, WillConclude
    <3>. QED
      BY <3>1, <2>k
  <2>2. CASE Mark(w)
    <3>1. pc'[w] = "ask"
      BY <2>2, Own
    <3>. QED
      BY <3>1 DEF WillConclude
  <2>3. CASE MarkConflict(w)
    <3>1. packet = "preparing" /\ ~WillConclude(w)
      BY <2>3 DEF MarkConflict, WillConclude
    <3>. QED
      BY <3>1, <2>k
  <2>4. CASE Answered(w) \/ NotAnswered(w)
    <3>1. pc'[w] \in {"load", "fail"}
      BY <2>4, Own
    <3>. QED
      BY <3>1 DEF WillConclude
  <2>5. CASE Reload(w)
    <3>1. packet = "preparing" /\ job'[w].read = packet
      BY <2>5, Own DEF Reload, TypeOK
    <3>2. pc'[w] \in {"persist", "failing"}
      BY <2>5, Own
    <3>. QED
      BY <3>1, <3>2 DEF WillConclude
  <2>6. CASE Persist(w)
    <3>1. packet = "preparing" /\ ~WillConclude(w)
      BY <2>6 DEF Persist, Update, WillConclude
    <3>. QED
      BY <3>1, <2>k
  <2>7. CASE MarkFailed(w)
    <3>1. packet = "preparing" /\ ~WillConclude(w)
      BY <2>7 DEF MarkFailed, Update, WillConclude
    <3>. QED
      BY <3>1, <2>k
  <2>8. ~LockTimeout(w)
    BY <1>t DEF LockTimeout
  <2>. QED
    BY <1>1, <2>1, <2>2, <2>3, <2>4, <2>5, <2>6, <2>7, <2>8 DEF Step
<1>2. ~Restart
  BY <1>t DEF Restart
<1>3. CASE UNCHANGED <<packet, pc, job, faults>>
  BY <1>3 DEF PreparingWillEnd, WillConclude
<1>. QED
  BY <1>1, <1>2, <1>3, Movers DEF Rebuild, vars

(* The inductive invariant behind the properties below. *)
THEOREM PrepareInvariant == Spec => []Sound
<1>1. Init => Sound
  BY DEF Init, Sound, OutSound, SeenSound, DraftsSound, DraftsOfOneRun,
         CitesStoredEvidence, PreparingWillEnd
<1>2. TypeOK /\ Sound /\ [Next]_vars => Sound'
  BY OutStep, SeenStep, DraftsStep, WillEndStep DEF Sound
<1>. QED
  BY <1>1, <1>2, PrepareTypeCorrect, PTL DEF Spec

(* However preparations overlap, the stored drafts are of one run. *)
THEOREM PacketHoldsOneRun == Spec => []DraftsOfOneRun
<1>1. Sound => DraftsOfOneRun
  BY DEF Sound, DraftsSound
<1>. QED
  BY <1>1, PrepareInvariant, PTL

(* "preparing" is never left behind, whatever the threads had read. *)
THEOREM NoOrphanedPreparing == Spec => []PreparingHasAWorker
<1>1. Sound => PreparingHasAWorker
  BY DEF Sound, PreparingWillEnd, PreparingHasAWorker, WillConclude, InFlight
<1>. QED
  BY <1>1, PrepareInvariant, PTL

(* Drafts of the present build cite ids of the table. *)
THEOREM CitationsAreStored == Spec => []CitesStoredEvidence
<1>1. Sound => CitesStoredEvidence
  BY DEF Sound, DraftsSound
<1>. QED
  BY <1>1, PrepareInvariant, PTL

-----------------------------------------------------------------------------

LEMMA SerialStep ==
  ASSUME TypeOK, SerialSound, [Next]_vars PROVE SerialSound'
<1>. SUFFICES ASSUME ~overlapped' PROVE Alone'
  BY DEF SerialSound
<1>1. ASSUME NEW w \in Workers, Begin(w) PROVE Alone'
  <2>1. \A v \in Workers : ~InFlight(v)
    BY <1>1 DEF Begin
  <2>2. /\ pc'[w] = "mark" /\ job'[w].read = packet /\ packet' = packet
        /\ \A v \in Workers \ {w} : pc'[v] = "idle"
    BY <1>1, <2>1, Own, Frame DEF Begin, InFlight
  <2>. QED
    BY <2>2 DEF Alone, InFlight
<1>2. ASSUME ~\E w \in Workers : Begin(w) PROVE Alone
  <2>1. overlapped' = overlapped
    BY <1>2 DEF Next, vars, Step, Mark, MarkConflict, Answered, NotAnswered, Reload,
                Persist, MarkFailed, LockTimeout, Restart, Rebuild
  <2>. QED
    BY <2>1 DEF SerialSound
<1>3. ASSUME NEW w \in Workers, Step(w) \/ LockTimeout(w), Alone PROVE Alone'
  <2>1. pc[w] # "idle"
    BY <1>3 DEF Step, Mark, MarkConflict, Answered, NotAnswered, Reload,
                Persist, MarkFailed, LockTimeout
  <2>2. \A v \in Workers \ {w} : pc'[v] = "idle"
    BY <1>3, <2>1, Frame DEF Alone, InFlight
  <2>3. CASE Mark(w)
    <3>1. packet' = "preparing"
      BY <1>3, <2>3 DEF Mark, Marked, Update, Alone
    <3>2. pc'[w] = "ask"
      BY <2>3, Own
    <3>. QED
      BY <2>2, <3>1, <3>2 DEF Alone, InFlight
  <2>4. CASE Answered(w) \/ NotAnswered(w) \/ Reload(w)
    <3>1. packet = "preparing" /\ packet' = packet
      BY <1>3, <2>4 DEF Answered, NotAnswered, Reload, Alone
    <3>2. pc'[w] \notin {"idle", "mark"}
      BY <2>4, Own
    <3>. QED
      BY <2>2, <3>1, <3>2 DEF Alone, InFlight
  <2>5. CASE MarkConflict(w) \/ Persist(w) \/ MarkFailed(w) \/ LockTimeout(w)
    <3>1. \A v \in Workers : pc'[v] = "idle"
      BY <2>2, <2>5, Own
    <3>. QED
      BY <3>1 DEF Alone, InFlight
  <2>. QED
    BY <1>3, <2>3, <2>4, <2>5 DEF Step
<1>4. CASE Restart
  BY <1>4 DEF Restart, Alone, InFlight
<1>5. ASSUME UNCHANGED <<packet, pc, job>>, Alone PROVE Alone'
  BY <1>5 DEF Alone, InFlight
<1>. QED
  BY <1>1, <1>2, <1>3, <1>4, <1>5, Movers DEF Rebuild, vars

(* One at a time, drafts change only while the packet says "preparing". *)
THEOREM SerialDraftsAreStable == Spec => ReadyDraftsAreStable
<1>1. Init => SerialSound
  BY DEF Init, SerialSound, Alone, InFlight
<1>2. TypeOK /\ SerialSound /\ [Next]_vars => SerialSound'
  BY SerialStep
<1>3. ASSUME SerialSound, [Next]_vars
      PROVE  [~overlapped /\ drafts' # drafts => packet = "preparing"]_vars
  <2>1. ASSUME drafts' # drafts PROVE \E w \in Workers : Persist(w)
    BY <1>3, <2>1 DEF Next, vars, Begin, Step, Mark, MarkConflict, Answered, NotAnswered,
                      Reload, MarkFailed, LockTimeout, Restart, Rebuild
  <2>. QED
    BY <1>3, <2>1 DEF Persist, SerialSound, Alone
<1>. QED
  BY <1>1, <1>2, <1>3, PrepareTypeCorrect, PTL DEF Spec, ReadyDraftsAreStable
=============================================================================
