--------------------------- MODULE LlmBudgetProofs ---------------------------
(* Theorems about LlmBudget, for any number of threads and any prices. *)
EXTENDS LlmBudget, TLAPS

(* The file holds no more than the limit, and no more than was spent. *)
LogSound ==
  \A d \in Days : log.total[d] <= Budget /\ log.total[d] <= admitted[d]

(* What a thread is about to write was sound when it read it and has room  *)
(* for its own charge.                                                     *)
JobSound ==
  \A w \in Workers : pc[w] \in {"truncating", "writing"} =>
    /\ job[w].total[job[w].day] + job[w].cost <= Budget
    /\ \A d \in Days :
         job[w].total[d] <= Budget /\ job[w].total[d] <= admitted[d]

(* Until two charges overlap or one is cut short. *)
Alone ==
  /\ \A v, w \in Workers : pc[v] \in Busy /\ pc[w] \in Busy => v = w
  /\ \A w \in Workers : pc[w] # "failed"
  /\ (\A w \in Workers : pc[w] # "writing") => Readable /\ log.total = admitted
  /\ \A w \in Workers :
       pc[w] \in {"truncating", "writing"} => job[w].total = admitted
  /\ \A w \in Workers : pc[w] = "writing" => log.kind = "empty"

SerialSound == ~overlapped /\ faults = 0 => Alone

Sound == LogSound /\ JobSound /\ RefusalsAreJustified

-----------------------------------------------------------------------------

LEMMA TypeInit == Init => TypeOK
<1>1. 1 \in Days /\ Nothing \in [Days -> Nat]
  BY BudgetAssumption DEF Days, Nothing
<1>2. NoJob \in [day : Days, cost : Nat, total : [Days -> Nat]]
  BY <1>1 DEF NoJob
<1>3. ASSUME Init PROVE TypeOK
  <2>1. log \in [kind : {"absent", "empty", "json", "garbled"}, total : [Days -> Nat]]
    BY <1>1, <1>3 DEF Init
  <2>2. pc \in [Workers -> Resting \cup Busy]
    BY <1>3 DEF Init, Resting
  <2>3. job \in [Workers -> [day : Days, cost : Nat, total : [Days -> Nat]]]
    BY <1>2, <1>3 DEF Init
  <2>. QED
    BY <1>1, <1>3, <2>1, <2>2, <2>3 DEF Init, TypeOK
<1>. QED
  BY <1>3

(* What is written has the type of a total. *)
LEMMA PayloadType ==
  ASSUME TypeOK, NEW w \in Workers
  PROVE  /\ Payload(job[w]) \in [Days -> Nat]
         /\ \A d \in Days : Payload(job[w])[d] =
              IF d = job[w].day THEN job[w].total[d] + job[w].cost ELSE job[w].total[d]
<1>1. /\ job[w].day \in Days /\ job[w].cost \in Nat
      /\ job[w].total \in [Days -> Nat]
  BY DEF TypeOK
<1>. QED
  BY <1>1 DEF Payload

LEMMA TypeStep ==
  ASSUME TypeOK, [Next]_vars PROVE TypeOK'
<1>t. Nothing \in [Days -> Nat] /\ NoJob \in [day : Days, cost : Nat, total : [Days -> Nat]]
  BY BudgetAssumption DEF Days, Nothing, NoJob
<1>. USE BudgetAssumption, <1>t DEF TypeOK, Resting, Busy
<1>1. ASSUME NEW w \in Workers, NEW role \in Roles, NEW provider \in Providers,
             Start(w, role, provider)
      PROVE TypeOK'
  <2>1. RoleCost[role] \in Nat
    OBVIOUS
  <2>2. [NoJob EXCEPT !.day = day, !.cost = RoleCost[role]]
          \in [day : Days, cost : Nat, total : [Days -> Nat]]
    BY <2>1
  <2>3. job' \in [Workers -> [day : Days, cost : Nat, total : [Days -> Nat]]]
    BY <1>1, <2>2 DEF Start
  <2>4. calls' \in Nat /\ overlapped' \in BOOLEAN /\ pc' \in [Workers -> Resting \cup Busy]
    BY <1>1 DEF Start
  <2>. QED
    BY <1>1, <2>3, <2>4 DEF Start
<1>2. ASSUME NEW w \in Workers, LoadFails(w) PROVE TypeOK'
  BY <1>2 DEF LoadFails
<1>3. ASSUME NEW w \in Workers, Load(w) PROVE TypeOK'
  BY <1>3 DEF Load
<1>4. ASSUME NEW w \in Workers, Truncate(w) PROVE TypeOK'
  BY <1>4 DEF Truncate
<1>5. ASSUME NEW w \in Workers, Write(w) PROVE TypeOK'
  <2>1. Payload(job[w]) \in [Days -> Nat]
    BY PayloadType
  <2>2. log' \in [kind : {"absent", "empty", "json", "garbled"}, total : [Days -> Nat]]
    <3>1. CASE log' = [kind |-> "json", total |-> Payload(job[w])]
      BY <3>1, <2>1
    <3>2. CASE log' = [kind |-> "garbled", total |-> Nothing]
      BY <3>2
    <3>. QED
      BY <1>5, <3>1, <3>2 DEF Write
  <2>3. admitted' \in [Days -> Nat]
    BY <1>5 DEF Write
  <2>. QED
    BY <1>5, <2>2, <2>3 DEF Write
<1>6. ASSUME NEW w \in Workers, WriteFails(w) PROVE TypeOK'
  BY <1>6 DEF WriteFails
<1>7. CASE Restart
  <2>1. job' \in [Workers -> [day : Days, cost : Nat, total : [Days -> Nat]]]
    BY <1>7 DEF Restart
  <2>2. pc' \in [Workers -> Resting \cup Busy] /\ faults' \in Nat
    BY <1>7 DEF Restart
  <2>. QED
    BY <1>7, <2>1, <2>2 DEF Restart
<1>8. CASE Midnight
  <2>1. day' \in Days
    <3>. USE DEF Days
    <3>. QED
      BY <1>8 DEF Midnight
  <2>. QED
    BY <1>8, <2>1 DEF Midnight
<1>9. CASE UNCHANGED vars
  BY <1>9 DEF vars
<1>. QED
  BY <1>1, <1>2, <1>3, <1>4, <1>5, <1>6, <1>7, <1>8, <1>9 DEF Next

(* Every variable keeps its type. *)
THEOREM BudgetTypeCorrect == Spec => []TypeOK
  BY TypeInit, TypeStep, PTL DEF Spec

-----------------------------------------------------------------------------

LEMMA SoundInit == Init => Sound
  BY BudgetAssumption
  DEF Init, Sound, LogSound, JobSound, RefusalsAreJustified, Nothing, NoJob, Days

(* What is admitted only grows. *)
LEMMA AdmittedGrows ==
  ASSUME TypeOK, [Next]_vars
  PROVE  \A d \in Days : admitted[d] <= admitted'[d]
<1>1. ASSUME NEW w \in Workers, Write(w)
      PROVE  \A d \in Days : admitted[d] <= admitted'[d]
  <2>1. job[w].day \in Days /\ job[w].cost \in Nat /\ admitted \in [Days -> Nat]
    BY DEF TypeOK
  <2>2. admitted' = [admitted EXCEPT ![job[w].day] = @ + job[w].cost]
    BY <1>1 DEF Write
  <2>. QED
    BY <2>1, <2>2
<1>2. CASE UNCHANGED admitted
  BY <1>2 DEF TypeOK
<1>3. (\E w \in Workers : Write(w)) \/ UNCHANGED admitted
  BY DEF Next, vars, Start, LoadFails, Load, Truncate, WriteFails, Restart, Midnight
<1>. QED
  BY <1>1, <1>2, <1>3

LEMMA SoundStep ==
  ASSUME TypeOK, Sound, [Next]_vars PROVE Sound'
<1>. DEFINE At(v) == pc'[v] = pc[v] /\ job'[v] = job[v]
<1>t. /\ Budget \in Nat /\ log.total \in [Days -> Nat]
      /\ admitted \in [Days -> Nat] /\ admitted' \in [Days -> Nat]
      /\ \A v \in Workers : /\ job[v].day \in Days /\ job[v].cost \in Nat
                            /\ job[v].total \in [Days -> Nat]
  BY BudgetAssumption, TypeStep DEF TypeOK
<1>g. \A d \in Days : admitted[d] <= admitted'[d]
  BY AdmittedGrows
(* A thread that stays where it is keeps its promise, as admitted grows. *)
<1>k. ASSUME NEW v \in Workers, At(v)
      PROVE  /\ pc'[v] \in {"truncating", "writing"} =>
                  /\ job'[v].total[job'[v].day] + job'[v].cost <= Budget
                  /\ \A d \in Days : /\ job'[v].total[d] <= Budget
                                     /\ job'[v].total[d] <= admitted'[d]
             /\ pc'[v] = "refused" =>
                  admitted'[job'[v].day] + job'[v].cost > Budget
  BY <1>t, <1>g, <1>k DEF Sound, JobSound, RefusalsAreJustified
(* The file, when no thread writes it. *)
<1>l. log' = log => LogSound'
  BY <1>t, <1>g DEF Sound, LogSound
<1>. DEFINE JobFine(v) ==
       /\ pc'[v] \in {"truncating", "writing"} =>
            /\ job'[v].total[job'[v].day] + job'[v].cost <= Budget
            /\ \A d \in Days : /\ job'[v].total[d] <= Budget
                               /\ job'[v].total[d] <= admitted'[d]
       /\ pc'[v] = "refused" =>
            admitted'[job'[v].day] + job'[v].cost > Budget
<1>q. (\A v \in Workers : JobFine(v)) /\ LogSound' => Sound'
  BY DEF Sound, JobSound, RefusalsAreJustified
<1>. HIDE DEF JobFine
<1>r. \A v \in Workers : At(v) => JobFine(v)
  BY <1>k DEF JobFine
<1>i. \A v \in Workers : pc'[v] \notin {"truncating", "writing", "refused"} => JobFine(v)
  BY DEF JobFine
<1>1. ASSUME NEW w \in Workers, NEW role \in Roles, NEW provider \in Providers,
             Start(w, role, provider)
      PROVE Sound'
  <2>1. pc'[w] = "loading" /\ \A v \in Workers \ {w} : At(v)
    BY <1>1 DEF Start, TypeOK
  <2>2. log' = log
    BY <1>1 DEF Start
  <2>. QED
    BY <2>1, <2>2, <1>l, <1>q, <1>r, <1>i
<1>2. ASSUME NEW w \in Workers, LoadFails(w) PROVE Sound'
  <2>1. pc'[w] = "failed" /\ \A v \in Workers \ {w} : At(v)
    BY <1>2 DEF LoadFails, TypeOK
  <2>2. log' = log
    BY <1>2 DEF LoadFails
  <2>. QED
    BY <2>1, <2>2, <1>l, <1>q, <1>r, <1>i
<1>3. ASSUME NEW w \in Workers, Load(w) PROVE Sound'
  <2>1. \A v \in Workers \ {w} : At(v)
    BY <1>3 DEF Load, TypeOK
  <2>2. /\ log' = log /\ admitted' = admitted
        /\ job'[w].total = log.total
        /\ job'[w].day = job[w].day /\ job'[w].cost = job[w].cost
        /\ pc'[w] = IF OverBudget(log.total[job[w].day], job[w].cost)
                      THEN "refused" ELSE "truncating"
    BY <1>3 DEF Load, TypeOK
  <2>3. CASE OverBudget(log.total[job[w].day], job[w].cost)
    <3>1. log.total[job[w].day] + job[w].cost > Budget
      BY <2>3 DEF OverBudget
    <3>2. admitted[job[w].day] + job[w].cost > Budget
      BY <3>1, <1>t DEF Sound, LogSound
    <3>3. JobFine(w)
      BY <2>2, <2>3, <3>2 DEF JobFine
    <3>. QED
      BY <3>3, <2>1, <2>2, <1>l, <1>q, <1>r
  <2>4. CASE ~OverBudget(log.total[job[w].day], job[w].cost)
    <3>1. log.total[job[w].day] + job[w].cost <= Budget
      BY <2>4, <1>t DEF OverBudget
    <3>2. JobFine(w)
      BY <2>2, <2>4, <3>1 DEF JobFine, Sound, LogSound
    <3>. QED
      BY <3>2, <2>1, <2>2, <1>l, <1>q, <1>r
  <2>. QED
    BY <2>3, <2>4
<1>4. ASSUME NEW w \in Workers, Truncate(w) PROVE Sound'
  <2>1. \A v \in Workers \ {w} : At(v)
    BY <1>4 DEF Truncate, TypeOK
  <2>2. /\ pc[w] = "truncating" /\ pc'[w] = "writing"
        /\ job' = job /\ admitted' = admitted /\ log'.total = Nothing
    BY <1>4 DEF Truncate, TypeOK
  <2>3. JobFine(w)
    BY <2>2 DEF JobFine, Sound, JobSound
  <2>4. LogSound'
    BY <2>2, <1>t DEF LogSound, Nothing
  <2>. QED
    BY <2>1, <2>3, <2>4, <1>q, <1>r
<1>5. ASSUME NEW w \in Workers, Write(w) PROVE Sound'
  <2>1. \A v \in Workers \ {w} : At(v)
    BY <1>5 DEF Write, TypeOK
  <2>2. pc[w] = "writing" /\ pc'[w] = "admitted"
    BY <1>5 DEF Write, TypeOK
  <2>3. /\ job[w].total[job[w].day] + job[w].cost <= Budget
        /\ \A d \in Days :
             job[w].total[d] <= Budget /\ job[w].total[d] <= admitted[d]
    BY <2>2 DEF Sound, JobSound
  <2>4. \A d \in Days : admitted'[d] =
          IF d = job[w].day THEN admitted[d] + job[w].cost ELSE admitted[d]
    BY <1>5, <1>t DEF Write
  <2>5. \A d \in Days : /\ Payload(job[w])[d] <= Budget
                         /\ Payload(job[w])[d] <= admitted'[d]
    <3>. SUFFICES ASSUME NEW d \in Days
                  PROVE  Payload(job[w])[d] <= Budget /\ Payload(job[w])[d] <= admitted'[d]
      OBVIOUS
    <3>1. CASE d = job[w].day
      BY <3>1, <2>3, <2>4, <1>t, PayloadType
    <3>2. CASE d # job[w].day
      BY <3>2, <2>3, <2>4, <1>t, PayloadType
    <3>. QED
      BY <3>1, <3>2
  <2>6. log'.total = Payload(job[w]) \/ log'.total = Nothing
    BY <1>5 DEF Write
  <2>7. LogSound'
    <3>1. CASE log'.total = Payload(job[w])
      BY <3>1, <2>5 DEF LogSound
    <3>2. CASE log'.total = Nothing
      <4>1. \A d \in Days : Nothing[d] = 0
        BY DEF Nothing
      <4>. QED
        BY <3>2, <4>1, <1>t DEF LogSound
    <3>. QED
      BY <2>6, <3>1, <3>2
  <2>. QED
    BY <2>1, <2>2, <2>7, <1>q, <1>r, <1>i
<1>6. ASSUME NEW w \in Workers, WriteFails(w) PROVE Sound'
  <2>1. pc'[w] = "failed" /\ \A v \in Workers \ {w} : At(v)
    BY <1>6 DEF WriteFails, TypeOK
  <2>2. log' = log
    BY <1>6 DEF WriteFails
  <2>. QED
    BY <2>1, <2>2, <1>l, <1>q, <1>r, <1>i
<1>7. CASE Restart
  <2>1. log' = log /\ \A v \in Workers : pc'[v] = "idle"
    BY <1>7 DEF Restart
  <2>. QED
    BY <2>1, <1>l, <1>q, <1>i
<1>8. CASE UNCHANGED <<log, pc, job>>
  BY <1>8, <1>l, <1>q, <1>r
<1>. QED
  BY <1>1, <1>2, <1>3, <1>4, <1>5, <1>6, <1>7, <1>8 DEF Next, Midnight, vars

(* The log and what threads carry to it are sound. *)
THEOREM BudgetInvariant == Spec => []Sound
<1>1. TypeOK /\ Sound /\ [Next]_vars => Sound'
  BY SoundStep
<1>. QED
  BY <1>1, SoundInit, BudgetTypeCorrect, PTL DEF Spec

(* No interleaving, failure or midnight takes a recorded total past the    *)
(* limit (budget.py:100-107).                                              *)
THEOREM RecordedStaysWithinBudget == Spec => []RecordedWithinBudget
<1>1. Sound => RecordedWithinBudget
  BY DEF Sound, LogSound, RecordedWithinBudget
<1>. QED
  BY <1>1, BudgetInvariant, PTL

(* The log forgets charges at worst; it never invents one. *)
THEOREM RecordedIsSpent == Spec => []RecordedWasSpent
<1>1. Sound => RecordedWasSpent
  BY DEF Sound, LogSound, RecordedWasSpent
<1>. QED
  BY <1>1, BudgetInvariant, PTL

(* No call is refused that the day's admitted calls left room for. *)
THEOREM NoUnjustRefusal == Spec => []RefusalsAreJustified
<1>1. Sound => RefusalsAreJustified
  BY DEF Sound
<1>. QED
  BY <1>1, BudgetInvariant, PTL
-----------------------------------------------------------------------------

LEMMA SerialInit == Init => SerialSound
  BY DEF Init, SerialSound, Alone, Busy, Readable

LEMMA SerialStep ==
  ASSUME TypeOK, SerialSound, [Next]_vars PROVE SerialSound'
<1>. SUFFICES ASSUME ~overlapped', faults' = 0 PROVE Alone'
  BY DEF SerialSound
<1>f. faults \in Nat /\ overlapped \in BOOLEAN
  BY DEF TypeOK
<1>1. ASSUME NEW w \in Workers, NEW role \in Roles, NEW provider \in Providers,
             Start(w, role, provider)
      PROVE Alone'
  <2>1. ~overlapped /\ faults = 0 /\ \A v \in Workers : pc[v] \notin Busy
    BY <1>1, <1>f DEF Start
  <2>2. Alone
    BY <2>1 DEF SerialSound
  <2>3. /\ pc'[w] = "loading" /\ \A v \in Workers \ {w} : pc'[v] = pc[v]
        /\ log' = log /\ admitted' = admitted
    BY <1>1 DEF Start, TypeOK
  <2>4. Readable /\ log.total = admitted
    BY <2>1, <2>2 DEF Alone, Busy
  <2>. QED
    BY <2>1, <2>2, <2>3, <2>4 DEF Alone, Busy, Readable
<1>a. ASSUME ~\E w \in Workers, role \in Roles, provider \in Providers :
                 Start(w, role, provider)
      PROVE  Alone /\ faults' = faults
  <2>1. overlapped' = overlapped
    BY <1>a DEF Next, vars, LoadFails, Load, Truncate, Write, WriteFails, Restart, Midnight
  <2>2. faults' = faults \/ faults' = faults + 1
    BY <1>a DEF Next, vars, LoadFails, Load, Truncate, Write, WriteFails, Restart, Midnight
  <2>. QED
    BY <2>1, <2>2, <1>f DEF SerialSound
<1>2. ASSUME NEW w \in Workers, LoadFails(w), Alone PROVE Alone'
  <2>1. \A v \in Workers : pc[v] # "writing"
    BY <1>2 DEF LoadFails, Alone, Busy
  <2>. QED
    BY <1>2, <2>1 DEF LoadFails, Alone
<1>3. ASSUME NEW w \in Workers, Load(w), Alone PROVE Alone'
  <2>1. \A v \in Workers : v # w => pc[v] \notin Busy
    BY <1>3 DEF Load, Alone, Busy
  <2>2. Readable /\ log.total = admitted
    BY <1>3, <2>1 DEF Load, Alone, Busy
  <2>3. /\ pc'[w] \in {"refused", "truncating"}
        /\ \A v \in Workers \ {w} : pc'[v] = pc[v]
        /\ job'[w].total = log.total
        /\ log' = log /\ admitted' = admitted
    BY <1>3 DEF Load, TypeOK
  <2>. QED
    BY <1>3, <2>1, <2>2, <2>3 DEF Alone, Busy, Readable
<1>4. ASSUME NEW w \in Workers, Truncate(w), Alone PROVE Alone'
  <2>1. \A v \in Workers : v # w => pc[v] \notin Busy
    BY <1>4 DEF Truncate, Alone, Busy
  <2>2. /\ pc[w] = "truncating" /\ pc'[w] = "writing"
        /\ \A v \in Workers \ {w} : pc'[v] = pc[v]
        /\ log'.kind = "empty" /\ job' = job /\ admitted' = admitted
    BY <1>4 DEF Truncate, TypeOK
  <2>. QED
    BY <1>4, <2>1, <2>2 DEF Alone, Busy
<1>5. ASSUME NEW w \in Workers, Write(w), Alone PROVE Alone'
  <2>1. \A v \in Workers : v # w => pc[v] \notin Busy
    BY <1>5 DEF Write, Alone, Busy
  <2>2. log.kind = "empty" /\ job[w].total = admitted
    BY <1>5 DEF Write, Alone
  <2>3. log' = [kind |-> "json", total |-> Payload(job[w])]
    BY <1>5, <2>2 DEF Write, Overwrites
  <2>4. admitted' = Payload(job[w])
    BY <1>5, <2>2 DEF Write, Payload
  <2>5. pc'[w] = "admitted" /\ \A v \in Workers \ {w} : pc'[v] = pc[v]
    BY <1>5 DEF Write, TypeOK
  <2>. QED
    BY <1>5, <2>1, <2>3, <2>4, <2>5 DEF Alone, Busy, Readable
<1>6. CASE \E w \in Workers : WriteFails(w)
  BY <1>6, <1>f DEF WriteFails
<1>7. CASE Restart
  BY <1>7, <1>f DEF Restart
<1>8. ASSUME UNCHANGED <<log, pc, job, admitted>>, Alone PROVE Alone'
  BY <1>8 DEF Alone, Readable
<1>. QED
  BY <1>1, <1>a, <1>2, <1>3, <1>4, <1>5, <1>6, <1>7, <1>8 DEF Next, Midnight, vars

(* Without overlap and failure the budget is kept to the unit, and the     *)
(* file is what was spent.                                                 *)
THEOREM SerialChargesAreExact == Spec => []SerialSpendIsExact
<1>1. ASSUME TypeOK, Sound, SerialSound PROVE SerialSpendIsExact
  <2>. SUFFICES ASSUME ~overlapped, faults = 0 PROVE SerialSpendIsExact
    BY DEF SerialSpendIsExact
  <2>1. Alone
    BY <1>1 DEF SerialSound
  <2>2. \A d \in Days : admitted[d] <= Budget
    <3>1. CASE \E w \in Workers : pc[w] = "writing"
      <4>1. PICK w \in Workers : pc[w] = "writing"
        BY <3>1
      <4>2. job[w].total = admitted
        BY <2>1, <4>1 DEF Alone
      <4>. QED
        BY <1>1, <4>1, <4>2 DEF Sound, JobSound
    <3>2. CASE \A w \in Workers : pc[w] # "writing"
      BY <1>1, <2>1, <3>2 DEF Alone, Sound, LogSound
    <3>. QED
      BY <3>1, <3>2
  <2>. QED
    BY <2>1, <2>2 DEF Alone, SerialSpendIsExact
<1>2. TypeOK /\ SerialSound /\ [Next]_vars => SerialSound'
  BY SerialStep
<1>. QED
  BY <1>1, <1>2, SerialInit, BudgetTypeCorrect, BudgetInvariant, PTL DEF Spec
=============================================================================
