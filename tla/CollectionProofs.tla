-------------------------- MODULE CollectionProofs --------------------------
(***************************************************************************)
(* Machine-checked proofs about Collection and CollectionFaults, for every  *)
(* number of runs, months, slots, faults and crashes: the daily aggregates   *)
(* always catch up with the readings, the stamp leaves no month out, and a  *)
(* run repairs the month it collects.                                       *)
(***************************************************************************)
EXTENDS CollectionFaults, FiniteSetTheorems, TLAPS

-----------------------------------------------------------------------------
(* Facts about the calendar *)

(* A slot of the model lies in one of its months. *)
LEMMA SlotHasMonth == ASSUME NEW t \in Slots PROVE MonthOf(t) \in Months
  BY ShapeAssumption DEF Slots, Months, MonthOf

USE DirsAssumption, MonthsAssumption, ShapeAssumption, ValuesAssumption

(* What is kept of an answer are slots of the model. *)
LEMMA AnswerType ==
    ASSUME NEW d, NEW m, NEW p PROVE AnswerAsOf(d, m, p) \subseteq Slots
  BY DEF AnswerAsOf, Parsed

(* The longer HEP has published, the more is kept of its answer. *)
LEMMA AnswerGrows ==
    ASSUME NEW d \in Dirs, NEW m \in Months, NEW p \in Int, NEW q \in Int, p <= q
    PROVE  AnswerAsOf(d, m, p) \subseteq AnswerAsOf(d, m, q)
  BY DEF AnswerAsOf, Parsed, Slots

(* Slots fall in months of the model. *)
LEMMA TouchedType ==
    ASSUME NEW ts \in SUBSET Slots PROVE MonthsTouched(ts) \subseteq Months
  BY SlotHasMonth DEF MonthsTouched

-----------------------------------------------------------------------------
(* Type correctness *)

(* The initial states have the types. *)
LEMMA InitTypeOK == Init => TypeOK
  BY DEF Init, TypeOK, PublishedAt, Steps, Jobs, Slots

(* A step of a month fetch keeps the types. *)
LEMMA JobStepTypeOK ==
    ASSUME TypeOK, NEW r \in Runs, NEW m \in Months, NEW d \in Dirs,
           JobStep(r, m, d)
    PROVE  TypeOK'
  <1> DEFINE j == <<r, m, d>>
  <1>0. j \in Jobs /\ j[1] = r
    BY DEF Jobs
  <1> USE <1>0 DEF TypeOK, clock, db, Goto, Steps
  <1>1. CASE Look(r, m, d)
    BY <1>1 DEF Look
  <1>2. CASE Count(r, m, d)
    BY <1>2 DEF Count
  <1>3. CASE Fetch(r, m, d)
    BY <1>3, AnswerType DEF Fetch, Answer
  <1>4. CASE FetchNoData(r, m, d)
    BY <1>4 DEF FetchNoData
  <1>5. CASE FetchFails(r, m, d)
    BY <1>5 DEF FetchFails
  <1>6. CASE Mark(r, m, d)
    BY SMTT(30), <1>6 DEF Mark
  <1>7. CASE Store(r, m, d)
    BY <1>7, TouchedType DEF Store
  <1>8. CASE Refresh(r, m, d)
    BY SMTT(30), <1>8 DEF Refresh, RefreshDone, FirstStale
  <1> QED
    BY <1>1, <1>2, <1>3, <1>4, <1>5, <1>6, <1>7, <1>8 DEF JobStep

(* Every step keeps the types. *)
LEMMA NextTypeOK == ASSUME TypeOK, [Next]_vars PROVE TypeOK'
  <1> USE DEF TypeOK, clock, db, work
  <1>1. CASE Tick
    BY <1>1 DEF Tick, PublishedAt
  <1>2. CASE Publish
    BY <1>2 DEF Publish, Slots
  <1>3. ASSUME NEW r \in Runs, NEW m \in Months, StartRun(r, m) PROVE TypeOK'
    BY <1>3 DEF StartRun, Steps, Jobs
  <1>4. ASSUME NEW r \in Runs, EndRun(r) \/ EndFailedRun(r) PROVE TypeOK'
    <2>1. MonthOf(today) \in Months
      BY SlotHasMonth
    <2>2. AllFinished(r) /\ ClearRun(r)
      BY <1>4 DEF EndRun, EndFailedRun
    <2>3. \A j \in Jobs : j[1] = r => got[j] = {} /\ stale[j] = {}
      BY <2>2 DEF AllFinished, JobsOf, Finished
    <2>4. /\ ref' \in [Runs -> Months \cup {Never}] /\ age' \in [Runs -> 0..MaxRun]
          /\ job' \in [Jobs -> Steps]
          /\ UNCHANGED <<clock, readings, aggregated, skipped, got, stale>>
      BY <2>2 DEF ClearRun, Steps
    <2>5. last' \in Months \cup {Never}
      BY <1>4, <2>1 DEF EndRun, EndFailedRun
    <2>6. \A j \in Jobs : j[1] # r => job'[j] = job[j] /\ ref'[j[1]] = ref[j[1]]
      BY <2>2 DEF ClearRun, Jobs
    <2>7. \A j \in Jobs : j[1] = r => job'[j] = "none"
      BY <2>2 DEF ClearRun
    <2> QED BY <2>3, <2>4, <2>5, <2>6, <2>7
  <1>5. CASE UNCHANGED vars
    BY <1>5 DEF vars
  <1>6. ASSUME NEW r \in Runs, StartManual(r) PROVE TypeOK'
    BY <1>3, <1>6, SlotHasMonth DEF StartManual
  <1> HIDE DEF TypeOK
  <1> QED
    BY <1>1, <1>2, <1>3, <1>4, <1>5, <1>6, JobStepTypeOK
       DEF Next, RunStep, StartScheduled

(* Every variable keeps its type; parsed readings and a refresh list exist   *)
(* only in the step of a month fetch that uses them. *)
THEOREM TypeCorrectness == Spec => []TypeOK
  BY InitTypeOK, NextTypeOK, PTL DEF Spec

-----------------------------------------------------------------------------
(* The daily aggregates *)

(* Some month fetch is still going to recompute the aggregates of month m. *)
RefreshPending(d, m) ==
    \E r \in Runs, k \in Months :
        job[<<r, k, d>>] = "refresh" /\ m \in stale[<<r, k, d>>]

(* The month is in step with the readings, or has a recomputation ahead of   *)
(* it, one that will read the table as it is then.                          *)
Kept(d, m) == InSync(d, m) \/ RefreshPending(d, m)

(* The inductive invariant. *)
NoRefreshLost == \A d \in Dirs, m \in Months : Kept(d, m)

(* What changes neither table and takes nothing off a refresh list. *)
LEMMA QuietStepKeeps ==
    ASSUME TypeOK, NEW d \in Dirs, NEW m \in Months, Kept(d, m),
           UNCHANGED <<readings, aggregated, stale>>,
           \A i \in Jobs : job[i] = "refresh" => job'[i] = "refresh"
    PROVE  Kept(d, m)'
  BY DEF Kept, RefreshPending, InSync, SlotsOf, TypeOK, Jobs

(* Storing readings puts every month they fall in on the list. *)
LEMMA StoreKeeps ==
    ASSUME TypeOK, NEW c \in Dirs, NEW n \in Months, Kept(c, n),
           NEW r \in Runs, NEW m \in Months, NEW d \in Dirs, Store(r, m, d)
    PROVE  Kept(c, n)'
  <1> DEFINE j == <<r, m, d>>
  <1>0. /\ j \in Jobs /\ job[j] = "store" /\ got[j] \subseteq Slots
        /\ readings' = [readings EXCEPT ![d] = @ \cup got[j]]
        /\ stale' = [stale EXCEPT ![j] = MonthsTouched(got[j])]
        /\ job' = [job EXCEPT ![j] = "refresh"]
        /\ aggregated' = aggregated
    BY DEF Store, Goto, TypeOK, Jobs
  <1>1. CASE c = d /\ n \in MonthsTouched(got[j])
    <2>1. job'[j] = "refresh" /\ n \in stale'[j]
      BY <1>0, <1>1 DEF TypeOK
    <2> QED BY <1>1, <2>1 DEF Kept, RefreshPending
  <1>2. CASE ~(c = d /\ n \in MonthsTouched(got[j]))
    <2>1. readings'[c] \cap SlotsOf(n) = readings[c] \cap SlotsOf(n)
      BY <1>0, <1>2 DEF TypeOK, SlotsOf, MonthsTouched
    <2>2. InSync(c, n) => InSync(c, n)'
      BY <1>0, <2>1 DEF InSync, SlotsOf
    <2>3. ASSUME NEW q \in Runs, NEW e \in Months,
                 job[<<q, e, c>>] = "refresh", n \in stale[<<q, e, c>>]
          PROVE  job'[<<q, e, c>>] = "refresh" /\ n \in stale'[<<q, e, c>>]
      BY <1>0, <2>3 DEF TypeOK, Jobs
    <2>4. RefreshPending(c, n) => RefreshPending(c, n)'
      BY <2>3 DEF RefreshPending
    <2> QED BY <2>2, <2>4 DEF Kept
  <1> QED BY <1>1, <1>2

(* A recomputation brings its month in sync and takes only that month off    *)
(* the list.                                                               *)
LEMMA RefreshKeeps ==
    ASSUME TypeOK, NEW c \in Dirs, NEW k \in Months, Kept(c, k),
           NEW r \in Runs, NEW m \in Months, NEW d \in Dirs, Refresh(r, m, d)
    PROVE  Kept(c, k)'
  <1> DEFINE j == <<r, m, d>>
  <1>0. PICK n \in Months :
          /\ job[j] = "refresh" /\ n \in stale[j]
          /\ aggregated' = [aggregated EXCEPT ![d][n] = readings[d] \cap SlotsOf(n)]
          /\ stale' = [stale EXCEPT ![j] = @ \ {n}]
          /\ job' = [job EXCEPT ![j] = IF stale[j] \ {n} = {} THEN "done" ELSE "refresh"]
          /\ readings' = readings
    BY DEF Refresh, RefreshDone, FirstStale, Goto
  <1>1. j \in Jobs
    BY DEF Jobs
  <1>2. CASE c = d /\ k = n
    BY <1>0, <1>2 DEF Kept, InSync, SlotsOf, TypeOK
  <1>3. CASE ~(c = d /\ k = n)
    <2>1. InSync(c, k) => InSync(c, k)'
      BY <1>0, <1>3 DEF InSync, SlotsOf, TypeOK
    <2>2. ASSUME NEW q \in Runs, NEW e \in Months,
                 job[<<q, e, c>>] = "refresh", k \in stale[<<q, e, c>>]
          PROVE  job'[<<q, e, c>>] = "refresh" /\ k \in stale'[<<q, e, c>>]
      BY <1>0, <1>1, <1>3, <2>2 DEF TypeOK, Jobs
    <2>3. RefreshPending(c, k) => RefreshPending(c, k)'
      BY <2>2 DEF RefreshPending
    <2> QED BY <2>1, <2>3 DEF Kept
  <1> QED BY <1>2, <1>3

(* No step of Collection drops a month that is behind from the refresh lists. *)
LEMMA NextKeeps ==
    ASSUME TypeOK, NEW c \in Dirs, NEW n \in Months, Kept(c, n), [Next]_vars
    PROVE  Kept(c, n)'
  <1>1. ASSUME UNCHANGED <<readings, aggregated, job, stale>> PROVE Kept(c, n)'
    BY <1>1, QuietStepKeeps
  <1>2. ASSUME NEW r \in Runs, NEW m \in Months, StartRun(r, m)
        PROVE  Kept(c, n)'
    <2>1. \A j \in Jobs : job[j] = "refresh" => job'[j] = "refresh"
      BY <1>2 DEF StartRun, TypeOK
    <2>2. UNCHANGED <<readings, aggregated, stale>>
      BY <1>2 DEF StartRun, db
    <2> QED BY <2>1, <2>2, QuietStepKeeps
  <1>3. ASSUME NEW r \in Runs, EndRun(r) \/ EndFailedRun(r) PROVE Kept(c, n)'
    <2>1. \A j \in Jobs : job[j] = "refresh" => job'[j] = "refresh"
      BY <1>3 DEF EndRun, EndFailedRun, ClearRun, AllFinished, JobsOf, Finished
    <2>2. UNCHANGED <<readings, aggregated, stale>>
      BY <1>3 DEF EndRun, EndFailedRun, ClearRun
    <2> QED BY <2>1, <2>2, QuietStepKeeps
  <1>4. ASSUME NEW r \in Runs, NEW m \in Months, NEW d \in Dirs, JobStep(r, m, d)
        PROVE  Kept(c, n)'
    <2> DEFINE j == <<r, m, d>>
    <2>0. j \in Jobs
      BY DEF Jobs
    <2>1. CASE Store(r, m, d)
      BY <2>1, StoreKeeps
    <2>2. CASE Refresh(r, m, d)
      BY <2>2, RefreshKeeps
    <2>3. CASE ~Store(r, m, d) /\ ~Refresh(r, m, d)
      <3>1. /\ job[j] # "refresh" /\ UNCHANGED <<readings, aggregated, stale>>
            /\ \A i \in Jobs : i # j => job'[i] = job[i]
        BY <1>4, <2>0, <2>3 DEF JobStep, Look, Count, Fetch, FetchNoData, FetchFails,
           Mark, Goto, db, TypeOK
      <3> QED BY <2>0, <3>1, QuietStepKeeps
    <2> QED BY <2>1, <2>2, <2>3
  <1>5. CASE Tick \/ Publish \/ UNCHANGED vars
    BY <1>1, <1>5 DEF Tick, Publish, vars, db, work
  <1>6. ASSUME NEW r \in Runs, StartScheduled(r) \/ StartManual(r)
        PROVE  Kept(c, n)'
    BY <1>2, <1>6, SlotHasMonth DEF StartScheduled, StartManual, TypeOK
  <1> QED
    BY <1>3, <1>4, <1>5, <1>6 DEF Next, RunStep

(* Every month whose aggregates are behind the readings is on the refresh    *)
(* list of a month fetch in progress.                                       *)
THEOREM RefreshesAreNotLost == Spec => []NoRefreshLost
  <1>1. Init => NoRefreshLost
    BY DEF Init, NoRefreshLost, Kept, InSync
  <1>2. TypeOK /\ NoRefreshLost /\ [Next]_vars => NoRefreshLost'
    BY NextKeeps DEF NoRefreshLost
  <1> QED
    BY <1>1, <1>2, TypeCorrectness, PTL DEF Spec

(* With no run at work the daily aggregates agree with the readings. *)
THEOREM AggregatesCatchUp == Spec => []InSyncWhenQuiet
  <1>1. ASSUME TypeOK, NoRefreshLost PROVE InSyncWhenQuiet
    <2> SUFFICES ASSUME \A r \in Runs : ref[r] = Never,
                        NEW d \in Dirs, NEW m \in Months
                 PROVE  InSync(d, m)
      BY DEF InSyncWhenQuiet
    <2>1. ASSUME NEW r \in Runs, NEW k \in Months PROVE job[<<r, k, d>>] = "none"
      <3>1. <<r, k, d>> \in Jobs /\ <<r, k, d>>[1] = r
        BY DEF Jobs
      <3> QED BY <1>1, <3>1 DEF TypeOK
    <2>2. ~RefreshPending(d, m)
      BY <2>1 DEF RefreshPending
    <2> QED BY <1>1, <2>2 DEF NoRefreshLost, Kept
  <1> QED
    BY <1>1, TypeCorrectness, RefreshesAreNotLost, PTL

-----------------------------------------------------------------------------
(* The stamp *)

(* What the timing of the code amounts to: a run takes less than a month, and    *)
(* nobody fetches an older month by hand (run manual_month shows what that     *)
(* does to the stamp).  HEP's lag may be any.                               *)
Timely == ManualMonths = {} /\ MaxRun < SlotsPerMonth

(* What is kept of month m of that which HEP had surely published when run r     *)
(* began. *)
Early(r, d, m) == AnswerAsOf(d, m, today - age[r] - MaxLag)

(* The runs to come need not look at month m again. *)
Settled(d, m) == m \in EmptyMonths \/ Collected(d, m) \/ FetchedInTime(d, m)

(* Run r has done for month m what it could. *)
Served(r, d, m) == Settled(d, m) \/ Early(r, d, m) \subseteq readings[d]

(* A month fetch that is past HEP's answer has, or has stored, what HEP had    *)
(* surely published.                                                       *)
ServedJob(r, m, d) ==
    LET j == <<r, m, d>> IN
    /\ job[j] = "mark" => m \in EmptyMonths
    /\ job[j] = "store" => Early(r, d, m) \subseteq got[j]
    /\ job[j] \in {"refresh", "done"} => Served(r, d, m)

(* A run never begins later than at the end of its reference month. *)
ClockInv ==
    /\ today <= published + MaxLag
    /\ \A r \in Runs : ref[r] # Never => today - age[r] <= (ref[r] + 1) * SlotsPerMonth

(* Only months without data are skipped. *)
ServedInv ==
    /\ \A d \in Dirs : skipped[d] \subseteq EmptyMonths
    /\ \A r \in Runs, m \in Months, d \in Dirs : ServedJob(r, m, d)

StampInv == ClockInv /\ ServedInv

(* The months a run leaves off its list are settled. *)
ListInv ==
    \A r \in Runs, m \in Months, d \in Dirs :
        /\ ref[r] # Never /\ AvailableFrom <= m /\ FetchFrom <= m /\ m <= ref[r]
        /\ job[<<r, m, d>>] = "none"
        => Settled(d, m)

(* The model lives through finitely many slots. *)
LEMMA SlotsFinite == IsFiniteSet(Slots)
  <1>1. NMonths * SlotsPerMonth - 1 \in Int
    OBVIOUS
  <1> QED BY <1>1, FS_Interval DEF Slots

(* Once a month is settled it stays so. *)
LEMMA SettledStays ==
    ASSUME TypeOK, TypeOK', NEW d \in Dirs, NEW m \in Months, Settled(d, m),
           readings[d] \subseteq readings'[d]
    PROVE  Settled(d, m)'
  <1>1. CASE m \in EmptyMonths
    BY <1>1 DEF Settled
  <1>2. CASE Collected(d, m)
    <2> DEFINE S == readings[d] \cap SlotsOf(m)
               T == readings'[d] \cap SlotsOf(m)
    <2>1. IsFiniteSet(T) /\ S \subseteq T
      BY SlotsFinite, FS_Subset DEF SlotsOf
    <2>2. IsFiniteSet(S) /\ Cardinality(S) <= Cardinality(T)
      BY <2>1, FS_Subset
    <2>3. Cardinality(S) \in Nat /\ Cardinality(T) \in Nat
      BY <2>1, <2>2, FS_CardinalityType
    <2>4. 2 * Cardinality(S) >= SlotsPerMonth
      BY <1>2 DEF Collected
    <2>5. 2 * Cardinality(T) >= SlotsPerMonth
      BY <2>2, <2>3, <2>4
    <2> QED BY <2>5 DEF Settled, Collected, SlotsOf
  <1>3. CASE FetchedInTime(d, m)
    BY <1>3 DEF Settled, FetchedInTime, AnswerAsOf, Parsed, MonthOf
  <1> QED BY <1>1, <1>2, <1>3 DEF Settled

(* Where the slots of a month lie. *)
LEMMA MonthBounds ==
    ASSUME NEW t \in Int, NEW m \in Int
    PROVE  MonthOf(t) = m <=> m * SlotsPerMonth <= t /\ t < (m + 1) * SlotsPerMonth
  BY DEF MonthOf

(* HEP's answer brings what it had surely published when the run began. *)
LEMMA AnswerIsEarly ==
    ASSUME TypeOK, ClockInv, NEW r \in Runs, NEW d \in Dirs, NEW m \in Months
    PROVE  Early(r, d, m) \subseteq Answer(d, m)
  <1>1. today \in Int /\ published \in Int /\ age[r] \in Nat
    BY DEF TypeOK, Slots
  <1>2. today - age[r] - MaxLag <= published
    BY <1>1 DEF ClockInv
  <1> QED BY <1>1, <1>2, AnswerGrows DEF Early, Answer

(* What is kept does not depend on the time of the run alone. *)
LEMMA EarlyStays ==
    ASSUME NEW r, NEW d, NEW m, today' - age'[r] = today - age[r]
    PROVE  Early(r, d, m)' = Early(r, d, m)
  BY DEF Early, AnswerAsOf, Parsed, MonthOf

(* A month fetch that does not move stays served. *)
LEMMA ServedStays ==
    ASSUME TypeOK, TypeOK', NEW r \in Runs, NEW m \in Months, NEW d \in Dirs,
           ServedJob(r, m, d), readings[d] \subseteq readings'[d],
           today' - age'[r] = today - age[r],
           job'[<<r, m, d>>] = job[<<r, m, d>>], got'[<<r, m, d>>] = got[<<r, m, d>>]
    PROVE  ServedJob(r, m, d)'
  <1>1. Early(r, d, m)' = Early(r, d, m)
    BY EarlyStays
  <1>2. Served(r, d, m) => Served(r, d, m)'
    BY <1>1, SettledStays DEF Served
  <1> QED BY <1>1, <1>2 DEF ServedJob

(* A step of a month fetch moves that fetch alone and takes no reading away. *)
LEMMA JobStepShape ==
    ASSUME TypeOK, NEW r \in Runs, NEW m \in Months, NEW d \in Dirs, JobStep(r, m, d)
    PROVE  LET j == <<r, m, d>> IN
           /\ UNCHANGED <<today, published, last, ref, age>>
           /\ \A i \in Jobs : i # j => job'[i] = job[i] /\ got'[i] = got[i]
           /\ \A c \in Dirs : readings[c] \subseteq readings'[c]
           /\ job[j] # "none" /\ job'[j] # "none"
           /\ Fetch(r, m, d) \/ job'[j] # "store"
  <1>0. <<r, m, d>> \in Jobs
    BY DEF Jobs
  <1> USE <1>0 DEF Goto, clock, db, TypeOK
  <1>1. CASE Look(r, m, d)
    BY <1>1 DEF Look
  <1>2. CASE Count(r, m, d)
    BY <1>2 DEF Count
  <1>3. CASE Fetch(r, m, d)
    BY <1>3 DEF Fetch
  <1>4. CASE FetchNoData(r, m, d)
    BY <1>4 DEF FetchNoData
  <1>5. CASE FetchFails(r, m, d)
    BY <1>5 DEF FetchFails
  <1>6. CASE Mark(r, m, d)
    BY <1>6 DEF Mark
  <1>7. CASE Store(r, m, d)
    BY <1>7 DEF Store
  <1>8. CASE Refresh(r, m, d)
    BY <1>8 DEF Refresh, RefreshDone
  <1> QED
    BY <1>1, <1>2, <1>3, <1>4, <1>5, <1>6, <1>7, <1>8 DEF JobStep

(* The steps of a month fetch: HEP's answer brings what it had published, and  *)
(* only that is stored and done with. *)
LEMMA JobStepServes ==
    ASSUME TypeOK, TypeOK', StampInv, NEW r \in Runs, NEW m \in Months, NEW d \in Dirs,
           JobStep(r, m, d)
    PROVE  ServedInv' /\ \A c \in Dirs : readings[c] \subseteq readings'[c]
  <1> DEFINE j == <<r, m, d>>
  <1>0. /\ j \in Jobs /\ ServedInv /\ ClockInv
        /\ UNCHANGED <<today, age>>
        /\ \A q \in Runs, n \in Months, c \in Dirs :
              <<q, n, c>> # j => /\ job'[<<q, n, c>>] = job[<<q, n, c>>]
                                 /\ got'[<<q, n, c>>] = got[<<q, n, c>>]
        /\ \A c \in Dirs : readings[c] \subseteq readings'[c]
    BY JobStepShape DEF Jobs, StampInv
  <1>1. ASSUME NEW q \in Runs, NEW n \in Months, NEW c \in Dirs, <<q, n, c>> # j
        PROVE  ServedJob(q, n, c)'
    <2>1. /\ ServedJob(q, n, c) /\ readings[c] \subseteq readings'[c]
          /\ today' - age'[q] = today - age[q]
      BY <1>0 DEF ServedInv
    <2>2. /\ job'[<<q, n, c>>] = job[<<q, n, c>>]
          /\ got'[<<q, n, c>>] = got[<<q, n, c>>]
      BY <1>0, <1>1
    <2> QED BY <2>1, <2>2, ServedStays
  <1>2. Early(r, d, m)' = Early(r, d, m)
    BY <1>0, EarlyStays
  <1>3. /\ \A c \in Dirs : skipped'[c] \subseteq EmptyMonths
        /\ ServedJob(r, m, d)'
    <2> USE <1>0 DEF Goto, TypeOK
    <2>1. CASE Look(r, m, d)
      <3>1. /\ job'[j] \in {"count", "fetch"} \/ (job'[j] = "done" /\ m \in EmptyMonths)
            /\ skipped' = skipped
        BY <2>1 DEF Look, ServedInv, db
      <3>2. m \in EmptyMonths => Served(r, d, m)'
        BY DEF Served, Settled
      <3> QED BY <3>1, <3>2 DEF ServedInv, ServedJob
    <2>2. CASE Count(r, m, d)
      <3>1. /\ job'[j] = IF Collected(d, m) THEN "done" ELSE "fetch"
            /\ skipped' = skipped
        BY <2>2 DEF Count, db
      <3>2. Collected(d, m) => Served(r, d, m)'
        BY SettledStays DEF Served, Settled
      <3>3. ServedJob(r, m, d)'
        <4>1. CASE Collected(d, m)
          BY <3>1, <3>2, <4>1 DEF ServedJob
        <4>2. CASE ~Collected(d, m)
          BY <3>1, <4>2 DEF ServedJob
        <4> QED BY <4>1, <4>2
      <3> QED BY <3>1, <3>3 DEF ServedInv
    <2>3. CASE Fetch(r, m, d)
      <3>1. Early(r, d, m) \subseteq Answer(d, m)
        BY AnswerIsEarly
      <3>2. /\ job'[j] = IF Answer(d, m) = {} THEN "done" ELSE "store"
            /\ got'[j] = Answer(d, m) /\ UNCHANGED db
        BY <2>3 DEF Fetch
      <3>3. Early(r, d, m) = {} => Served(r, d, m)'
        BY <1>2 DEF Served
      <3> QED BY <1>2, <3>1, <3>2, <3>3 DEF ServedInv, ServedJob, db
    <2>4. CASE FetchNoData(r, m, d) \/ FetchFails(r, m, d)
      BY <2>4 DEF FetchNoData, FetchFails, ServedInv, ServedJob, db
    <2>5. CASE Mark(r, m, d)
      <3>1. m \in EmptyMonths
        BY <2>5 DEF Mark, ServedInv, ServedJob
      <3> QED BY <2>5, <3>1 DEF Mark, ServedInv, ServedJob, Served, Settled
    <2>6. CASE Store(r, m, d)
      <3>1. Early(r, d, m) \subseteq got[j]
        BY <2>6 DEF Store, ServedInv, ServedJob
      <3>2. /\ readings'[d] = readings[d] \cup got[j] /\ job'[j] = "refresh"
            /\ skipped' = skipped
        BY <2>6 DEF Store
      <3>3. Served(r, d, m)'
        BY <1>2, <3>1, <3>2 DEF Served
      <3> QED BY <3>2, <3>3 DEF ServedInv, ServedJob
    <2>7. CASE Refresh(r, m, d)
      <3>1. /\ job[j] = "refresh" /\ job'[j] \in {"refresh", "done"}
            /\ UNCHANGED <<readings, skipped>>
        BY <2>7 DEF Refresh, RefreshDone
      <3>2. Served(r, d, m) => Served(r, d, m)'
        BY <1>2, <3>1, SettledStays DEF Served
      <3> QED BY <3>1, <3>2 DEF ServedInv, ServedJob
    <2> QED BY <2>1, <2>2, <2>3, <2>4, <2>5, <2>6, <2>7 DEF JobStep
  <1>4. ASSUME NEW q \in Runs, NEW n \in Months, NEW c \in Dirs PROVE ServedJob(q, n, c)'
    <2>1. CASE <<q, n, c>> = j
      <3>1. q = r /\ n = m /\ c = d
        BY <2>1
      <3> QED BY <1>3, <3>1
    <2>2. CASE <<q, n, c>> # j
      BY <1>1, <2>2
    <2> QED BY <2>1, <2>2
  <1> QED BY <1>0, <1>3, <1>4 DEF ServedInv

(* A month fetch that has had no answer of HEP yet, or none of use. *)
Unanswered == {"none", "queued", "count", "fetch", "failed"}

(* The steps that store nothing and bring no month fetch past HEP's answer. *)
LEMMA OtherStepServes ==
    ASSUME TypeOK, TypeOK', ServedInv, UNCHANGED <<readings, skipped>>,
           \A r \in Runs, m \in Months, d \in Dirs :
               \/ job'[<<r, m, d>>] \in Unanswered
               \/ /\ job'[<<r, m, d>>] = job[<<r, m, d>>]
                  /\ got'[<<r, m, d>>] = got[<<r, m, d>>]
                  /\ today' - age'[r] = today - age[r]
    PROVE  ServedInv'
  <1>1. ASSUME NEW r \in Runs, NEW m \in Months, NEW d \in Dirs PROVE ServedJob(r, m, d)'
    <2>1. CASE job'[<<r, m, d>>] \in Unanswered
      BY <2>1 DEF ServedJob, Unanswered
    <2>2. CASE job'[<<r, m, d>>] \notin Unanswered
      BY <2>2, ServedStays DEF ServedInv
    <2> QED BY <2>1, <2>2
  <1> QED BY <1>1 DEF ServedInv

(* The month of yesterday or today is a reference month the run began in time  *)
(* for. *)
LEMMA StartInTime ==
    ASSUME TypeOK, Timely, NEW r \in Runs, StartScheduled(r) \/ StartManual(r)
    PROVE  \E m \in Months : StartRun(r, m) /\ today <= (m + 1) * SlotsPerMonth
  <1>1. today \in Nat
    BY DEF TypeOK, Slots
  <1>2. CASE StartScheduled(r)
    <2>1. PICK m \in Months : MonthOf(today - 1) = m /\ StartRun(r, m)
      BY <1>2 DEF StartScheduled
    <2>2. today - 1 < (m + 1) * SlotsPerMonth
      BY <1>1, <2>1, MonthBounds DEF Months
    <2>3. (m + 1) * SlotsPerMonth \in Int
      BY DEF Months
    <2>4. today <= (m + 1) * SlotsPerMonth
      BY <1>1, <2>2, <2>3
    <2> QED BY <2>1, <2>4
  <1>3. CASE StartManual(r)
    <2> DEFINE m == MonthOf(today)
    <2>1. m \in Months /\ StartRun(r, m)
      BY <1>3, SlotHasMonth DEF StartManual, Timely, TypeOK
    <2>2. today < (m + 1) * SlotsPerMonth
      BY <1>1, <2>1, MonthBounds DEF Months
    <2>3. (m + 1) * SlotsPerMonth \in Int
      BY <2>1 DEF Months
    <2>4. today <= (m + 1) * SlotsPerMonth
      BY <1>1, <2>2, <2>3
    <2> QED BY <2>1, <2>4
  <1> QED BY <1>2, <1>3

(* A new run queues its months. *)
LEMMA StartServes ==
    ASSUME TypeOK, TypeOK', StampInv, NEW r \in Runs, NEW m \in Months, StartRun(r, m),
           today <= (m + 1) * SlotsPerMonth
    PROVE  StampInv'
  <1>1. /\ ref' = [ref EXCEPT ![r] = m] /\ UNCHANGED <<clock, db, age, got>>
        /\ \A j \in Jobs : job'[j] \in {"queued", job[j]}
    BY DEF StartRun, TypeOK
  <1>2. (m + 1) * SlotsPerMonth \in Int
    BY DEF Months
  <1>3. ClockInv'
    BY <1>1, <1>2 DEF StampInv, ClockInv, TypeOK, clock, Slots
  <1>4. ServedInv'
    BY <1>1, OtherStepServes DEF StampInv, Jobs, Unanswered, clock, db
  <1> QED BY <1>3, <1>4 DEF StampInv

(* The fetches of a run that ends are gone. *)
LEMMA EndServes ==
    ASSUME TypeOK, TypeOK', StampInv, NEW r \in Runs, ClearRun(r)
    PROVE  StampInv'
  <1>1. /\ ref' = [ref EXCEPT ![r] = Never] /\ age' = [age EXCEPT ![r] = 0]
        /\ UNCHANGED <<clock, readings, skipped, got>>
        /\ \A j \in Jobs : job'[j] = IF j[1] = r THEN "none" ELSE job[j]
    BY DEF ClearRun
  <1>2. ClockInv'
    BY <1>1 DEF StampInv, ClockInv, TypeOK, clock
  <1>3. ASSUME NEW q \in Runs, NEW m \in Months, NEW d \in Dirs
        PROVE  \/ job'[<<q, m, d>>] = "none"
               \/ /\ job'[<<q, m, d>>] = job[<<q, m, d>>]
                  /\ got'[<<q, m, d>>] = got[<<q, m, d>>]
                  /\ today' - age'[q] = today - age[q]
    <2>1. <<q, m, d>> \in Jobs /\ <<q, m, d>>[1] = q
      BY DEF Jobs
    <2> QED BY <1>1, <2>1 DEF TypeOK, clock
  <1>4. ServedInv'
    BY <1>1, <1>3, OtherStepServes DEF StampInv, Unanswered
  <1> QED BY <1>2, <1>4 DEF StampInv

(* Time passes alike for all runs at work. *)
LEMMA TickServes ==
    ASSUME TypeOK, TypeOK', StampInv, Tick \/ Publish
    PROVE  StampInv'
  <1>1. UNCHANGED <<db, ref, job, got>>
    BY DEF Tick, Publish, work
  <1>2. \A r \in Runs : ref[r] # Never => today' - age'[r] = today - age[r]
    BY DEF Tick, Publish, TypeOK, work, Slots
  <1>3. today' <= published' + MaxLag
    <2>1. today \in Nat /\ published \in Nat /\ today <= published + MaxLag
      BY DEF TypeOK, Slots, StampInv, ClockInv
    <2>2. CASE Tick
      BY <2>1, <2>2 DEF Tick, PublishedAt
    <2>3. CASE Publish
      BY <2>1, <2>3 DEF Publish
    <2> QED BY <2>2, <2>3
  <1>4. ClockInv'
    BY <1>1, <1>2, <1>3 DEF StampInv, ClockInv
  <1>5. ASSUME NEW r \in Runs, NEW m \in Months, NEW d \in Dirs
        PROVE  job'[<<r, m, d>>] = "none" \/ today' - age'[r] = today - age[r]
    <2>1. <<r, m, d>> \in Jobs /\ <<r, m, d>>[1] = r
      BY DEF Jobs
    <2> QED BY <1>1, <1>2, <2>1 DEF TypeOK
  <1>6. ServedInv'
    BY <1>1, <1>5, OtherStepServes DEF StampInv, Unanswered, db
  <1> QED BY <1>4, <1>6 DEF StampInv

(* Every step of Collection. *)
LEMMA NextStampInv ==
    ASSUME TypeOK, Timely, StampInv, [Next]_vars PROVE StampInv'
  <1>0. TypeOK'
    BY NextTypeOK
  <1>1. CASE Tick \/ Publish
    BY <1>0, <1>1, TickServes
  <1>2. ASSUME NEW r \in Runs, StartScheduled(r) \/ StartManual(r) PROVE StampInv'
    BY <1>0, <1>2, StartInTime, StartServes
  <1>3. ASSUME NEW r \in Runs, EndRun(r) \/ EndFailedRun(r) PROVE StampInv'
    BY <1>0, <1>3, EndServes DEF EndRun, EndFailedRun
  <1>4. ASSUME NEW r \in Runs, NEW m \in Months, NEW d \in Dirs, JobStep(r, m, d)
        PROVE  StampInv'
    <2>1. UNCHANGED <<today, published, ref, age>>
      BY <1>4 DEF JobStep, Look, Count, Fetch, FetchNoData, FetchFails, Mark, Store,
         Refresh, clock
    <2>2. ClockInv'
      BY <2>1 DEF StampInv, ClockInv
    <2> QED BY <1>0, <1>4, <2>2, JobStepServes DEF StampInv
  <1>5. CASE UNCHANGED vars
    <2>1. UNCHANGED <<today, published, ref, age, readings, skipped, job, got>>
      BY <1>5 DEF vars, clock, db, work
    <2> QED BY <1>0, <2>1, OtherStepServes DEF StampInv, ClockInv
  <1> QED BY <1>1, <1>2, <1>3, <1>4, <1>5 DEF Next, RunStep

(* A month that a run began in time for, and that has ended since, is settled    *)
(* once what HEP had surely published when the run began is stored.          *)
LEMMA EarlySettles ==
    ASSUME TypeOK, Timely, ClockInv, NEW r \in Runs, ref[r] # Never,
           NEW m \in Months, NEW d \in Dirs, m < MonthOf(today), Served(r, d, m)
    PROVE  Settled(d, m)
  <1> SUFFICES ASSUME Early(r, d, m) \subseteq readings[d] PROVE FetchedInTime(d, m)
    BY DEF Settled, Served
  <1>1. (m + 1) * SlotsPerMonth \in Int
    BY DEF Months
  <1>2. today \in Nat /\ today \in Slots /\ age[r] \in 0..MaxRun
    BY DEF TypeOK, Slots
  <1>3. (m + 1) * SlotsPerMonth <= today
    <2>1. MonthOf(today) \in Months
      BY <1>2, SlotHasMonth
    <2>2. MonthOf(today) * SlotsPerMonth <= today
      BY <1>2, <2>1, MonthBounds DEF Months
    <2>3. (m + 1) * SlotsPerMonth <= MonthOf(today) * SlotsPerMonth
      BY <2>1 DEF Months
    <2> QED BY <1>1, <1>2, <2>1, <2>2, <2>3 DEF Months
  <1>4. (m + 1) * SlotsPerMonth - MaxLag - MaxRun <= today - age[r] - MaxLag
    BY <1>1, <1>2, <1>3
  <1> QED BY <1>1, <1>2, <1>4, AnswerGrows DEF Early, FetchedInTime

(* The invariant behind the stamp: the months before it, and those a run leaves *)
(* off its list, are settled. *)
LeftInv == ListInv /\ NoMonthLeftOut

(* The steps that end no run and begin none keep what is settled. *)
LEMMA QuietStepLeaves ==
    ASSUME TypeOK, TypeOK', LeftInv, last' = last,
           \A d \in Dirs : readings[d] \subseteq readings'[d],
           \A r \in Runs, m \in Months, d \in Dirs :
               ref'[r] # Never /\ job'[<<r, m, d>>] = "none" =>
                   ref'[r] = ref[r] /\ job[<<r, m, d>>] = "none"
    PROVE  LeftInv'
  <1>1. ListInv'
    BY SettledStays DEF LeftInv, ListInv
  <1>2. NoMonthLeftOut'
    <2> SUFFICES ASSUME last' # Never, NEW d \in Dirs, NEW m \in AvailableFrom..(last' - 1),
                        FetchFrom <= m
                 PROVE  Settled(d, m)'
      BY DEF NoMonthLeftOut, Settled, Months
    <2>1. m \in Months
      BY DEF TypeOK, Months
    <2>2. Settled(d, m)
      BY <2>1 DEF LeftInv, NoMonthLeftOut, Settled, Months
    <2> QED BY <2>1, <2>2, SettledStays
  <1> QED BY <1>1, <1>2 DEF LeftInv

(* A run leaves off its list only what lies before the stamp or the contract. *)
LEMMA StartLeaves ==
    ASSUME TypeOK, TypeOK', LeftInv, NEW r \in Runs, NEW m \in Months, StartRun(r, m)
    PROVE  LeftInv'
  <1>1. /\ ref' = [ref EXCEPT ![r] = m] /\ UNCHANGED <<last, readings>>
        /\ \A j \in Jobs : job'[j] = IF j[1] = r /\ j[2] \in MonthsToCollect(m)
                                     THEN "queued" ELSE job[j]
    BY DEF StartRun, db
  <1>2. ListInv'
    <2> SUFFICES ASSUME NEW q \in Runs, NEW n \in Months, NEW d \in Dirs, ref'[q] # Never,
                        AvailableFrom <= n, FetchFrom <= n, n <= ref'[q],
                        job'[<<q, n, d>>] = "none"
                 PROVE  Settled(d, n)'
      BY DEF ListInv
    <2>0. <<q, n, d>> \in Jobs /\ <<q, n, d>>[1] = q /\ <<q, n, d>>[2] = n
      BY DEF Jobs
    <2>1. CASE q = r
      <3>1. n \notin MonthsToCollect(m)
        BY <1>1, <2>0, <2>1
      <3>2. ~(Uncapped(m) <= n)
        BY <1>1, <2>1, <3>1 DEF MonthsToCollect, TypeOK
      <3>3. last # Never /\ n \in AvailableFrom..(last - 1)
        BY <3>2 DEF Uncapped, TypeOK, Months
      <3>4. Settled(d, n)
        BY <3>3 DEF LeftInv, NoMonthLeftOut, Settled, Months
      <3> QED BY <1>1, <3>4, SettledStays
    <2>2. CASE q # r
      <3>1. ref'[q] = ref[q] /\ job[<<q, n, d>>] = "none"
        BY <1>1, <2>0, <2>2 DEF TypeOK
      <3>2. Settled(d, n)
        BY <3>1 DEF LeftInv, ListInv
      <3> QED BY <1>1, <3>2, SettledStays
    <2> QED BY <2>1, <2>2
  <1>3. NoMonthLeftOut'
    BY <1>1 DEF LeftInv, NoMonthLeftOut, Collected, FetchedInTime, AnswerAsOf, Parsed,
       SlotsOf, MonthOf
  <1> QED BY <1>2, <1>3 DEF LeftInv

(* A run that ends has not outlived the month after its reference month. *)
LEMMA EndsInTime ==
    ASSUME TypeOK, Timely, ClockInv, NEW r \in Runs, ref[r] # Never
    PROVE  MonthOf(today) <= ref[r] + 1
  <1>1. today \in Nat /\ today \in Slots /\ age[r] \in 0..MaxRun /\ ref[r] \in Months
    BY DEF TypeOK, Slots
  <1> DEFINE e == (ref[r] + 1) * SlotsPerMonth
             k == MonthOf(today)
  <1>2. e \in Int /\ k \in Int /\ (ref[r] + 2) * SlotsPerMonth = e + SlotsPerMonth
    BY <1>1, SlotHasMonth DEF Months
  <1>3. today < e + SlotsPerMonth
    BY <1>1, <1>2 DEF ClockInv, Timely
  <1>4. k * SlotsPerMonth <= today
    BY <1>1, <1>2, MonthBounds
  <1>5. k * SlotsPerMonth < (ref[r] + 2) * SlotsPerMonth
    BY <1>1, <1>2, <1>3, <1>4
  <1>6. k < ref[r] + 2
    BY <1>1, <1>2, <1>5 DEF Months
  <1> QED BY <1>1, <1>2, <1>6 DEF Months

(* A run that stamps has settled every month before the stamp. *)
LEMMA EndLeaves ==
    ASSUME TypeOK, TypeOK', Timely, StampInv, LeftInv, NEW r \in Runs, EndRun(r)
    PROVE  LeftInv'
  <1>0. /\ ClockInv /\ ServedInv /\ ref[r] # Never /\ today \in Slots
        /\ last' = MonthOf(today) /\ ref' = [ref EXCEPT ![r] = Never]
        /\ UNCHANGED readings
        /\ \A j \in Jobs : job'[j] = IF j[1] = r THEN "none" ELSE job[j]
        /\ \A j \in Jobs : j[1] = r => job[j] \in {"none", "done"}
    BY DEF EndRun, AllFinished, Failed, Finished, JobsOf, ClearRun, StampInv, TypeOK
  <1>1. ListInv'
    <2> SUFFICES ASSUME NEW q \in Runs, NEW n \in Months, NEW d \in Dirs, ref'[q] # Never,
                        AvailableFrom <= n, FetchFrom <= n, n <= ref'[q],
                        job'[<<q, n, d>>] = "none"
                 PROVE  Settled(d, n)'
      BY DEF ListInv
    <2>1. <<q, n, d>> \in Jobs /\ <<q, n, d>>[1] = q
      BY DEF Jobs
    <2>2. ref'[q] = ref[q] /\ job[<<q, n, d>>] = "none"
      BY <1>0, <2>1 DEF TypeOK
    <2>3. Settled(d, n)
      BY <2>2 DEF LeftInv, ListInv
    <2> QED BY <1>0, <2>3, SettledStays
  <1>2. NoMonthLeftOut'
    <2> SUFFICES ASSUME NEW d \in Dirs, NEW m \in AvailableFrom..(last' - 1),
                        FetchFrom <= m
                 PROVE  Settled(d, m)
      BY <1>0 DEF NoMonthLeftOut, Settled, Collected, FetchedInTime, AnswerAsOf, Parsed,
         SlotsOf, MonthOf, Months
    <2>1. MonthOf(today) \in Months
      BY <1>0, SlotHasMonth
    <2>2. m \in Months /\ AvailableFrom <= m /\ m < MonthOf(today) /\ m <= ref[r]
      BY SMTT(30), <1>0, <2>1, EndsInTime DEF Months, TypeOK
    <2>3. <<r, m, d>> \in Jobs /\ <<r, m, d>>[1] = r
      BY <2>2 DEF Jobs
    <2>4. CASE job[<<r, m, d>>] = "none"
      BY <1>0, <2>2, <2>4 DEF LeftInv, ListInv
    <2>5. CASE job[<<r, m, d>>] = "done"
      <3>1. Served(r, d, m)
        BY <1>0, <2>2, <2>5 DEF ServedInv, ServedJob
      <3> QED BY <1>0, <2>2, <3>1, EarlySettles
    <2> QED BY <1>0, <2>3, <2>4, <2>5
  <1> QED BY <1>1, <1>2 DEF LeftInv

(* A run that ends without a stamp. *)
LEMMA ClearLeaves ==
    ASSUME TypeOK, TypeOK', LeftInv, NEW r \in Runs, ClearRun(r), last' = last
    PROVE  LeftInv'
  <1>1. /\ ref' = [ref EXCEPT ![r] = Never] /\ UNCHANGED readings
        /\ \A j \in Jobs : j[1] # r => job'[j] = job[j]
    BY DEF ClearRun
  <1>2. ASSUME NEW q \in Runs, NEW m \in Months, NEW d \in Dirs, ref'[q] # Never
        PROVE  ref'[q] = ref[q] /\ job'[<<q, m, d>>] = job[<<q, m, d>>]
    <2>1. <<q, m, d>> \in Jobs /\ <<q, m, d>>[1] = q
      BY DEF Jobs
    <2>2. q # r
      BY <1>1, <1>2 DEF TypeOK
    <2> QED BY <1>1, <2>1, <2>2 DEF TypeOK
  <1> QED BY <1>1, <1>2, QuietStepLeaves

(* Every step of Collection. *)
LEMMA NextLeftInv ==
    ASSUME TypeOK, Timely, StampInv, LeftInv, [Next]_vars PROVE LeftInv'
  <1>0. TypeOK'
    BY NextTypeOK
  <1>1. CASE Tick \/ Publish \/ UNCHANGED vars
    BY <1>0, <1>1, QuietStepLeaves DEF Tick, Publish, vars, db, work
  <1>2. ASSUME NEW r \in Runs, StartScheduled(r) \/ StartManual(r) PROVE LeftInv'
    BY <1>0, <1>2, StartInTime, StartLeaves
  <1>3. ASSUME NEW r \in Runs, EndFailedRun(r) PROVE LeftInv'
    BY <1>0, <1>3, ClearLeaves DEF EndFailedRun
  <1>4. ASSUME NEW r \in Runs, EndRun(r) PROVE LeftInv'
    BY <1>0, <1>4, EndLeaves
  <1>5. ASSUME NEW r \in Runs, NEW m \in Months, NEW d \in Dirs, JobStep(r, m, d)
        PROVE  LeftInv'
    <2>1. \A c \in Dirs : readings[c] \subseteq readings'[c]
      BY <1>0, <1>5, JobStepServes
    <2>2. /\ UNCHANGED <<last, ref>>
          /\ \A j \in Jobs : job'[j] = "none" => job[j] = "none"
      BY SMTT(30), <1>5 DEF JobStep, Look, Count, Fetch, FetchNoData, FetchFails, Mark, Store,
         Refresh, RefreshDone, Goto, db, TypeOK
    <2> QED BY <1>0, <2>1, <2>2, QuietStepLeaves DEF Jobs
  <1> QED BY <1>1, <1>2, <1>3, <1>4, <1>5 DEF Next, RunStep

(* Before anything has been collected nothing is stamped or on a list. *)
LEMMA InitStampInv == Init => StampInv /\ LeftInv
  <1> SUFFICES ASSUME Init PROVE StampInv /\ LeftInv
    OBVIOUS
  <1>1. \A j \in Jobs : job[j] = "none"
    BY DEF Init
  <1>2. \A r \in Runs : ref[r] = Never
    BY DEF Init
  <1>3. ClockInv
    BY <1>2 DEF Init, ClockInv, PublishedAt
  <1>4. ServedInv
    BY <1>1 DEF Init, ServedInv, ServedJob, Jobs
  <1>5. ListInv /\ NoMonthLeftOut
    BY <1>2 DEF Init, ListInv, NoMonthLeftOut
  <1> QED BY <1>3, <1>4, <1>5 DEF StampInv, LeftInv

(* As long as HEP's lag and a run stay below half a month, and nobody fetches   *)
(* an older month by hand, the stamp never runs ahead of the data: overlapping *)
(* runs, failed months and runs over midnight at the end of a month included. *)
THEOREM StampFollowsData ==
    ASSUME Timely PROVE Spec => []NoMonthLeftOut
  <1>1. Init => TypeOK /\ StampInv /\ LeftInv
    BY InitTypeOK, InitStampInv
  <1>2. (TypeOK /\ StampInv /\ LeftInv) /\ [Next]_vars => (TypeOK /\ StampInv /\ LeftInv)'
    BY NextTypeOK, NextStampInv, NextLeftInv
  <1>3. LeftInv => NoMonthLeftOut
    BY DEF LeftInv
  <1> QED BY <1>1, <1>2, <1>3, PTL DEF Spec

-----------------------------------------------------------------------------
(* The book of the collection *)

(* The point is being collected. *)
AtWork == \E r \in Runs : ref[r] # Never

(* What a fetch is about to store is its month as HEP had published it at some   *)
(* time; the stamp is not ahead of the clock.                                *)
BookInv ==
    /\ \A r \in Runs, m \in Months, d \in Dirs :
          job[<<r, m, d>>] = "store" =>
              \E p \in 0..published : got[<<r, m, d>>] = Book!AsOf(d, m, p)
    /\ last # Never => last <= MonthOf(today)

(* The book keeps of an answer what the code keeps. *)
LEMMA AnswerAsInBook ==
    ASSUME NEW d, NEW m, NEW p PROVE Book!AsOf(d, m, p) = AnswerAsOf(d, m, p)
  BY DEF AnswerAsOf, Parsed, Book!AsOf, Book!Legible, Book!Slots, Slots, MonthOf

(* The book counts and divides the slots as the code does. *)
LEMMA SameCount == ASSUME NEW S PROVE Book!Cardinality(S) = Cardinality(S)
  BY DEF Cardinality, Book!Cardinality, IsFiniteSet, Book!IsFiniteSet

(* The book has the same slots in a month as the collection. *)
LEMMA SameSlotsOf == ASSUME NEW m PROVE Book!SlotsOf(m) = SlotsOf(m)
  BY DEF SlotsOf, Book!SlotsOf, Slots, Book!Slots, MonthOf

(* The months follow each other as the slots do. *)
LEMMA MonthGoesOn ==
    ASSUME NEW t \in Nat PROVE MonthOf(t) <= MonthOf(t + 1)
  BY DEF MonthOf

(* Nothing about to be stored is changed, and the publication only grows. *)
LEMMA QuietStepBook ==
    ASSUME TypeOK, TypeOK', BookInv, published <= published',
           \A i \in Jobs : job'[i] = "store" => job[i] = "store" /\ got'[i] = got[i],
           last' # Never => last' <= MonthOf(today')
    PROVE  BookInv'
  <1> SUFFICES ASSUME NEW r \in Runs, NEW m \in Months, NEW d \in Dirs,
                      job'[<<r, m, d>>] = "store"
               PROVE  \E p \in 0..published' : got'[<<r, m, d>>] = Book!AsOf(d, m, p)
    BY DEF BookInv, Book!AsOf, Book!Legible, Book!Slots
  <1>1. job[<<r, m, d>>] = "store" /\ got'[<<r, m, d>>] = got[<<r, m, d>>]
    BY DEF Jobs
  <1>2. PICK p \in 0..published : got[<<r, m, d>>] = Book!AsOf(d, m, p)
    BY <1>1 DEF BookInv
  <1>3. p \in 0..published'
    BY <1>2 DEF TypeOK, Slots
  <1> QED BY <1>1, <1>2, <1>3

(* A month fetch has HEP's answer, or leaves what the others have alone. *)
LEMMA JobStepBook ==
    ASSUME TypeOK, TypeOK', BookInv, NEW r \in Runs, NEW m \in Months, NEW d \in Dirs,
           JobStep(r, m, d)
    PROVE  BookInv'
  <1> DEFINE j == <<r, m, d>>
  <1>0. j \in Jobs /\ UNCHANGED <<today, published, last>>
    BY DEF Jobs, JobStep, Look, Count, Fetch, FetchNoData, FetchFails, Mark, Store, Refresh,
       clock, db
  <1>1. CASE Fetch(r, m, d)
    <2>1. published \in 0..published
      BY DEF TypeOK, Slots
    <2>2. \A i \in Jobs : i # j => job'[i] = job[i] /\ got'[i] = got[i]
      BY <1>0, <1>1 DEF Fetch, Goto, TypeOK
    <2>3. got'[j] = Book!AsOf(d, m, published)
      BY <1>0, <1>1, AnswerAsInBook DEF Fetch, Answer, TypeOK
    <2> SUFFICES ASSUME NEW q \in Runs, NEW n \in Months, NEW c \in Dirs,
                        job'[<<q, n, c>>] = "store"
                 PROVE  \E p \in 0..published : got'[<<q, n, c>>] = Book!AsOf(c, n, p)
      BY <1>0 DEF BookInv, Book!AsOf, Book!Legible, Book!Slots, MonthOf
    <2>4. CASE <<q, n, c>> = j
      BY <2>1, <2>3, <2>4
    <2>5. CASE <<q, n, c>> # j
      BY <2>2, <2>5 DEF BookInv, Jobs
    <2> QED BY <2>4, <2>5
  <1>2. CASE ~Fetch(r, m, d)
    <2>1. /\ \A i \in Jobs : i # j => job'[i] = job[i] /\ got'[i] = got[i]
          /\ job'[j] # "store"
      BY <1>2, JobStepShape
    <2>2. published <= published' /\ (last' # Never => last' <= MonthOf(today'))
      BY <1>0 DEF TypeOK, BookInv, Slots, MonthOf
    <2> QED BY <2>1, <2>2, QuietStepBook
  <1> QED BY <1>1, <1>2

(* Every step of Collection. *)
LEMMA NextBookInv ==
    ASSUME TypeOK, TypeOK', BookInv, [Next]_vars PROVE BookInv'
  <1>0. today \in Nat /\ published \in Int /\ MonthOf(today) \in Months
    BY SlotHasMonth DEF TypeOK, Slots
  <1>1. CASE Tick
    <2>1. last # Never => last <= MonthOf(today + 1)
      <3>1. MonthOf(today) <= MonthOf(today + 1)
        BY <1>0, MonthGoesOn
      <3>2. MonthOf(today + 1) \in Int /\ (last # Never => last \in Int)
        BY <1>0 DEF MonthOf, TypeOK, Months
      <3> QED BY <1>0, <3>1, <3>2 DEF BookInv, Months
    <2>2. /\ last' # Never => last' <= MonthOf(today')
          /\ published' = published /\ job' = job /\ got' = got
      BY <1>1, <2>1 DEF Tick, db, MonthOf
    <2> QED BY <1>0, <2>2, QuietStepBook
  <1>2. CASE Publish
    <2>1. /\ last' # Never => last' <= MonthOf(today')
          /\ published' = published + 1 /\ job' = job /\ got' = got
      BY <1>2 DEF Publish, db, work, BookInv, MonthOf
    <2> QED BY <1>0, <2>1, QuietStepBook
  <1>3. ASSUME NEW r \in Runs, NEW m \in Months, StartRun(r, m) PROVE BookInv'
    <2>1. /\ last' # Never => last' <= MonthOf(today')
          /\ published' = published /\ got' = got
          /\ \A i \in Jobs : job'[i] = "store" => job[i] = "store"
      BY <1>3 DEF StartRun, db, clock, BookInv, MonthOf
    <2> QED BY <1>0, <2>1, QuietStepBook
  <1>4. ASSUME NEW r \in Runs, EndRun(r) \/ EndFailedRun(r) PROVE BookInv'
    <2>1. published' = published /\ today' = today /\ last' \in {last, MonthOf(today)}
      BY <1>4 DEF EndRun, EndFailedRun, ClearRun, clock
    <2>2. last' # Never => last' <= MonthOf(today')
      BY <1>0, <2>1 DEF BookInv, Months, MonthOf
    <2>3. got' = got /\ \A i \in Jobs : job'[i] = "store" => job[i] = "store"
      BY <1>4 DEF EndRun, EndFailedRun, ClearRun
    <2> QED BY <1>0, <2>1, <2>2, <2>3, QuietStepBook
  <1>5. ASSUME NEW r \in Runs, StartScheduled(r) \/ StartManual(r) PROVE BookInv'
    BY <1>0, <1>3, <1>5 DEF StartScheduled, StartManual
  <1>6. CASE UNCHANGED vars
    <2>1. /\ last' # Never => last' <= MonthOf(today')
          /\ published' = published /\ job' = job /\ got' = got
      BY <1>6 DEF vars, clock, db, work, BookInv, MonthOf
    <2> QED BY <1>0, <2>1, QuietStepBook
  <1> QED BY <1>1, <1>2, <1>4, <1>5, <1>6, JobStepBook DEF Next, RunStep

(* The end of a run stamps, gives up or only leaves the others to it; no month   *)
(* that the stamp passes is open, and whoever ends last leaves no total behind. *)
LEMMA EndKeepsBook ==
    ASSUME TypeOK, BookInv, NoMonthLeftOut', InSyncWhenQuiet',
           NEW r \in Runs, EndRun(r) \/ EndFailedRun(r)
    PROVE  [Book!Next]_(Book!vars)
  <1>0. /\ AtWork
        /\ UNCHANGED <<published, readings, aggregated, skipped>>
    BY DEF AtWork, EndRun, EndFailedRun, AllFinished, ClearRun, clock
  <1>1. ~AtWork' => Book!Agree
    BY <1>0 DEF AtWork, InSyncWhenQuiet, InSync, Book!Agree, Book!Months, Months, SlotsOf,
       Book!SlotsOf, Slots, Book!Slots, MonthOf
  <1>2. CASE EndFailedRun(r)
    <2>1. UNCHANGED last
      BY <1>2 DEF EndFailedRun
    <2>2. CASE AtWork'
      BY <1>0, <2>1, <2>2 DEF AtWork, Book!vars, Book!tables
    <2>3. CASE ~AtWork'
      BY <1>0, <1>1, <2>1, <2>3 DEF AtWork, Book!Next, Book!Fail, Book!Rest, Book!tables
    <2> QED BY <2>2, <2>3
  <1>3. CASE EndRun(r)
    <2>0. PICK m \in Months : m = MonthOf(today)
      BY SlotHasMonth DEF TypeOK
    <2>1. m \in Months /\ last' = m /\ (last = Never \/ last <= m)
      BY <1>3, <2>0 DEF EndRun, BookInv
    <2>2. ASSUME NEW d \in Dirs,
                 NEW n \in (IF AvailableFrom < FetchFrom THEN FetchFrom ELSE AvailableFrom)..(m - 1)
          PROVE  Book!Settled(d, n)
      <3>1. n \in AvailableFrom..(last' - 1) /\ ~(n < FetchFrom) /\ last' # Never
        BY <2>1, <2>2 DEF Months
      <3>2. Collected(d, n)' \/ FetchedInTime(d, n)' \/ n \in EmptyMonths
        BY <3>1 DEF NoMonthLeftOut
      <3>3. /\ Collected(d, n)' <=> Collected(d, n)
            /\ FetchedInTime(d, n)' <=> FetchedInTime(d, n)
        BY <1>0 DEF Collected, FetchedInTime, AnswerAsOf, Parsed, SlotsOf, Slots, MonthOf
      <3>4. /\ n \in Int
            /\ (n + 1) * SlotsPerMonth - (MaxLag + MaxRun)
                  = (n + 1) * SlotsPerMonth - MaxLag - MaxRun
        <4>1. n \in Int
          BY <2>1 DEF Months
        <4>2. (n + 1) * SlotsPerMonth \in Int
          BY <4>1
        <4> QED BY <4>1, <4>2
      <3>5. FetchedInTime(d, n)
              <=> Book!AsOf(d, n, (n + 1) * SlotsPerMonth - (MaxLag + MaxRun)) \subseteq readings[d]
        BY <3>4, AnswerAsInBook DEF FetchedInTime
      <3> QED
        BY <3>2, <3>3, <3>5, SameCount, SameSlotsOf DEF Collected, Book!Settled
    <2>3. Book!Rest \/ (AtWork /\ AtWork')
      BY <1>0, <1>1 DEF Book!Rest, AtWork
    <2>4. Book!Stamp(m)
      BY <1>0, <2>1, <2>2, <2>3 DEF Book!Stamp, AtWork
    <2>5. m \in Book!Months
      BY <2>1 DEF Book!Months, Months
    <2> QED BY <2>4, <2>5 DEF Book!Next
  <1> QED BY <1>2, <1>3

(* A step of a month fetch enters readings, sums up a month, gives one up or      *)
(* leaves the book alone.                                                    *)
LEMMA JobKeepsBook ==
    ASSUME TypeOK, StampInv, BookInv, NEW r \in Runs, NEW m \in Months, NEW d \in Dirs,
           JobStep(r, m, d)
    PROVE  [Book!Next]_(Book!vars)
  <1> DEFINE j == <<r, m, d>>
  <1>0. j \in Jobs /\ AtWork /\ m \in Book!Months
    <2>1. j \in Jobs /\ j[1] = r
      BY DEF Jobs
    <2>2. job[j] # "none"
      BY DEF JobStep, Look, Count, Fetch, FetchNoData, FetchFails, Mark, Store, Refresh
    <2> QED BY <2>1, <2>2 DEF AtWork, TypeOK, Book!Months, Months
  <1>1. UNCHANGED <<published, ref, last>> /\ (AtWork' <=> AtWork)
    BY DEF JobStep, Look, Count, Fetch, FetchNoData, FetchFails, Mark, Store, Refresh,
       clock, db, AtWork
  <1>2. CASE Store(r, m, d)
    <2>0. job[j] = "store"
      BY <1>2 DEF Store
    <2>1. PICK p \in 0..published : got[j] = Book!AsOf(d, m, p)
      BY <2>0 DEF BookInv
    <2>2. /\ readings' = [readings EXCEPT ![d] = @ \cup Book!AsOf(d, m, p)]
          /\ UNCHANGED <<aggregated, skipped>>
      BY <1>2, <2>1 DEF Store
    <2>3. Book!Enter(d, m)
      BY <1>0, <1>1, <2>2 DEF Book!Enter, AtWork
    <2> QED BY <1>0, <2>3 DEF Book!Next
  <1>3. CASE Refresh(r, m, d)
    <2>1. PICK n \in Months :
            /\ aggregated' = [aggregated EXCEPT ![d][n] = readings[d] \cap SlotsOf(n)]
            /\ UNCHANGED <<readings, skipped>>
      BY <1>3 DEF Refresh
    <2>2. Book!SumUp(d, n)
      BY <1>0, <1>1, <2>1 DEF Book!SumUp, AtWork, SlotsOf, Book!SlotsOf, Slots, Book!Slots,
         MonthOf
    <2> QED BY <2>2 DEF Book!Next, Book!Months, Months
  <1>4. CASE Mark(r, m, d)
    <2>1. m \in EmptyMonths
      BY <1>4 DEF Mark, StampInv, ServedInv, ServedJob
    <2>2. Book!GiveUp(d, m)
      BY <1>0, <1>1, <1>4, <2>1 DEF Mark, Book!GiveUp, AtWork
    <2> QED BY <1>0, <2>2 DEF Book!Next
  <1>5. CASE ~Store(r, m, d) /\ ~Refresh(r, m, d) /\ ~Mark(r, m, d)
    <2>1. UNCHANGED <<readings, aggregated, skipped>>
      BY <1>5 DEF JobStep, Look, Count, Fetch, FetchNoData, FetchFails, db
    <2> QED BY <1>1, <2>1 DEF Book!vars, Book!tables, AtWork
  <1> QED BY <1>2, <1>3, <1>4, <1>5

(* Every step of Collection is one of the book, or none. *)
LEMMA StepKeepsBook ==
    ASSUME TypeOK, StampInv, BookInv, NoMonthLeftOut', InSyncWhenQuiet', [Next]_vars
    PROVE  [Book!Next]_(Book!vars)
  <1>1. ASSUME UNCHANGED <<published, ref, db>> PROVE [Book!Next]_(Book!vars)
    BY <1>1 DEF Book!vars, Book!tables, db
  <1>2. CASE Tick \/ UNCHANGED vars
    BY <1>1, <1>2 DEF Tick, vars, clock, work
  <1>3. CASE Publish
    BY <1>3 DEF Publish, db, work, Book!Next, Book!Publish, Book!tables
  <1>4. ASSUME NEW r \in Runs, NEW m \in Months, StartRun(r, m)
        PROVE  [Book!Next]_(Book!vars)
    <2>1. AtWork' /\ UNCHANGED <<published, db>>
      BY <1>4 DEF StartRun, AtWork, TypeOK, clock
    <2>2. CASE AtWork
      BY <2>1, <2>2 DEF AtWork, Book!vars, Book!tables, db
    <2>3. CASE ~AtWork
      BY <2>1, <2>3 DEF AtWork, Book!Next, Book!Begin, Book!tables, db
    <2> QED BY <2>2, <2>3
  <1>5. ASSUME NEW r \in Runs, StartScheduled(r) \/ StartManual(r)
        PROVE  [Book!Next]_(Book!vars)
    BY <1>4, <1>5, SlotHasMonth DEF StartScheduled, StartManual, TypeOK
  <1> QED BY <1>2, <1>3, <1>5, EndKeepsBook, JobKeepsBook DEF Next, RunStep

(* Whatever runs overlap, together they keep the book of one collection: what    *)
(* Ledger says of readings, totals, skipped months and the stamp holds of the   *)
(* tables, under the same timing as StampFollowsData.                        *)
THEOREM ImplementsLedger ==
    ASSUME Timely PROVE Spec => KeepsOneBook
  <1>1. Init => Book!Init
    BY DEF Init, Book!Init, Book!Slots, Slots, Book!Months, Months, PublishedAt
  <1>2. TypeOK /\ StampInv /\ BookInv /\ NoMonthLeftOut' /\ InSyncWhenQuiet' /\ [Next]_vars
        => [Book!Next]_(Book!vars)
    BY StepKeepsBook
  <1>3. Init => TypeOK /\ StampInv /\ BookInv
    BY InitTypeOK, InitStampInv DEF Init, BookInv, Jobs
  <1>4. TypeOK /\ TypeOK' /\ StampInv /\ BookInv /\ [Next]_vars => StampInv' /\ BookInv'
    BY NextStampInv, NextBookInv
  <1> QED
    BY <1>1, <1>2, <1>3, <1>4, TypeCorrectness, StampFollowsData, AggregatesCatchUp, PTL
       DEF Spec, Book!Spec, KeepsOneBook

-----------------------------------------------------------------------------
(* Faults, crashes and the command line *)

(* A statement of a month fetch fails. *)
FailedStep(r, m, d) ==
    \/ LookFails(r, m, d) \/ CountFails(r, m, d) \/ MarkFails(r, m, d)
    \/ StoreFails(r, m, d) \/ RefreshFails(r, m, d)

(* It moves that fetch alone and changes no table: on towards HEP, to its end    *)
(* for a failed insert, and past the mark or the month that was to be written. *)
LEMMA FailedStepMoves ==
    ASSUME TypeOK, NEW r \in Runs, NEW m \in Months, NEW d \in Dirs, FailedStep(r, m, d)
    PROVE  LET j == <<r, m, d>> IN
           /\ UNCHANGED <<today, published, last, readings, aggregated, skipped, ref, age>>
           /\ \A i \in Jobs : i # j => job'[i] = job[i] /\ got'[i] = got[i]
           /\ job[j] # "none"
           /\ \/ job'[j] \in {"count", "fetch", "failed"}
              \/ job[j] = "mark" /\ job'[j] = "done"
              \/ job[j] = "refresh" /\ job'[j] \in {"refresh", "done"}
           /\ got'[j] = {} \/ got'[j] = got[j]
  <1>0. <<r, m, d>> \in Jobs
    BY DEF Jobs
  <1> USE <1>0 DEF Goto, clock, db, TypeOK
  <1>1. CASE LookFails(r, m, d)
    BY <1>1 DEF LookFails
  <1>2. CASE CountFails(r, m, d)
    BY <1>2 DEF CountFails
  <1>3. CASE MarkFails(r, m, d)
    BY <1>3 DEF MarkFails
  <1>4. CASE StoreFails(r, m, d)
    BY <1>4 DEF StoreFails
  <1>5. CASE RefreshFails(r, m, d)
    BY <1>5 DEF RefreshFails, RefreshDone
  <1> QED BY <1>1, <1>2, <1>3, <1>4, <1>5 DEF FailedStep

(* A failing statement belongs to a month fetch or is the stamp of a run. *)
LEMMA FaultShape ==
    ASSUME Fault
    PROVE  /\ troubled' = GoingOn(Runs) /\ UNCHANGED <<crashes, forced>>
           /\ faults < MaxFaults /\ faults' = faults + 1
           /\ \E r \in Runs :
                 \/ StampFails(r)
                 \/ \E m \in Months, d \in Dirs : FailedStep(r, m, d)
  BY DEF Fault, FailedStep

(* The types after a failing statement. *)
LEMMA FailedStepTypeOK ==
    ASSUME TypeOK, NEW r \in Runs, NEW m \in Months, NEW d \in Dirs, FailedStep(r, m, d)
    PROVE  TypeOK'
  <1>0. <<r, m, d>> \in Jobs /\ <<r, m, d>>[1] = r
    BY DEF Jobs
  <1> USE <1>0 DEF Goto, clock, db, TypeOK, Steps
  <1>1. CASE LookFails(r, m, d)
    BY <1>1 DEF LookFails
  <1>2. CASE CountFails(r, m, d)
    BY <1>2 DEF CountFails
  <1>3. CASE MarkFails(r, m, d)
    BY <1>3 DEF MarkFails
  <1>4. CASE StoreFails(r, m, d)
    BY <1>4 DEF StoreFails
  <1>5. CASE RefreshFails(r, m, d)
    BY SMTT(30), <1>5 DEF RefreshFails, RefreshDone, FirstStale
  <1> QED BY <1>1, <1>2, <1>3, <1>4, <1>5 DEF FailedStep

(* Faults, crashes and the command line keep the types too. *)
LEMMA FaultNextTypeOK == ASSUME TypeOK, [FaultNext]_allVars PROVE TypeOK'
  <1>1. CASE NormalStep
    BY <1>1, NextTypeOK DEF NormalStep
  <1>2. CASE Fault
    <2>1. ASSUME NEW r \in Runs, StampFails(r) PROVE TypeOK'
      BY <2>1 DEF StampFails, ClearRun, AllFinished, JobsOf, Finished, TypeOK, clock, Steps
    <2> QED BY <1>2, <2>1, FaultShape, FailedStepTypeOK
  <1>3. CASE Crash
    BY <1>3 DEF Crash, TypeOK, clock, db, Steps, Jobs
  <1>4. CASE ForceFetch
    BY <1>4 DEF ForceFetch, TypeOK, clock, work
  <1>5. CASE UNCHANGED allVars
    BY <1>5, NextTypeOK DEF allVars
  <1> QED BY <1>1, <1>2, <1>3, <1>4, <1>5 DEF FaultNext

(* The types also hold, and the counts stay in their bounds, when statements    *)
(* fail, the process dies and the command line reaches into the tables.      *)
THEOREM FaultTypeCorrectness == FaultSpec => []FaultTypeOK
  <1>1. FaultInit => FaultTypeOK
    BY InitTypeOK, FaultBoundsAssumption DEF FaultInit, FaultTypeOK
  <1>2. ASSUME FaultTypeOK, [FaultNext]_allVars PROVE FaultTypeOK'
    <2>1. TypeOK'
      BY <1>2, FaultNextTypeOK DEF FaultTypeOK
    <2>2. /\ faults' \in 0..MaxFaults /\ crashes' \in 0..MaxCrashes
          /\ forced' \in 0..MaxForced
      BY <1>2, FaultBoundsAssumption DEF FaultTypeOK, FaultNext, NormalStep, Fault, Crash,
         ForceFetch, allVars, faultVars
    <2>3. troubled' \subseteq Runs /\ \A r \in troubled' : ref'[r] # Never
      BY <1>2 DEF FaultTypeOK, FaultNext, NormalStep, Fault, Crash, ForceFetch, GoingOn,
         allVars, faultVars, vars, work
    <2> QED BY <2>1, <2>2, <2>3 DEF FaultTypeOK
  <1> QED BY <1>1, <1>2, PTL DEF FaultSpec

-----------------------------------------------------------------------------
(* Nothing is invented *)

(* No step takes a reading away, and what is summed up is stored. *)
LEMMA SumsAreStored ==
    ASSUME TypeOK, NothingInvented, [FaultNext]_allVars PROVE NothingInvented'
  <1>1. ASSUME \A d \in Dirs : readings[d] \subseteq readings'[d],
               aggregated' = aggregated
        PROVE  NothingInvented'
    BY <1>1 DEF NothingInvented, SlotsOf
  <1>2. ASSUME NEW r \in Runs, NEW m \in Months, NEW d \in Dirs, JobStep(r, m, d)
        PROVE  NothingInvented'
    <2>1. CASE Refresh(r, m, d)
      <3>1. PICK n \in Months :
                aggregated' = [aggregated EXCEPT ![d][n] = readings[d] \cap SlotsOf(n)]
        BY <2>1 DEF Refresh
      <3>2. readings' = readings
        BY <2>1 DEF Refresh
      <3> QED BY <3>1, <3>2 DEF NothingInvented, SlotsOf, TypeOK
    <2>2. CASE ~Refresh(r, m, d)
      BY <1>1, <1>2, <2>2 DEF JobStep, Look, Count, Fetch, FetchNoData, FetchFails, Mark,
         Store, db, TypeOK
    <2> QED BY <2>1, <2>2
  <1>3. CASE NormalStep
    <2>1. CASE Tick \/ Publish
      BY <1>1, <2>1 DEF Tick, Publish, db
    <2>2. ASSUME NEW r \in Runs, StartScheduled(r) \/ StartManual(r) PROVE NothingInvented'
      BY <1>1, <2>2 DEF StartScheduled, StartManual, StartRun, db
    <2>3. ASSUME NEW r \in Runs, EndRun(r) \/ EndFailedRun(r) PROVE NothingInvented'
      BY <1>1, <2>3 DEF EndRun, EndFailedRun, ClearRun
    <2> QED BY <1>2, <1>3, <2>1, <2>2, <2>3 DEF NormalStep, Next, RunStep
  <1>4. CASE Fault
    BY <1>1, <1>4, FaultShape, FailedStepMoves DEF StampFails, ClearRun
  <1>5. CASE Crash \/ ForceFetch \/ UNCHANGED allVars
    BY <1>1, <1>5 DEF Crash, ForceFetch, allVars, vars, db
  <1> QED BY <1>3, <1>4, <1>5 DEF FaultNext

(* The aggregates never show a reading that is not stored. *)
THEOREM SumsAreNotInvented == FaultSpec => []NothingInvented
  <1>1. FaultInit => NothingInvented
    BY DEF FaultInit, Init, NothingInvented
  <1>2. FaultTypeOK => TypeOK
    BY DEF FaultTypeOK
  <1> QED BY <1>1, <1>2, SumsAreStored, FaultTypeCorrectness, PTL DEF FaultSpec

-----------------------------------------------------------------------------
(* The stamp, disturbed *)

(* Neither a failing statement nor a crash nor the command line makes a month    *)
(* fetch count as served that is not.                                        *)
LEMMA FaultStampInv ==
    ASSUME TypeOK, Timely, StampInv, [FaultNext]_allVars PROVE StampInv'
  <1>0. TypeOK'
    BY FaultNextTypeOK
  <1>1. CASE NormalStep \/ UNCHANGED allVars
    BY <1>1, NextStampInv DEF NormalStep, allVars
  <1>2. ASSUME NEW r \in Runs, StampFails(r) PROVE StampInv'
    BY <1>0, <1>2, EndServes DEF StampFails
  <1>3. ASSUME NEW r \in Runs, NEW m \in Months, NEW d \in Dirs, FailedStep(r, m, d)
        PROVE  StampInv'
    <2> DEFINE j == <<r, m, d>>
    <2>1. /\ UNCHANGED <<today, published, readings, skipped, ref, age>>
          /\ \A i \in Jobs : i # j => job'[i] = job[i] /\ got'[i] = got[i]
          /\ \/ job'[j] \in {"count", "fetch", "failed"}
             \/ job[j] = "mark" /\ job'[j] = "done"
             \/ job[j] = "refresh" /\ job'[j] \in {"refresh", "done"}
      BY <1>3, FailedStepMoves
    <2>2. ASSUME NEW q \in Runs, NEW n \in Months, NEW c \in Dirs
          PROVE  ServedJob(q, n, c)'
      <3>1. ServedJob(q, n, c) /\ <<q, n, c>> \in Jobs
        BY DEF StampInv, ServedInv, Jobs
      <3>2. CASE <<q, n, c>> # j
        BY <1>0, <2>1, <3>1, <3>2, ServedStays
      <3>3. CASE <<q, n, c>> = j
        <4>1. Early(q, c, n)' = Early(q, c, n)
          BY <2>1, EarlyStays
        <4>2. Served(q, c, n) => Served(q, c, n)'
          BY <1>0, <2>1, <4>1, SettledStays DEF Served
        <4>3. n \in EmptyMonths => Served(q, c, n)'
          BY DEF Served, Settled
        <4> QED BY <2>1, <3>1, <3>3, <4>2, <4>3 DEF ServedJob
      <3> QED BY <3>2, <3>3
    <2> QED BY <2>1, <2>2 DEF StampInv, ClockInv, ServedInv
  <1>4. CASE Crash
    <2>1. ClockInv'
      BY <1>4 DEF Crash, StampInv, ClockInv, clock
    <2>2. ServedInv'
      BY <1>0, <1>4, OtherStepServes DEF Crash, StampInv, Unanswered, db, Jobs
    <2> QED BY <2>1, <2>2 DEF StampInv
  <1>5. CASE ForceFetch
    BY <1>0, <1>5, OtherStepServes DEF ForceFetch, StampInv, ClockInv, clock, work
  <1> QED BY <1>1, <1>2, <1>3, <1>4, <1>5, FaultShape DEF FaultNext

(* As long as the command line has not moved the stamp, the months before it and *)
(* those a run leaves off its list are settled. *)
LEMMA FaultLeftInv ==
    ASSUME FaultTypeOK, Timely, StampInv, forced = 0 => LeftInv, [FaultNext]_allVars,
           forced' = 0
    PROVE  LeftInv'
  <1>0. TypeOK /\ TypeOK'
    BY FaultNextTypeOK DEF FaultTypeOK
  <1>1. forced = 0 /\ ~ForceFetch
    BY DEF FaultTypeOK, FaultNext, NormalStep, Fault, Crash, ForceFetch, allVars, faultVars
  <1>2. LeftInv
    BY <1>1
  <1>3. CASE NormalStep \/ UNCHANGED allVars
    BY <1>0, <1>2, <1>3, NextLeftInv DEF NormalStep, allVars
  <1>4. ASSUME NEW r \in Runs, StampFails(r) PROVE LeftInv'
    BY <1>0, <1>2, <1>4, ClearLeaves DEF StampFails
  <1>5. ASSUME NEW r \in Runs, NEW m \in Months, NEW d \in Dirs, FailedStep(r, m, d)
        PROVE  LeftInv'
    <2>1. /\ UNCHANGED <<last, readings, ref>>
          /\ \A j \in Jobs : job'[j] = "none" => job[j] = "none"
      BY <1>0, <1>5, FailedStepMoves DEF TypeOK
    <2> QED BY <1>0, <1>2, <2>1, QuietStepLeaves DEF Jobs
  <1>6. CASE Crash
    BY <1>0, <1>2, <1>6, QuietStepLeaves DEF Crash, db
  <1> QED BY <1>1, <1>3, <1>4, <1>5, <1>6, FaultShape DEF FaultNext

(* Neither failed statements nor crashes make the stamp run ahead of the data,   *)
(* for any number of them, as long as the timing is what it is and the command  *)
(* line has not moved the stamp.                                            *)
THEOREM StampSurvivesFaults ==
    ASSUME Timely PROVE FaultSpec => []FaultsLeaveNoMonthOut
  <1>1. FaultInit => StampInv /\ (forced = 0 => LeftInv)
    BY InitStampInv DEF FaultInit
  <1>2. FaultTypeOK /\ StampInv /\ (forced = 0 => LeftInv) /\ [FaultNext]_allVars
        => StampInv' /\ (forced = 0 => LeftInv)'
    BY FaultStampInv, FaultLeftInv DEF FaultTypeOK
  <1>3. (forced = 0 => LeftInv) => FaultsLeaveNoMonthOut
    BY DEF LeftInv, FaultsLeaveNoMonthOut
  <1> QED BY <1>1, <1>2, <1>3, FaultTypeCorrectness, PTL DEF FaultSpec

-----------------------------------------------------------------------------
(* The reference month heals *)

(* HEP's answer for the month a slot lies in brings each of these slots. *)
InAnswers(d, ts) == \A t \in ts : t \in Answer(d, MonthOf(t))

(* What is stored or about to be would be kept of an answer that HEP gives now;   *)
(* only months without data are skipped.                                    *)
AnswerInv ==
    /\ \A d \in Dirs : InAnswers(d, readings[d]) /\ skipped[d] \subseteq EmptyMonths
    /\ \A r \in Runs, m \in Months, d \in Dirs :
          LET j == <<r, m, d>> IN
          InAnswers(d, got[j]) /\ (job[j] = "mark" => m \in EmptyMonths)

(* The fetch of a run's reference month is never left off its list nor skipped   *)
(* as collected, and once it has had its answer the month is in sync, on a      *)
(* refresh list or about to come on one.                                     *)
Heals(r, d) ==
    LET j == <<r, ref[r], d>> IN
    /\ job[j] \notin {"none", "count"}
    /\ job[j] \in {"refresh", "done"} => ref[r] \in EmptyMonths \/ Kept(d, ref[r])
    /\ job[j] = "store" => ref[r] \in MonthsTouched(got[j]) \/ Kept(d, ref[r])

(* ... of every run in whose time no statement has failed. *)
HealInv == \A r \in Runs \ troubled, d \in Dirs : ref[r] # Never => Heals(r, d)

(* The slot that ends a month is kept only if it is no zero, and then the answer   *)
(* for its own month brings it too.                                         *)
LEMMA AnswersAgreeOnSlots ==
    ASSUME NEW d \in Dirs, NEW m \in Months PROVE InAnswers(d, Answer(d, m))
  <1> SUFFICES ASSUME NEW t \in Answer(d, m) PROVE t \in Answer(d, MonthOf(t))
    BY DEF InAnswers
  <1>1. t \in Int /\ (m + 1) * SlotsPerMonth \in Int /\ m \in Int
    BY DEF Answer, AnswerAsOf, Parsed, Slots, Months
  <1>2. CASE MonthOf(t) = m
    BY <1>2
  <1>3. CASE MonthOf(t) # m
    <2>1. t \in Parsed(d, m, published) /\ t = (m + 1) * SlotsPerMonth
      BY <1>3 DEF Answer, AnswerAsOf, Parsed
    <2>2. PICK u \in Parsed(d, m, published) \ Zeros[d] : t <= u
      BY DEF Answer, AnswerAsOf
    <2>3. u \in Int /\ (MonthOf(u) = m \/ u = t)
      BY <2>1, <2>2 DEF Parsed, Slots
    <2>4. MonthOf(u) # m
      BY <1>1, <2>1, <2>2, <2>3, MonthBounds
    <2>5. t \notin Zeros[d]
      BY <2>2, <2>3, <2>4
    <2>6. t \in Parsed(d, MonthOf(t), published)
      BY <2>1 DEF Parsed
    <2> QED BY <1>1, <2>5, <2>6 DEF Answer, AnswerAsOf
  <1> QED BY <1>2, <1>3

(* An answer that HEP gives later brings them still. *)
LEMMA AnswersStay ==
    ASSUME TypeOK, NEW d \in Dirs, NEW ts \in SUBSET Slots, InAnswers(d, ts),
           published' \in Nat, published <= published'
    PROVE  InAnswers(d, ts)'
  <1> SUFFICES ASSUME NEW t \in ts PROVE t \in AnswerAsOf(d, MonthOf(t), published')
    BY DEF InAnswers, Answer, AnswerAsOf, Parsed, MonthOf
  <1>1. MonthOf(t) \in Months /\ published \in Int
    BY SlotHasMonth DEF TypeOK, Slots
  <1>2. t \in AnswerAsOf(d, MonthOf(t), published)
    BY DEF InAnswers, Answer
  <1> QED BY <1>1, <1>2, AnswerGrows

(* The steps of a month fetch. *)
LEMMA JobStepAnswers ==
    ASSUME TypeOK, AnswerInv, NEW r \in Runs, NEW m \in Months, NEW d \in Dirs,
           JobStep(r, m, d)
    PROVE  AnswerInv'
  <1> DEFINE j == <<r, m, d>>
  <1>0. /\ j \in Jobs /\ published' = published
        /\ \A q \in Runs, n \in Months, c \in Dirs :
              <<q, n, c>> # j => /\ job'[<<q, n, c>>] = job[<<q, n, c>>]
                                 /\ got'[<<q, n, c>>] = got[<<q, n, c>>]
    BY DEF JobStep, Look, Count, Fetch, FetchNoData, FetchFails, Mark, Store, Refresh,
       RefreshDone, Goto, clock, TypeOK, Jobs
  <1>1. /\ InAnswers(d, got'[j])
        /\ job'[j] = "mark" => m \in EmptyMonths
        /\ \A c \in Dirs : InAnswers(c, readings'[c]) /\ skipped'[c] \subseteq EmptyMonths
    <2> USE <1>0 DEF Goto, TypeOK, AnswerInv
    <2>0. InAnswers(d, {})
      BY DEF InAnswers
    <2>1. CASE Look(r, m, d) \/ Count(r, m, d) \/ FetchNoData(r, m, d) \/ FetchFails(r, m, d)
      BY <2>1 DEF Look, Count, FetchNoData, FetchFails, db
    <2>2. CASE Fetch(r, m, d)
      <3>1. InAnswers(d, Answer(d, m))
        BY AnswersAgreeOnSlots
      <3> QED BY <2>2, <3>1 DEF Fetch, db
    <2>3. CASE Mark(r, m, d)
      BY <2>3 DEF Mark
    <2>4. CASE Store(r, m, d)
      <3>1. InAnswers(d, readings[d] \cup got[j])
        BY DEF InAnswers
      <3>2. /\ readings' = [readings EXCEPT ![d] = @ \cup got[j]] /\ skipped' = skipped
            /\ got'[j] = {} /\ job'[j] = "refresh"
        BY <2>4 DEF Store
      <3> QED BY <2>0, <3>1, <3>2
    <2>5. CASE Refresh(r, m, d)
      BY <2>5 DEF Refresh, RefreshDone
    <2> QED BY <2>1, <2>2, <2>3, <2>4, <2>5 DEF JobStep
  <1>3. ASSUME NEW q \in Runs, NEW n \in Months, NEW c \in Dirs
        PROVE  /\ InAnswers(c, got'[<<q, n, c>>])
               /\ job'[<<q, n, c>>] = "mark" => n \in EmptyMonths
    <2>1. CASE <<q, n, c>> = j
      <3>1. q = r /\ n = m /\ c = d
        BY <2>1
      <3> QED BY <1>1, <3>1
    <2>2. CASE <<q, n, c>> # j
      BY <1>0, <2>2 DEF AnswerInv
    <2> QED BY <2>1, <2>2
  <1>4. \A c \in Dirs : /\ InAnswers(c, readings[c])' <=> InAnswers(c, readings'[c])
                        /\ \A q \in Runs, n \in Months :
                              InAnswers(c, got[<<q, n, c>>])' <=> InAnswers(c, got'[<<q, n, c>>])
    BY <1>0 DEF InAnswers, Answer, AnswerAsOf, Parsed, MonthOf
  <1> QED BY <1>1, <1>3, <1>4 DEF AnswerInv

(* The steps that store nothing and bring no fetch to an answer. *)
LEMMA QuietStepAnswers ==
    ASSUME TypeOK, AnswerInv, UNCHANGED <<readings, skipped>>, published' \in Nat,
           published <= published',
           \A j \in Jobs : /\ got'[j] = got[j] \/ got'[j] = {}
                           /\ job'[j] = "mark" => job[j] = "mark"
    PROVE  AnswerInv'
  <1>1. ASSUME NEW d \in Dirs PROVE InAnswers(d, readings[d])'
    <2>1. InAnswers(d, readings[d]) /\ readings[d] \subseteq Slots
      BY DEF AnswerInv, TypeOK
    <2>2. \A t \in readings[d] : t \in Answer(d, MonthOf(t))'
      BY <2>1, AnswersStay DEF InAnswers
    <2> QED BY <2>2 DEF InAnswers
  <1>2. ASSUME NEW r \in Runs, NEW m \in Months, NEW d \in Dirs
        PROVE  /\ InAnswers(d, got[<<r, m, d>>])'
               /\ job'[<<r, m, d>>] = "mark" => m \in EmptyMonths
    <2> DEFINE j == <<r, m, d>>
    <2>1. j \in Jobs /\ InAnswers(d, got[j]) /\ (job[j] = "mark" => m \in EmptyMonths)
      BY DEF Jobs, AnswerInv
    <2>2. got[j] \subseteq Slots /\ (got'[j] = got[j] \/ got'[j] = {})
      BY <2>1 DEF TypeOK
    <2>3. \A t \in got[j] : t \in Answer(d, MonthOf(t))'
      BY <2>1, <2>2, AnswersStay DEF InAnswers
    <2>4. \A t \in got'[j] : t \in Answer(d, MonthOf(t))'
      BY <2>2, <2>3
    <2> QED BY <2>1, <2>4 DEF InAnswers
  <1> QED BY <1>1, <1>2 DEF AnswerInv

(* Every step, the disturbed ones too. *)
LEMMA FaultNextAnswers ==
    ASSUME TypeOK, AnswerInv, [FaultNext]_allVars PROVE AnswerInv'
  <1>0. published \in Nat
    BY DEF TypeOK, Slots
  <1>1. CASE Tick \/ Publish
    BY <1>0, <1>1, QuietStepAnswers DEF Tick, Publish, db, work
  <1>2. ASSUME NEW r \in Runs, StartScheduled(r) \/ StartManual(r) PROVE AnswerInv'
    <2>1. /\ UNCHANGED <<published, readings, skipped, got>>
          /\ \A j \in Jobs : job'[j] \in {"queued", job[j]}
      BY <1>2 DEF StartScheduled, StartManual, StartRun, clock, db
    <2> QED BY <1>0, <2>1, QuietStepAnswers
  <1>3. ASSUME NEW r \in Runs, ClearRun(r) PROVE AnswerInv'
    <2>1. /\ UNCHANGED <<published, readings, skipped, got>>
          /\ \A j \in Jobs : job'[j] \in {"none", job[j]}
      BY <1>3 DEF ClearRun, clock
    <2> QED BY <1>0, <2>1, QuietStepAnswers
  <1>4. ASSUME NEW r \in Runs, NEW m \in Months, NEW d \in Dirs, FailedStep(r, m, d)
        PROVE  AnswerInv'
    <2>1. /\ UNCHANGED <<published, readings, skipped>>
          /\ \A j \in Jobs : /\ got'[j] = got[j] \/ got'[j] = {}
                             /\ job'[j] \in {"mark", "store"} =>
                                   job'[j] = job[j] /\ got'[j] = got[j]
      <3> DEFINE i == <<r, m, d>>
      <3>1. /\ UNCHANGED <<published, readings, skipped>>
            /\ \A k \in Jobs : k # i => job'[k] = job[k] /\ got'[k] = got[k]
            /\ job'[i] \notin {"mark", "store"}
            /\ got'[i] = {} \/ got'[i] = got[i]
        BY <1>4, FailedStepMoves
      <3> HIDE DEF i
      <3>2. ASSUME NEW k \in Jobs
            PROVE  /\ got'[k] = got[k] \/ got'[k] = {}
                   /\ job'[k] \in {"mark", "store"} => job'[k] = job[k] /\ got'[k] = got[k]
        <4>1. CASE k = i
          BY <3>1, <4>1
        <4>2. CASE k # i
          BY <3>1, <4>2
        <4> QED BY <4>1, <4>2
      <3> QED BY <3>1, <3>2
    <2> QED BY <1>0, <2>1, QuietStepAnswers
  <1>5. CASE Crash \/ ForceFetch \/ UNCHANGED allVars
    <2>1. /\ UNCHANGED <<published, readings, skipped>>
          /\ \A j \in Jobs : \/ job'[j] = "none" /\ got'[j] = {}
                             \/ job'[j] = job[j] /\ got'[j] = got[j]
      BY <1>5 DEF Crash, ForceFetch, allVars, vars, clock, db, work
    <2> QED BY <1>0, <2>1, QuietStepAnswers
  <1> QED
    BY <1>1, <1>2, <1>3, <1>4, <1>5, JobStepAnswers, FaultShape
       DEF FaultNext, NormalStep, Next, RunStep, EndRun, EndFailedRun, StampFails

(* A run whose fetch of the reference month does not move. *)
LEMMA HealingStays ==
    ASSUME NEW r \in Runs, NEW m \in Months, NEW d \in Dirs, Heals(r, d),
           ref[r] = m, ref'[r] = m, job'[<<r, m, d>>] = job[<<r, m, d>>],
           got'[<<r, m, d>>] = got[<<r, m, d>>],
           Kept(d, m) => Kept(d, m)'
    PROVE  Heals(r, d)'
  <1>1. /\ job[<<r, m, d>>] \notin {"none", "count"}
        /\ job[<<r, m, d>>] \in {"refresh", "done"} => m \in EmptyMonths \/ Kept(d, m)
        /\ job[<<r, m, d>>] = "store" => m \in MonthsTouched(got[<<r, m, d>>]) \/ Kept(d, m)
    BY DEF Heals
  <1>2. /\ job'[<<r, m, d>>] \notin {"none", "count"}
        /\ job'[<<r, m, d>>] \in {"refresh", "done"} => m \in EmptyMonths \/ Kept(d, m)'
        /\ job'[<<r, m, d>>] = "store" => m \in MonthsTouched(got'[<<r, m, d>>]) \/ Kept(d, m)'
    BY <1>1
  <1>3. Kept(d, m)' <=> Kept(d, ref[r])'
    BY DEF Kept, RefreshPending, InSync, SlotsOf
  <1>4. MonthsTouched(got[<<r, m, d>>])' = MonthsTouched(got'[<<r, m, d>>])
    BY DEF MonthsTouched, MonthOf
  <1> QED BY <1>2, <1>3, <1>4 DEF Heals

(* The fetch of the reference month itself: HEP has nothing of the month yet,     *)
(* then nothing of it is stored either; it has no data of it; or what is stored *)
(* puts the month on the refresh list.                                      *)
LEMMA OwnStepHeals ==
    ASSUME TypeOK, AnswerInv, NothingInvented, NEW r \in Runs, NEW m \in Months,
           NEW d \in Dirs, Heals(r, d), ref[r] = m, JobStep(r, m, d)
    PROVE  Heals(r, d)'
  <1> DEFINE j == <<r, m, d>>
  <1>0. /\ j \in Jobs /\ ref'[r] = m
        /\ job[j] \notin {"none", "count"}
        /\ job[j] \in {"refresh", "done"} => m \in EmptyMonths \/ Kept(d, m)
        /\ job[j] = "store" => m \in MonthsTouched(got[j]) \/ Kept(d, m)
    BY DEF Jobs, Heals, JobStep, Look, Count, Fetch, FetchNoData, FetchFails, Mark, Store,
       Refresh, RefreshDone
  <1>1. SUFFICES /\ job'[j] \notin {"none", "count"}
                 /\ job'[j] \in {"refresh", "done"} => m \in EmptyMonths \/ Kept(d, m)'
                 /\ job'[j] = "store" => m \in MonthsTouched(got'[j]) \/ Kept(d, m)'
    <2>1. Kept(d, m)' <=> Kept(d, ref[r])'
      BY <1>0 DEF Kept, RefreshPending, InSync, SlotsOf
    <2>2. MonthsTouched(got[j])' = MonthsTouched(got'[j])
      BY DEF MonthsTouched, MonthOf
    <2> QED BY <1>0, <2>1, <2>2 DEF Heals
  <1>2. CASE Look(r, m, d)
    <2>1. job'[j] = "done" => m \in EmptyMonths
      BY ZenonT(30), <1>0, <1>2 DEF Look, Goto, TypeOK, AnswerInv
    <2>2. job'[j] \in {"done", "fetch"}
      BY <1>0, <1>2 DEF Look, Goto, TypeOK, Months
    <2> QED BY <2>1, <2>2
  <1>3. CASE Count(r, m, d)
    BY <1>0, <1>3 DEF Count
  <1>4. CASE Fetch(r, m, d)
    <2>1. /\ job'[j] = IF Answer(d, m) = {} THEN "done" ELSE "store"
          /\ got'[j] = Answer(d, m) /\ UNCHANGED <<readings, aggregated>>
      BY <1>0, <1>4 DEF Fetch, Goto, TypeOK, db
    <2>2. CASE m \in MonthsTouched(Answer(d, m))
      BY <2>1, <2>2 DEF MonthsTouched
    <2>3. CASE m \notin MonthsTouched(Answer(d, m))
      <3>1. readings[d] \cap SlotsOf(m) = {}
        BY <2>3 DEF AnswerInv, InAnswers, SlotsOf, MonthsTouched
      <3>2. aggregated[d][m] = {}
        BY <3>1 DEF NothingInvented
      <3>3. InSync(d, m)'
        BY <2>1, <3>1, <3>2 DEF InSync, SlotsOf
      <3> QED BY <2>1, <3>3 DEF Kept
    <2> QED BY <2>2, <2>3
  <1>5. CASE FetchNoData(r, m, d) \/ FetchFails(r, m, d)
    BY <1>0, <1>5 DEF FetchNoData, FetchFails, Goto, TypeOK
  <1>6. CASE Mark(r, m, d)
    BY <1>0, <1>6 DEF Mark, Goto, TypeOK, AnswerInv
  <1>7. CASE Store(r, m, d)
    <2>1. /\ job[j] = "store" /\ job'[j] = "refresh"
          /\ stale'[j] = MonthsTouched(got[j])
      BY <1>0, <1>7 DEF Store, Goto, TypeOK
    <2>2. CASE m \in MonthsTouched(got[j])
      BY <2>1, <2>2 DEF Kept, RefreshPending
    <2>3. CASE Kept(d, m)
      BY <1>7, <2>1, <2>3, StoreKeeps
    <2> QED BY <1>0, <2>1, <2>2, <2>3
  <1>8. CASE Refresh(r, m, d)
    <2>1. job[j] = "refresh" /\ job'[j] \in {"refresh", "done"}
      BY <1>0, <1>8 DEF Refresh, RefreshDone, Goto, TypeOK
    <2>2. Kept(d, m) => Kept(d, m)'
      BY <1>8, RefreshKeeps
    <2> QED BY <1>0, <2>1, <2>2
  <1> QED BY <1>2, <1>3, <1>4, <1>5, <1>6, <1>7, <1>8 DEF JobStep

(* Every step of Collection. *)
LEMMA NextHeals ==
    ASSUME TypeOK, AnswerInv, NothingInvented, NEW r \in Runs, NEW d \in Dirs,
           ref[r] # Never => Heals(r, d), [Next]_vars, ref'[r] # Never
    PROVE  Heals(r, d)'
  <1>1. ASSUME ref[r] # Never, ref'[r] = ref[r],
               job'[<<r, ref[r], d>>] = job[<<r, ref[r], d>>],
               got'[<<r, ref[r], d>>] = got[<<r, ref[r], d>>]
        PROVE  Heals(r, d)'
    <2>1. PICK m \in Months : ref[r] = m
      BY <1>1 DEF TypeOK
    <2>2. Kept(d, m) => Kept(d, m)'
      BY NextKeeps
    <2> QED BY <1>1, <2>1, <2>2, HealingStays
  <1>2. CASE Tick \/ Publish \/ UNCHANGED vars
    BY <1>1, <1>2 DEF Tick, Publish, vars, work
  <1>3. ASSUME NEW q \in Runs, NEW m \in Months, StartRun(q, m) PROVE Heals(r, d)'
    <2>1. CASE q = r
      <3>1. <<r, m, d>> \in Jobs /\ <<r, m, d>>[1] = r /\ <<r, m, d>>[2] = m
        BY DEF Jobs
      <3>2. PICK n \in Months : Uncapped(m) <= n /\ FetchFrom <= n /\ n <= m
        BY <1>3 DEF StartRun, MonthsToCollect
      <3>3. m \in MonthsToCollect(m)
        BY <3>2 DEF MonthsToCollect, Uncapped, Months, TypeOK
      <3>4. ref'[r] = m /\ job'[<<r, m, d>>] = "queued"
        BY <1>3, <2>1, <3>1, <3>3 DEF StartRun, TypeOK
      <3> QED BY <3>4 DEF Heals
    <2>2. CASE q # r
      <3>1. ref'[r] = ref[r] /\ ref[r] \in Months
        BY <1>3, <2>2 DEF StartRun, TypeOK
      <3>2. <<r, ref[r], d>> \in Jobs /\ <<r, ref[r], d>>[1] = r
        BY <3>1 DEF Jobs
      <3>3. got' = got /\ job'[<<r, ref[r], d>>] = job[<<r, ref[r], d>>]
        BY <1>3, <2>2, <3>2 DEF StartRun
      <3> QED BY <1>1, <3>1, <3>3
    <2> QED BY <2>1, <2>2
  <1>4. ASSUME NEW q \in Runs, EndRun(q) \/ EndFailedRun(q) PROVE Heals(r, d)'
    <2>1. /\ ref' = [ref EXCEPT ![q] = Never]
          /\ got' = got /\ \A j \in Jobs : j[1] # q => job'[j] = job[j]
      BY <1>4 DEF EndRun, EndFailedRun, ClearRun
    <2>2. q # r /\ ref'[r] = ref[r] /\ ref[r] \in Months
      BY <2>1 DEF TypeOK
    <2>3. <<r, ref[r], d>> \in Jobs /\ <<r, ref[r], d>>[1] = r
      BY <2>2 DEF Jobs
    <2> QED BY <1>1, <2>1, <2>2, <2>3
  <1>5. ASSUME NEW q \in Runs, NEW m \in Months, NEW c \in Dirs, JobStep(q, m, c)
        PROVE  Heals(r, d)'
    <2>1. /\ ref' = ref
          /\ \A j \in Jobs : j # <<q, m, c>> => job'[j] = job[j] /\ got'[j] = got[j]
      BY <1>5 DEF JobStep, Look, Count, Fetch, FetchNoData, FetchFails, Mark, Store,
         Refresh, RefreshDone, Goto, TypeOK
    <2>2. ref[r] \in Months /\ <<r, ref[r], d>> \in Jobs
      BY <2>1 DEF TypeOK, Jobs
    <2>3. CASE <<r, ref[r], d>> = <<q, m, c>>
      <3>1. q = r /\ m = ref[r] /\ c = d
        BY <2>3
      <3> QED BY <1>5, <2>2, <3>1, OwnStepHeals
    <2>4. CASE <<r, ref[r], d>> # <<q, m, c>>
      BY <1>1, <2>1, <2>2, <2>4
    <2> QED BY <2>3, <2>4
  <1> QED
    BY <1>2, <1>3, <1>4, <1>5, SlotHasMonth
       DEF Next, RunStep, StartScheduled, StartManual, TypeOK

(* The disturbed steps take every run at work out of the claim. *)
LEMMA FaultNextHeals ==
    ASSUME FaultTypeOK, AnswerInv, NothingInvented, HealInv, [FaultNext]_allVars
    PROVE  HealInv'
  <1> SUFFICES ASSUME NEW r \in Runs \ troubled', NEW d \in Dirs, ref'[r] # Never
               PROVE  Heals(r, d)'
    BY DEF HealInv
  <1>0. TypeOK
    BY DEF FaultTypeOK
  <1>1. CASE NormalStep \/ UNCHANGED allVars
    <2>1. r \notin troubled
      BY <1>1 DEF NormalStep, GoingOn, allVars, faultVars
    <2>2. ref[r] # Never => Heals(r, d)
      BY <2>1 DEF HealInv
    <2>3. [Next]_vars
      BY <1>1 DEF NormalStep, allVars
    <2> QED BY <1>0, <2>2, <2>3, NextHeals
  <1>2. ~Fault /\ ~Crash
    BY FaultShape DEF GoingOn, Crash
  <1>3. CASE ForceFetch
    <2>1. UNCHANGED <<readings, aggregated, job, got, stale, ref, troubled>>
      BY <1>3 DEF ForceFetch, work
    <2>2. Heals(r, d)
      BY <2>1 DEF HealInv
    <2>3. ref[r] \in Months
      BY <1>0, <2>1 DEF TypeOK
    <2>4. Kept(d, ref[r]) => Kept(d, ref[r])'
      BY <2>1 DEF Kept, RefreshPending, InSync, SlotsOf
    <2>5. MonthsTouched(got[<<r, ref[r], d>>])' = MonthsTouched(got[<<r, ref[r], d>>])
      BY <2>1 DEF MonthsTouched, MonthOf
    <2> QED BY <2>1, <2>2, <2>4, <2>5 DEF Heals
  <1> QED BY <1>1, <1>2, <1>3 DEF FaultNext

(* A run that succeeds alone has nothing on a refresh list any more. *)
LEMMA AloneInSync ==
    ASSUME TypeOK, HealInv, NEW r \in Runs \ troubled, EndRun(r),
           \A q \in Others(r) : ref[q] = Never
    PROVE  ref[r] \in EmptyMonths \/ \A d \in Dirs : InSync(d, ref[r])
  <1> SUFFICES ASSUME ref[r] \notin EmptyMonths, NEW d \in Dirs PROVE InSync(d, ref[r])
    OBVIOUS
  <1>1. ref[r] \in Months /\ ref[r] # Never
    BY DEF EndRun, AllFinished, TypeOK
  <1>2. ASSUME NEW q \in Runs, NEW k \in Months PROVE job[<<q, k, d>>] \in {"none", "done"}
    <2>1. <<q, k, d>> \in Jobs /\ <<q, k, d>>[1] = q
      BY DEF Jobs
    <2>2. CASE q = r
      BY <2>1, <2>2 DEF EndRun, AllFinished, Failed, JobsOf, Finished
    <2>3. CASE q # r
      BY <2>1, <2>3 DEF Others, TypeOK
    <2> QED BY <2>2, <2>3
  <1>3. job[<<r, ref[r], d>>] = "done"
    BY <1>1, <1>2 DEF HealInv, Heals
  <1>4. Kept(d, ref[r])
    BY <1>1, <1>3 DEF HealInv, Heals
  <1>5. ~RefreshPending(d, ref[r])
    BY <1>2 DEF RefreshPending
  <1> QED BY <1>4, <1>5 DEF Kept

(* A run that succeeds alone, with no statement failing in its time, leaves its   *)
(* reference month in sync, whatever crashes, failures and overlapping runs     *)
(* came before it.                                                          *)
THEOREM RunRepairsItsMonth == FaultSpec => ReferenceMonthHeals
  <1>1. FaultInit => AnswerInv /\ HealInv
    BY DEF FaultInit, Init, AnswerInv, InAnswers, HealInv, Jobs
  <1>2. FaultTypeOK => TypeOK
    BY DEF FaultTypeOK
  <1>3. FaultTypeOK /\ NothingInvented /\ AnswerInv /\ HealInv /\ [FaultNext]_allVars
        => AnswerInv' /\ HealInv'
    BY <1>2, FaultNextAnswers, FaultNextHeals
  <1>4. FaultTypeOK /\ HealInv
        => \A r \in Runs :
              /\ EndRun(r) /\ r \notin troubled
              /\ \A q \in Others(r) : ref[q] = Never
              => ref[r] \in EmptyMonths \/ \A d \in Dirs : InSync(d, ref[r])
    BY <1>2, AloneInSync
  <1> QED
    BY <1>1, <1>3, <1>4, FaultTypeCorrectness, SumsAreNotInvented, PTL
       DEF FaultSpec, ReferenceMonthHeals
=============================================================================
