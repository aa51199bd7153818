-------------------------- MODULE InsolationProofs --------------------------
(***************************************************************************)
(* Machine-checked proofs about Insolation and Geocode, for every number   *)
(* of logins, months, days and faults: types, the pace of the geocoding,   *)
(* the kept location, and the days a run leaves stored.                    *)
(***************************************************************************)
EXTENDS Insolation, FiniteSetTheorems, TLAPS

USE GeocodeAssumption, InsolationAssumption

-----------------------------------------------------------------------------
(* The pace of the geocoding *)

(* The logins that may still add a failure to the back-off. *)
Pending == {l \in Logins : call[l].pc \in {"check", "ask", "failed"}}

(* Counts and calls have their types. *)
CallsOK ==
    /\ located \in BOOLEAN
    /\ backoff \in Nat
    /\ faults \in 0 .. MaxFaults
    /\ call \in [Logins -> [pc : {"idle", "check", "found", "failed", "save"}]
                           \cup [pc : {"ask"}, left : 1 .. 3]]

(* A login looks for the point only if no failure is remembered, so those that *)
(* are remembered are of logins that were at it together.                      *)
Paced == backoff = 0 \/ backoff + Cardinality(Pending) <= Cardinality(Logins)

(* What the component keeps by itself. *)
GeoInv == CallsOK /\ Paced

(* Fewer logins that may fail are not more of them. *)
LEMMA FewerPending ==
    ASSUME Pending' \subseteq Pending
    PROVE  /\ Cardinality(Pending) \in Nat
           /\ Cardinality(Pending') \in Nat
           /\ Cardinality(Pending') <= Cardinality(Pending)
           /\ Cardinality(Logins) \in Nat
           /\ Cardinality(Pending) <= Cardinality(Logins)
  <1>1. Pending \subseteq Logins
    BY DEF Pending
  <1>2. IsFiniteSet(Pending) /\ Cardinality(Pending) <= Cardinality(Logins)
    BY <1>1, FS_Subset
  <1>3. IsFiniteSet(Pending') /\ Cardinality(Pending') <= Cardinality(Pending)
    BY <1>2, FS_Subset
  <1> QED
    BY <1>2, <1>3, FS_CardinalityType

(* A step of a login keeps the types. *)
LEMMA LoginStepCalls ==
    ASSUME CallsOK, NEW l \in Logins, LoginStep(l)
    PROVE  CallsOK'
  <1> USE DEF CallsOK, Goto, Idle
  <1>1. CASE LogIn(l)
    BY <1>1 DEF LogIn, Upsert
  <1>2. CASE Check(l)
    BY <1>2 DEF Check, Strategies
  <1>3. CASE CheckFails(l)
    BY <1>3 DEF CheckFails
  <1>4. CASE AskFinds(l)
    BY <1>4 DEF AskFinds
  <1>5. CASE AskFails(l)
    <2>1. call[l] \in [pc : {"ask"}, left : 1 .. 3]
      BY <1>5 DEF AskFails
    <2>2. CASE call[l].left = 1
      BY <1>5, <2>2 DEF AskFails
    <2>3. CASE call[l].left # 1
      BY <1>5, <2>1, <2>3 DEF AskFails
    <2> QED
      BY <2>2, <2>3
  <1>6. CASE GiveUp(l)
    BY <1>6 DEF GiveUp
  <1>7. CASE ForgetFailure(l)
    BY <1>7 DEF ForgetFailure
  <1>8. CASE Save(l)
    BY <1>8 DEF Save
  <1>9. CASE SaveFails(l)
    BY <1>9 DEF SaveFails
  <1> QED
    BY <1>1, <1>2, <1>3, <1>4, <1>5, <1>6, <1>7, <1>8, <1>9 DEF LoginStep

(* A step of a login keeps the pace: only a login that fails adds to the      *)
(* back-off, and it stops being pending.                                      *)
LEMMA LoginStepPaced ==
    ASSUME GeoInv, NEW l \in Logins, LoginStep(l)
    PROVE  Paced'
  <1> USE DEF GeoInv, CallsOK, Goto, Idle
  <1>1. ASSUME Pending' \subseteq Pending, backoff' = backoff PROVE Paced'
    BY <1>1, FewerPending DEF Paced
  <1>2. CASE LogIn(l)
    <2>1. CASE backoff = 0
      BY <1>2, <2>1 DEF LogIn, Paced
    <2>2. CASE backoff # 0
      <3>1. Pending' \subseteq Pending
        BY <1>2, <2>2 DEF LogIn, Pending
      <3> QED
        BY <1>1, <1>2, <3>1 DEF LogIn
    <2> QED
      BY <2>1, <2>2
  <1>3. CASE Check(l)
    <2>1. Pending' \subseteq Pending
      BY <1>3 DEF Check, Pending
    <2> QED
      BY <1>1, <1>3, <2>1 DEF Check
  <1>4. CASE CheckFails(l) \/ AskFinds(l) \/ AskFails(l)
    <2>1. Pending' \subseteq Pending
      BY <1>4 DEF CheckFails, AskFinds, AskFails, Pending
    <2> QED
      BY <1>1, <1>4, <2>1 DEF CheckFails, AskFinds, AskFails
  <1>5. CASE GiveUp(l)
    <2>1. l \in Pending /\ Pending' = Pending \ {l}
      BY <1>5 DEF GiveUp, Pending
    <2>2. IsFiniteSet(Pending) /\ Cardinality(Pending) \in Nat
      <3>1. Pending \subseteq Logins
        BY DEF Pending
      <3> QED
        BY <3>1, FS_Subset, FS_CardinalityType
    <2>3. Cardinality(Pending') = Cardinality(Pending) - 1
      BY <2>1, <2>2, FS_RemoveElement
    <2>4. /\ Cardinality(Logins) \in Nat
          /\ Cardinality(Pending) <= Cardinality(Logins)
      BY <2>1, FewerPending
    <2>5. backoff' = backoff + 1
      BY <1>5 DEF GiveUp
    <2> QED
      BY <2>2, <2>3, <2>4, <2>5 DEF Paced
  <1>6. CASE ForgetFailure(l)
    BY <1>6 DEF ForgetFailure, Paced
  <1>7. CASE Save(l) \/ SaveFails(l)
    <2>1. Pending' \subseteq Pending
      BY <1>7 DEF Save, SaveFails, Pending
    <2> QED
      BY <1>1, <1>7, <2>1 DEF Save, SaveFails
  <1> QED
    BY <1>2, <1>3, <1>4, <1>5, <1>6, <1>7 DEF LoginStep

(* The runs leave the geocoding alone, but for the faults they count. *)
LEMMA RunLeavesCalls ==
    ASSUME CallsOK, RunStep
    PROVE  /\ UNCHANGED <<located, backoff, call>>
           /\ faults' \in 0 .. MaxFaults
  BY DEF CallsOK, RunStep, StartScheduled, StartManual, StartRun, Count, CountFails, Fetch,
     Store, JobFails, EndRun, geoVars

(* Every step keeps what the component keeps. *)
LEMMA NextGeoInv == ASSUME GeoInv, [Next]_vars PROVE GeoInv'
  <1> USE DEF GeoInv
  <1>1. CASE NextDay \/ Archive \/ UNCHANGED vars
    BY <1>1 DEF NextDay, Archive, vars, geoVars, CallsOK, Paced, Pending
  <1>2. CASE RunStep
    BY <1>2, RunLeavesCalls DEF CallsOK, Paced, Pending
  <1>3. ASSUME NEW l \in Logins, LoginStep(l) PROVE GeoInv'
    BY <1>3, LoginStepCalls, LoginStepPaced
  <1>4. CASE BackoffPasses
    BY <1>4 DEF BackoffPasses, CallsOK, Paced
  <1>5. CASE Crash
    BY <1>5 DEF Crash, Restart, Idle, CallsOK, Paced
  <1> QED
    BY <1>1, <1>2, <1>3, <1>4, <1>5 DEF Next, GeoStep

(* The initial states have it. *)
LEMMA InitGeoInv == Init => GeoInv
  <1>1. Init => CallsOK
    <2> SUFFICES ASSUME GeoInit PROVE CallsOK
      BY DEF Init
    <2>1. located \in BOOLEAN
      BY Zenon DEF GeoInit
    <2>2. backoff \in Nat
      BY DEF GeoInit
    <2>3. faults \in 0 .. MaxFaults
      <3>1. faults = 0
        BY DEF GeoInit
      <3> QED
        BY <3>1
    <2>4. call = [l \in Logins |-> [pc |-> "idle"]]
      BY DEF GeoInit, Idle
    <2> QED
      BY <2>1, <2>2, <2>3, <2>4 DEF CallsOK
  <1>2. Init => Paced
    BY DEF Init, GeoInit, Paced
  <1> QED
    BY <1>1, <1>2 DEF GeoInv

(* However many logins overlap, each adds at most one failure to a back-off    *)
(* that is under way (geocoder.go 224-252).                                    *)
THEOREM GeocodingIsPaced == Spec => []FailuresArePaced
  <1>1. GeoInv => FailuresArePaced
    <2> SUFFICES ASSUME GeoInv PROVE FailuresArePaced
      OBVIOUS
    <2>1. Pending \subseteq Logins
      BY DEF Pending
    <2>2. Cardinality(Logins) \in Nat /\ Cardinality(Pending) \in Nat
      BY <2>1, FS_Subset, FS_CardinalityType
    <2> QED
      BY <2>2 DEF GeoInv, CallsOK, Paced, FailuresArePaced
  <1> QED
    BY <1>1, InitGeoInv, NextGeoInv, PTL DEF Spec

(* Coordinates stay through every step of every part (repository.go 86-117). *)
THEOREM LocationStays == Spec => LocationIsKept
  <1>1. ASSUME [Next]_vars PROVE [located => located']_geoVars
    <2>1. ASSUME NEW l \in Logins, LoginStep(l) PROVE located => located'
      BY <2>1 DEF LoginStep, LogIn, Upsert, Check, CheckFails, AskFinds, AskFails, GiveUp,
         ForgetFailure, Save, SaveFails
    <2>2. CASE RunStep
      BY <2>2 DEF RunStep, StartScheduled, StartManual, StartRun, Count, CountFails, Fetch,
         Store, JobFails, EndRun, geoVars
    <2> QED
      BY <1>1, <2>1, <2>2 DEF Next, NextDay, Archive, GeoStep, BackoffPasses, Crash, Restart,
         geoVars, vars
  <1> QED
    BY <1>1, PTL DEF Spec, LocationIsKept

-----------------------------------------------------------------------------
(* The days that are stored *)

(* The steps of a month. *)
Jobs == [pc : {"count", "fetch", "done"}]
        \cup [pc : {"store"}, answer : UNION {[D -> {"measured", "blank"}] : D \in SUBSET Days}]

(* A run, as it goes on and when it has ended. *)
Running == [pc : {"run"}, located : BOOLEAN, ok : BOOLEAN, archived : Nat,
            jobs : UNION {[M -> Jobs] : M \in SUBSET Nat}]
Ended == [pc : {"ended"}, archived : Nat, months : SUBSET Nat]

(* The types of the weather's part. *)
DaysOK ==
    /\ today \in Days /\ archived \in 0 .. today
    /\ DOMAIN insolation \subseteq 0 .. (today - 1)
    /\ stamp \in {None} \cup 0 .. MonthOf(today)
    /\ run \in {[pc |-> "idle"]} \cup Running \cup Ended

(* What is on its way into the table is of days that are over. *)
AnswersOK ==
    run.pc = "run" =>
        \A m \in DOMAIN run.jobs :
            run.jobs[m].pc = "store" => DOMAIN run.jobs[m].answer \subseteq 0 .. (today - 1)

(* The days of a month that the archive had when the run began. *)
Had(m) == {d \in DaysOf(m) : d < run.archived}

(* A run that has met no failure has stored what a month had once the month is *)
(* done, and holds it while it is about to be stored.                          *)
Gathered ==
    /\ run.pc # "idle" => run.archived <= archived
    /\ run.pc = "run" /\ run.located /\ run.ok =>
          \A m \in DOMAIN run.jobs :
              /\ run.jobs[m].pc = "done" => Had(m) \subseteq DOMAIN insolation
              /\ run.jobs[m].pc = "store" => Had(m) \subseteq DOMAIN run.jobs[m].answer
    /\ run.pc = "ended" => \A m \in run.months : Had(m) \subseteq DOMAIN insolation

(* Invariant of the runs. *)
RunInv == DaysOK /\ AnswersOK /\ Gathered

(* A month later in the calendar has later days, and no month comes before it. *)
LEMMA Calendar ==
    ASSUME NEW d \in Nat
    PROVE  /\ MonthOf(d) \in Nat
           /\ MonthOf(d) <= MonthOf(d + 1)
  BY DEF MonthOf

(* The days of a month are numbers. *)
LEMMA DaysAreNumbers == ASSUME NEW m \in Nat PROVE DaysOf(m) \subseteq Nat
  <1>1. m * DaysPerMonth \in Nat /\ (m + 1) * DaysPerMonth - 1 \in Int
    OBVIOUS
  <1> QED
    BY <1>1 DEF DaysOf

(* The months of a run are numbers. *)
LEMMA MonthsAreNumbers ==
    ASSUME DaysOK, NEW ref \in Nat PROVE MonthsToCollect(ref) \subseteq Nat
  <1>1. MonthOf(today) \in Nat
    BY Calendar DEF DaysOK, Days
  <1>2. stamp = None \/ stamp \in Nat
    BY <1>1 DEF DaysOK
  <1> DEFINE first == IF stamp = None THEN 0 ELSE stamp
  <1>3. first \in Nat
    BY <1>2
  <1> QED
    BY <1>3 DEF MonthsToCollect

(* A run starts. *)
LEMMA StartKeeps ==
    ASSUME RunInv, located \in BOOLEAN, NEW ref \in Nat, StartRun(ref)
    PROVE  RunInv'
  <1> DEFINE jobs == [m \in MonthsToCollect(ref) |-> [pc |-> "count"]]
  <1> USE DEF RunInv
  <1>1. run' = [pc |-> "run", located |-> located, ok |-> TRUE, archived |-> archived,
                jobs |-> jobs]
    BY DEF StartRun
  <1>2. MonthsToCollect(ref) \subseteq Nat
    BY MonthsAreNumbers
  <1>3. jobs \in UNION {[M -> Jobs] : M \in SUBSET Nat}
    <2>1. jobs \in [MonthsToCollect(ref) -> Jobs]
      BY DEF Jobs
    <2> QED
      BY <1>2, <2>1
  <1>4. archived \in Nat
    BY DEF DaysOK, Days
  <1> HIDE DEF jobs
  <1>5. run' \in Running
    BY <1>1, <1>3, <1>4 DEF Running
  <1>6. DaysOK'
    BY <1>5 DEF DaysOK, StartRun, Days, MonthOf
  <1>7. \A m \in DOMAIN run'.jobs : run'.jobs[m].pc = "count"
    BY <1>1 DEF jobs
  <1>8. AnswersOK'
    BY <1>7 DEF AnswersOK
  <1>9. Gathered'
    <2>1. run'.archived = archived' /\ archived' \in Nat /\ run'.pc = "run"
      BY <1>1, <1>4 DEF StartRun
    <2> QED
      BY <1>7, <2>1 DEF Gathered
  <1> QED
    BY <1>6, <1>8, <1>9

(* What a month's step leaves of a run that goes on. *)
LEMMA JobTyped ==
    ASSUME DaysOK, NEW m, NEW pc, JobAt(m, pc)
    PROVE  /\ run \in Running /\ m \in DOMAIN run.jobs /\ m \in Nat
           /\ \A job \in Jobs, ok \in BOOLEAN :
                 [run EXCEPT !.jobs[m] = job, !.ok = ok] \in Running
  <1>1. run \in Running /\ m \in DOMAIN run.jobs
    BY DEF DaysOK, JobAt, Ended
  <1>2. PICK M \in SUBSET Nat : run.jobs \in [M -> Jobs]
    BY <1>1 DEF Running
  <1>3. ASSUME NEW job \in Jobs PROVE [run.jobs EXCEPT ![m] = job] \in [M -> Jobs]
    BY <1>1, <1>2, <1>3
  <1> QED
    BY <1>1, <1>2, <1>3 DEF Running

(* A month that goes on to a step of which the invariant says nothing false. *)
LEMMA MonthGoesOn ==
    ASSUME RunInv, NEW m, NEW pc, JobAt(m, pc),
           NEW job \in Jobs, Continue(m, job),
           UNCHANGED <<today, archived, stamp>>,
           DOMAIN insolation \subseteq DOMAIN insolation',
           DOMAIN insolation' \subseteq 0 .. (today - 1),
           job.pc = "store" => DOMAIN job.answer \subseteq 0 .. (today - 1),
           run.located /\ run.ok =>
              /\ job.pc = "done" => Had(m) \subseteq DOMAIN insolation'
              /\ job.pc = "store" => Had(m) \subseteq DOMAIN job.answer
    PROVE  RunInv'
  <1> USE DEF RunInv
  <1>1. run \in Running /\ m \in DOMAIN run.jobs
    BY JobTyped
  <1>2. run.ok \in BOOLEAN /\ run' = [run EXCEPT !.jobs[m] = job, !.ok = run.ok]
    BY <1>1 DEF Running, Continue
  <1>3. run' \in Running
    BY <1>2, JobTyped
  <1>4. /\ run'.archived = run.archived /\ run'.located = run.located /\ run'.ok = run.ok
        /\ run'.pc = "run" /\ run.pc = "run"
        /\ run'.jobs = [run.jobs EXCEPT ![m] = job]
    BY <1>1 DEF Running, Continue
  <1>5. DaysOK'
    BY <1>3 DEF DaysOK, Days, MonthOf
  <1>6. /\ DOMAIN run'.jobs = DOMAIN run.jobs
        /\ \A n \in DOMAIN run.jobs : run'.jobs[n] = IF n = m THEN job ELSE run.jobs[n]
    BY <1>4
  <1>7. AnswersOK'
    BY <1>4, <1>6 DEF AnswersOK
  <1>8. \A n : Had(n)' = Had(n)
    BY <1>4 DEF Had
  <1>9. Gathered'
    BY <1>4, <1>6, <1>8 DEF Gathered
  <1> QED
    BY <1>5, <1>7, <1>9

(* The step of a month that looks at what is stored. *)
LEMMA CountKeeps == ASSUME RunInv, NEW m, Count(m) PROVE RunInv'
  <1> DEFINE job == [pc |-> IF ~run.located \/ Skip(m) THEN "done" ELSE "fetch"]
  <1>1. job \in Jobs
    BY DEF Jobs
  <1>2. ASSUME run.located, job.pc = "done" PROVE Had(m) \subseteq DOMAIN insolation
    BY <1>2 DEF Skip, IsStored, Had
  <1>3. job.pc # "store"
    OBVIOUS
  <1>4. DOMAIN insolation \subseteq 0 .. (today - 1)
    BY DEF RunInv, DaysOK
  <1>5. Continue(m, job) /\ JobAt(m, "count") /\ UNCHANGED <<today, archived, insolation, stamp>>
    BY DEF Count
  <1> HIDE DEF job
  <1> QED
    BY <1>1, <1>2, <1>3, <1>4, <1>5, MonthGoesOn

(* Without the count the month is fetched. *)
LEMMA CountFailsKeeps == ASSUME RunInv, NEW m, CountFails(m) PROVE RunInv'
  <1> DEFINE job == [pc |-> "fetch"]
  <1>1. job \in Jobs /\ job.pc = "fetch"
    BY DEF Jobs
  <1>2. DOMAIN insolation \subseteq 0 .. (today - 1)
    BY DEF RunInv, DaysOK
  <1>3. Continue(m, job) /\ JobAt(m, "count") /\ UNCHANGED <<today, archived, insolation, stamp>>
    BY DEF CountFails
  <1> HIDE DEF job
  <1> QED
    BY <1>1, <1>2, <1>3, MonthGoesOn

(* An answer is about days of the month that are over, and has all that the    *)
(* archive had when the run began.                                             *)
LEMMA AnswerType ==
    ASSUME RunInv, NEW m, JobAt(m, "fetch"), NEW padding \in Padding
    PROVE  /\ Answer(m, padding) \in UNION {[D -> {"measured", "blank"}] : D \in SUBSET Days}
           /\ DOMAIN Answer(m, padding) \subseteq 0 .. (today - 1)
           /\ Had(m) \subseteq DOMAIN Answer(m, padding)
  <1>1. m \in Nat /\ today \in Days /\ archived \in 0 .. today
    BY JobTyped DEF RunInv, DaysOK
  <1>2. DaysOf(m) \subseteq Nat
    BY <1>1, DaysAreNumbers
  <1> DEFINE D == {d \in AskedFor(m) : padding \/ d < archived}
  <1>3. today \in Nat /\ Days = 0 .. (NMonths * DaysPerMonth - 1)
        /\ NMonths * DaysPerMonth \in Nat /\ today <= NMonths * DaysPerMonth - 1
    BY <1>1 DEF Days
  <1>4. D \subseteq 0 .. (today - 1)
    BY <1>2, <1>3 DEF AskedFor
  <1>5. 0 .. (today - 1) \subseteq Days
    BY <1>3
  <1>6. Answer(m, padding) \in [D -> {"measured", "blank"}]
    BY DEF Answer
  <1>7. run.archived \in Nat /\ run.archived <= archived
    <2>1. run \in Running /\ run.pc # "idle"
      BY JobTyped DEF RunInv, JobAt
    <2> QED
      BY <2>1 DEF RunInv, Gathered, Running
  <1>8. Had(m) \subseteq D
    BY <1>1, <1>2, <1>3, <1>7 DEF Had, AskedFor
  <1> QED
    BY <1>4, <1>5, <1>6, <1>8

(* The step of a month that asks the archive. *)
LEMMA FetchKeeps == ASSUME RunInv, NEW m, Fetch(m) PROVE RunInv'
  <1>1. PICK padding \in Padding :
           Continue(m, IF DOMAIN Answer(m, padding) = {} THEN [pc |-> "done"]
                       ELSE [pc |-> "store", answer |-> Answer(m, padding)])
    BY DEF Fetch
  <1>2. JobAt(m, "fetch") /\ UNCHANGED <<today, archived, insolation, stamp>>
    BY DEF Fetch
  <1> DEFINE answer == Answer(m, padding)
             job == IF DOMAIN answer = {} THEN [pc |-> "done"]
                    ELSE [pc |-> "store", answer |-> answer]
  <1>3. DOMAIN answer \subseteq 0 .. (today - 1) /\ Had(m) \subseteq DOMAIN answer
    BY <1>2, AnswerType
  <1>4. answer \in UNION {[D -> {"measured", "blank"}] : D \in SUBSET Days}
    BY <1>2, AnswerType
  <1>5. DOMAIN insolation \subseteq 0 .. (today - 1)
    BY DEF RunInv, DaysOK
  <1>6. Continue(m, job)
    BY <1>1
  <1> HIDE DEF answer
  <1>7. job \in Jobs
    BY <1>4 DEF Jobs
  <1>8. CASE DOMAIN answer = {}
    <2>1. job.pc = "done" /\ Had(m) = {}
      BY <1>3, <1>8
    <2> HIDE DEF job
    <2> QED
      BY <1>2, <1>5, <1>6, <1>7, <2>1, MonthGoesOn
  <1>9. CASE DOMAIN answer # {}
    <2>1. job.pc = "store" /\ job.answer = answer
      BY <1>9
    <2> HIDE DEF job
    <2> QED
      BY <1>2, <1>3, <1>5, <1>6, <1>7, <2>1, MonthGoesOn
  <1> QED
    BY <1>8, <1>9

(* The step of a month that stores what it was answered. *)
LEMMA StoreKeeps == ASSUME RunInv, NEW m, Store(m) PROVE RunInv'
  <1> DEFINE job == [pc |-> "done"]
             answer == run.jobs[m].answer
  <1>1. job \in Jobs /\ job.pc = "done"
    BY DEF Jobs
  <1>2. Continue(m, job) /\ JobAt(m, "store") /\ UNCHANGED <<today, archived, stamp>>
    BY DEF Store
  <1>3. DOMAIN insolation' = DOMAIN insolation \cup DOMAIN answer
    BY DEF Store, Upserted
  <1>4. run.pc = "run" /\ m \in DOMAIN run.jobs /\ run.jobs[m].pc = "store"
    BY <1>2 DEF JobAt
  <1>5. DOMAIN insolation' \subseteq 0 .. (today - 1)
    BY <1>3, <1>4 DEF RunInv, DaysOK, AnswersOK
  <1>6. run.located /\ run.ok => Had(m) \subseteq DOMAIN insolation'
    BY <1>3, <1>4 DEF RunInv, Gathered
  <1> HIDE DEF job
  <1> QED
    BY <1>1, <1>2, <1>3, <1>5, <1>6, MonthGoesOn

(* A month that fails takes its run out of the promise. *)
LEMMA JobFailsKeeps == ASSUME RunInv, NEW m, JobFails(m) PROVE RunInv'
  <1> DEFINE job == [pc |-> "done"]
  <1> USE DEF RunInv
  <1>1. job \in Jobs /\ job.pc = "done"
    BY DEF Jobs
  <1>2. PICK pc \in {"fetch", "store"} : JobAt(m, pc)
    BY DEF JobFails
  <1>3. /\ run' = [run EXCEPT !.jobs[m] = job, !.ok = FALSE]
        /\ UNCHANGED <<today, archived, insolation, stamp>>
    BY DEF JobFails, Abandon
  <1> HIDE DEF job
  <1>4. run \in Running /\ m \in DOMAIN run.jobs /\ run' \in Running
    BY <1>1, <1>2, <1>3, JobTyped
  <1>5. /\ run'.archived = run.archived /\ ~run'.ok /\ run'.pc = "run" /\ run.pc = "run"
        /\ run'.jobs = [run.jobs EXCEPT ![m] = job]
    BY <1>3, <1>4 DEF Running
  <1>6. DaysOK'
    BY <1>3, <1>4 DEF DaysOK, Days, MonthOf
  <1>7. AnswersOK'
    BY <1>1, <1>3, <1>5 DEF AnswersOK
  <1>8. Gathered'
    BY <1>3, <1>5 DEF Gathered
  <1> QED
    BY <1>6, <1>7, <1>8

(* The run ends. *)
LEMMA EndKeeps == ASSUME RunInv, NEW stamped \in BOOLEAN, EndRun(stamped) PROVE RunInv'
  <1> USE DEF RunInv
  <1>1. /\ run.pc = "run" /\ \A m \in DOMAIN run.jobs : run.jobs[m].pc = "done"
        /\ UNCHANGED <<today, archived, insolation>>
    BY DEF EndRun
  <1>2. run \in Running
    BY <1>1 DEF DaysOK, Ended
  <1>3. stamp' \in {None} \cup 0 .. MonthOf(today)
    <2>1. MonthOf(today) \in Nat
      BY Calendar DEF DaysOK, Days
    <2> QED
      BY <2>1 DEF EndRun, DaysOK
  <1>4. CASE run.located /\ run.ok
    <2>1. run' = [pc |-> "ended", archived |-> run.archived, months |-> DOMAIN run.jobs]
      BY <1>4 DEF EndRun
    <2>2. run.archived \in Nat /\ DOMAIN run.jobs \in SUBSET Nat
      BY <1>2 DEF Running
    <2>3. run' \in Ended
      BY <2>1, <2>2 DEF Ended
    <2>4. DaysOK' /\ AnswersOK'
      BY <1>1, <1>3, <2>1, <2>3 DEF DaysOK, AnswersOK, Days, MonthOf
    <2>5. Gathered'
      BY <1>1, <1>4, <2>1 DEF Gathered, Had, DaysOf
    <2> QED
      BY <2>4, <2>5
  <1>5. CASE ~(run.located /\ run.ok)
    <2>1. run' = [pc |-> "idle"]
      BY <1>5 DEF EndRun
    <2> QED
      BY <1>1, <1>3, <2>1 DEF DaysOK, AnswersOK, Gathered, Days, MonthOf
  <1> QED
    BY <1>4, <1>5

(* A day begins, or comes into the archive. *)
LEMMA TimeKeeps == ASSUME RunInv, NextDay \/ Archive PROVE RunInv'
  <1> USE DEF RunInv
  <1>1. today \in Nat /\ archived \in Nat /\ archived <= today
    BY DEF DaysOK, Days
  <1>2. MonthOf(today) \in Nat /\ MonthOf(today) <= MonthOf(today + 1)
        /\ MonthOf(today + 1) \in Nat
    BY <1>1, Calendar
  <1>3. today' \in {today, today + 1} /\ today' \in Days
        /\ archived' \in {archived, archived + 1} /\ archived' <= today'
        /\ UNCHANGED <<insolation, stamp, run>>
    BY <1>1 DEF NextDay, Archive, DaysOK
  <1>4. stamp' \in {None} \cup 0 .. MonthOf(today')
    BY <1>2, <1>3 DEF DaysOK
  <1>5. MonthOf(today)' = MonthOf(today')
    BY DEF MonthOf
  <1>6. DaysOK'
    BY <1>1, <1>3, <1>4, <1>5 DEF DaysOK, Days
  <1>7. AnswersOK'
    BY <1>1, <1>3 DEF AnswersOK
  <1>8. run.pc # "idle" => run.archived \in Nat
    BY DEF DaysOK, Running, Ended
  <1>9. Gathered'
    BY <1>1, <1>3, <1>8 DEF Gathered, Had, DaysOf
  <1> QED
    BY <1>6, <1>7, <1>9

(* Every step keeps the invariant of the runs. *)
LEMMA NextRunInv ==
    ASSUME GeoInv, RunInv, [Next]_vars
    PROVE  RunInv'
  <1>1. CASE NextDay \/ Archive
    BY <1>1, TimeKeeps
  <1>2. today \in Nat /\ located \in BOOLEAN
    BY DEF GeoInv, CallsOK, RunInv, DaysOK, Days
  <1>3. CASE StartScheduled
    <2>1. MonthOf(today - 1) \in Nat
      BY <1>2, <1>3, Calendar DEF StartScheduled
    <2> QED
      BY <1>2, <1>3, <2>1, StartKeeps DEF StartScheduled
  <1>4. CASE StartManual
    <2>1. PICK m \in Nat : StartRun(m)
      BY <1>4 DEF StartManual
    <2> QED
      BY <1>2, <2>1, StartKeeps
  <1>5. ASSUME NEW m \in Months, Count(m) \/ CountFails(m) \/ Fetch(m) \/ Store(m) \/ JobFails(m)
        PROVE  RunInv'
    BY <1>5, CountKeeps, CountFailsKeeps, FetchKeeps, StoreKeeps, JobFailsKeeps
  <1>6. ASSUME NEW stamped \in BOOLEAN, EndRun(stamped) PROVE RunInv'
    BY <1>6, EndKeeps
  <1>7. CASE GeoStep \/ UNCHANGED vars
    <2>1. UNCHANGED weatherVars
      BY <1>7 DEF GeoStep, vars
    <2> QED
      BY <2>1 DEF weatherVars, RunInv, DaysOK, AnswersOK, Gathered, Had, DaysOf, MonthOf, Days
  <1>8. CASE Crash
    BY <1>8 DEF Crash, RunInv, DaysOK, AnswersOK, Gathered, MonthOf, Days
  <1> QED
    BY <1>1, <1>3, <1>4, <1>5, <1>6, <1>7, <1>8 DEF Next, RunStep

(* The initial states have it: nothing is stored and no run is under way. *)
LEMMA InitRunInv == Init => RunInv
  <1> SUFFICES ASSUME Init PROVE RunInv
    OBVIOUS
  <1>1. today = 0 /\ archived = 0 /\ stamp = None /\ run = [pc |-> "idle"]
    BY DEF Init
  <1>2. DOMAIN insolation = {}
    BY DEF Init
  <1>3. 0 \in Days
    <2>1. NMonths * DaysPerMonth \in Nat \ {0}
      OBVIOUS
    <2> QED
      BY <2>1 DEF Days
  <1> QED
    BY <1>1, <1>2, <1>3 DEF RunInv, DaysOK, AnswersOK, Gathered

(* The invariants hold together. *)
LEMMA Invariance == Spec => [](GeoInv /\ RunInv)
  BY InitGeoInv, NextGeoInv, InitRunInv, NextRunInv, PTL DEF Spec

(* Types; and no day is stored before it is over, whatever the archive answers *)
(* (openmeteo.go 31-40).                                                       *)
THEOREM TypeCorrect == Spec => []TypeOK
  <1>1. GeoInv /\ RunInv => TypeOK
    <2> SUFFICES ASSUME GeoInv, RunInv PROVE TypeOK
      OBVIOUS
    <2>1. ASSUME NEW l \in Logins
          PROVE  call[l].pc \in {"idle", "check", "ask", "found", "failed", "save"}
      BY DEF GeoInv, CallsOK
    <2>2. GeoTypeOK
      BY <2>1 DEF GeoInv, CallsOK, GeoTypeOK
    <2>3. run.pc \in {"idle", "run", "ended"}
      BY DEF RunInv, DaysOK, Running, Ended
    <2> QED
      BY <2>2, <2>3 DEF RunInv, DaysOK, TypeOK
  <1> QED
    BY <1>1, Invariance, PTL

(* A run without a failure leaves no day out that the archive had when it      *)
(* began, also of the months it skips (worker.go 708-747).                     *)
THEOREM RunsStoreWhatTheyCan == Spec => []ArchivedDaysAreStored
  <1>1. RunInv => ArchivedDaysAreStored
    BY DEF RunInv, Gathered, Had, ArchivedDaysAreStored
  <1> QED
    BY <1>1, Invariance, PTL
=============================================================================
