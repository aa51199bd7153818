----------------------------- MODULE Collection -----------------------------
(***************************************************************************)
(* The collection of one metering point: app/worker.go's runs over its      *)
(* outstanding months, and the tables of app/repository.go they read and    *)
(* write.  Runs of the scheduled worker and of the manual-fetch worker      *)
(* overlap freely; within a run up to HepConcurrentFetches months are        *)
(* fetched at a time.  The database has a single connection, so each         *)
(* statement or transaction is one step.                                    *)
(*                                                                         *)
(* Time is counted in slots, SlotsPerMonth to a month; one slot stands for   *)
(* a reading and for the time that passes between two of them.  HEP has      *)
(* published the slots below "published" and pads the rest of a month with   *)
(* zeros.  What a slot holds is abstracted to what decides whether it is     *)
(* stored: whether it parses, and whether it is zero, since the program      *)
(* trims trailing zeros, HEP's padding and measured ones alike (Readings      *)
(* has the values themselves).  The tables of different points never meet,   *)
(* so one point is modelled; how the token is had is the subject of           *)
(* TokenRefresh.                                                            *)
(***************************************************************************)
EXTENDS Integers, FiniteSets

CONSTANTS
    Runs,               \* collection runs that may overlap
    Dirs,               \* the directions the point is collected in
    NMonths,            \* bound: months the model lives through
    SlotsPerMonth,
    ConcurrentFetches,  \* HepConcurrentFetches
    AvailableFrom,      \* first month of the point's contract
    FetchFrom,          \* month of the configured fetchFrom, 0 when there is none
    EmptyMonths,        \* months of which HEP says that it has no data
    Zeros,              \* per direction, the slots in which nothing is measured
    Garbled,            \* per direction, the slots that HEP gives so that they do not parse
    ManualMonths,       \* months a user asks for with a manual fetch
    MaxLag,             \* bound: slots by which HEP's publication lags
    MaxRun,             \* bound: slots that pass while a run is at work
    Never               \* a last_meter_reading_collection that is NULL

Months == 0..NMonths
Slots  == 0..(NMonths * SlotsPerMonth - 1)

ASSUME ShapeAssumption ==
    /\ NMonths \in Nat \ {0} /\ SlotsPerMonth \in Nat \ {0}
    /\ ConcurrentFetches \in Nat \ {0} /\ MaxLag \in Nat /\ MaxRun \in Nat
ASSUME DirsAssumption == Dirs \subseteq {"P", "R"} /\ Dirs # {}
ASSUME MonthsAssumption ==
    /\ AvailableFrom \in Months /\ FetchFrom \in Months /\ EmptyMonths \subseteq Months
    /\ ManualMonths \subseteq Months /\ Never \notin Months
ASSUME ValuesAssumption ==
    Zeros \in [Dirs -> SUBSET Slots] /\ Garbled \in [Dirs -> SUBSET Slots]

MonthOf(t) == t \div SlotsPerMonth

SlotsOf(m) == {t \in Slots : MonthOf(t) = m}

Jobs == Runs \X Months \X Dirs

VARIABLES
    today,      \* the slot that is passing now
    published,  \* HEP has the readings of the slots below this one (external)
    last,       \* month of last_meter_reading_collection
    readings,   \* meter_readings, per direction
    aggregated, \* daily_aggregates: the slots summed up per direction and month
    skipped,    \* skipped_metering_months, per direction
    ref,        \* the reference month of each run in progress, else Never
    age,        \* the slots that have passed since a run started
    job,        \* where each month fetch of a run stands
    got,        \* the readings a month fetch has parsed and not yet stored
    stale       \* the months whose aggregates a month fetch still has to refresh

clock == <<today, published>>
db    == <<last, readings, aggregated, skipped>>
work  == <<ref, age, job, got, stale>>
vars  == <<clock, db, work>>

Steps == {"none", "queued", "count", "fetch", "mark", "store", "refresh",
          "done", "failed"}

TypeOK ==
    /\ today \in Slots /\ published \in 0..today
    /\ last \in Months \cup {Never}
    /\ readings \in [Dirs -> SUBSET Slots]
    /\ aggregated \in [Dirs -> [Months -> SUBSET Slots]]
    /\ skipped \in [Dirs -> SUBSET Months]
    /\ ref \in [Runs -> Months \cup {Never}]
    /\ age \in [Runs -> 0..MaxRun]
    /\ job \in [Jobs -> Steps]
    /\ got \in [Jobs -> SUBSET Slots]
    /\ stale \in [Jobs -> SUBSET Months]
    /\ \A j \in Jobs : got[j] # {} => job[j] = "store"
    /\ \A j \in Jobs : stale[j] # {} => job[j] = "refresh"
    /\ \A j \in Jobs : ref[j[1]] = Never => job[j] = "none"

(* The readings of slot t exist once t has passed and reach HEP at most     *)
(* MaxLag slots later.                                                      *)
PublishedAt(t) == {p \in 0..t : t <= p + MaxLag}

(* The program may be installed at any time. *)
Init ==
    /\ today \in Slots /\ published \in PublishedAt(today)
    /\ last = Never
    /\ readings = [d \in Dirs |-> {}]
    /\ aggregated = [d \in Dirs |-> [m \in Months |-> {}]]
    /\ skipped = [d \in Dirs |-> {}]
    /\ ref = [r \in Runs |-> Never]
    /\ age = [r \in Runs |-> 0]
    /\ job = [j \in Jobs |-> "none"]
    /\ got = [j \in Jobs |-> {}]
    /\ stale = [j \in Jobs |-> {}]

-----------------------------------------------------------------------------
(* Time and HEP's publication (external) *)

Tick ==
    /\ today + 1 \in Slots /\ published \in PublishedAt(today + 1)
    /\ \A r \in Runs : ref[r] # Never => age[r] < MaxRun
    /\ today' = today + 1
    /\ age' = [r \in Runs |-> IF ref[r] # Never THEN age[r] + 1 ELSE 0]
    /\ UNCHANGED <<published, db, ref, job, got, stale>>

Publish ==
    /\ published < today
    /\ published' = published + 1
    /\ UNCHANGED <<today, db, work>>

(* What is kept of HEP's answer for month m, had it published p slots: its    *)
(* slots and, as the mark that ends the month, the first slot of the next,    *)
(* as far as they parse ...                                                 *)
Parsed(d, m, p) ==
    {t \in Slots \ Garbled[d] : t < p /\ (MonthOf(t) = m \/ t = (m + 1) * SlotsPerMonth)}

(* ... without the zeros at the end. *)
AnswerAsOf(d, m, p) ==
    {t \in Parsed(d, m, p) : \E u \in Parsed(d, m, p) \ Zeros[d] : t <= u}

Answer(d, m) == AnswerAsOf(d, m, published)

-----------------------------------------------------------------------------
(* Starting a run *)

(* getMonthsToCollect (worked out in MonthWalk): from the last collection,   *)
(* or the contract's start, up to the reference month, which is always       *)
(* included for a point that has been collected before; but nothing before   *)
(* the configured cap.                                                      *)
Uncapped(m) ==
    IF last = Never THEN AvailableFrom ELSE IF last < m THEN last ELSE m

MonthsToCollect(m) ==
    {n \in Months : Uncapped(m) <= n /\ FetchFrom <= n /\ n <= m}

(* runCollection reads the point and fixes the months; with none there is   *)
(* nothing to do and nothing is stamped.                                    *)
StartRun(r, m) ==
    /\ ref[r] = Never
    /\ MonthsToCollect(m) # {}
    /\ ref' = [ref EXCEPT ![r] = m]
    /\ job' = [j \in Jobs |->
                  IF j[1] = r /\ j[2] \in MonthsToCollect(m) THEN "queued" ELSE job[j]]
    /\ UNCHANGED <<clock, db, age, got, stale>>

(* runAndReport: the reference month is yesterday's. *)
StartScheduled(r) == \E m \in Months : MonthOf(today - 1) = m /\ StartRun(r, m)

(* A manual fetch: the month asked for, or the current one. *)
StartManual(r) ==
    \E m \in ManualMonths \cup {MonthOf(today)} : StartRun(r, m)

-----------------------------------------------------------------------------
(* fetchAndStoreReadings for run r, month m and direction d *)

Started(j)  == job[j] \notin {"none", "queued"}
Finished(j) == job[j] \in {"none", "done", "failed"}

(* Mutant: a finished fetch does not give its slot of the semaphore back. *)
InFlightForEver(r) ==
    {m \in Months : \E d \in Dirs : Started(<<r, m, d>>)}

(* The months of run r that hold a slot of the semaphore. *)
InFlight(r) ==
    {m \in Months : /\ \E d \in Dirs : Started(<<r, m, d>>)
                    /\ \E d \in Dirs : ~Finished(<<r, m, d>>)}

(* The months are launched in ascending order while the semaphore has room; *)
(* within a month production follows consumption.                           *)
MayStart(r, m, d) ==
    IF d = "R" /\ "P" \in Dirs
    THEN Finished(<<r, m, "P">>)
    ELSE /\ \A e \in Months : e < m => \E c \in Dirs : job[<<r, e, c>>] # "queued"
         /\ Cardinality(InFlight(r)) < ConcurrentFetches

Goto(j, step) == job' = [job EXCEPT ![j] = step]

(* IsMonthSkipped; a past month goes on to MonthAlreadyCollected. *)
Look(r, m, d) ==
    LET j == <<r, m, d>> IN
    /\ job[j] = "queued" /\ MayStart(r, m, d)
    /\ Goto(j, IF m \in skipped[d] THEN "done"
               ELSE IF m < ref[r] THEN "count" ELSE "fetch")
    /\ UNCHANGED <<clock, db, ref, age, got, stale>>

(* MonthAlreadyCollected: at least half the month's slots are stored. *)
Collected(d, m) == 2 * Cardinality(readings[d] \cap SlotsOf(m)) >= SlotsPerMonth

Count(r, m, d) ==
    LET j == <<r, m, d>> IN
    /\ job[j] = "count"
    /\ Goto(j, IF Collected(d, m) THEN "done" ELSE "fetch")
    /\ UNCHANGED <<clock, db, ref, age, got, stale>>

(* FetchReadings, parsing and trimming; no readings, nothing to store. *)
Fetch(r, m, d) ==
    LET j == <<r, m, d>> IN
    /\ job[j] = "fetch" /\ m \notin EmptyMonths
    /\ got' = [got EXCEPT ![j] = Answer(d, m)]
    /\ Goto(j, IF Answer(d, m) = {} THEN "done" ELSE "store")
    /\ UNCHANGED <<clock, db, ref, age, stale>>

FetchNoData(r, m, d) ==
    LET j == <<r, m, d>> IN
    /\ job[j] = "fetch" /\ m \in EmptyMonths
    /\ Goto(j, "mark")
    /\ UNCHANGED <<clock, db, ref, age, got, stale>>

(* No token to be had, no connection, an answer that is no readings, or the *)
(* no-data answer to a retried request.                                     *)
FetchFails(r, m, d) ==
    LET j == <<r, m, d>> IN
    /\ job[j] = "fetch"
    /\ Goto(j, "failed")
    /\ UNCHANGED <<clock, db, ref, age, got, stale>>

(* MarkMonthSkipped *)
Mark(r, m, d) ==
    LET j == <<r, m, d>> IN
    /\ job[j] = "mark"
    /\ skipped' = [skipped EXCEPT ![d] = @ \cup {m}]
    /\ Goto(j, "done")
    /\ UNCHANGED <<clock, last, readings, aggregated, ref, age, got, stale>>

(* monthsTouched *)
MonthsTouched(ts) == {MonthOf(t) : t \in ts}

(* Mutant: only the aggregates of the requested month are refreshed. *)
StoreOneMonth(r, m, d) ==
    LET j == <<r, m, d>> IN
    /\ job[j] = "store"
    /\ readings' = [readings EXCEPT ![d] = @ \cup got[j]]
    /\ stale' = [stale EXCEPT ![j] = {m}]
    /\ got' = [got EXCEPT ![j] = {}]
    /\ Goto(j, "refresh")
    /\ UNCHANGED <<clock, last, aggregated, skipped, ref, age>>

(* Mutant: nothing newly inserted, so no aggregate is refreshed. *)
StoreNewOnly(r, m, d) ==
    LET j == <<r, m, d>> IN
    /\ job[j] = "store"
    /\ readings' = [readings EXCEPT ![d] = @ \cup got[j]]
    /\ stale' = [stale EXCEPT ![j] = MonthsTouched(got[j] \ readings[d])]
    /\ got' = [got EXCEPT ![j] = {}]
    /\ Goto(j, IF got[j] \subseteq readings[d] THEN "done" ELSE "refresh")
    /\ UNCHANGED <<clock, last, aggregated, skipped, ref, age>>

(* InsertMeterReadings, one transaction *)
Store(r, m, d) ==
    LET j == <<r, m, d>> IN
    /\ job[j] = "store"
    /\ readings' = [readings EXCEPT ![d] = @ \cup got[j]]
    /\ stale' = [stale EXCEPT ![j] = MonthsTouched(got[j])]
    /\ got' = [got EXCEPT ![j] = {}]
    /\ Goto(j, "refresh")
    /\ UNCHANGED <<clock, last, aggregated, skipped, ref, age>>

(* The first of the months still to be refreshed. *)
FirstStale(j, n) == n \in stale[j] /\ \A k \in stale[j] : n <= k

(* Mutant: the fetch returns with months still to be refreshed. *)
RefreshFirstOnly(j, n) ==
    /\ stale' = [stale EXCEPT ![j] = @ \ {n}]
    /\ Goto(j, "done")

(* ... and when none is left the fetch is done. *)
RefreshDone(j, n) ==
    /\ stale' = [stale EXCEPT ![j] = @ \ {n}]
    /\ Goto(j, IF stale[j] \ {n} = {} THEN "done" ELSE "refresh")

(* Mutant: the sums of the last answer are kept instead of recomputed. *)
RefreshFromAnswer(r, m, d) ==
    LET j == <<r, m, d>> IN
    \E n \in Months :
        /\ job[j] = "refresh" /\ FirstStale(j, n)
        /\ aggregated' = [aggregated EXCEPT ![d][n] = Answer(d, n) \cap SlotsOf(n)]
        /\ RefreshDone(j, n)
        /\ UNCHANGED <<clock, last, readings, skipped, ref, age, got>>

(* UpsertDailyAggregates of month n, recomputed from the readings stored *)
(* by then.                                                              *)
Refresh(r, m, d) ==
    LET j == <<r, m, d>> IN
    \E n \in Months :
        /\ job[j] = "refresh" /\ FirstStale(j, n)
        /\ aggregated' = [aggregated EXCEPT ![d][n] = readings[d] \cap SlotsOf(n)]
        /\ RefreshDone(j, n)
        /\ UNCHANGED <<clock, last, readings, skipped, ref, age, got>>

-----------------------------------------------------------------------------
(* The end of a run *)

JobsOf(r) == {j \in Jobs : j[1] = r}

AllFinished(r) == ref[r] # Never /\ \A j \in JobsOf(r) : Finished(j)

Failed(r) == \E j \in JobsOf(r) : job[j] = "failed"

ClearRun(r) ==
    /\ ref' = [ref EXCEPT ![r] = Never]
    /\ age' = [age EXCEPT ![r] = 0]
    /\ job' = [j \in Jobs |-> IF j[1] = r THEN "none" ELSE job[j]]
    /\ UNCHANGED <<clock, readings, aggregated, skipped, got, stale>>

(* Mutant: the present is stamped whether or not every month succeeded. *)
EndRunRegardless(r) ==
    /\ AllFinished(r)
    /\ last' = MonthOf(today)
    /\ ClearRun(r)

(* Every month succeeded: UpdateLastCollection stamps the present. *)
EndRun(r) ==
    /\ AllFinished(r) /\ ~Failed(r)
    /\ last' = MonthOf(today)
    /\ ClearRun(r)

(* Some month failed: the stamp is left as it is. *)
EndFailedRun(r) ==
    /\ AllFinished(r) /\ Failed(r)
    /\ ClearRun(r)
    /\ UNCHANGED last

JobStep(r, m, d) ==
    \/ Look(r, m, d) \/ Count(r, m, d)
    \/ Fetch(r, m, d) \/ FetchNoData(r, m, d) \/ FetchFails(r, m, d)
    \/ Mark(r, m, d) \/ Store(r, m, d) \/ Refresh(r, m, d)

RunStep(r) ==
    \/ \E m \in Months, d \in Dirs : JobStep(r, m, d)
    \/ EndRun(r) \/ EndFailedRun(r)

Next ==
    \/ Tick \/ Publish
    \/ \E r \in Runs : StartScheduled(r) \/ StartManual(r) \/ RunStep(r)

Spec == Init /\ [][Next]_vars

(* A run that has begun goes on: HEP answers or times out, and SQLite       *)
(* returns.                                                                 *)
FairSpec == Spec /\ \A r \in Runs : WF_vars(RunStep(r))

-----------------------------------------------------------------------------
(* Properties *)

InSync(d, m) == aggregated[d][m] = readings[d] \cap SlotsOf(m)

(* Once no run is at work the daily aggregates agree with the readings, in  *)
(* every month: also in the month whose first slot came with the fetch of    *)
(* the month before, and whichever of the overlapping fetches stored last.   *)
InSyncWhenQuiet ==
    (\A r \in Runs : ref[r] = Never) => \A d \in Dirs, m \in Months : InSync(d, m)

(* Month m was fetched late enough: all that HEP had surely published of it    *)
(* when a run over it began, however long before its end, is stored, as far    *)
(* as it can be.                                                            *)
FetchedInTime(d, m) ==
    AnswerAsOf(d, m, (m + 1) * SlotsPerMonth - MaxLag - MaxRun) \subseteq readings[d]

(* The stamp never runs ahead of the data: every month before the one of    *)
(* last_meter_reading_collection has been collected at least to the half     *)
(* that MonthAlreadyCollected asks for, or was fetched when all but the last   *)
(* slots of it were out (a month without consumption, or one that does not   *)
(* parse, never fills up to the half), or HEP has none of it, so that the     *)
(* runs to come, which start at the stamp, leave no month out.               *)
NoMonthLeftOut ==
    last # Never =>
        \A d \in Dirs, m \in AvailableFrom..(last - 1) :
            m < FetchFrom \/ Collected(d, m) \/ FetchedInTime(d, m) \/ m \in EmptyMonths

(* Overlapping runs together keep the books of one collection: no reading    *)
(* is stored that HEP had not published, and none that can be stored is       *)
(* passed over within a month; a total is never taken from anything but the table; no run rests  *)
(* the collection while a total is behind; the stamp is never put back, and  *)
(* passes no month that is not settled.                                    *)
Book == INSTANCE Ledger
    WITH working <- \E r \in Runs : ref[r] # Never, totals <- aggregated, stamp <- last,
         Unsure <- MaxLag + MaxRun,
         Since <- IF AvailableFrom < FetchFrom THEN FetchFrom ELSE AvailableFrom

KeepsOneBook == Book!Spec

(* What worker.go:400-402 says of late readings: they are always picked up.  *)
(* A run that succeeds leaves none of its months without a slot that HEP     *)
(* had surely published when the run began and that can be stored.           *)
LateReadingsArePickedUp ==
    [][\A r \in Runs :
          EndRun(r) => \A j \in JobsOf(r) :
              job[j] = "done" /\ j[2] \notin EmptyMonths =>
                  AnswerAsOf(j[3], j[2], today - age[r] - MaxLag) \cap SlotsOf(j[2])
                      \subseteq readings[j[3]]]_vars

(* A run ends: the semaphore and the order of the months and directions     *)
(* never leave it waiting.                                                  *)
RunsEnd == \A r \in Runs : ref[r] # Never ~> ref[r] = Never
=============================================================================
