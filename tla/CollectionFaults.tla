-------------------------- MODULE CollectionFaults --------------------------
(***************************************************************************)
(* Collection when it is disturbed: a statement on the database fails (it    *)
(* is locked by the command line's process, the disk is full, the context   *)
(* is cancelled at shutdown), the process is killed between two statements   *)
(* and started again, or the command line ("hepmjerenja fetch yyyy-mm", a    *)
(* process of its own) schedules a month to be fetched again.                *)
(***************************************************************************)
EXTENDS Collection

CONSTANTS
    MaxFaults,      \* bound: statements that fail
    MaxCrashes,     \* bound: times the process dies
    MaxForced       \* bound: months scheduled from the command line

ASSUME FaultBoundsAssumption == 
    MaxFaults \in Nat /\ MaxCrashes \in Nat /\ MaxForced \in Nat

VARIABLES
    faults,         \* statements that have failed so far
    crashes,        \* times the process has died so far
    forced,         \* months scheduled from the command line so far
    troubled        \* runs in progress since before a statement failed (history)

faultVars == <<faults, crashes, forced, troubled>>
allVars   == <<vars, faultVars>>

FaultTypeOK ==
    /\ TypeOK
    /\ faults \in 0..MaxFaults /\ crashes \in 0..MaxCrashes
    /\ forced \in 0..MaxForced
    /\ troubled \subseteq Runs
    /\ \A r \in troubled : ref[r] # Never

FaultInit ==
    /\ Init
    /\ faults = 0 /\ crashes = 0 /\ forced = 0
    /\ troubled = {}

(* The runs of a set that are still in progress after the step. *)
GoingOn(rs) == {r \in rs : ref'[r] # Never}

-----------------------------------------------------------------------------
(* A failing check counts as "proceed anyway". *)
LookFails(r, m, d) ==
    LET j == <<r, m, d>> IN
    /\ job[j] = "queued" /\ MayStart(r, m, d)
    /\ Goto(j, IF m < ref[r] THEN "count" ELSE "fetch")
    /\ UNCHANGED <<clock, db, ref, age, got, stale>>

CountFails(r, m, d) ==
    LET j == <<r, m, d>> IN
    /\ job[j] = "count"
    /\ Goto(j, "fetch")
    /\ UNCHANGED <<clock, db, ref, age, got, stale>>

(* A failing MarkMonthSkipped is logged, and the month counts as done. *)
MarkFails(r, m, d) ==
    LET j == <<r, m, d>> IN
    /\ job[j] = "mark"
    /\ Goto(j, "done")
    /\ UNCHANGED <<clock, db, ref, age, got, stale>>

(* Mutant: the month of a failed insert counts as done. *)
StoreFailsUnseen(r, m, d) ==
    LET j == <<r, m, d>> IN
    /\ job[j] = "store"
    /\ got' = [got EXCEPT ![j] = {}]
    /\ Goto(j, "done")
    /\ UNCHANGED <<clock, db, ref, age, stale>>

(* A failing insert is rolled back and the month counts as failed. *)
StoreFails(r, m, d) ==
    LET j == <<r, m, d>> IN
    /\ job[j] = "store"
    /\ got' = [got EXCEPT ![j] = {}]
    /\ Goto(j, "failed")
    /\ UNCHANGED <<clock, db, ref, age, stale>>

(* A failing UpsertDailyAggregates is logged, and the next month's turn. *)
RefreshFails(r, m, d) ==
    LET j == <<r, m, d>> IN
    \E n \in Months :
        /\ job[j] = "refresh" /\ FirstStale(j, n)
        /\ RefreshDone(j, n)
        /\ UNCHANGED <<clock, db, ref, age, got>>

(* A failing UpdateLastCollection is logged; the run has still succeeded. *)
StampFails(r) ==
    /\ AllFinished(r) /\ ~Failed(r)
    /\ ClearRun(r)
    /\ UNCHANGED last

Fault ==
    /\ faults < MaxFaults /\ faults' = faults + 1
    /\ UNCHANGED <<crashes, forced>>
    /\ \E r \in Runs :
          \/ StampFails(r)
          \/ \E m \in Months, d \in Dirs :
                \/ LookFails(r, m, d) \/ CountFails(r, m, d) \/ MarkFails(r, m, d)
                \/ StoreFails(r, m, d) \/ RefreshFails(r, m, d)
    /\ troubled' = GoingOn(Runs)

(* Mutant: the fetched readings outlive the process. *)
CrashKeepsReadings ==
    /\ crashes < MaxCrashes /\ crashes' = crashes + 1
    /\ ref' = [r \in Runs |-> Never]
    /\ age' = [r \in Runs |-> 0]
    /\ job' = [j \in Jobs |-> "none"]
    /\ stale' = [j \in Jobs |-> {}]
    /\ troubled' = {}
    /\ UNCHANGED <<clock, db, got, faults, forced>>

(* Committed transactions survive; everything in memory is gone. *)
Crash ==
    /\ crashes < MaxCrashes /\ crashes' = crashes + 1
    /\ ref' = [r \in Runs |-> Never]
    /\ age' = [r \in Runs |-> 0]
    /\ job' = [j \in Jobs |-> "none"]
    /\ got' = [j \in Jobs |-> {}]
    /\ stale' = [j \in Jobs |-> {}]
    /\ troubled' = {}
    /\ UNCHANGED <<clock, db, faults, forced>>

(* runFetch, ScheduleForceFetch: the stamp of the point becomes the start of  *)
(* the month.                                                               *)
ForceFetch ==
    /\ forced < MaxForced /\ forced' = forced + 1
    /\ last' \in Months
    /\ UNCHANGED <<clock, readings, aggregated, skipped, work, faults, crashes, troubled>>

NormalStep ==
    /\ Next
    /\ troubled' = GoingOn(troubled)
    /\ UNCHANGED <<faults, crashes, forced>>

FaultNext == NormalStep \/ Fault \/ Crash \/ ForceFetch

FaultSpec == FaultInit /\ [][FaultNext]_allVars

-----------------------------------------------------------------------------
(* Properties *)

Others(r) == Runs \ {r}

(* A run that succeeds, with no other at work at its end and no statement     *)
(* failing in any run meanwhile, leaves the aggregates of its reference     *)
(* month in sync: what a crash between an insert and its recomputation, or a *)
(* recomputation that failed, left behind in the month being collected is   *)
(* repaired by the next run, unless HEP has no data of that month (the fetch *)
(* of the month before may still have brought its first slot).              *)
ReferenceMonthHeals ==
    [][\A r \in Runs :
          /\ EndRun(r) /\ r \notin troubled
          /\ \A q \in Others(r) : ref[q] = Never
          => ref[r] \in EmptyMonths \/ \A d \in Dirs : InSync(d, ref[r])]_allVars

(* Neither a failed statement nor a crash makes the stamp run ahead of the   *)
(* data.  (The command line may: it moves the stamp without looking.)        *)
FaultsLeaveNoMonthOut == forced = 0 => NoMonthLeftOut

(* The aggregates never show a reading that is not stored. *)
NothingInvented ==
    \A d \in Dirs, m \in Months : aggregated[d][m] \subseteq readings[d] \cap SlotsOf(m)
=============================================================================
