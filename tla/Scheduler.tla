------------------------------ MODULE Scheduler ------------------------------
(***************************************************************************)
(* Which collections run when: the scheduled worker of app/worker.go        *)
(* (StartWorker, runAndReport), the manual fetches that overlap with it,    *)
(* the discovery of metering points, restarts of the process, and           *)
(* FetchState, the one-value record of the last failure.                    *)
(*                                                                         *)
(* Time is a day of DayLength units that repeats; many ticks of the minute   *)
(* ticker fall into a unit.  What a collection does inside is the subject    *)
(* of Collection: here each of its points ends well or fails.               *)
(***************************************************************************)
EXTENDS Integers, FiniteSets

CONSTANTS
    Points,         \* the metering points of the HEP account
    NotYet,         \* those whose first month to collect is still to come
    Worker,         \* the scheduled worker's collections
    Manuals,        \* collections of manual fetches that may overlap
    DayLength,      \* units in a day
    DailyUnit,      \* DailyCollectionHour: the daily job is due from here on
    StaleAfter,     \* StaleReadingThreshold, in units
    Never,          \* last_meter_reading_collection is NULL
    MaxFailures,    \* bound: logins, points and statements that fail
    MaxRestarts     \* bound: times the process is stopped

ASSUME SchedulerAssumption ==
    /\ DayLength \in Nat \ {0} /\ DailyUnit \in 0..(DayLength - 1)
    /\ StaleAfter \in Nat /\ Never \notin Nat /\ Worker \notin Manuals
    /\ MaxFailures \in Nat /\ MaxRestarts \in Nat /\ NotYet \subseteq Points

Callers == {Worker} \cup Manuals

VARIABLES
    unit,           \* the unit of the day
    tickDue,        \* a unit has begun since the worker last took a tick
    known,          \* rows of metering_points
    age,            \* units since each point's last collection, or Never
    phase,          \* where StartWorker's loop stands
    dailyDone,      \* lastDailyDate is today
    run,            \* where each caller's runCollection stands
    targets,        \* the points a run still has to collect
    result,         \* what a run is going to return
    fetchError,     \* FetchState.lastErr is set
    dailies,        \* daily jobs started today, over all restarts (history)
    failures,       \* failures so far
    restarts        \* stops of the process so far

calendar == <<unit, tickDue>>
points   == <<known, age>>
loop     == <<phase, dailyDone, dailies>>
runs     == <<run, targets, result>>
bounds   == <<failures, restarts>>
vars     == <<calendar, points, loop, runs, fetchError, bounds>>

Phases == {"down", "startup", "idle", "pending", "stale", "check", "daily"}

(* Ages beyond the first stale one are not told apart by the code; two more *)
(* are kept to state a bound.                                               *)
MaxAge == StaleAfter + 3

TypeOK ==
    /\ unit \in 0..(DayLength - 1) /\ tickDue \in BOOLEAN
    /\ known \subseteq Points
    /\ age \in [Points -> 0..MaxAge \cup {Never}]
    /\ phase \in Phases /\ dailyDone \in BOOLEAN
    /\ run \in [Callers -> {"off", "begin", "login", "collect", "report"}]
    /\ targets \in [Callers -> SUBSET Points]
    /\ result \in [Callers -> {"none", "ok", "error"}]
    /\ fetchError \in BOOLEAN
    /\ dailies \in Nat
    /\ failures \in 0..MaxFailures /\ restarts \in 0..MaxRestarts
    /\ \A c \in Callers : targets[c] \subseteq known
    /\ phase = "down" => \A c \in Callers : run[c] = "off"

Init ==
    /\ unit \in 0..(DayLength - 1) /\ tickDue = FALSE
    /\ known = {} /\ age = [p \in Points |-> Never]
    /\ phase = "down" /\ dailyDone = FALSE
    /\ run = [c \in Callers |-> "off"]
    /\ targets = [c \in Callers |-> {}]
    /\ result = [c \in Callers |-> "none"]
    /\ fetchError = FALSE
    /\ dailies = 0 /\ failures = 0 /\ restarts = 0

-----------------------------------------------------------------------------
(* Time.  A worker that is up takes a tick in every unit, unless a run of    *)
(* its keeps it busy; no run takes longer than a unit.                      *)
Advance ==
    /\ tickDue => phase = "down"
    /\ unit' = (unit + 1) % DayLength
    /\ tickDue' = (phase # "down")
    /\ age' = [p \in Points |-> IF age[p] = Never \/ age[p] = MaxAge
                                THEN age[p] ELSE age[p] + 1]
    /\ dailyDone' = (dailyDone /\ unit' # 0)
    /\ dailies' = IF unit' = 0 THEN 0 ELSE dailies
    /\ UNCHANGED <<known, phase, runs, fetchError, bounds>>

-----------------------------------------------------------------------------
(* runCollection, for a caller whose run has been started *)

Mode(c) ==
    CASE c \in Manuals -> "all"
      [] phase \in {"startup", "pending"} -> "pending"
      [] phase = "stale" -> "stale"
      [] OTHER -> "all"

(* Mutant: the daily job does not discover. *)
DiscoverAtStartup(c) == c \in Manuals \/ phase = "startup"

Discover(c) == c \in Manuals \/ phase \in {"startup", "daily"}

(* selectPoints *)
Selected(mode, ps) ==
    CASE mode = "pending" -> {p \in ps : age[p] = Never}
      [] mode = "stale"   -> {p \in ps : age[p] # Never /\ age[p] > StaleAfter}
      [] OTHER            -> ps

NeedsDiscovery(c) == Discover(c) /\ known = {}

Goto(c, step) == run' = [run EXCEPT ![c] = step]

(* No targets and nothing to discover: nil, without any contact with HEP. *)
NothingToDo(c) ==
    /\ run[c] = "begin"
    /\ Selected(Mode(c), known) = {} /\ ~NeedsDiscovery(c)
    /\ result' = [result EXCEPT ![c] = "ok"]
    /\ Goto(c, "report")
    /\ UNCHANGED <<calendar, points, loop, targets, fetchError, bounds>>

(* Discovery always logs in; otherwise it depends on the token cache. *)
BeginLogin(c) ==
    /\ run[c] = "begin"
    /\ Selected(Mode(c), known) # {} \/ NeedsDiscovery(c)
    /\ Goto(c, "login")
    /\ UNCHANGED <<calendar, points, loop, targets, result, fetchError, bounds>>

BeginCollect(c) ==
    /\ run[c] = "begin"
    /\ Selected(Mode(c), known) # {} /\ ~NeedsDiscovery(c)
    /\ targets' = [targets EXCEPT ![c] = Selected(Mode(c), known)]
    /\ Goto(c, "collect")
    /\ UNCHANGED <<calendar, points, loop, result, fetchError, bounds>>

(* The login answer lists the points of the account.  Each is upserted for    *)
(* itself; an upsert that fails is logged, and the point stays unknown if it  *)
(* was.                                                                     *)
UpsertPoints(missed) ==
    /\ known' = known \cup (Points \ missed)
    /\ IF missed = {} THEN failures' = failures
       ELSE failures < MaxFailures /\ failures' = failures + 1

(* After the login the targets are selected again. *)
LoginOk(c) ==
    /\ run[c] = "login"
    /\ \E missed \in SUBSET Points : UpsertPoints(missed)
    /\ targets' = [targets EXCEPT ![c] = Selected(Mode(c), known')]
    /\ Goto(c, "collect")
    /\ UNCHANGED <<calendar, age, loop, result, fetchError, restarts>>

(* The login fails, or GetMeteringPoints before or after it. *)
RunFails(c) ==
    /\ run[c] \in {"begin", "login"} /\ failures < MaxFailures
    /\ failures' = failures + 1
    /\ \E stored \in SUBSET Points :
           (run[c] = "begin" => stored = {}) /\ known' = known \cup stored
    /\ result' = [result EXCEPT ![c] = "error"]
    /\ Goto(c, "report")
    /\ UNCHANGED <<calendar, age, loop, targets, fetchError, restarts>>

(* ensureToken, for a month fetch whose token is rejected, logs in too; the    *)
(* targets stay the ones selected.                                          *)
Relogin(c) ==
    /\ run[c] = "collect" /\ targets[c] \ NotYet # {}
    /\ \E missed \in SUBSET Points : UpsertPoints(missed)
    /\ UNCHANGED <<calendar, age, loop, runs, fetchError, restarts>>

DropTarget(c, p) == targets' = [targets EXCEPT ![c] = @ \ {p}]

(* Every month of the point is collected, and the point is stamped. *)
PointOk(c) ==
    /\ run[c] = "collect"
    /\ \E p \in targets[c] \ NotYet : age' = [age EXCEPT ![p] = 0] /\ DropTarget(c, p)
    /\ UNCHANGED <<calendar, known, loop, run, result, fetchError, bounds>>

(* getMonthsToCollect finds no month: nothing to fetch, no stamp, no error.    *)
(* A manual fetch may name a month before the first one of any point.        *)
PointIdle(c) ==
    /\ run[c] = "collect"
    /\ \E p \in targets[c] : (p \in NotYet \/ c \in Manuals) /\ DropTarget(c, p)
    /\ UNCHANGED <<calendar, points, loop, run, result, fetchError, bounds>>

(* Some month of the point fails: no stamp, and the run returns an error. *)
PointFails(c) ==
    /\ run[c] = "collect" /\ failures < MaxFailures
    /\ failures' = failures + 1
    /\ \E p \in targets[c] \ NotYet : DropTarget(c, p)
    /\ result' = [result EXCEPT ![c] = "error"]
    /\ UNCHANGED <<calendar, points, loop, run, fetchError, restarts>>

(* A failing UpdateLastCollection is logged: no stamp, yet no error. *)
StampFails(c) ==
    /\ run[c] = "collect" /\ failures < MaxFailures
    /\ failures' = failures + 1
    /\ \E p \in targets[c] \ NotYet : DropTarget(c, p)
    /\ UNCHANGED <<calendar, points, loop, run, result, fetchError, restarts>>

(* The run returns, with nothing left to collect or nothing from the start. *)
EndCollect(c) ==
    /\ run[c] = "collect" /\ targets[c] = {}
    /\ result' = [result EXCEPT ![c] = IF @ = "none" THEN "ok" ELSE @]
    /\ Goto(c, "report")
    /\ UNCHANGED <<calendar, points, loop, targets, fetchError, bounds>>

RunStep(c) ==
    \/ NothingToDo(c) \/ BeginLogin(c) \/ BeginCollect(c)
    \/ LoginOk(c) \/ RunFails(c) \/ Relogin(c)
    \/ PointOk(c) \/ PointIdle(c) \/ PointFails(c) \/ StampFails(c) \/ EndCollect(c)

(* FetchState.Set, by whoever started the run, whatever it returned. *)
Report(c) ==
    /\ run[c] = "report"
    /\ fetchError' = (result[c] = "error")
    /\ result' = [result EXCEPT ![c] = "none"]
    /\ Goto(c, "off")
    /\ UNCHANGED <<calendar, points, targets, bounds>>

-----------------------------------------------------------------------------
(* StartWorker *)

(* Mutant: lastDailyDate starts out empty, whatever the time. *)
StartForgetful ==
    /\ phase = "down"
    /\ phase' = "startup"
    /\ dailyDone' = FALSE
    /\ tickDue' = FALSE
    /\ Goto(Worker, "begin")
    /\ UNCHANGED <<unit, points, dailies, targets, result, fetchError, bounds>>

(* The process starts: past the daily time, today's daily job counts as done. *)
Start ==
    /\ phase = "down"
    /\ phase' = "startup"
    /\ dailyDone' = (unit >= DailyUnit)
    /\ tickDue' = FALSE
    /\ Goto(Worker, "begin")
    /\ UNCHANGED <<unit, points, dailies, targets, result, fetchError, bounds>>

TakeTick ==
    /\ phase = "idle"
    /\ tickDue' = FALSE
    /\ phase' = "pending"
    /\ Goto(Worker, "begin")
    /\ UNCHANGED <<unit, points, dailyDone, dailies, targets, result, fetchError, bounds>>

AfterStartup ==
    /\ phase = "startup" /\ Report(Worker)
    /\ phase' = "idle"
    /\ UNCHANGED <<dailyDone, dailies>>

(* Mutant: the stale points are not looked at. *)
AfterPendingOnly ==
    /\ phase = "pending"
    /\ run[Worker] = "report"
    /\ fetchError' = (result[Worker] = "error")
    /\ result' = [result EXCEPT ![Worker] = "none"]
    /\ Goto(Worker, "off")
    /\ phase' = "check"
    /\ UNCHANGED <<calendar, points, dailyDone, dailies, targets, bounds>>

(* The stale points come after the pending ones, in the same tick. *)
AfterPending ==
    /\ phase = "pending"
    /\ run[Worker] = "report"
    /\ fetchError' = (result[Worker] = "error")
    /\ result' = [result EXCEPT ![Worker] = "none"]
    /\ Goto(Worker, "begin")
    /\ phase' = "stale"
    /\ UNCHANGED <<calendar, points, dailyDone, dailies, targets, bounds>>

AfterStale ==
    /\ phase = "stale" /\ Report(Worker)
    /\ phase' = "check"
    /\ UNCHANGED <<dailyDone, dailies>>

(* The date guard. *)
DailyDue == unit >= DailyUnit /\ ~dailyDone

StartDaily ==
    /\ phase = "check" /\ DailyDue
    /\ dailyDone' = TRUE
    /\ dailies' = dailies + 1
    /\ phase' = "daily"
    /\ Goto(Worker, "begin")
    /\ UNCHANGED <<calendar, points, targets, result, fetchError, bounds>>

SkipDaily ==
    /\ phase = "check" /\ ~DailyDue
    /\ phase' = "idle"
    /\ UNCHANGED <<calendar, points, dailyDone, dailies, runs, fetchError, bounds>>

AfterDaily ==
    /\ phase = "daily" /\ Report(Worker)
    /\ phase' = "idle"
    /\ UNCHANGED <<dailyDone, dailies>>

LoopStep ==
    \/ AfterStartup \/ AfterPending \/ AfterStale
    \/ StartDaily \/ SkipDaily \/ AfterDaily

-----------------------------------------------------------------------------
(* Manual fetches: StartManualFetchWorker starts a run for each. *)
StartManual(c) ==
    /\ phase # "down" /\ run[c] = "off"
    /\ Goto(c, "begin")
    /\ UNCHANGED <<calendar, points, loop, targets, result, fetchError, bounds>>

EndManual(c) == Report(c) /\ UNCHANGED loop

(* Mutant: the manual fetches outlive the process. *)
StopWorkerOnly ==
    /\ phase # "down" /\ restarts < MaxRestarts
    /\ restarts' = restarts + 1
    /\ phase' = "down" /\ tickDue' = FALSE
    /\ Goto(Worker, "off")
    /\ targets' = [c \in Callers |-> {}]
    /\ result' = [c \in Callers |-> "none"]
    /\ fetchError' = FALSE
    /\ UNCHANGED <<unit, points, dailyDone, dailies, failures>>

(* The process is stopped or killed; FetchState lives in memory only. *)
Stop ==
    /\ phase # "down" /\ restarts < MaxRestarts
    /\ restarts' = restarts + 1
    /\ phase' = "down" /\ tickDue' = FALSE
    /\ run' = [c \in Callers |-> "off"]
    /\ targets' = [c \in Callers |-> {}]
    /\ result' = [c \in Callers |-> "none"]
    /\ fetchError' = FALSE
    /\ UNCHANGED <<unit, points, dailyDone, dailies, failures>>

Next ==
    \/ Advance \/ Start \/ Stop \/ TakeTick \/ LoopStep
    \/ RunStep(Worker)
    \/ \E c \in Manuals : StartManual(c) \/ RunStep(c) \/ EndManual(c)

Spec == Init /\ [][Next]_vars

(* The ticker and the clock go on, HEP answers or times out; the process is  *)
(* started again by its service manager.  HEP's tokens expire (worker.go 21-27, *)
(* 556-558): a program that goes on collecting has to log in again, time and   *)
(* again.                                                                   *)
Fairness ==
    /\ WF_vars(Advance) /\ WF_vars(Start) /\ WF_vars(TakeTick)
    /\ WF_vars(LoopStep) /\ WF_vars(RunStep(Worker)) /\ SF_vars(Relogin(Worker))

FairSpec == Spec /\ Fairness

-----------------------------------------------------------------------------
(* Properties *)

(* The daily job starts at most once per calendar day, also when the         *)
(* process is restarted during the day.                                     *)
DailyAtMostOnce == dailies <= 1

(* While nothing has failed and the process has not been stopped, no point   *)
(* goes without a collection for longer than the threshold, the unit it      *)
(* takes the ticker to notice and the unit the run itself may take.          *)
KeptFresh ==
    failures = 0 /\ restarts = 0 =>
        \A p \in known : age[p] # Never => age[p] <= StaleAfter + 2

(* After finitely many failures every point of the account is known and has    *)
(* been collected, unless its first month is still to come: also when the     *)
(* login at startup failed (the daily job discovers, the ticks retry), when    *)
(* the upsert of a point or its stamp failed, and although a run that knows    *)
(* some point no longer discovers the others, which then wait for the next     *)
(* login.  The one way out: the program knows none but points whose first      *)
(* month is still to come, has nothing to fetch and never logs in.            *)
EveryPointIsCollected ==
    \/ <>(\A p \in Points : p \in known /\ (p \in NotYet \/ age[p] # Never))
    \/ <>[](known # {} /\ known \subseteq NotYet)
=============================================================================
