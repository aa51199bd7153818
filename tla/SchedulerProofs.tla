--------------------------- MODULE SchedulerProofs ---------------------------
(***************************************************************************)
(* Machine-checked proofs about Scheduler, for every number of points and of *)
(* overlapping manual fetches, every length of the day, daily hour and       *)
(* threshold: the daily job starts at most once a day, restarts included,    *)
(* and without failures no point grows older than the threshold and two      *)
(* units.                                                                   *)
(***************************************************************************)
EXTENDS Scheduler, TLAPS

USE SchedulerAssumption

-----------------------------------------------------------------------------
(* Type correctness *)

(* The switches of the loop and FetchState. *)
Switches == tickDue \in BOOLEAN /\ dailyDone \in BOOLEAN /\ fetchError \in BOOLEAN

(* Everything else. *)
Types ==
    /\ unit \in 0..(DayLength - 1)
    /\ known \subseteq Points
    /\ age \in [Points -> 0..MaxAge \cup {Never}]
    /\ phase \in Phases
    /\ run \in [Callers -> {"off", "begin", "login", "collect", "report"}]
    /\ targets \in [Callers -> SUBSET Points]
    /\ result \in [Callers -> {"none", "ok", "error"}]
    /\ dailies \in Nat
    /\ failures \in 0..MaxFailures /\ restarts \in 0..MaxRestarts
    /\ \A c \in Callers : targets[c] \subseteq known
    /\ phase = "down" => \A c \in Callers : run[c] = "off"

(* The type invariant in these two parts. *)
LEMMA TypeParts == TypeOK <=> Switches /\ Types
  BY DEF TypeOK, Switches, Types

(* The day after its last unit begins anew. *)
LEMMA NextUnit ==
    ASSUME NEW u \in 0..(DayLength - 1)
    PROVE  (u + 1) % DayLength = IF u + 1 = DayLength THEN 0 ELSE u + 1
  <1>1. DayLength \in Nat \ {0}
    OBVIOUS
  <1>2. ASSUME NEW n \in Nat, NEW k \in Nat, k < n PROVE k % n = k
    BY <1>2
  <1>3. ASSUME NEW n \in Nat \ {0} PROVE n % n = 0
    BY <1>3
  <1> QED BY <1>1, <1>2, <1>3

(* The initial states have the types. *)
LEMMA InitTypeOK == Init => TypeOK
  <1>1. Init => Switches
    BY DEF Init, Switches
  <1>2. Init => Types
    BY DEF Init, Types, Phases
  <1> QED BY <1>1, <1>2, TypeParts

(* Only points that are known are ever selected. *)
LEMMA SelectedKnown == ASSUME NEW mode, NEW ps PROVE Selected(mode, ps) \subseteq ps
  BY DEF Selected

(* The points of a login answer: none is forgotten, and unless an upsert fails all *)
(* are known. *)
LEMMA UpsertTypes ==
    ASSUME TypeOK, NEW missed \in SUBSET Points, UpsertPoints(missed)
    PROVE  /\ known \subseteq known' /\ known' \subseteq Points
           /\ failures' \in {failures, failures + 1} /\ failures' \in 0..MaxFailures
  BY DEF TypeOK, UpsertPoints

(* A step of a collection keeps the types. *)
LEMMA RunStepTypeOK ==
    ASSUME TypeOK, NEW c \in Callers, RunStep(c) PROVE TypeOK'
  <1> USE DEF TypeOK, Goto, calendar, points, loop, bounds
  <1>1. CASE NothingToDo(c)
    BY <1>1 DEF NothingToDo
  <1>2. CASE BeginLogin(c)
    BY <1>2 DEF BeginLogin
  <1>3. CASE BeginCollect(c)
    BY <1>3, SelectedKnown DEF BeginCollect
  <1>4. CASE LoginOk(c)
    <2>1. PICK missed \in SUBSET Points : UpsertPoints(missed)
      BY <1>4 DEF LoginOk
    <2>2. known \subseteq known' /\ known' \subseteq Points /\ failures' \in 0..MaxFailures
      BY <2>1, UpsertTypes
    <2> QED BY <1>4, <2>2, SelectedKnown DEF LoginOk
  <1>5. CASE RunFails(c)
    BY <1>5 DEF RunFails
  <1>6. CASE PointOk(c)
    BY <1>6 DEF PointOk, MaxAge, DropTarget
  <1>7. CASE PointIdle(c) \/ PointFails(c) \/ StampFails(c)
    BY <1>7 DEF PointIdle, PointFails, StampFails, DropTarget
  <1>8. CASE EndCollect(c)
    BY <1>8 DEF EndCollect
  <1>9. CASE Relogin(c)
    <2>1. PICK missed \in SUBSET Points : UpsertPoints(missed)
      BY <1>9 DEF Relogin
    <2>2. known \subseteq known' /\ known' \subseteq Points /\ failures' \in 0..MaxFailures
      BY <2>1, UpsertTypes
    <2> QED BY <1>9, <2>2 DEF Relogin, runs
  <1> QED BY <1>1, <1>2, <1>3, <1>4, <1>5, <1>6, <1>7, <1>8, <1>9 DEF RunStep

(* The switches take truth values only. *)
LEMMA NextSwitches == ASSUME Switches, [Next]_vars PROVE Switches'
  <1> USE DEF Switches, calendar, points, loop, runs, bounds
  <1>1. CASE Advance
    BY <1>1 DEF Advance
  <1>2. CASE Start
    <2>1. (unit >= DailyUnit) \in BOOLEAN
      OBVIOUS
    <2> QED BY <1>2, <2>1 DEF Start
  <1>7. CASE Stop \/ TakeTick
    BY <1>7 DEF Stop, TakeTick
  <1>3. CASE LoopStep
    BY <1>3 DEF LoopStep, AfterStartup, AfterPending, AfterStale, AfterDaily, StartDaily,
       SkipDaily, Report
  <1>4. ASSUME NEW c, RunStep(c) PROVE Switches'
    BY <1>4 DEF RunStep, NothingToDo, BeginLogin, BeginCollect, LoginOk, UpsertPoints, RunFails,
       Relogin, PointOk, PointIdle, PointFails, StampFails, EndCollect
  <1>5. ASSUME NEW c, StartManual(c) \/ EndManual(c) PROVE Switches'
    BY <1>5 DEF StartManual, EndManual, Report
  <1>6. CASE UNCHANGED vars
    BY <1>6 DEF vars
  <1> QED BY <1>1, <1>2, <1>3, <1>4, <1>5, <1>6, <1>7 DEF Next

(* Every step keeps the types. *)
LEMMA NextTypeOK == ASSUME TypeOK, [Next]_vars PROVE TypeOK'
  <1>a. Switches'
    BY TypeParts, NextSwitches
  <1> SUFFICES Types'
    BY <1>a DEF TypeOK, Switches, Types
  <1> USE DEF Types, Phases, calendar, points, loop, runs, bounds
  <1>0. Types /\ Worker \in Callers /\ Manuals \subseteq Callers
    BY TypeParts DEF Callers
  <1>1. CASE Advance
    <2>1. age' \in [Points -> 0..MaxAge \cup {Never}]
      BY <1>0, <1>1 DEF Advance, MaxAge
    <2>2. unit' \in 0..(DayLength - 1) /\ dailies' \in Nat
      BY <1>0, <1>1, NextUnit DEF Advance
    <2> QED BY <1>0, <1>1, <2>1, <2>2 DEF Advance
  <1>2. CASE Start \/ TakeTick
    BY <1>0, <1>2 DEF Start, TakeTick, Goto
  <1>3. CASE Stop
    BY <1>0, <1>3 DEF Stop
  <1>4. ASSUME NEW c \in Callers, Report(c), phase' \in Phases \ {"down"},
               UNCHANGED dailies
        PROVE  Types'
    BY <1>0, <1>4 DEF Report, Goto
  <1>5. CASE AfterStartup \/ AfterStale \/ AfterDaily
    BY <1>0, <1>4, <1>5 DEF AfterStartup, AfterStale, AfterDaily
  <1>6. CASE AfterPending
    BY <1>0, <1>6 DEF AfterPending, Goto
  <1>7. CASE StartDaily \/ SkipDaily
    BY <1>0, <1>7 DEF StartDaily, SkipDaily, Goto
  <1>8. ASSUME NEW c \in Manuals, StartManual(c) \/ EndManual(c) PROVE Types'
    BY <1>0, <1>8 DEF StartManual, EndManual, Report, Goto
  <1>9. CASE UNCHANGED vars
    BY <1>0, <1>9 DEF vars
  <1> HIDE DEF Types
  <1>10. ASSUME NEW c \in Callers, RunStep(c) PROVE Types'
    BY <1>10, RunStepTypeOK DEF TypeOK, Types
  <1> QED
    BY <1>0, <1>1, <1>2, <1>3, <1>5, <1>6, <1>7, <1>8, <1>9, <1>10 DEF Next, LoopStep

(* Every variable keeps its type; a run collects known points only, and none is  *)
(* at work while the process is down. *)
THEOREM SchedulerTypeCorrectness == Spec => []TypeOK
  BY InitTypeOK, NextTypeOK, PTL DEF Spec

-----------------------------------------------------------------------------
(* The daily job *)

(* Once today's job has started the daily hour is past, so that a process that  *)
(* is started again takes it for done. *)
DailyInv ==
    /\ dailies <= 1
    /\ dailies = 1 => unit >= DailyUnit /\ (phase # "down" => dailyDone)

(* A step of a collection does not touch the loop. *)
LEMMA RunStepLoop ==
    ASSUME NEW c, RunStep(c) PROVE UNCHANGED <<calendar, loop, restarts>>
  BY DEF RunStep, NothingToDo, BeginLogin, BeginCollect, LoginOk, UpsertPoints, RunFails,
     Relogin, PointOk, PointIdle, PointFails, StampFails, EndCollect, runs, bounds

(* The daily job starts at most once per calendar day, with any number of         *)
(* restarts during the day and whatever fails. *)
THEOREM DailyJobOnce == Spec => []DailyAtMostOnce
  <1>1. Init => DailyInv
    BY DEF Init, DailyInv
  <1>2. ASSUME TypeOK, DailyInv, [Next]_vars PROVE DailyInv'
    <2> USE DEF DailyInv, TypeOK, calendar, loop
    <2>1. CASE Advance
      <3>1. unit' # 0 => unit' = unit + 1
        BY <1>2, <2>1, NextUnit DEF Advance
      <3>2. unit' = 0 => dailies' = 0
        BY <2>1 DEF Advance
      <3>3. unit' # 0 => dailies' = dailies /\ phase' = phase
        BY <2>1 DEF Advance
      <3>5. unit' # 0 /\ dailyDone => dailyDone'
        BY <2>1 DEF Advance
      <3>4. unit \in Nat
        BY <1>2
      <3> QED BY <1>2, <3>1, <3>2, <3>3, <3>4, <3>5
    <2>2. CASE Start
      <3>1. dailyDone' = (unit >= DailyUnit) /\ UNCHANGED <<unit, dailies>>
        BY <2>2 DEF Start
      <3> QED BY <1>2, <3>1
    <2>3. CASE StartDaily
      <3>1. dailies = 0
        BY <1>2, <2>3 DEF StartDaily, DailyDue
      <3> QED BY <1>2, <2>3, <3>1 DEF StartDaily, DailyDue
    <2>4. ASSUME UNCHANGED <<unit, dailies, dailyDone>>, phase = "down" => phase' = "down"
          PROVE  DailyInv'
      BY <1>2, <2>4
    <2>5. CASE Stop \/ TakeTick \/ SkipDaily \/ UNCHANGED vars
      BY <2>4, <2>5 DEF Stop, TakeTick, SkipDaily, vars
    <2>6. CASE AfterStartup \/ AfterPending \/ AfterStale \/ AfterDaily
      BY <2>4, <2>6 DEF AfterStartup, AfterPending, AfterStale, AfterDaily, Report
    <2>7. ASSUME NEW c, RunStep(c) \/ StartManual(c) \/ EndManual(c) PROVE DailyInv'
      BY <2>4, <2>7, RunStepLoop DEF StartManual, EndManual, Report
    <2> QED BY <1>2, <2>1, <2>2, <2>3, <2>5, <2>6, <2>7 DEF Next, LoopStep
  <1>3. DailyInv => DailyAtMostOnce
    BY DEF DailyInv, DailyAtMostOnce
  <1> QED BY <1>1, <1>2, <1>3, SchedulerTypeCorrectness, PTL DEF Spec

-----------------------------------------------------------------------------
(* The ages of the points *)

(* A run has targets only while it collects; the worker's loop waits for its own *)
(* run; a point that is not known, or whose time has not come, has never been  *)
(* collected.                                                              *)
RunInv ==
    /\ \A c \in Callers : run[c] # "collect" => targets[c] = {}
    /\ phase \in {"idle", "check"} => run[Worker] = "off"
    /\ \A p \in Points \ known : age[p] = Never
    /\ \A p \in NotYet : age[p] = Never

(* A step of a collection selects, collects and gives up targets. *)
LEMMA RunStepRunInv ==
    ASSUME TypeOK, RunInv, NEW c \in Callers, RunStep(c) PROVE RunInv'
  <1> USE DEF RunInv, TypeOK, Goto, points, loop
  <1>0. Worker \in Callers
    BY DEF Callers
  <1>1. CASE NothingToDo(c)
    BY <1>0, <1>1 DEF NothingToDo
  <1>2. CASE BeginLogin(c)
    BY <1>0, <1>2 DEF BeginLogin
  <1>3. CASE BeginCollect(c)
    BY <1>0, <1>3, SelectedKnown DEF BeginCollect
  <1>4. CASE LoginOk(c)
    <2>1. PICK missed \in SUBSET Points : UpsertPoints(missed)
      BY <1>4 DEF LoginOk
    <2>2. known \subseteq known'
      BY <2>1, UpsertTypes
    <2> QED BY <1>0, <1>4, <2>2 DEF LoginOk
  <1>5. CASE RunFails(c)
    BY <1>0, <1>5 DEF RunFails
  <1>6. CASE PointOk(c)
    BY <1>6 DEF PointOk, DropTarget
  <1>7. CASE PointIdle(c) \/ PointFails(c) \/ StampFails(c)
    BY <1>7 DEF PointIdle, PointFails, StampFails, DropTarget
  <1>8. CASE EndCollect(c)
    BY <1>0, <1>8 DEF EndCollect
  <1>9. CASE Relogin(c)
    <2>1. PICK missed \in SUBSET Points : UpsertPoints(missed)
      BY <1>9 DEF Relogin
    <2>2. known \subseteq known'
      BY <2>1, UpsertTypes
    <2> QED BY <1>9, <2>2 DEF Relogin, runs
  <1> QED BY <1>1, <1>2, <1>3, <1>4, <1>5, <1>6, <1>7, <1>8, <1>9 DEF RunStep

(* Every step. *)
LEMMA NextRunInv == ASSUME TypeOK, RunInv, [Next]_vars PROVE RunInv'
  <1>0. Worker \in Callers /\ Manuals \subseteq Callers
    BY DEF Callers
  <1>1. ASSUME UNCHANGED <<known, age, targets>>,
               \A c \in Callers : run'[c] = "collect" => run[c] = "collect",
               \A c \in Callers : run[c] = "collect" => run'[c] = "collect" \/ targets[c] = {},
               phase' \in {"idle", "check"} => run'[Worker] = "off"
        PROVE  RunInv'
    BY <1>1 DEF RunInv
  <1> USE <1>0 DEF points, loop, runs, Goto
  <1>2. CASE Advance
    BY <1>2 DEF Advance, RunInv, TypeOK
  <1>3. CASE Stop
    BY <1>3 DEF Stop, RunInv
  <1>4. CASE Start \/ TakeTick \/ StartDaily
    BY <1>1, <1>4 DEF Start, TakeTick, StartDaily, RunInv, TypeOK
  <1>5. CASE AfterPending \/ SkipDaily \/ UNCHANGED vars
    BY <1>1, <1>5 DEF AfterPending, SkipDaily, vars, RunInv, TypeOK
  <1>6. CASE AfterStartup \/ AfterStale \/ AfterDaily
    BY <1>1, <1>6 DEF AfterStartup, AfterStale, AfterDaily, Report, TypeOK
  <1>7. ASSUME NEW c \in Manuals, StartManual(c) \/ EndManual(c) PROVE RunInv'
    BY <1>1, <1>7 DEF StartManual, EndManual, Report, RunInv, TypeOK
  <1> QED
    BY <1>2, <1>3, <1>4, <1>5, <1>6, <1>7, RunStepRunInv DEF Next, LoopStep

(* The unit that has begun since the worker's last tick. *)
Late == IF tickDue THEN 1 ELSE 0

(* The tick that may yet find point p to be stale is under way, or has found it   *)
(* so.                                                                     *)
AwaitsStale(p) ==
    \/ phase = "pending"
    \/ phase = "stale" /\ (run[Worker] \in {"begin", "login"} \/ p \in targets[Worker])

(* How old a point may be, the unit that has just begun apart. *)
Limit(p) ==
    IF phase = "startup" THEN 0
    ELSE IF AwaitsStale(p) THEN StaleAfter + 1 ELSE StaleAfter

Fresh(p) == age[p] # Never => age[p] <= Limit(p) + Late

(* Nothing is known before the first start; afterwards each tick finds the points *)
(* beyond the threshold and collects them before the next.                   *)
FreshInv ==
    failures = 0 /\ restarts = 0 =>
        /\ phase = "down" => known = {}
        /\ \A p \in known : Fresh(p)

(* The limits are those of the threshold. *)
LEMMA LimitType == \A p : Limit(p) \in {0, StaleAfter, StaleAfter + 1}
  BY DEF Limit

(* A collection changes the age of a point to zero only, and points it discovers  *)
(* have none yet. *)
LEMMA RunStepAges ==
    ASSUME TypeOK, RunInv, NEW c \in Callers, RunStep(c)
    PROVE  /\ UNCHANGED <<tickDue, phase, restarts>>
           /\ \A p \in Points : age'[p] \in {age[p], 0}
           /\ \A p \in known' : p \in known \/ age'[p] = Never
           /\ \A a \in Callers \ {c} : run'[a] = run[a] /\ targets'[a] = targets[a]
           /\ known' \subseteq Points
  <1> USE DEF TypeOK, RunInv, Goto, calendar, points, loop, bounds
  <1>1. CASE NothingToDo(c) \/ BeginLogin(c) \/ BeginCollect(c) \/ EndCollect(c)
    BY <1>1 DEF NothingToDo, BeginLogin, BeginCollect, EndCollect
  <1>2. CASE LoginOk(c) \/ RunFails(c) \/ Relogin(c)
    BY <1>2 DEF LoginOk, RunFails, Relogin, UpsertPoints, runs
  <1>3. CASE PointOk(c)
    BY <1>3 DEF PointOk, DropTarget
  <1>4. CASE PointIdle(c) \/ PointFails(c) \/ StampFails(c)
    BY <1>4 DEF PointIdle, PointFails, StampFails, DropTarget
  <1> QED BY <1>1, <1>2, <1>3, <1>4 DEF RunStep

(* In the stale phase the worker collects exactly the points beyond the threshold. *)
LEMMA StaleStepFresh ==
    ASSUME TypeOK, RunInv, phase = "stale", RunStep(Worker), failures' = 0,
           NEW p \in known, Fresh(p)
    PROVE  Fresh(p)'
  <1> DEFINE Collecting == \/ PointOk(Worker) \/ PointIdle(Worker)
                           \/ Relogin(Worker) \/ EndCollect(Worker)
  <1>0. /\ Worker \in Callers /\ p \in Points /\ phase' = "stale" /\ Late' = Late
        /\ Mode(Worker) = "stale" /\ age'[p] \in {age[p], 0}
    BY RunStepAges DEF Callers, Mode, TypeOK, Late
  <1>1. Late \in {0, 1}
    BY DEF Late
  <1>2. Limit(p)' \in {StaleAfter, StaleAfter + 1}
    BY <1>0 DEF Limit
  <1>3. CASE age'[p] = 0
    BY <1>0, <1>1, <1>2, <1>3 DEF Fresh
  <1>4. CASE age'[p] = age[p] /\ age[p] \notin Nat
    BY <1>4 DEF Fresh, TypeOK
  <1>a. ~RunFails(Worker) /\ ~PointFails(Worker) /\ ~StampFails(Worker)
    BY DEF RunFails, PointFails, StampFails, TypeOK
  <1>5. CASE age[p] \in Nat /\ age'[p] = age[p] /\ Collecting
    <2>0. p \notin NotYet /\ Worker \notin Manuals
      BY <1>5 DEF RunInv
    <2>1. run[Worker] = "collect" /\ run'[Worker] \in {"collect", "report"}
      BY <1>0, <1>5 DEF PointOk, PointIdle, Relogin, EndCollect, Goto, runs, TypeOK
    <2>2. age'[p] = 0 \/ (p \in targets[Worker] => p \in targets'[Worker])
      <3>1. CASE PointOk(Worker)
        BY <1>0, <3>1 DEF PointOk, DropTarget, TypeOK
      <3>2. CASE PointIdle(Worker)
        BY <1>0, <2>0, <3>2 DEF PointIdle, DropTarget, TypeOK
      <3>3. CASE Relogin(Worker) \/ EndCollect(Worker)
        BY <3>3 DEF Relogin, EndCollect, runs
      <3> QED BY <1>5, <3>1, <3>2, <3>3
    <2>3. age'[p] = 0 \/ Limit(p) <= Limit(p)'
      BY <1>0, <2>1, <2>2 DEF Limit, AwaitsStale
    <2>4. Limit(p) \in Nat
      BY LimitType
    <2> QED BY <1>0, <1>1, <1>2, <1>3, <1>5, <2>3, <2>4 DEF Fresh
  <1>6. CASE age[p] \in Nat /\ age'[p] = age[p] /\ ~Collecting
    <2>1. CASE age[p] <= StaleAfter
      BY <1>0, <1>1, <1>2, <1>6, <2>1 DEF Fresh
    <2>2. CASE age[p] > StaleAfter
      <3>1. \A ps : p \in ps => p \in Selected("stale", ps)
        BY <1>6, <2>2 DEF Selected
      <3>2. AwaitsStale(p)'
        <4> USE <1>0 DEF AwaitsStale, TypeOK, Goto
        <4>1. ~NothingToDo(Worker)
          BY <3>1 DEF NothingToDo
        <4>2. CASE BeginLogin(Worker)
          BY <4>2 DEF BeginLogin
        <4>3. CASE BeginCollect(Worker)
          BY <3>1, <4>3 DEF BeginCollect
        <4>4. CASE LoginOk(Worker)
          <5>1. p \in known'
            BY <4>4, UpsertTypes DEF LoginOk
          <5> QED BY <3>1, <4>4, <5>1 DEF LoginOk
        <4> QED BY <1>6, <1>a, <4>1, <4>2, <4>3, <4>4 DEF RunStep
      <3>3. Limit(p)' = StaleAfter + 1
        BY <1>0, <3>2 DEF Limit
      <3>4. Limit(p) <= StaleAfter + 1 /\ Limit(p) \in Nat
        BY LimitType
      <3> QED BY <1>0, <1>1, <1>6, <3>3, <3>4 DEF Fresh
    <2> QED BY <1>6, <2>1, <2>2
  <1> QED BY <1>0, <1>3, <1>4, <1>5, <1>6

(* Every step of a run, the worker's or a manual one. *)
LEMMA RunStepFresh ==
    ASSUME TypeOK, RunInv, FreshInv, NEW c \in Callers, RunStep(c)
    PROVE  FreshInv'
  <1>1. phase # "down"
    BY DEF TypeOK, RunStep, NothingToDo, BeginLogin, BeginCollect, LoginOk, RunFails,
       Relogin, PointOk, PointIdle, PointFails, StampFails, EndCollect
  <1> SUFFICES ASSUME failures' = 0, restarts' = 0, NEW p \in known' PROVE Fresh(p)'
    BY <1>1, RunStepLoop DEF FreshInv, loop
  <1>2. failures = 0 /\ restarts = 0
    <2>1. failures' \in {failures, failures + 1} /\ restarts' = restarts
      <3>1. CASE LoginOk(c) \/ Relogin(c)
        BY <3>1, UpsertTypes DEF LoginOk, Relogin
      <3> QED
        BY <3>1 DEF RunStep, NothingToDo, BeginLogin, BeginCollect, RunFails, PointOk,
           PointIdle, PointFails, StampFails, EndCollect, bounds
    <2> QED BY <2>1 DEF TypeOK
  <1>3. /\ UNCHANGED <<tickDue, phase>> /\ Worker \in Callers
        /\ p \in Points /\ age'[p] \in {age[p], 0} /\ (p \in known \/ age'[p] = Never)
        /\ Worker # c => run'[Worker] = run[Worker] /\ targets'[Worker] = targets[Worker]
    BY RunStepAges DEF Callers
  <1>4. CASE p \notin known
    BY <1>3, <1>4 DEF Fresh
  <1>5. CASE p \in known /\ c = Worker /\ phase = "stale"
    BY <1>2, <1>5, StaleStepFresh DEF FreshInv
  <1>6. CASE p \in known /\ ~(c = Worker /\ phase = "stale")
    <2>1. Limit(p)' = Limit(p) /\ Late' = Late
      BY <1>3, <1>6 DEF Limit, AwaitsStale, Late
    <2>2. Fresh(p)
      BY <1>2, <1>6 DEF FreshInv
    <2>3. Limit(p) \in Nat /\ Late \in {0, 1}
      BY LimitType DEF Late
    <2> QED BY <1>3, <2>1, <2>2, <2>3 DEF Fresh
  <1> QED BY <1>4, <1>5, <1>6

(* A step of the loop that leaves the ages alone and lowers no limit. *)
LEMMA LoopFresh ==
    ASSUME FreshInv, UNCHANGED <<known, age, failures, restarts>>, phase' # "down",
           \A p \in known : Limit(p) + Late <= Limit(p)' + Late',
           age \in [Points -> Nat \cup {Never}], known \subseteq Points
    PROVE  FreshInv'
  <1> SUFFICES ASSUME failures = 0, restarts = 0, NEW p \in known PROVE Fresh(p)'
    BY DEF FreshInv
  <1>1. /\ Limit(p) \in Nat /\ Late \in Nat /\ Limit(p)' \in Nat /\ Late' \in Nat
        /\ p \in Points
    BY DEF Limit, Late
  <1>2. Fresh(p)
    BY DEF FreshInv
  <1> QED BY <1>1, <1>2 DEF Fresh

(* Every step. *)
LEMMA NextFresh == ASSUME TypeOK, RunInv, FreshInv, [Next]_vars PROVE FreshInv'
  <1>0. /\ Worker \in Callers /\ Manuals \subseteq Callers
        /\ age \in [Points -> Nat \cup {Never}] /\ known \subseteq Points
    BY DEF Callers, TypeOK, MaxAge
  <1> USE <1>0 DEF points, loop, bounds, runs, Goto
  <1>1. CASE Advance
    <2> SUFFICES ASSUME failures = 0, restarts = 0, phase # "down", NEW p \in known
                 PROVE  Fresh(p)'
      BY <1>1 DEF Advance, FreshInv
    <2>1. p \in Points /\ Fresh(p)
      BY DEF FreshInv
    <2>2. Limit(p)' = Limit(p) /\ Limit(p) \in Nat
      BY <1>1, LimitType DEF Advance, Limit, AwaitsStale
    <2>3. Late = 0 /\ Late' = 1
      BY <1>1 DEF Advance, Late
    <2>4. age[p] \in Nat => age'[p] \in {age[p], age[p] + 1}
      BY <1>1, <2>1 DEF Advance
    <2>5. age[p] = Never => age'[p] = Never
      BY <1>1, <2>1 DEF Advance
    <2> QED BY <2>1, <2>2, <2>3, <2>4, <2>5 DEF Fresh
  <1>2. CASE Start
    BY <1>2 DEF Start, FreshInv
  <1>3. CASE Stop
    BY <1>3 DEF Stop, FreshInv, TypeOK
  <1>4. CASE TakeTick
    <2>1. \A p : Limit(p) = StaleAfter /\ Limit(p)' = StaleAfter + 1
      BY <1>4 DEF TakeTick, Limit, AwaitsStale
    <2>2. Late \in {0, 1} /\ Late' = 0
      BY <1>4 DEF TakeTick, Late
    <2>3. UNCHANGED <<known, age, failures, restarts>> /\ phase' # "down"
      BY <1>4 DEF TakeTick
    <2> QED BY <2>1, <2>2, <2>3, LoopFresh
  <1>5. CASE LoopStep
    <2>1. UNCHANGED <<known, age, failures, restarts, tickDue>> /\ phase' # "down"
      BY <1>5 DEF LoopStep, AfterStartup, AfterPending, AfterStale, AfterDaily, StartDaily,
         SkipDaily, Report, calendar
    <2>2. Late' = Late /\ Late \in {0, 1}
      BY <2>1 DEF Late
    <2>3. CASE AfterStartup
      BY <2>1, <2>2, <2>3, LoopFresh DEF AfterStartup, Limit, AwaitsStale
    <2>4. CASE AfterPending
      BY <2>1, <2>2, <2>4, LoopFresh DEF AfterPending, Limit, AwaitsStale, TypeOK
    <2>5. CASE AfterStale
      <3>1. targets[Worker] = {} /\ run[Worker] = "report"
        BY <2>5 DEF AfterStale, Report, RunInv
      <3>2. \A p : Limit(p) = StaleAfter /\ Limit(p)' = StaleAfter
        BY <2>5, <3>1 DEF AfterStale, Limit, AwaitsStale
      <3> QED BY <2>1, <2>2, <3>2, LoopFresh
    <2>6. CASE StartDaily \/ SkipDaily \/ AfterDaily
      <3>1. \A p : Limit(p) = StaleAfter /\ Limit(p)' = StaleAfter
        BY <2>6 DEF StartDaily, SkipDaily, AfterDaily, Limit, AwaitsStale
      <3> QED BY <2>1, <2>2, <3>1, LoopFresh
    <2> QED BY <1>5, <2>3, <2>4, <2>5, <2>6 DEF LoopStep
  <1>6. ASSUME NEW c \in Manuals, StartManual(c) \/ EndManual(c) PROVE FreshInv'
    <2>1. /\ UNCHANGED <<known, age, failures, restarts, tickDue, phase, targets>>
          /\ run'[Worker] = run[Worker]
      BY <1>6 DEF StartManual, EndManual, Report, calendar, TypeOK
    <2> QED BY <2>1 DEF FreshInv, Fresh, Limit, AwaitsStale, Late
  <1>7. CASE UNCHANGED vars
    BY <1>7 DEF vars, FreshInv, Fresh, Limit, AwaitsStale, Late, calendar
  <1> QED
    BY <1>1, <1>2, <1>3, <1>4, <1>5, <1>6, <1>7, RunStepFresh DEF Next

(* While nothing has failed and the process has not been stopped, no point goes   *)
(* without a collection for longer than the threshold, the unit in which the    *)
(* ticker notices and the unit the run may take: for any threshold, and however *)
(* many manual fetches overlap with the worker's runs.                       *)
THEOREM PointsStayFresh == Spec => []KeptFresh
  <1>1. Init => RunInv /\ FreshInv
    BY DEF Init, RunInv, FreshInv
  <1>2. TypeOK /\ RunInv /\ FreshInv /\ [Next]_vars => RunInv' /\ FreshInv'
    BY NextRunInv, NextFresh
  <1>3. TypeOK /\ FreshInv => KeptFresh
    <2> SUFFICES ASSUME TypeOK, FreshInv, failures = 0, restarts = 0, NEW p \in known,
                        age[p] # Never
                 PROVE  age[p] <= StaleAfter + 2
      BY DEF KeptFresh
    <2>1. age[p] \in Nat /\ age[p] <= Limit(p) + Late
      BY DEF FreshInv, Fresh, TypeOK, MaxAge
    <2> QED BY <2>1, LimitType DEF Late
  <1> QED BY <1>1, <1>2, <1>3, SchedulerTypeCorrectness, PTL DEF Spec
=============================================================================
