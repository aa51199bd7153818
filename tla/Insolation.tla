------------------------------ MODULE Insolation ------------------------------
(***************************************************************************)
(* The weather of one metering point (worker.go 708-747, openmeteo.go,     *)
(* repository.go 562-624) as the runs of a collection fetch it. A run has  *)
(* the coordinates and the stamp it read at its start; its months are      *)
(* fetched at the same time. The archive lags behind by days.              *)
(***************************************************************************)
EXTENDS Geocode

CONSTANTS
    DaysPerMonth,
    NMonths,        \* the calendar ends after so many months
    None,           \* never collected
    ManualMonths,   \* the months somebody fetches by hand
    ArchiveLag,     \* the archive is at most so many days behind yesterday
    Padding         \* whether it answers the days it lacks with null

ASSUME InsolationAssumption ==
    {DaysPerMonth, NMonths} \subseteq Nat \ {0} /\ ArchiveLag \in Nat /\ Padding \subseteq BOOLEAN

VARIABLES
    today,
    archived,   \* the archive has the days before this one
    insolation, \* daily_insolation: day -> "measured" or "blank"
    stamp,      \* the month of last_meter_reading_collection, or None
    run
weatherVars == <<today, archived, insolation, stamp, run>>
vars == <<geoVars, weatherVars>>

Days == 0 .. (NMonths * DaysPerMonth - 1)
Months == 0 .. (NMonths - 1)
MonthOf(d) == d \div DaysPerMonth
DaysOf(m) == (m * DaysPerMonth) .. ((m + 1) * DaysPerMonth - 1)

IsStored(m) == DaysOf(m) \subseteq DOMAIN insolation

Init ==
    /\ GeoInit
    /\ today = 0
    /\ archived = 0
    /\ insolation = <<>>
    /\ stamp = None
    /\ run = [pc |-> "idle"]

NextDay ==
    /\ today + 1 \in Days
    /\ today - archived <= ArchiveLag
    /\ today' = today + 1
    /\ UNCHANGED <<geoVars, archived, insolation, stamp, run>>

Archive ==
    /\ archived < today
    /\ archived' = archived + 1
    /\ UNCHANGED <<geoVars, today, insolation, stamp, run>>

-----------------------------------------------------------------------------
(* A run.                                                                    *)

\* getMonthsToCollect, from the stamp's month to that of the reference time.
MonthsToCollect(ref) ==
    LET first == IF stamp = None THEN 0 ELSE stamp
    IN IF first >= ref THEN {ref} ELSE first .. ref

StartRun(ref) ==
    /\ run.pc # "run"
    /\ run' = [pc |-> "run", located |-> located, ok |-> TRUE, archived |-> archived,
               jobs |-> [m \in MonthsToCollect(ref) |-> [pc |-> "count"]]]
    /\ UNCHANGED <<geoVars, today, archived, insolation, stamp>>

\* Scheduled runs refer to yesterday; a manual fetch to a month so far.
StartScheduled == today > 0 /\ StartRun(MonthOf(today - 1))
StartManual == \E m \in ManualMonths \cap 0 .. MonthOf(today) : StartRun(m)

JobAt(m, pc) == run.pc = "run" /\ m \in DOMAIN run.jobs /\ run.jobs[m].pc = pc
Continue(m, job) == run' = [run EXCEPT !.jobs[m] = job]
Abandon(m) == run' = [run EXCEPT !.jobs[m] = [pc |-> "done"], !.ok = FALSE]

\* Mutant: one stored day is enough.
SkipAtOnce(m) == m < MonthOf(today) /\ \E d \in DaysOf(m) : d \in DOMAIN insolation

\* A past month is left alone once all of its days are stored.
Skip(m) == m < MonthOf(today) /\ IsStored(m)

Count(m) ==
    /\ JobAt(m, "count")
    /\ Continue(m, [pc |-> IF ~run.located \/ Skip(m) THEN "done" ELSE "fetch"])
    /\ UNCHANGED <<geoVars, today, archived, insolation, stamp>>

\* Without the count the month is fetched.
CountFails(m) ==
    /\ JobAt(m, "count")
    /\ run.located
    /\ faults < MaxFaults
    /\ faults' = faults + 1
    /\ Continue(m, [pc |-> "fetch"])
    /\ UNCHANGED <<located, backoff, call, today, archived, insolation, stamp>>

\* Mutant: the whole month is asked for.
AskedForWhole(m) == DaysOf(m)

\* Up to yesterday; nothing of a month that begins today.
AskedFor(m) == {d \in DaysOf(m) : d < today}

Answer(m, padding) ==
    [d \in {d \in AskedFor(m) : padding \/ d < archived} |->
        IF d < archived THEN "measured" ELSE "blank"]

Fetch(m) ==
    /\ JobAt(m, "fetch")
    /\ \E padding \in Padding :
          LET answer == Answer(m, padding)
          IN Continue(m, IF DOMAIN answer = {} THEN [pc |-> "done"]
                         ELSE [pc |-> "store", answer |-> answer])
    /\ UNCHANGED <<geoVars, today, archived, insolation, stamp>>

\* UpsertDailyInsolation, one transaction: what is answered replaces what is stored.
Upserted(answer) ==
    [d \in DOMAIN insolation \cup DOMAIN answer |->
        IF d \in DOMAIN answer THEN answer[d] ELSE insolation[d]]

Store(m) ==
    /\ JobAt(m, "store")
    /\ insolation' = Upserted(run.jobs[m].answer)
    /\ Continue(m, [pc |-> "done"])
    /\ UNCHANGED <<geoVars, today, archived, stamp>>

\* A failed request or transaction is logged, and the run goes on.
JobFails(m) ==
    /\ JobAt(m, "fetch") \/ JobAt(m, "store")
    /\ faults < MaxFaults
    /\ faults' = faults + 1
    /\ Abandon(m)
    /\ UNCHANGED <<located, backoff, call, today, archived, insolation, stamp>>

\* The run ends with its last month; it is stamped if the readings are had. Of a
\* run that had no failure it is remembered what it was about.
EndRun(stamped) ==
    /\ run.pc = "run"
    /\ \A m \in DOMAIN run.jobs : run.jobs[m].pc = "done"
    /\ run' = IF run.located /\ run.ok
              THEN [pc |-> "ended", archived |-> run.archived, months |-> DOMAIN run.jobs]
              ELSE [pc |-> "idle"]
    /\ stamp' = IF stamped THEN MonthOf(today) ELSE stamp
    /\ UNCHANGED <<geoVars, today, archived, insolation>>

RunStep ==
    \/ StartScheduled \/ StartManual
    \/ \E m \in Months : Count(m) \/ CountFails(m) \/ Fetch(m) \/ Store(m) \/ JobFails(m)
    \/ \E stamped \in BOOLEAN : EndRun(stamped)

\* A restart ends the run as well.
Crash == Restart /\ run' = [pc |-> "idle"] /\ UNCHANGED <<today, archived, insolation, stamp>>

GeoStep ==
    /\ BackoffPasses \/ \E l \in Logins : LoginStep(l)
    /\ UNCHANGED weatherVars

Next == NextDay \/ Archive \/ RunStep \/ GeoStep \/ Crash

\* HEP ends every session sooner or later, so there is always another login;
\* a geocoder that is asked again and again finds the address in the end.
Spec ==
    /\ Init /\ [][Next]_vars
    /\ WF_vars(BackoffPasses /\ UNCHANGED weatherVars)
    /\ \A l \in Logins :
          /\ WF_vars(LoginStep(l) /\ UNCHANGED weatherVars)
          /\ SF_vars(AskFinds(l) /\ UNCHANGED weatherVars)

-----------------------------------------------------------------------------
(* Properties.                                                               *)

\* Types; no day is stored before it is over, so that a month which is not
\* over never counts as complete (openmeteo.go 31-40).
TypeOK ==
    /\ GeoTypeOK
    /\ today \in Days /\ archived \in 0 .. today
    /\ DOMAIN insolation \subseteq 0 .. (today - 1)
    /\ stamp \in {None} \cup 0 .. MonthOf(today)
    /\ run.pc \in {"idle", "run", "ended"}

\* A run of a located point that meets no failure leaves, of each month it is
\* about, every day stored that the archive had when it began.
ArchivedDaysAreStored ==
    run.pc = "ended" =>
        \A m \in run.months : \A d \in DaysOf(m) :
            d < run.archived => d \in DOMAIN insolation

\* A point that logs in again and again is located in the end, although a
\* failure keeps the logins that follow from trying.
PointIsLocated == <>[](located)

\* As long as a past month that was fetched too early lacks days that the archive
\* has by now, the next scheduled run is about that month, so that they fill in
\* (worker.go 715-718, repository.go 613-616).
TailIsFetchedAgain ==
    \A m \in 0 .. (MonthOf(today) - 1) :
        /\ \E d \in DaysOf(m) : d \in DOMAIN insolation
        /\ ~IsStored(m)
        /\ (m + 1) * DaysPerMonth <= archived
        => m \in MonthsToCollect(MonthOf(today - 1))
=============================================================================
