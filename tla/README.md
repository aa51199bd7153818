# hepmjerenja: models, checks and proofs

`hepmjerenja` is a small self-hosted Go service. It logs in to the web interface of HEP (the
Croatian distribution operator), collects the quarter-hour readings of the account's electricity
meters, keeps them in one SQLite file and shows them as charts. This directory holds TLA+ modules of
the part of it that is hard to get right: the concurrent collection of readings over one shared HEP
session, the bookkeeping that decides what is collected when, what becomes of an answer on its way into
the tables and out of them again, and the weather that is collected beside it.

Paths below are relative to `src/app/` unless they say otherwise.

## 1. Inventory of the system

| Component | State it keeps | Operations | Talks to |
|---|---|---|---|
| **HEP session and token cache** (`worker.go` 23-68, 339-389; `hep_client.go`) | `tokenCache`: the token, `mu` for each access, `loginMu` for a refresh; at HEP one active session per account | `Get`, `Set`, `Clear`, `ensureToken`, `login`, the 401 retry | HEP (login, readings), the database (metering points), geocoding |
| **Collection of a metering point** (`worker.go` 473-706) | the semaphore of `HepConcurrentFetches`, first error; rows of `meter_readings`, `daily_aggregates`, `skipped_metering_months`, `last_meter_reading_collection` | `collectForMeteringPoint`, `fetchAndStoreReadings`, `InsertMeterReadings`, `UpsertDailyAggregates`, `MonthAlreadyCollected`, `MarkMonthSkipped`, `UpdateLastCollection` | token cache, HEP, database |
| **Outstanding months** (`worker.go` 391-471) | none | `getMonthsToCollect`, `monthBefore` | used by the collection |
| **Scheduler, discovery, FetchState** (`worker.go` 70-120, 156-337) | `lastDailyDate`, `FetchState`, rows of `metering_points` | `StartWorker`, `runAndReport`, `runCollection`, `selectPoints` | starts collections |
| **Manual fetch** (`handlers.go` 531-578; `worker.go` 122-154) | `manualFetchCh` (five requests), one result channel per request | `handleForceFetch`, `StartManualFetchWorker` | starts collections, concurrent with the scheduled ones |
| **Connection test** (`handlers.go` 225-245) | none of its own | `handleHepTest` | HEP, token cache |
| **Forced re-fetch** (`main.go` 196-239; `repository.go` 768-782) | none of its own | `hepmjerenja fetch yyyy-mm`, a process of its own | the database of the running service |
| **Readings** (`worker.go` 627-684, 749-771) | none | parse (what does not parse is dropped, and what lies in the future; the first reading of the next month stays), sort, trim trailing zeros, `monthsTouched` | between HEP's answer and the insert |
| **Local time and tariffs** (`repository.go` 20-70 and the queries) | none | local day, VT/NT window, month range across daylight saving time | every aggregate and chart |
| **Geocoding** (`geocoder.go`) | back-off per point, rate limiter; the coordinates in `metering_points` | `geocodePointIfNeeded`, three strategies | Photon, Nominatim; called by `login` |
| **Insolation** (`openmeteo.go`, `worker.go` 708-747) | `daily_insolation` | fetch a past month until it is complete | Open-Meteo; called by the collection |
| **Database** (`db.go`, `migrate.go`) | the SQLite handle, one connection | open, transactions, migrations | everything |
| **Read side** (queries in `repository.go`, JSON API in `handlers.go`, `templates/`) | none on the server; the month comparison keeps a selection in the browser | queries, HTML, charts | database |
| **Configuration, logging, assets, minification** | read once at start | | |

How they interact. `main` starts two goroutines that live as long as the process: the scheduled
worker and the consumer of manual fetches. The scheduled worker runs collections one after the
other; the consumer starts a goroutine per request, so a manual collection overlaps with a scheduled
one and with other manual ones. A collection works through its points in batches of three, a point
works through its outstanding months up to three at a time, and a month fetches consumption, then
production. All of them share one token cache and one database connection. The command line moves
the stamp of a point in the same database from another process.

Where it is hard:

* *Several actors, one HEP session.* HEP has one active session per account, so each login silently
  invalidates the token everybody else is holding. The cached token is copied, used over a request of up
  to 30 s, and compared again only under `loginMu`; a direct login or a connection test does not take `loginMu`.
* *Check, request, write.* Whether a month is collected is decided before the request and its
  data is written after it; two months share a boundary slot; readings are committed in one
  statement and the aggregates recomputed in another.
* *One stamp for many months.* `last_meter_reading_collection` stands for "everything before is
  there", yet it is written by overlapping runs with different reference months, and by a second process.
* *Partial failure.* Months, directions, points and statements fail independently; some errors
  are returned, some only logged.
* *Time.* HEP publishes late, the daily job has a date guard in memory, points go stale, the process is
  restarted, months and years end.

What makes each component correct:

* session: concurrent refreshes collapse into one login; one retry is enough for a fetch that nothing came in
  the way of; `loginMu` is always given back; logins stay bounded whatever goes round it;
* collection: aggregates agree with the readings once nothing is under way; the stamp never runs
  ahead of the data; a run ends; faults and crashes are repaired or at least not hidden;
* outstanding months: exactly the wanted months, once, in order, and the walk stops;
* scheduler: the daily job at most once a day, no point stale for long, every point found and collected eventually;
* manual fetch: the own outcome, an answer for everybody who waits, no leaked goroutine;
* readings and read side: what is stored was measured, at that hour; nothing measured is taken for padding; the parts
  of one answer fit together, although the clock changes and a collection writes while they are read;
* geocoding: failures do not multiply, success comes in the end and is never undone;
* insolation: what the archive has is stored, and no day that it cannot have.

The hazards behind these properties are listed, each at its line, in `PROJECT.json`.

## 2. Modules

```
Session <--INSTANCE-- TokenRefresh <--EXTENDS-- SharedSession
                           ^                            ^
                   TokenRefreshProofs <------- SharedSessionProofs

Ledger <--INSTANCE-- Collection <--EXTENDS-- CollectionFaults <--EXTENDS-- CollectionProofs

MonthWalk <-- MonthWalkProofs     Scheduler <-- SchedulerProofs     ManualFetch <-- ManualFetchProofs

LocalTime <--EXTENDS-- Readings <--EXTENDS-- ReadApi          Geocode <--EXTENDS-- Insolation
                                                ^                                      ^
                                          ReadApiProofs                        InsolationProofs
```

Each `MC*.tla` extends the module it is named after (the `.cfg` files give the constants their values).
Operators whose comment begins with "Mutant:" are variants of the definition that follows
them, with a plausible bug; no specification uses them. They exist so that each property can be seen
to fail when the code is wrong.

**TokenRefresh** models a month fetch's use of the token: `Begin` copies the cached token;
`FetchOk`, `FetchRejected`, `RetryRejected`, `FetchFails` are the outcomes of the request;
`ReuseToken` and `BeginLogin` are the two branches of `ensureToken` once `loginMu` is had;
`LoginAccepted` ... `EndLogin` are `login` under the mutex. Taking `loginMu` and looking at the cache
are one step (nothing outside the mutex changes the cache in this module); the login request is
not: HEP's side, the answer, and the storing of the points are steps of their own. Tokens are
numbered by issue order. HEP is external: a login replaces the session, the session may end of its own accord.

**Session** is what the token cache promises: a session that is held or not, a login only while none is held, and a loss
that ends it. `TokenRefresh` implements it (`KeepsOneSession`): the session is held while HEP honours the cached token
or the one that is on its way into the cache, a login is the step in which HEP accepts one, and a loss is an expiry or a lost answer.

**SharedSession** adds everything that logs in without `loginMu`: `runCollection` (up to two
overlapping runs) and `handleHepTest`. Here the cache can change under a holder of `loginMu`,
`cache.Set` of a late answer can put a dead token over a live one, and a failed login clears a token somebody else stored.
The upserts that follow a login may fail, which is only logged, and a run that then knows no point returns (`SavePoints`). The history variable
`undisturbed` (`Watch`) holds the fetches during which HEP has not ended the session, lost an answer, refused a login or accepted one
past `loginMu`, and which did not begin with such an answer on its way: theirs is the retry that must succeed.

**Collection** models one point (tables of different points never meet) and any number of overlapping
runs. A run fixes its months, and for each month and direction goes through `Look`
(`IsMonthSkipped`), `Count` (`MonthAlreadyCollected`), `Fetch*`, `Mark` or `Store` and one `Refresh`
per touched month; each is a statement or transaction on the single connection, hence one step.
Time is counted in slots; HEP has published those below `published`, and a fetch of month m also
brings the first slot of month m+1 (`worker.go` 693-697).
Of what a slot holds the model keeps what decides whether it is stored: `Garbled` slots do not parse, `Zeros` are measured zeros.
`Parsed` drops the former and `AnswerAsOf` the zeros at the end, measured or padded (`worker.go` 646-651, 676-684), so that a month without
consumption or production stores little or nothing, counts as a success, and is stamped past.
`EndRun` stamps the present, `EndFailedRun` does not.

**Ledger** is what the collection promises of its tables, however many runs overlap: one book, kept by one collection that is at work or
not. Months come in as HEP had published them at some time, all of it that parses up to the last value other than zero (`Enter`); a total is recomputed from the readings and from nothing else (`SumUp`);
the collection rests only when all totals agree (`Rest`); the stamp is never put back and passes only settled months (`Stamp`), which are half stored, or stored as far as the slots that were surely out
in time can be, or empty (`Settled`). `Collection` implements
it (`KeepsOneBook`): the book is at work while any run is. Answers, refresh lists, the semaphore and who does what are not in it.

**CollectionFaults** adds a failing statement at every place where the code handles one, with what
it does there (proceed, log, fail), the death of the process, and the command line's `ForceFetch`. The set `troubled` holds the runs in whose
time a statement has failed, their own or another run's: a recomputation that fails in one run can leave behind the month another is about.

**Scheduler** models the loop of `StartWorker` phase by phase (startup, pending, stale, daily), with
the date guard, discovery, overlapping manual runs, failures and restarts. The points of a login answer are upserted each for itself: any
of the upserts may fail, and the point then waits for a login that comes for another reason (`UpsertPoints`, `LoginOk`, `Relogin`), since discovery
looks only for no point at all. A collection is reduced to its outcome per point: stamped (`PointOk`), failed (`PointFails`), collected with
a stamp that failed and was only logged (`StampFails`), or with no month to collect and so without a stamp (`PointIdle`; the points in `NotYet` have none).
`RunFails` is a failing login or `GetMeteringPoints`.

**MonthWalk** is `getMonthsToCollect` step by step on pairs of year and month. `Collection` uses its
result as an interval of month numbers; `ListsWantedMonths` is what justifies that.

**ManualFetch** is the handler, the bounded queue, the consumer, the goroutine per request, the
result channel of capacity one, clients that leave, and the shutdown.

**LocalTime** gives instants (hours of UTC) and wall clocks of one summer time: the offset, local days, the ranges
`monthRange` and `yearRange`, the VT window, and `Instant`, which is how Go's `time.Date` reads a wall clock. The hour is the unit,
since the changes of the clock and the ends of the tariff fall on whole hours.

**Readings** is the pure part of `fetchAndStoreReadings`: HEP's answer (external: every slot of the month and the first of the next,
zeros ahead), `Parsed`, `Trimmed`, `MonthsTouched`, and `Inserts` with its ON CONFLICT DO NOTHING.

**ReadApi** composes both: a collection fetches a month (`Fetch`, `Store`, `Refresh` per month touched; `StoreFails`, `RefreshFails`, which is
only logged, and the death of the process, `Die`), and a request of one of four kinds
(month, year, hours of the day, calendar) reads totals, curve, tariff model and split, each statement a step (`Begin`,
`ReadTotals`, `ReadCurve`, `ReadTariff`, `ReadSplit`, `ReadHours`, `Deliver`, and the failures with what the handlers do there).
`OfferedMonths` and `OfferedYears` are the lists of the two pages, over what `GetAvailableMonths` finds, which is nothing when it fails
(`FoundMonths`). The history variable `behind` holds the months whose last recomputation failed or was lost.

**Geocode** is `geocodePointIfNeeded` for one point under overlapping logins: the two critical sections of the back-off (`LogIn`
and `GiveUp`, `ForgetFailure`), the query between them, up to three strategies, the save, failed statements and restarts. The
back-off is counted in failures in a row, the last of which is less than `GeocodingBackoff` ago.

**Insolation** adds the runs: each has the coordinates and the stamp that were read when it began, and per month `Count`,
`Fetch` and `Store` run concurrently. The archive (`Archive`) lags behind the day, and answers a day it lacks not at all or with null
(`Padding`), which the decoder reads as zero.

## 3. Runs

| Run | Instance | Shows | States |
|---|---|---|---|
| `token_refresh` | 3 fetches; HEP ends the session twice, one answer lost; fair | `LoginsAreJustified` (at most one login beyond those that answer a loss), `CacheIsNewest`, `FetchesReturn`, and the refinement `KeepsOneSession` | 11 k |
| `shared_session` | 2 runs with a fetch each, a connection test, two disturbances (session ended, login refused, answer lost) | `LoginsAreBounded` (a login round `ensureToken` costs at most two more), `RetriesAreAccepted` (one retry is enough for an undisturbed fetch) | 2.56 M |
| `collection` | 2 overlapping runs, 2 months of 4 slots, one month at a time: the first with zeros and a slot that does not parse, the second without data of its own; fair | `InSyncWhenQuiet`, `NoMonthLeftOut`, `RunsEnd`, and the refinement `KeepsOneBook` | 67 k |
| `manual_month` | 1 run, a manual fetch of the oldest month | *finding:* months are left out for good | |
| `late_readings` | 1 run, publication lags by a slot | *finding:* late readings of a half collected month are never fetched | |
| `faults` | 1 run, 3 months of 3 slots, of which the first stores nothing before the second has begun and the last is empty; a failing statement, a crash, a month from the command line | `ReferenceMonthHeals`, `NothingInvented`, `FaultsLeaveNoMonthOut` | 1.23 M |
| `scheduler` | 3 points, one of which has no month to collect yet; a manual run, a failure, a restart; fair | `DailyAtMostOnce`, `KeptFresh`, `EveryPointIsCollected` | 668 k |
| `month_walk` | all arguments over 9 months around two ends of a year | `ListsWantedMonths`, `WalkMeetsCurrent` | 37 k |
| `manual_fetch` | 3 requests, a queue for one; fair | `RepliesAreOwn`, `CollectionsEnd`, `WaitersAreAnswered` | 124 k |
| `read_api` | 2 months of 2 days in 2 years, hour by hour; both clock changes; a value that cannot be parsed; any insert or recomputation fails, the process dies at any step | `StoredIsMeasured`, `NothingIsMissed`, `AnswersNeverRunAhead`, `QuietAnswersAgree`, `HighTariffIsFixedInUTC`, `NewestIsOfferedFirst` | 154 k |
| `weather` | 2 logins, 2 months of 2 days, an archive up to two days behind yesterday, a fault; fair | `FailuresArePaced`, `LocationIsKept`, `PointIsLocated`, `ArchivedDaysAreStored` | 501 k |
| `insolation_tail` | 1 login, scheduled runs only | *finding:* the last days of a month never fill in | |

The core run of each module also checks its type invariant. `CHECK_DEADLOCK FALSE` appears where the model really stops: at the end of the calendar
(`Collection`, `CollectionFaults`), after the last request (`ManualFetch`), when the walk is done
(`MonthWalk`), and on the last day of the calendar in `ReadApi` and `Insolation`. `TokenRefresh`, `SharedSession` and `Scheduler` must never stop, and deadlock is checked.

### Bounds, and why they are enough

* *Three fetches* share the cache in `token_refresh`: one logs in, one waits for the mutex, one still holds the dead
  token. Two expiries are what it takes for a retried request to be rejected again. The proofs
  cover every number of fetches, expiries and lost answers.
* *Two runs and one test* are all kinds of callers that overlap. HEP disturbs them twice
  (`MaxDisturbances`); the other losses of a session in `shared_session` are the program's own doing.
* *Two or three months of four slots.* Four is the smallest month in which "half the slots" and "all but
  the late ones" differ. `MaxLag` and `MaxRun` are one slot each, so that a run can meet the end of a month, and HEP's
  publication can still be behind when it does. `NoMonthLeftOut` relies on a run taking less than a month: a longer
  one would stamp past a month it never had on its list. In reality a month has some 2900 slots, HEP lags by a day or two and a run takes minutes.
* *What is stored of a month.* In `collection` one slot of the first month counts, two are zero and one does not parse; as long as HEP
  has not published the first slot of the next month, which keeps the zeros before it from being trimmed, a fetch stores a single slot: the month is
  stamped past with less than half of it stored, and `FetchedInTime` alone settles it, as a month without production. The slots such a month may lack
  are the last ones, `MaxLag + MaxRun` of them at most. In `faults` a fetch stores nothing of the first month until then.
* *Two months suffice for `collection`*: the shared slot lies between neighbours. The second is the month for which HEP
  has no data, so that it is marked as skipped, and its only reading is the one the fetch of the first brings: its aggregates
  depend on the refresh of every month touched. `CollectionProofs` covers two months with data of their own (`NoRefreshLost`,
  for any months and any `EmptyMonths`).
* *One month at a time in `collection`*: with more months than slots of the semaphore, the last ones must wait for
  the first, and the months of two runs still overlap. The code allows three; the proof about `Collection` any number. The run has
  one direction (months of the two directions never share a row; the proof covers both).
* *One failing statement and a crash* (`faults`): one of them leaves something behind, the other disturbs the run that repairs it. The months have
  three slots here to make room for a third month: one that stores nothing in its own time, one that does, and an empty one.
* *Three points* (`scheduler`): one whose upsert or stamp fails, one that is known meanwhile, so that nothing is discovered any more, and one that has no month to
  collect, so that its being pending alone makes a run begin. One failure of any kind, one restart.
* *Two direct logins whose saves may fail* (`MaxUnsaved`): the state in which no point is known returns after the first; unbounded, a run could
  log in and save nothing for ever.
* *A day of four units, the daily job at the second, stale after one.* The order of midnight, daily
  time and staleness is that of 06:00 and 6 h. Ages are told apart up to two units past the bound.
* *Nine months* around two year ends give every order of the four arguments, with walks of up to nine steps over one or two Decembers.
* *Two months of two days in two years* (`read_api`) put the change to summer time inside the first month and the change back
  inside the second, and make the month's end a year's end. Two days of lag let a collection meet a month not, partly and fully
  published. The curve has zeros at night, zeros for a whole afternoon and evening, and different values elsewhere, in both passes of the hour
  that the clock repeats. The proofs cover every calendar.
* *Two logins* (`weather`) are those that can overlap: one under `loginMu`, one past it. Two days behind yesterday are as long as a month
  here, so that the archive can miss a month's last day, or all of it. One fault suffices to interrupt any step.
* *Three requests and a queue for one*: one collected, one queued, one refused. The real queue holds five.

### Fairness, and why the code justifies it

* A step of a fetch, a run or a handler is weakly fair: requests time out after 30 s, SQLite returns, goroutines are scheduled.
* A run of the scheduled worker logs in again time and again (`Relogin` is strongly fair): HEP's tokens expire (`worker.go` 21-27, 556-558). A point that is not
  known because its upsert failed is found by such a login or not at all.
* Taking `loginMu` is strongly fair: Go's mutex switches to FIFO hand-over once a waiter has waited a millisecond.
* The clock and the ticker go on, and the process is started again after a stop (`src/deploy/hepmjerenja.service`:
  `Restart=on-failure`; after a clean stop, by the operator or the machine's start).
* In `Insolation` there is always another login (HEP ends every session), the back-off passes, and a geocoder that is asked again and
  again finds the address in the end: `AskFinds` is strongly fair. Without that `PointIsLocated` is not the program's to promise.
* Nothing is assumed of HEP beyond its answering or timing out, nor of users: no client must leave,
  nobody has to stop the service, a failure is never forced to happen or not to happen beyond its bound.

## 4. Proofs

TLAPS proves, for every value of the constants allowed by the modules' assumptions (disjoint model
values, natural bounds, non-empty calendars, `Dirs` of at most the two directions):

* **TokenRefreshProofs** (any number of fetches, expiries, lost answers). The inductive
  invariant `IInv` adds to the types: `LockInv` (the holder of `loginMu` is exactly the fetch inside
  the login), `TokenInv` (no token from the future; the session is the newest or none), `AnswerInv`
  (an answer under way carries a token newer than the cache), `StaleInv` (what a fetch brings to
  `ensureToken` is dead), `LoginInv` (whoever is about to log in knows the cache holds nothing
  live, and the mutex keeps it so), and `CountInv`, which counts a login against the loss it
  answers. None of the properties is inductive alone: `LoginsAreJustified` needs to know that a login
  never starts while the program has, or is about to be handed, the live token. From it: `RefreshesCollapse`, `CacheNeverFallsBehind`, `TypeCorrectness`, and `LiveSessionIsSpared` (the cached token is never the one a login ends), which no run
  checks by itself since `KeepsOneSession` says more. The same invariant carries the
  refinement: `StepRefines` maps each step to a login, a loss or a stutter of `Session`, and `ImplementsSession` follows.
* **SharedSessionProofs** (any number of runs, fetches, tests and disturbances) takes `LockInv`, `TokenInv` and `StaleInv` over and
  replaces the invariants that the direct logins break. `DebtInv` counts the logins that a state may still cost (`Owed`): one by `ensureToken`
  unless the cache is settled, one for each answer of a direct login that has yet to reach the cache, three for each direct login that HEP has
  not accepted yet. Every step pays what it adds; from it `DirectLoginsStayCheap`. `CalmInv` follows the undisturbed fetches for `UndisturbedRetriesSucceed`: no
  answer on its way brings a dead token, and once such a fetch has met its 401 HEP's session is what `ensureToken` hands out, until the retry.
* **CollectionProofs** (any number of runs, months, slots, parallel fetches, failed statements and crashes).
  - *The aggregates.* `NoRefreshLost`: a month whose aggregates are behind is on the refresh list of a fetch that has yet to recompute it. It
    is inductive because a recomputation reads the table as it is then, not the answer it came with. From it `AggregatesCatchUp`
    (`InSyncWhenQuiet`). It needs the guard part of the types: a list exists only while its fetch is refreshing. With faults a list can be
    lost, but `SumsAreNotInvented` remains.
  - *The stamp.* `StampFollowsData` and, with faults, `StampSurvivesFaults`. `ClockInv`: a run began no later than at the end of its reference
    month. `ServedInv`: a fetch that is on its way carries, and one that is done has stored, what could be kept of that which HEP had surely published when its
    run began, or its month is settled otherwise. `ListInv`: a month that a run leaves off its list is settled. `EarlySettles` puts them together: when the stamp
    moves past a month, at least half of it is stored (what `MonthAlreadyCollected` asks for), or as much as could be kept of what was
    surely out some slots before its end (`FetchedInTime`), or HEP has none. The lag enters in `FetchedInTime` only; the hypothesis `Timely` says that a run takes less
    than a month, and that nobody fetches an older month by hand; without the latter the property is false (`manual_month`).
  - *The book.* `ImplementsLedger`: the initial tables are those of `Ledger`, and every step of a run is one of its steps or changes nothing in it
    (`StepKeepsBook`). It needs all of the above and `BookInv`: what a fetch is about to store is what is kept of its month as it was published at some
    moment (HEP may have published more since; `AnswerAsInBook`), and the stamp is not ahead of the clock, so that stamping never puts it back. When the last run
    ends, `AggregatesCatchUp` gives the agreement that `Rest` asks for; when a run stamps, the invariants of `StampFollowsData` give the settled months, so
    that the theorem has the hypothesis `Timely` as well. With faults the book is not kept: a death before a recomputation leaves totals behind.
  - *The repair.* `RunRepairsItsMonth`, about the aggregates of the reference month: `HealInv` says, of a run in whose time nothing has failed, that the fetch of its reference month is neither
    left out nor skipped as collected, and that once it is answered the month is in sync or on some refresh list. It rests on `AnswerInv`:
    an answer that is to be stored has the first slot of its month, so that the month is always among those to recompute. The attempt to prove it
    with two runs showed that `troubled` must include the runs that overlap with the failed one; with one run, as in `faults`, nobody can tell.
* **SchedulerProofs** (any number of points, units of the day, manual runs, failures, restarts). `DailyInv`: once today's job has started the daily
  hour is past and the date guard is set while the process lives, so that a process started again takes the job for done (`DailyJobOnce`).
  `PointsStayFresh`: `FreshInv` bounds the age of a point by `Limit`, which is one unit more while the tick that finds it stale is
  under way, and by one more still when a unit has begun that the worker has not noticed (`Late`). `RunInv` is what it needs of the
  runs: the worker's loop waits for its own collection, and only a collection has targets.
* **ManualFetchProofs** (any number of requests, any queue). `QueueInv`: a request is in the queue once and its collection starts when it leaves
  it; `OwnInv`: what is in a request's channel is the outcome of its own collection, which is over and does not start again. From it
  `RepliesComeFromOwnRun`.
* **MonthWalkProofs** (all months). `BeforeIsLess`, `AddMonthIsNext` and `IndexIsUnique` carry the
  comparison and the step over to plain numbers, `WantedIsInterval` turns the wanted months into an interval that starts at
  `Start`, and `Progress` says what has been listed so far. From it `ResultIsWanted` and `WalkStaysBehind`.
* **ReadApiProofs** (every calendar, curve and date of the clock's changes). `WallClockReadsBack`: reading a wall clock gives back the instant,
  except in the first pass of the repeated hour. `HighTariffHours`: the VT window is 06-20 UTC, winter and summer. `RangesAreMonths`: the instants of
  `monthRange` are those whose local date lies in the month; it rests on `MidnightDivides` (no clock changes at midnight) and, for
  the division by days, on `MonthOfWallClock`. `HighTariffBilled` carries the window to the answers of the API; its invariant says that
  what an undisturbed request has split is what the table still holds. `RowsAreTrue` and `FetchesAreComplete` follow an answer into the
  table: `RowsAreMeasured` (a row's instant shows the wall clock of the reading, and only the padding is ahead of the publication), `RowsAreComplete`
  (`MidnightsInOrder` and `MonthInCalendar` keep the rows of a month that HEP publishes before they are trimmed), and `InsertsRows`
  (ON CONFLICT takes one of the rows of an instant). The invariant `RowsInv` says that what is stored, or about to be, was measured and published (`TableInv`,
  `WriterInv`), and that a fetch about to store has all that was due when it asked.
  - *Sums.* `Sum` folds with a recursive function, and nothing is known of such a function until one is shown to exist. `SumsExist` does that one element at a
    time, by an induction over finite sets whose family is a set rather than an operator (`FiniteSetsOneByOne`). From it a sum may begin with any row
    (`SumRemove`), more rows never come to less (`SumOfMore`), and it can be taken group by group (`SumOfGroups`): by day, by month, by hour, by tariff.
  - *The totals.* `TotalsInvariance`: no daily total exceeds the readings of its day (`TotalsInv`), and it falls short of them only while its month
    is `Pending`: on the refresh list of the fetch at work, or `behind`, since its recomputation failed or was lost and none has
    succeeded since. `TouchedInv` says that such a list is not empty.
  - *The answers.* `AnswerInv` follows a request from statement to statement. `TotalsBehind`, `CurveBehind` and `SplitAhead`: what was read earlier is no
    more than what is read later, since rows are only added and totals follow them; from it `AnswersAreOrdered` (`AnswersNeverRunAhead`).
    `QuietIsCurrent`: what an undisturbed request has read, it would read again; with `RowsByDate` (ranges of instants are ranges of dates, by
    `RangesAreMonths` and `RangesAreYears`) and the sums by group, `AnswersAgree` (`QuietAnswersAgree`), for months none of which is behind (`SettledDays`).
  - *The lists.* `NewestFirstOffered`: every finite set of months has an order that begins with the greatest (`DescendingOrder`), the present is not
    behind any stored month, and the month that `OfferedMonths` puts in front is there once, whatever the query found. `TypeCorrectness` draws on all of these.
* **InsolationProofs** (any number of logins, months, days and faults). `GeocodingIsPaced`: the failures remembered and the logins that may
  still fail (`Pending`) are together no more than the logins, because a login only starts when no failure is remembered.
  `LocationStays`. `RunsStoreWhatTheyCan`: `Gathered` says, of a run without a failure, that a month that is done has in the table, and one
  about to be stored has in its answer, every day the archive had when the run began; a month that is skipped has them since all
  of its days are stored. `TypeCorrect` adds that answers in flight only have days that are over.

Model-checked only: everything with fairness (`FetchesReturn`, `RunsEnd`, `EveryPointIsCollected`,
`CollectionsEnd`, `WaitersAreAnswered`, `PointIsLocated`), since the prover does not treat liveness. Every invariant and action property of the
passing runs, and both refinements, are theorems. `NoMonthLeftOut`, `FaultsLeaveNoMonthOut` and `KeepsOneBook` have the hypothesis
`Timely`, whose need `manual_month` and the bounds above show; no other theorem about a run's property has one beyond the modules' assumptions on their constants.

## 5. What the models say about the code

Three statements of the repository's comments do not hold; a run shows each.

1. `worker.go` 398-400 and 476-478: all months from the contract's start are collected, and a gap is not treated as collected.
   A manual fetch of an older month stamps the present (`manual_month`).
2. `worker.go` 400-402: readings published late "are always picked up". Once a month is past and half
   stored, it is skipped (`late_readings`).
3. `worker.go` 717-720 and `repository.go` 613-615: the days of weather the archive lacked at a month's end fill in later. From the
   second day of the new month on, the stamp lies in it and no scheduled run is about the old month any more (`insolation_tail`); only a
   manual fetch of that month fills them in. For the same reason the months that were collected before a point was located, or
   while the archive failed, stay without weather.

Smaller remarks, met while modelling and left without a run:

* `repository.go` 182-184 says the aggregates stay in sync after each collection cycle. A recomputation
  that fails (or a death before it) leaves a past month behind for good, because later runs skip it;
  hence `ReferenceMonthHeals` speaks of the reference month only, `InSyncWhenQuiet` of a program without faults, and
  `QuietAnswersAgree` and `NewestIsOfferedFirst` make an exception of the months that are `behind`: the charts of such a month disagree with its curve.
* `worker.go` 373-375 only logs a metering point that cannot be stored, and discovery (252) asks whether no point at all is known. A point that was missed is
  not in any run until some login, for an empty cache or a rejected token, upserts it again; if all the points that are known have their first month
  still to come, no run gets that far before the process is started again. `EveryPointIsCollected` states the exception.
* When `GetAvailableMonths` fails the pages offer the current month and year alone (`handlers.go` 84-86, 139-141), without saying so.
* A month whose last half is idle, the first slot of the next included, or does not parse, never reaches the half that `MonthAlreadyCollected` asks for. It is stamped past all the same, and fetched again
  whenever the stamp is put back before it.
* `worker.go` 91-92 says `LastError` is nil if the most recent attempt succeeded. A tick with
  nothing to do stores nil as well, a minute after a failure.
* `worker.go` 238-239 says per-point failures are logged and skipped; 309-311 return them joined.
* `worker.go` 29-32 says "loginMu collapses concurrent refreshes into a single login". `runCollection` logs in directly, so two runs that
  find the cache empty both log in, and the second ends the session the first has cached. The damage is bounded: `LoginsAreBounded` holds.
* `repository.go` 768-770 says a forced month is re-fetched "on the next tick". A past month that is half
  stored is skipped, and a run at work overwrites the stamp when it ends.
* The hour that the clock repeats in October is read as its second pass both times; one of the two readings of each quarter is stored, the other is
  dropped by ON CONFLICT DO NOTHING. `NothingIsMissed` exempts that hour, and `WallClockReadsBack` says there is no other.
* `worker.go` 380 calls geocoding "a one-time operation per point". Two logins that overlap both geocode, and both may fail; `FailuresArePaced` bounds it.
* A day that Open-Meteo answers with null is stored as zero and counts as stored.
* `const.go` 6-7 says 00:30, the constants say 06:00; `geocoder.go` 250 logs a retry after 24 h, `const.go` 20 says 1 h.

## 6. Not modelled, and why

* *Empty months that fill up later*: in `Collection` a month is empty for good or not at all.
* *Batches of points*: points never share rows, and their fetches meet only in the token cache,
  where `TokenRefresh` takes any number of them.
* *Overlapping runs in `Insolation`*: each run upserts what it was answered, and a day once stored stays, so one run at a time, with its
  months at the same time, shows what the properties are about.
* *The rate limiter of the geocoders*: it spaces requests and decides nothing.
* *Quarter-hours, production beside consumption, rounding* in `ReadApi`: each hour stands for its four slots, the two directions are
  selected by a column, and sums are exact.
* *The endpoints of the insolation*: projections of one table. *Templates*: markup and chart options; the month comparison in
  the browser does not tell answers apart that arrive out of order (`templates/index.templ` 751), see the plan.
* *Configuration, logging, assets, minification, migrations*: output without state, or run once before anything else.
* *SQL and JSON as text, HTTP details*: abstracted to what is stored and which outcome a request has.

## 7. Plan

Done, in this order: TokenRefresh, SharedSession, Collection, CollectionFaults, Scheduler, MonthWalk,
ManualFetch; LocalTime, Readings, ReadApi; Geocode, Insolation; Session as the abstract specification of the token cache, Ledger as that of the collection; the proofs
of TokenRefresh with its refinement, SharedSession, Collection with its refinement and CollectionFaults, MonthWalk, Scheduler, ManualFetch, ReadApi and Insolation.

Left, in the order of what matters:

1. *SkippedMonths* (part of Collection): a "no data" answer for an open month, or one that HEP fills later, against `IsMonthSkipped`.
2. *ComparePicker*: answers out of order in the script of the month comparison.
3. The abstract collection carried on to the pages: `ReadApi`'s collection shown to keep a `Ledger` as well, with days for months.
4. A `Ledger` for the collection with faults, in which totals may stay behind until the next undisturbed run.
