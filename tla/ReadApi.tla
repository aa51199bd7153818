------------------------------- MODULE ReadApi -------------------------------
(***************************************************************************)
(* The JSON API that the charts read, beside a collection that writes      *)
(* (handlers.go 210-470, repository.go 215-562). The answer to one request *)
(* is put together from several statements, and the collection stores      *)
(* readings in one transaction and recomputes the daily totals in others:  *)
(* the single connection orders the statements, nothing holds them         *)
(* together. One metering point, one direction; kWh are the sums of the    *)
(* values of the rows.                                                     *)
(***************************************************************************)
EXTENDS Readings, Sequences

CONSTANTS
    MaxLag,     \* HEP publishes at most so many days late
    Absent      \* a part of the answer that is not (yet) there

VARIABLES
    today,      \* the local day; it is six o'clock in the morning
    published,  \* HEP has published the local days before this one
    stored,     \* meter_readings: instant -> value
    agg,        \* daily_aggregates: local day -> kWh
    tariff,     \* metering_points.tariff_model
    writer,     \* the month fetch of a collection
    request,    \* a request to the API
    behind      \* months stored but not recomputed: it failed or was lost (history)
vars == <<today, published, stored, agg, tariff, writer, request, behind>>

Days == 0 .. (NMonths * DaysPerMonth - 1)
Months == 0 .. (NMonths - 1)
Years == {m \div MonthsPerYear : m \in Months}

Now == Instant(24 * today + 6)
PublishedTo == Instant(24 * published)

TariffModels == {"plavi", "bijeli"}
Submitted == TariffModels \cup {"zeleni"}     \* what a form may send

Idle == [pc |-> "idle"]
NoRequest == [pc |-> "idle"]

Sum(table, times) == MapThenSumSet(LAMBDA t : table[t], times)

-----------------------------------------------------------------------------
(* The queries. A request is for a month (its days, or its hours of the day) *)
(* or for a year (its months, or its days for the calendar); Bucket is the   *)
(* day or the month a row is counted in.                                     *)

OfMonth(r) == r.kind \in {"month", "hours"}

MonthsAsked(r) == IF OfMonth(r) THEN {r.of} ELSE MonthsOf(r.of)

Bucket(r, t) == IF r.kind = "year" THEN MonthOf(t) ELSE LocalDay(t)
BucketOfDay(r, d) == IF r.kind = "year" THEN d \div DaysPerMonth ELSE d

\* readingsInRange: a range of instants.
Rows(r) ==
    DOMAIN stored \cap IF OfMonth(r) THEN MonthRange(r.of) ELSE YearRange(r.of)

\* substr(date, ...): a prefix of the local date.
DatedIn(r) ==
    {d \in DOMAIN agg : IF OfMonth(r) THEN d \in DaysOf(r.of)
                        ELSE d \div DaysPerMonth \in MonthsOf(r.of)}

Totals(r) ==
    [b \in {BucketOfDay(r, d) : d \in DatedIn(r)} |->
        Sum(agg, {d \in DatedIn(r) : BucketOfDay(r, d) = b})]

Split(r, vt) ==
    [b \in {Bucket(r, t) : t \in Rows(r)} |->
        Sum(stored, {t \in Rows(r) : Bucket(r, t) = b /\ IsVT(t) = vt})]

\* The average of an hour of the day: its kWh over the days that have the hour.
Hours(r) ==
    [h \in {LocalHour(t) : t \in Rows(r)} |->
        LET rows == {t \in Rows(r) : LocalHour(t) = h}
        IN [kwh |-> Sum(stored, rows), days |-> Cardinality({LocalDay(t) : t \in rows})]]

DayTotals(m) ==
    LET rows == DOMAIN stored \cap MonthRange(m)
    IN [d \in {LocalDay(t) : t \in rows} |-> Sum(stored, {t \in rows : LocalDay(t) = d})]

-----------------------------------------------------------------------------
(* What the pages offer: the months with totals, and the current one.        *)

StoredMonths == {d \div DaysPerMonth : d \in DOMAIN agg}
CurrentMonth == today \div DaysPerMonth

\* GetAvailableMonths; when it fails the page goes on without any month.
FoundMonths == {StoredMonths, {}}

\* ORDER BY ... DESC
NewestFirst(S) ==
    CHOOSE s \in [1 .. Cardinality(S) -> S] : \A i, j \in DOMAIN s : i < j => s[i] > s[j]

\* Mutant: the current month is put last.
OfferedMonthsAppended(found) ==
    NewestFirst(found) \o IF CurrentMonth \in found THEN <<>> ELSE <<CurrentMonth>>

OfferedMonths(found) ==
    (IF CurrentMonth \in found THEN <<>> ELSE <<CurrentMonth>>) \o NewestFirst(found)

OfferedYears(found) ==
    LET years == {m \div MonthsPerYear : m \in found}
        current == CurrentMonth \div MonthsPerYear
    IN (IF current \in years THEN <<>> ELSE <<current>>) \o NewestFirst(years)

-----------------------------------------------------------------------------
Init ==
    /\ today = 0
    /\ published = 0
    /\ stored = <<>>
    /\ agg = <<>>
    /\ tariff = "plavi"
    /\ writer = Idle
    /\ request = NoRequest
    /\ behind = {}

NextDay ==
    /\ today + 1 \in Days
    /\ today + 1 - published <= MaxLag
    /\ today' = today + 1
    /\ UNCHANGED <<published, stored, agg, tariff, writer, request, behind>>

Publish ==
    /\ published < today
    /\ published' = published + 1
    /\ UNCHANGED <<today, stored, agg, tariff, writer, request, behind>>

-----------------------------------------------------------------------------
(* The collection.                                                           *)

\* A request at work no longer sees a database at rest.
Disturb(r) == IF r.pc = "idle" THEN r ELSE [r EXCEPT !.quiet = FALSE]

Fetch(m) ==
    LET rows == Trimmed(Parsed(HepAnswer(m, PublishedTo), Now))
    IN /\ writer = Idle
       /\ FirstOfMonth(m) <= Now
       /\ rows # {}
       /\ writer' = [pc |-> "store", month |-> m, rows |-> rows, upto |-> PublishedTo]
       /\ UNCHANGED <<today, published, stored, agg, tariff, request, behind>>

Store ==
    /\ writer.pc = "store"
    /\ stored' \in Inserts(stored, writer.rows)
    /\ writer' = [pc |-> "refresh", month |-> writer.month, upto |-> writer.upto,
                  touched |-> MonthsTouched(writer.rows)]
    /\ request' = Disturb(request)
    /\ UNCHANGED <<today, published, agg, tariff, behind>>

\* The insert is one transaction; when it fails nothing is stored.
StoreFails ==
    /\ writer.pc = "store"
    /\ writer' = Idle
    /\ UNCHANGED <<today, published, stored, agg, tariff, request, behind>>

\* monthsTouched, one month after the other.
Recomputed(m) ==
    writer' = IF writer.touched = {m} THEN Idle ELSE [writer EXCEPT !.touched = @ \ {m}]

\* Mutant: the upsert adds to the stored total.
RefreshAdding ==
    /\ writer.pc = "refresh"
    /\ LET m == Min(writer.touched)
           totals == DayTotals(m)
       IN /\ agg' = [d \in DOMAIN agg \cup DOMAIN totals |->
                        (IF d \in DOMAIN totals THEN totals[d] ELSE 0)
                            + (IF d \in DOMAIN agg THEN agg[d] ELSE 0)]
          /\ Recomputed(m)
          /\ behind' = behind \ {m}
    /\ request' = Disturb(request)
    /\ UNCHANGED <<today, published, stored, tariff>>

\* UpsertDailyAggregates, for the next month touched.
Refresh ==
    /\ writer.pc = "refresh"
    /\ LET m == Min(writer.touched)
           totals == DayTotals(m)
       IN /\ agg' = [d \in DOMAIN agg \cup DOMAIN totals |->
                        IF d \in DOMAIN totals THEN totals[d] ELSE agg[d]]
          /\ Recomputed(m)
          /\ behind' = behind \ {m}
    /\ request' = Disturb(request)
    /\ UNCHANGED <<today, published, stored, tariff>>

\* It fails and is logged; the next month has its turn.
RefreshFails ==
    /\ writer.pc = "refresh"
    /\ LET m == Min(writer.touched) IN Recomputed(m) /\ behind' = behind \cup {m}
    /\ UNCHANGED <<today, published, stored, agg, tariff, request>>

\* The process dies; the months still to be recomputed are forgotten.
Die ==
    /\ writer # Idle
    /\ writer' = Idle
    /\ request' = NoRequest
    /\ behind' = IF writer.pc = "refresh" THEN behind \cup writer.touched ELSE behind
    /\ UNCHANGED <<today, published, stored, agg, tariff>>

\* Mutant: the form's value is stored as it comes.
UpdateTariffUnchecked(model) ==
    /\ model # tariff
    /\ tariff' = model
    /\ UNCHANGED <<today, published, stored, agg, writer, request, behind>>

\* POST /postavke/mjerno-mjesto/:code/tarifa; "crveni" is split like "bijeli".
UpdateTariff(model) ==
    /\ model \in TariffModels
    /\ model # tariff
    /\ tariff' = model
    /\ UNCHANGED <<today, published, stored, agg, writer, request, behind>>

-----------------------------------------------------------------------------
(* A request: totals, curve (of a month only), tariff model, VT and NT; the  *)
(* calendar and the hours of the day take one statement each.                *)

Begin(kind, of) ==
    /\ request.pc = "idle"
    /\ request' = [pc |-> IF kind = "hours" THEN "hours" ELSE "totals",
                   kind |-> kind, of |-> of, quiet |-> writer.pc # "refresh",
                   totals |-> Absent, curve |-> Absent, tariff |-> Absent,
                   vt |-> Absent, nt |-> Absent]
    /\ UNCHANGED <<today, published, stored, agg, tariff, writer, behind>>

ReadTotals ==
    /\ request.pc = "totals"
    /\ request' = [request EXCEPT !.totals = Totals(request),
                                  !.pc = CASE request.kind = "month" -> "curve"
                                           [] request.kind = "year" -> "tariff"
                                           [] request.kind = "calendar" -> "done"]
    /\ UNCHANGED <<today, published, stored, agg, tariff, writer, behind>>

ReadHours ==
    /\ request.pc = "hours"
    /\ request' = [request EXCEPT !.totals = Hours(request), !.pc = "done"]
    /\ UNCHANGED <<today, published, stored, agg, tariff, writer, behind>>

ReadCurve ==
    /\ request.pc = "curve"
    /\ request' = [request EXCEPT !.curve = [t \in Rows(request) |-> stored[t]], !.pc = "tariff"]
    /\ UNCHANGED <<today, published, stored, agg, tariff, writer, behind>>

ReadTariff ==
    /\ request.pc = "tariff"
    /\ request' = [request EXCEPT !.tariff = tariff,
                                  !.pc = IF tariff = "plavi" THEN "done" ELSE "split"]
    /\ UNCHANGED <<today, published, stored, agg, tariff, writer, behind>>

\* The tariff model is unknown after a failed query, and nothing is split.
TariffFails ==
    /\ request.pc = "tariff"
    /\ request' = [request EXCEPT !.pc = "done"]
    /\ UNCHANGED <<today, published, stored, agg, tariff, writer, behind>>

ReadSplit ==
    /\ request.pc = "split"
    /\ request' = [request EXCEPT !.vt = Split(request, TRUE), !.nt = Split(request, FALSE),
                                  !.pc = "done"]
    /\ UNCHANGED <<today, published, stored, agg, tariff, writer, behind>>

\* VT and NT are left empty after a failed query; the rest is answered.
SplitFails ==
    /\ request.pc = "split"
    /\ request' = [request EXCEPT !.pc = "done"]
    /\ UNCHANGED <<today, published, stored, agg, tariff, writer, behind>>

\* A failure of any other query is answered with status 500.
ReadFails ==
    /\ request.pc \in {"totals", "curve", "hours"}
    /\ request' = NoRequest
    /\ UNCHANGED <<today, published, stored, agg, tariff, writer, behind>>

Deliver ==
    /\ request.pc = "done"
    /\ request' = NoRequest
    /\ UNCHANGED <<today, published, stored, agg, tariff, writer, behind>>

CollectionStep ==
    \/ \E m \in Months : Fetch(m)
    \/ Store \/ StoreFails \/ Refresh \/ RefreshFails \/ Die

RequestStep ==
    \/ \E m \in Months : Begin("month", m) \/ Begin("hours", m)
    \/ \E y \in Years : Begin("year", y) \/ Begin("calendar", y)
    \/ ReadTotals \/ ReadHours \/ ReadCurve \/ ReadTariff \/ TariffFails
    \/ ReadSplit \/ SplitFails \/ ReadFails \/ Deliver

Next ==
    \/ NextDay \/ Publish \/ CollectionStep \/ RequestStep
    \/ \E model \in Submitted : UpdateTariff(model)

Spec == Init /\ [][Next]_vars

-----------------------------------------------------------------------------
(* Properties.                                                               *)

\* Types: the tables are keyed by instants and days of the calendar, and only
\* the tariff models of the form are ever stored.
TypeOK ==
    /\ today \in Days /\ published \in 0 .. today
    /\ DOMAIN stored \subseteq Calendar /\ \A t \in DOMAIN stored : stored[t] \in Nat
    /\ DOMAIN agg \subseteq Days /\ \A d \in DOMAIN agg : agg[d] \in Nat
    /\ tariff \in TariffModels
    /\ writer.pc \in {"idle", "store", "refresh"}
    /\ request.pc \in {"idle", "totals", "curve", "hours", "tariff", "split", "done"}
    /\ behind \subseteq Months

CurveOn(b) == Sum(request.curve, {t \in DOMAIN request.curve : LocalDay(t) = b})

\* The parts of one answer are read while a collection writes, yet a daily (or
\* monthly) total never exceeds the curve under it, nor the curve its split
\* into VT and NT: totals are recomputed after the rows and read before them.
AnswersNeverRunAhead ==
    request.pc = "done" =>
        /\ request.curve # Absent =>
              \A b \in DOMAIN request.totals : request.totals[b] <= CurveOn(b)
        /\ request.vt # Absent =>
              \A b \in DOMAIN request.totals : request.totals[b] <= request.vt[b] + request.nt[b]
        /\ request.curve # Absent /\ request.vt # Absent =>
              \A t \in DOMAIN request.curve :
                  CurveOn(LocalDay(t)) <= request.vt[LocalDay(t)] + request.nt[LocalDay(t)]

\* With no collection writing since the request came, and no month of it left
\* without its recomputation, the answers agree: the totals, cut by local date,
\* with the rows, cut by ranges of instants and split into VT and NT or into
\* hours, over both changes of the clock and the end of a year. So a
\* recomputation that fails or is lost harms no month but its own, and the next
\* one that succeeds puts that month right.
QuietAnswersAgree ==
    request.pc = "done" /\ request.quiet /\ MonthsAsked(request) \cap behind = {} =>
        /\ request.curve # Absent =>
              /\ DOMAIN request.totals = {LocalDay(t) : t \in DOMAIN request.curve}
              /\ \A b \in DOMAIN request.totals : request.totals[b] = CurveOn(b)
        /\ request.vt # Absent =>
              request.totals = [b \in DOMAIN request.vt |-> request.vt[b] + request.nt[b]]
        /\ request.kind = "calendar" =>
              request.totals = [d \in {LocalDay(t) : t \in Rows(request)} |->
                                  Sum(stored, {t \in Rows(request) : LocalDay(t) = d})]
        /\ request.kind = "hours" =>
              /\ Sum(agg, DatedIn(request)) =
                    Sum([h \in DOMAIN request.totals |-> request.totals[h].kwh],
                        DOMAIN request.totals)
              /\ \A h \in DOMAIN request.totals : request.totals[h].days \in 1 .. DaysPerMonth

\* The window of the high tariff moves with the clock, so that what is billed as
\* high is the same fourteen hours of UTC all year: no hour is counted twice or
\* changes sides where the clock is changed (repository.go 45-52).
HighTariffIsFixedInUTC ==
    request.pc = "done" /\ request.quiet /\ request.vt # Absent =>
        \A b \in DOMAIN request.vt :
            request.vt[b] = Sum(stored, {t \in Rows(request) : Bucket(request, t) = b
                                                                /\ t % 24 \in 6 .. 19})

\* A row is stored only if it was measured when the wall clock showed that hour,
\* and never as HEP's padding of an hour not published yet (worker.go 676-684).
StoredIsMeasured ==
    writer.pc = "refresh" /\ request = NoRequest =>
        \A t \in DOMAIN stored :
            \E u \in {t - 1, t} \cap Calendar :
                Local(u) = Local(t) /\ u < PublishedTo /\ stored[t] = Curve[u]

\* A stored fetch has all that HEP had published of the month, measured zeros
\* between other values included; the hour that the clock repeats is had once.
NothingIsMissed ==
    writer.pc = "refresh" /\ request = NoRequest =>
        \A t \in MonthRange(writer.month) \ (Garbled \cup {FirstPass}) :
            (\E u \in MonthRange(writer.month) \ Garbled :
                u >= t /\ u < writer.upto /\ Curve[u] # 0) => t \in DOMAIN stored

\* The months and years to choose from begin with the present and go back in
\* order, also when the query for them has failed; with no collection at work
\* they leave out no month with readings, unless its recomputation failed or
\* was lost.
NewestIsOfferedFirst ==
    /\ \A found \in FoundMonths :
          /\ OfferedMonths(found)[1] = CurrentMonth
          /\ OfferedYears(found)[1] = CurrentMonth \div MonthsPerYear
          /\ \A s \in {OfferedMonths(found), OfferedYears(found)} :
                \A i \in 2 .. Len(s) : s[i] < s[i - 1]
    /\ writer.pc # "refresh" =>
          \A t \in DOMAIN stored : MonthOf(t) \notin behind =>
              \E i \in DOMAIN OfferedMonths(StoredMonths) :
                  OfferedMonths(StoredMonths)[i] = MonthOf(t)
=============================================================================
