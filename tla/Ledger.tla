------------------------------- MODULE Ledger -------------------------------
(***************************************************************************)
(* What the collection of a metering point promises of its tables, however *)
(* many runs overlap (worker.go 397-407, 473-549; repository.go 180-184):  *)
(* readings come in month by month as HEP has published them, less what     *)
(* cannot be read and the zeros at the end; the totals of a month are only   *)
(* ever recomputed, and agree with the readings when the collection rests;   *)
(* the stamp goes forward and marks months that need no second look.        *)
(***************************************************************************)
EXTENDS Integers, FiniteSets

CONSTANTS
    Dirs, NMonths, SlotsPerMonth, Never,
    EmptyMonths,    \* months of which HEP has no data
    Zeros,          \* per direction, the slots in which nothing is measured
    Garbled,        \* per direction, the slots that cannot be read
    Unsure,         \* slots at the end of a month that may come in too late
    Since           \* the first month that is wanted

VARIABLES
    published,  \* the slots HEP has published
    working,    \* the point is being collected
    readings,   \* the readings that are stored
    totals,     \* the readings that are summed up, month by month
    skipped,    \* the months given up for good
    stamp       \* everything before this month has been collected

tables == <<readings, totals, skipped, stamp>>
vars   == <<published, working, tables>>

Months     == 0..NMonths
Slots      == 0..(NMonths * SlotsPerMonth - 1)
SlotsOf(m) == {t \in Slots : t \div SlotsPerMonth = m}

(* What can be read of month m, with the slot that ends it, once HEP has      *)
(* published the first p slots; what of it is worth keeping.                 *)
Legible(d, m, p) ==
    {t \in Slots \ Garbled[d] :
        t < p /\ (t \div SlotsPerMonth = m \/ t = (m + 1) * SlotsPerMonth)}

AsOf(d, m, p) ==
    {t \in Legible(d, m, p) : \E u \in Legible(d, m, p) \ Zeros[d] : t <= u}

Settled(d, m) ==
    \/ 2 * Cardinality(readings[d] \cap SlotsOf(m)) >= SlotsPerMonth
    \/ AsOf(d, m, (m + 1) * SlotsPerMonth - Unsure) \subseteq readings[d]
    \/ m \in EmptyMonths

Agree == \A d \in Dirs, m \in Months : totals[d][m] = readings[d] \cap SlotsOf(m)

Init ==
    /\ published \in Slots
    /\ working = FALSE
    /\ readings = [d \in Dirs |-> {}]
    /\ totals = [d \in Dirs |-> [m \in Months |-> {}]]
    /\ skipped = [d \in Dirs |-> {}]
    /\ stamp = Never

Publish ==
    /\ published' = published + 1
    /\ UNCHANGED <<working, tables>>

Begin ==
    /\ ~working /\ working' = TRUE
    /\ UNCHANGED <<published, tables>>

Enter(d, m) ==
    /\ working
    /\ \E p \in 0..published : readings' = [readings EXCEPT ![d] = @ \cup AsOf(d, m, p)]
    /\ UNCHANGED <<published, working, totals, skipped, stamp>>

SumUp(d, m) ==
    /\ working
    /\ totals' = [totals EXCEPT ![d][m] = readings[d] \cap SlotsOf(m)]
    /\ UNCHANGED <<published, working, readings, skipped, stamp>>

GiveUp(d, m) ==
    /\ working /\ m \in EmptyMonths
    /\ skipped' = [skipped EXCEPT ![d] = @ \cup {m}]
    /\ UNCHANGED <<published, working, readings, totals, stamp>>

(* The last run at work ends. *)
Rest == working /\ working' = FALSE /\ Agree

Fail == Rest /\ UNCHANGED <<published, tables>>

Stamp(m) ==
    /\ stamp = Never \/ stamp <= m
    /\ \A d \in Dirs, n \in Since..(m - 1) : Settled(d, n)
    /\ stamp' = m
    /\ Rest \/ (working /\ working' = TRUE)
    /\ UNCHANGED <<published, readings, totals, skipped>>

Next ==
    \/ Publish \/ Begin \/ Fail
    \/ \E m \in Months : Stamp(m)
    \/ \E d \in Dirs, m \in Months : Enter(d, m) \/ SumUp(d, m) \/ GiveUp(d, m)

Spec == Init /\ [][Next]_vars
=============================================================================
