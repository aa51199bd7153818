------------------------------ MODULE MonthWalk ------------------------------
(***************************************************************************)
(* getMonthsToCollect of app/worker.go: which months of a metering point    *)
(* are outstanding.  Collection takes the answer as an interval of month    *)
(* numbers; here it is computed the way the code does it, on pairs of a      *)
(* year and a month, with the walk that stops when it meets the reference    *)
(* month and would never stop if it started behind it.                      *)
(***************************************************************************)
EXTENDS Integers, Sequences

MonthYears == [year : Nat, month : 1..12]

CONSTANTS
    Inputs,     \* the months the arguments are taken from
    None        \* nil

ASSUME InputsAssumption == Inputs \subseteq MonthYears /\ None \notin MonthYears

VARIABLES
    last,           \* month of point.LastMeterReadingCollection, or None
    availableFrom,  \* month of point.AvailableFrom, or None
    fetchFrom,      \* month of the configured fetchFrom, or None
    current,        \* month of refTime
    pc,
    cursor,         \* the month the walk has reached
    months          \* the result

arguments == <<last, availableFrom, fetchFrom, current>>
vars == <<arguments, pc, cursor, months>>

(* monthBefore *)
MonthBefore(a, b) ==
    \/ a.year < b.year
    \/ a.year = b.year /\ a.month < b.month

(* Mutant: December is not the end of a year. *)
AddMonthOnly(m) == [m EXCEPT !.month = @ + 1]

(* cursor.AddDate(0, 1, 0), from the first day of a month. *)
AddMonth(m) ==
    IF m.month = 12 THEN [year |-> m.year + 1, month |-> 1]
    ELSE [year |-> m.year, month |-> m.month + 1]

(* The first month before the cap is applied. *)
Uncapped ==
    IF last # None THEN IF MonthBefore(last, current) THEN last ELSE current
    ELSE IF availableFrom # None THEN availableFrom ELSE current

(* Mutant: the cap is applied to a first collection only. *)
StartFirstOnly ==
    IF last = None /\ fetchFrom # None /\ MonthBefore(Uncapped, fetchFrom)
    THEN fetchFrom ELSE Uncapped

Start ==
    IF fetchFrom # None /\ MonthBefore(Uncapped, fetchFrom)
    THEN fetchFrom ELSE Uncapped

Init ==
    /\ last \in Inputs \cup {None}
    /\ availableFrom \in Inputs \cup {None}
    /\ fetchFrom \in Inputs \cup {None}
    /\ current \in Inputs
    /\ pc = "begin" /\ cursor = current /\ months = <<>>

(* The cap lies after the reference month: nothing to fetch yet. *)
NothingYet ==
    /\ pc = "begin" /\ MonthBefore(current, Start)
    /\ pc' = "done"
    /\ UNCHANGED <<arguments, cursor, months>>

ReferenceOnly ==
    /\ pc = "begin" /\ ~MonthBefore(Start, current) /\ ~MonthBefore(current, Start)
    /\ pc' = "done" /\ months' = <<current>>
    /\ UNCHANGED <<arguments, cursor>>

(* Mutant: no early return for a start behind the reference month. *)
BeginWalkAlways ==
    /\ pc = "begin"
    /\ pc' = "walk" /\ cursor' = Start
    /\ UNCHANGED <<arguments, months>>

BeginWalk ==
    /\ pc = "begin" /\ MonthBefore(Start, current)
    /\ pc' = "walk" /\ cursor' = Start
    /\ UNCHANGED <<arguments, months>>

Walk ==
    /\ pc = "walk"
    /\ months' = Append(months, cursor)
    /\ IF cursor = current THEN pc' = "done" /\ UNCHANGED cursor
       ELSE cursor' = AddMonth(cursor) /\ UNCHANGED pc
    /\ UNCHANGED arguments

Next == NothingYet \/ ReferenceOnly \/ BeginWalk \/ Walk

Spec == Init /\ [][Next]_vars

-----------------------------------------------------------------------------
(* Properties *)

TypeOK ==
    /\ last \in Inputs \cup {None} /\ availableFrom \in Inputs \cup {None}
    /\ fetchFrom \in Inputs \cup {None} /\ current \in Inputs
    /\ pc \in {"begin", "walk", "done"}
    /\ cursor \in MonthYears /\ months \in Seq(MonthYears)

(* Months in their order on the calendar. *)
Index(m) == 12 * m.year + m.month

(* The walk never passes the reference month, the only one it stops at.      *)
WalkMeetsCurrent == pc = "walk" => Index(cursor) <= Index(current)

(* The months wanted of the run: from where the last collection stopped, or *)
(* from the contract's start, but not before the cap.                       *)
Wanted(m) ==
    /\ Index(m) <= Index(current)
    /\ fetchFrom # None => Index(m) >= Index(fetchFrom)
    /\ IF last # None THEN Index(m) >= Index(last) \/ m = current
       ELSE IF availableFrom # None THEN Index(m) >= Index(availableFrom)
       ELSE m = current

(* The result lists every wanted month, once and in order, and no other:     *)
(* neither a gap at a year's end nor a month twice, whatever the order of    *)
(* the last collection, the contract, the cap and the reference month.       *)
ListsWantedMonths ==
    pc = "done" =>
        /\ \A i \in 1..Len(months) : Wanted(months[i])
        /\ \A i \in 1..(Len(months) - 1) : Index(months[i + 1]) = Index(months[i]) + 1
        /\ \A m \in Inputs : Wanted(m) => \E i \in 1..Len(months) : months[i] = m
=============================================================================
