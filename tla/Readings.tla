------------------------------- MODULE Readings -------------------------------
(***************************************************************************)
(* From HEP's answer to rows of meter_readings: parse, drop what lies      *)
(* ahead, trim the padding, insert (worker.go 627-686, repository.go       *)
(* 119-166). An entry of an answer carries a wall clock; a row an instant. *)
(***************************************************************************)
EXTENDS LocalTime, FiniteSetsExt

CONSTANTS
    Curve,      \* the value measured at each instant of the calendar
    Garbled     \* the instants whose value cannot be parsed

ASSUME ReadingsAssumption == Curve \in [Calendar -> Nat] /\ Garbled \subseteq Calendar

(***************************************************************************)
(* HEP answers with every slot of the month and the first of the next one; *)
(* a slot that is not measured yet is padded with zero.                    *)
(***************************************************************************)
HepAnswer(m, published) ==
    {[wall |-> Local(t), ok |-> t \notin Garbled,
      value |-> IF t < published THEN Curve[t] ELSE 0] :
        t \in (MonthRange(m) \cup {FirstOfMonth(m + 1)}) \cap Calendar}

Parsed(answer, now) ==
    {[at |-> Instant(e.wall), value |-> e.value] : e \in {e \in answer : Instant(e.wall) <= now /\ e.ok}}

\* Mutants: the padding is kept; every zero goes.
TrimmedNot(rows) == rows
TrimmedZeros(rows) == {r \in rows : r.value # 0}

\* Everything after the last row that is not zero goes.
Trimmed(rows) == {r \in rows : \E q \in rows : q.at >= r.at /\ q.value # 0}

\* Mutant: only the month that was asked for.
MonthsTouchedFirst(rows) == {Min({MonthOf(r.at) : r \in rows})}

MonthsTouched(rows) == {MonthOf(r.at) : r \in rows}

(***************************************************************************)
(* ON CONFLICT DO NOTHING: a stored row stays. Two entries of one answer   *)
(* meet at one instant when the clock repeats an hour; sort.Slice puts     *)
(* them in either order, and the first one is stored.                      *)
(***************************************************************************)
Inserts(table, rows) ==
    LET new == {r \in rows : r.at \notin DOMAIN table}
        values(t) == {r.value : r \in {r \in new : r.at = t}}
        times == {r.at : r \in new}
        stored(first) == [t \in DOMAIN table \cup times |->
                            IF t \in DOMAIN table THEN table[t]
                            ELSE IF first = "least" THEN Min(values(t)) ELSE Max(values(t))]
    IN {stored(first) : first \in {"least", "most"}}
=============================================================================
