---------------------------- MODULE MCMonthWalk ----------------------------
EXTENDS MonthWalk

(* Nine months round two year's ends. *)
MCInputs ==
    {[year |-> 1, month |-> m] : m \in 11..12}
        \cup {[year |-> 2, month |-> m] : m \in {1, 2, 3, 11, 12}}
        \cup {[year |-> 3, month |-> m] : m \in 1..2}
=============================================================================
