------------------------------ MODULE MCReadApi ------------------------------
EXTENDS ReadApi

\* Nothing flows before dawn and late at night, nor on the first afternoon.
MCCurve ==
    [t \in Calendar |-> IF LocalHour(t) \in {0} \cup 2 .. 20 /\ t \notin 12 .. 24 THEN 1 + (t % 3) ELSE 0]
=============================================================================
