--------------------------- MODULE MCSharedSession --------------------------
(* Instances of SharedSession for TLC. *)
EXTENDS SharedSession, TLC

CONSTANTS f1, f2, r1, r2

TwoRuns == [f \in Fetchers |-> IF f = f1 THEN r1 ELSE r2]

(* The two runs, each with its fetch, may change places. *)
Symmetry ==
    {f1 :> f1 @@ f2 :> f2 @@ r1 :> r1 @@ r2 :> r2,
     f1 :> f2 @@ f2 :> f1 @@ r1 :> r2 @@ r2 :> r1}
=============================================================================
