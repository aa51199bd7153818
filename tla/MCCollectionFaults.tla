---------------------------- MODULE MCCollectionFaults ----------------------------
(* Instances of CollectionFaults for TLC. *)
EXTENDS CollectionFaults, TLC

Symmetry == Permutations(Runs)

(* Month 0 is zero or does not parse. *)
MCZeros   == [d \in Dirs |-> {0, 2}]
MCGarbled == [d \in Dirs |-> {1}]
=============================================================================
