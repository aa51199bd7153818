---------------------------- MODULE MCCollection ----------------------------
(* Instances of Collection for TLC. *)
EXTENDS Collection, TLC

Symmetry == Permutations(Runs)

(* Month 0 has no consumption but in its first slot, and a slot that does not parse. *)
MCZeros   == [d \in Dirs |-> {1, 3}]
MCGarbled == [d \in Dirs |-> {2}]

(* Every slot has a value that counts. *)
NoSlots == [d \in Dirs |-> {}]
=============================================================================
