---------------------------- MODULE MCContainment ----------------------------
(* Containment on small instances.                                         *)
EXTENDS Containment

(* Setups and subnets are interchangeable: nothing orders or chooses them. *)
Symmetry == Permutations(Setups) \cup Permutations(Subnets)

=============================================================================
