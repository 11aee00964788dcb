--------------------------- MODULE MCTwinLifecycle ---------------------------
(* TwinLifecycle on small instances.                                       *)
EXTENDS TwinLifecycle, TLC

(* Invocations are interchangeable, and so are the values of bridge_subnet *)
(* and the twins.                                                          *)
Symmetry == Permutations(Setups) \cup Permutations(Runs) \cup Permutations(Subnets) \cup Permutations(Twins)

=============================================================================
