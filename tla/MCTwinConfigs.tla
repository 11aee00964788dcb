--------------------------- MODULE MCTwinConfigs ---------------------------
(* TwinConfigs on a small instance.                                        *)
EXTENDS TwinConfigs, TLC

Entry(port, protocol, state) == [port |-> port, protocol |-> protocol, state |-> state]

(* One host scanned for TCP, one for both protocols.                       *)
SomeProfiles == {
  {Entry(22, "tcp", "open"), Entry(80, "tcp", "closed")},
  {Entry(80, "tcp", "open"), Entry(53, "tcp", "closed"), Entry(53, "udp", "open")}}

(* Twins and invocations are interchangeable.                              *)
Symmetry == Permutations(Generators) \cup Permutations(Twins)

=============================================================================
