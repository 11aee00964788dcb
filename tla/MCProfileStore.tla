--------------------------- MODULE MCProfileStore ---------------------------
(* ProfileStore on small instances.                                        *)
EXTENDS ProfileStore, TLC

(* Invocations are interchangeable.                                        *)
Symmetry == Permutations(Savers)

=============================================================================
