---------------------------- MODULE MCNmapRunner ----------------------------
(* NmapRunner on a small instance; the values are in the .cfg.             *)
EXTENDS NmapRunner

=============================================================================
