----------------------------- MODULE MCListener -----------------------------
(* Listener on small instances; the values are in the .cfg files.          *)
EXTENDS Listener

=============================================================================
