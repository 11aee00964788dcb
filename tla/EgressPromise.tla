----------------------------- MODULE EgressPromise -----------------------------
(***************************************************************************)
(* What egress containment promises to `honeytwin run`, with no firewall   *)
(* and no file: a subnet is promised only while it is covered, and what is *)
(* covered stays covered until the host reboots, unless something else     *)
(* takes its rules away, after which the promise speaks of it no more.     *)
(***************************************************************************)
CONSTANT Subnets

VARIABLES
  covered,    (* the subnets whose outbound traffic the host drops          *)
  promised,   (* the subnets `run` may start a twin on                      *)
  disowned    (* the subnets the promise no longer speaks of                *)

vars == <<covered, promised, disowned>>

Init == covered = {} /\ promised = {} /\ disowned = {}

Cover(s) ==
  /\ s \notin covered \cup disowned
  /\ covered' = covered \cup {s}
  /\ UNCHANGED <<promised, disowned>>

Promise(s) ==
  /\ s \in covered
  /\ promised' = {s}
  /\ UNCHANGED <<covered, disowned>>

Retract ==
  /\ promised' = {}
  /\ UNCHANGED <<covered, disowned>>

Disown(s) ==
  /\ s \notin disowned
  /\ covered' = covered \ {s}
  /\ promised' = promised \ {s}
  /\ disowned' = disowned \cup {s}

Forget ==
  /\ covered' = {}
  /\ promised' = {}
  /\ disowned' = {}

Next == Retract \/ Forget \/ \E s \in Subnets : Cover(s) \/ Promise(s) \/ Disown(s)

Spec == Init /\ [][Next]_vars

=============================================================================
