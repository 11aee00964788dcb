------------------------------- MODULE Recorder -------------------------------
(***************************************************************************)
(* What the log of a twin promises, whatever happens to the process: a     *)
(* connection has at most one line, which stays where it is, or it is lost *)
(* for good.  The log is a sequence, so that a second line would show.     *)
(***************************************************************************)
EXTENDS Naturals, Sequences

CONSTANTS Conns      (* the connections clients may open                   *)

VARIABLES
  seen,     (* the connections the twin accepted                           *)
  logged,   (* the lines of events.jsonl: whose connection each is         *)
  lost      (* the connections that never will have a line                 *)

Init == seen = {} /\ logged = <<>> /\ lost = {}

Pending == seen \ ({logged[i] : i \in 1..Len(logged)} \cup lost)

See(c) ==
  /\ seen' = seen \cup {c}
  /\ UNCHANGED <<logged, lost>>

Log(c) ==
  /\ c \in Pending
  /\ logged' = Append(logged, c)
  /\ UNCHANGED <<seen, lost>>

(* One connection's handler fails, or all that are pending go with the     *)
(* process.                                                                *)
Lose(S) ==
  /\ S \subseteq Pending
  /\ lost' = lost \cup S
  /\ UNCHANGED <<seen, logged>>

Next ==
  \/ \E c \in Conns : See(c) \/ Log(c)
  \/ \E S \in SUBSET Conns : Lose(S)

Spec == Init /\ [][Next]_<<seen, logged, lost>>

=============================================================================
