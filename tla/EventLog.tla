------------------------------- MODULE EventLog -------------------------------
(***************************************************************************)
(* One twin's log directory (logging/writer.py, logging/fingerprint.py):   *)
(* events.jsonl and the attacker record of one source address.  Records of *)
(* different sources never meet.  A module of operations: Listener         *)
(* instantiates it and says which step of which handler performs them.     *)
(***************************************************************************)
EXTENDS Naturals, Sequences

VARIABLES
  events,   (* the events of events.jsonl: its whole lines, in their order *)
  tail,     (* whether the file's last line is cut: it has no newline      *)
  cuts,     (* history: how often a line was left cut                      *)
  record    (* the source's attacker record                                *)

Records == [state : {"absent", "readable", "broken"}, session_count : Nat]

LogTypeOK(Events) ==
  /\ events \in Seq(Events)
  /\ tail \in {"whole", "cut"}
  /\ cuts \in Nat
  /\ record \in Records

LogInit ==
  /\ events = <<>>
  /\ tail = "whole"
  /\ cuts = 0
  /\ record = [state |-> "absent", session_count |-> 0]

LogUnchanged == UNCHANGED <<events, tail, cuts, record>>

(* Mutant: the newline after the event is forgotten.                       *)
write_event_NoNewline(e) ==
  /\ tail' = "cut"
  /\ UNCHANGED <<events, cuts, record>>

(* Mutant: the file is opened for writing, not for appending.              *)
write_event_Truncating(e) ==
  /\ events' = <<e>>
  /\ tail' = "whole"
  /\ UNCHANGED <<cuts, record>>

(* write_event that returns: the event and its newline are appended.  On a *)
(* cut line they complete a line that is no event.                         *)
write_event(e) ==
  /\ events' = IF tail = "whole" THEN Append(events, e) ELSE events
  /\ tail' = "whole"
  /\ UNCHANGED <<cuts, record>>

(* The line is cut: the disk is full in the middle of it, or the kill      *)
(* comes.                                                                  *)
CutLine ==
  /\ tail' = "cut"
  /\ cuts' = cuts + 1
  /\ UNCHANGED <<events, record>>

(* write_event that raises, before or after its first byte.                *)
write_event_Raises == LogUnchanged \/ CutLine

(* Mutant: the old count is looked up under another key.                   *)
update_attacker_record_StartsOver ==
  /\ record.state # "broken"
  /\ record' = [state |-> "readable", session_count |-> 1]
  /\ UNCHANGED <<events, tail, cuts>>

(* update_attacker_record that returns: a record that exists has to parse. *)
update_attacker_record ==
  /\ record.state # "broken"
  /\ record' = [state |-> "readable", session_count |-> record.session_count + 1]
  /\ UNCHANGED <<events, tail, cuts>>

(* write_text truncates before it writes: cut short in between, the file   *)
(* is no JSON any more.                                                    *)
BreakRecord ==
  /\ record' = [record EXCEPT !.state = "broken"]
  /\ UNCHANGED <<events, tail, cuts>>

(* json.loads raises on a broken record, without any other fault.          *)
RecordRefused == record.state = "broken" /\ LogUnchanged

(* update_attacker_record that raises for a fault of its own.              *)
update_attacker_record_Raises == LogUnchanged \/ BreakRecord

=============================================================================
