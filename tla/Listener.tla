------------------------------- MODULE Listener -------------------------------
(***************************************************************************)
(* The process inside a twin container (runtime/__main__.py and            *)
(* runtime/listener.py): one asyncio loop that binds a server per port,    *)
(* handles each connection in a task, and on SIGTERM closes the servers    *)
(* and waits for them.  What it records goes to one log directory, which a *)
(* later container of the same twin finds as it was left.                  *)
(*                                                                         *)
(* A handler runs without interruption from one await to the next, so each *)
(* such stretch is one action.  Bytes are counted, not stored: what was    *)
(* sent, read and retained are numbers.                                    *)
(***************************************************************************)
EXTENDS Integers, FiniteSets, Sequences

CONSTANTS
  NPorts,      (* config.ports: ports 1 to NPorts, bound in this order       *)
  Banners,     (* the ports that have a banner                               *)
  Conns,       (* the connections that clients may open                      *)
  NoConn,      (* no connection holds the loop                               *)
  MaxPayload,  (* max_payload_bytes                                          *)
  ReadSize,    (* the 4096 of reader.read                                    *)
  MaxSend,     (* bound: what one client sends                               *)
  Syslog,      (* syslog_enabled and syslog_host                             *)
  MaxFaults,   (* bound: how many recording steps raise                      *)
  MaxStarts    (* bound: how many containers run on the log directory        *)

ASSUME ListenerAssumption ==
  /\ NPorts \in Nat
  /\ Banners \subseteq 1..NPorts
  /\ NoConn \notin Conns
  /\ MaxPayload \in Nat
  /\ ReadSize \in Nat \ {0}
  /\ MaxSend \in Nat
  /\ Syslog \in BOOLEAN
  /\ MaxFaults \in Nat
  /\ MaxStarts \in Nat \ {0}

VARIABLES
  starts,      (* the processes started so far                               *)
  main,        (* where run_listeners is                                     *)
  next,        (* the port it binds next                                     *)
  server,      (* server[p]: the listening socket of port p                  *)
  stop_event,  (* whether SIGTERM or SIGINT arrived                          *)
  peer,        (* peer[c]: the client's end of connection c                  *)
  sent,        (* sent[c]: the bytes that arrived from it                    *)
  task,        (* task[c]: the handler of connection c and its locals        *)
  loop,        (* the connection whose blocking calls hold the event loop    *)
  faults,      (* the recording steps that raised by themselves              *)
  events, tail, cuts, record   (* the log directory: EventLog                *)

LogDir == INSTANCE EventLog

mainVars == <<starts, main, next, server, stop_event>>
peerVars == <<peer, sent>>
recVars  == <<loop, faults, events, tail, cuts, record>>

vars == <<mainVars, peerVars, task, recVars>>

Ports == 1..NPorts

-----------------------------------------------------------------------------

Steps == {"none", "banner", "read", "close", "record", "syslog", "attacker", "done", "raised", "gone"}

(* total, kept and clipped are _capture_payload's; payload and truncated   *)
(* are assigned when it returns; error is an exception no clause catches.  *)
(* returned is history: the recording steps that returned.                 *)
Tasks == [pc : Steps, total : Nat, kept : Nat, clipped : BOOLEAN,
          payload : Nat, truncated : BOOLEAN, error : BOOLEAN,
          returned : SUBSET {"record", "attacker"}]

Handler(pc) == [pc |-> pc, total |-> 0, kept |-> 0, clipped |-> FALSE,
                payload |-> 0, truncated |-> FALSE, error |-> FALSE, returned |-> {}]

Events == [conn : Conns, payload : Nat, truncated : BOOLEAN]

TypeOK ==
  /\ starts \in 1..MaxStarts
  /\ main \in {"bind", "serve", "wait closed", "exited", "killed"}
  /\ next \in 1..(NPorts + 1)
  /\ server \in [Ports -> {"unbound", "listening", "failed", "closed"}]
  /\ stop_event \in BOOLEAN
  /\ peer \in [Conns -> {"absent", "open", "eof", "reset", "lost"}]
  /\ sent \in [Conns -> Nat]
  /\ task \in [Conns -> Tasks]
  /\ loop \in Conns \cup {NoConn}
  /\ faults \in 0..MaxFaults
  /\ LogDir!LogTypeOK(Events)

Init ==
  /\ starts = 1
  /\ main = IF NPorts = 0 THEN "serve" ELSE "bind"
  /\ next = 1
  /\ server = [p \in Ports |-> "unbound"]
  /\ stop_event = FALSE
  /\ peer = [c \in Conns |-> "absent"]
  /\ sent = [c \in Conns |-> 0]
  /\ task = [c \in Conns |-> Handler("none")]
  /\ loop = NoConn
  /\ faults = 0
  /\ LogDir!LogInit

Alive == main \notin {"exited", "killed"}
Free  == Alive /\ loop = NoConn

-----------------------------------------------------------------------------
(* run_listeners.                                                          *)

(* Mutant: the loop over config.ports takes one turn too many.             *)
_serve_port_PastTheLast ==
  /\ Free /\ main = "bind"
  /\ \E outcome \in {"listening", "failed"} :
       server' = [p \in Ports |-> IF p = next THEN outcome ELSE server[p]]
  /\ next' = next + 1
  /\ main' = IF next > NPorts THEN "serve" ELSE "bind"
  /\ UNCHANGED <<starts, stop_event, peerVars, task, recVars>>

(* _serve_port: start_server accepts at once; an OSError leaves this port  *)
(* out and the loop goes on to the next.                                   *)
_serve_port ==
  /\ Free /\ main = "bind"
  /\ \E outcome \in {"listening", "failed"} : server' = [server EXCEPT ![next] = outcome]
  /\ next' = next + 1
  /\ main' = IF next = NPorts THEN "serve" ELSE "bind"
  /\ UNCHANGED <<starts, stop_event, peerVars, task, recVars>>

(* The loop runs the callback of add_signal_handler when it is free.       *)
SignalHandler ==
  /\ Free
  /\ ~ stop_event
  /\ stop_event' = TRUE
  /\ UNCHANGED <<starts, main, next, server, peerVars, task, recVars>>

CloseServers ==
  /\ Free /\ main = "serve" /\ stop_event
  /\ server' = [p \in Ports |-> IF server[p] = "listening" THEN "closed" ELSE server[p]]
  /\ main' = "wait closed"
  /\ UNCHANGED <<starts, next, stop_event, peerVars, task, recVars>>

(* Server.wait_closed of Python 3.12 returns once every connection the     *)
(* server accepted is detached, and a handler whose connection closes runs *)
(* to its end before run_listeners is woken.                               *)
Finished(c) == task[c].pc \in {"none", "done", "raised", "gone"}

(* Mutant: run_listeners does not wait for the servers it closed.          *)
ServersClosed_NotWaiting ==
  /\ Free /\ main = "wait closed"
  /\ main' = "exited"
  /\ UNCHANGED <<starts, next, server, stop_event, peerVars, task, recVars>>

ServersClosed ==
  /\ Free /\ main = "wait closed"
  /\ \A c \in Conns : Finished(c)
  /\ main' = "exited"
  /\ UNCHANGED <<starts, next, server, stop_event, peerVars, task, recVars>>

(* SIGKILL: `docker stop` sends it when its grace period is over.  It may  *)
(* cut a write of the handler that holds the loop, or is about to.         *)
Kill ==
  /\ Alive
  /\ main' = "killed"
  /\ task' = [c \in Conns |-> IF Finished(c) THEN task[c] ELSE [task[c] EXCEPT !.pc = "gone"]]
  /\ loop' = NoConn
  /\ \/ LogDir!LogUnchanged
     \/ Free /\ (\E c \in Conns : task[c].pc = "record") /\ LogDir!CutLine
     \/ (\E c \in Conns : task[c].pc = "attacker") /\ record.state # "broken" /\ LogDir!BreakRecord
  /\ UNCHANGED <<starts, next, server, stop_event, peerVars, faults>>

(* The next container of the twin: a new process on the old log directory. *)
Start ==
  /\ ~ Alive
  /\ starts < MaxStarts
  /\ starts' = starts + 1
  /\ main' = IF NPorts = 0 THEN "serve" ELSE "bind"
  /\ next' = 1
  /\ server' = [p \in Ports |-> "unbound"]
  /\ stop_event' = FALSE
  /\ UNCHANGED <<peerVars, task, recVars>>

-----------------------------------------------------------------------------
(* The clients.                                                            *)

Accept(c) == \E p \in Ports :
  /\ Free
  /\ server[p] = "listening"
  /\ task[c].pc = "none"
  /\ peer' = [peer EXCEPT ![c] = "open"]
  /\ task' = [task EXCEPT ![c] = Handler(IF p \in Banners THEN "banner" ELSE "read")]
  /\ UNCHANGED <<mainVars, sent, recVars>>

Send(c) ==
  /\ Alive
  /\ peer[c] = "open"
  /\ sent[c] < MaxSend
  /\ task[c].pc \in {"banner", "read"}
  /\ sent' = [sent EXCEPT ![c] = @ + 1]
  /\ UNCHANGED <<mainVars, peer, task, recVars>>

(* The client shuts down its side, resets the connection, or vanishes: a   *)
(* timeout or another OSError than a reset.  Once its end of file is in    *)
(* the socket only a write can still fail.                                 *)
Leave(c) ==
  /\ Alive
  /\ task[c].pc \in {"banner", "read"}
  /\ \/ peer[c] = "open" /\ \E end \in {"eof", "reset", "lost"} : peer' = [peer EXCEPT ![c] = end]
     \/ peer[c] = "eof" /\ task[c].pc = "banner" /\ peer' = [peer EXCEPT ![c] = "reset"]
  /\ UNCHANGED <<mainVars, sent, task, recVars>>

-----------------------------------------------------------------------------
(* _handle_connection.                                                     *)

Goto(c, pc) == task' = [task EXCEPT ![c].pc = pc]

(* A StreamReader that has an exception raises it from read, whatever it   *)
(* has buffered.  A reset is caught and leaves payload and truncated as    *)
(* they were; another OSError passes the except clause and leaves the      *)
(* handler after the finally.                                              *)
ReadInterrupted(c) ==
  /\ Free
  /\ task[c].pc = "read"
  /\ peer[c] \in {"reset", "lost"}
  /\ task' = [task EXCEPT ![c] = [@ EXCEPT !.pc = "close", !.error = (peer[c] = "lost")]]
  /\ UNCHANGED <<mainVars, peerVars, recVars>>

(* A write that fails, for whatever cause, has drain raise                 *)
(* ConnectionResetError.                                                   *)
BannerRefused(c) ==
  /\ Free
  /\ task[c].pc = "banner"
  /\ peer[c] \in {"reset", "lost"}
  /\ Goto(c, "close")
  /\ UNCHANGED <<mainVars, peerVars, recVars>>

(* A banner is smaller than the write buffer's limit: drain does not wait. *)
WriteBanner(c) ==
  /\ Free
  /\ task[c].pc = "banner"
  /\ peer[c] \in {"open", "eof"}
  /\ Goto(c, "read")
  /\ UNCHANGED <<mainVars, peerVars, recVars>>

Least(a, b) == IF a < b THEN a ELSE b

(* Mutant: data that just fits counts as cut.                              *)
Captured_CutAtTheCap(t, n) ==
  [t EXCEPT !.total = @ + n,
            !.kept = IF t.total < MaxPayload THEN @ + Least(n, MaxPayload - t.total) ELSE @,
            !.clipped = IF t.total < MaxPayload THEN @ \/ n >= MaxPayload - t.total ELSE TRUE]

(* One turn of _capture_payload's loop with n bytes of data.               *)
Captured(t, n) ==
  [t EXCEPT !.total = @ + n,
            !.kept = IF t.total < MaxPayload THEN @ + Least(n, MaxPayload - t.total) ELSE @,
            !.clipped = IF t.total < MaxPayload THEN @ \/ n > MaxPayload - t.total ELSE TRUE]

ReadData(c) == LET n == Least(ReadSize, sent[c] - task[c].total) IN
  /\ Free
  /\ task[c].pc = "read"
  /\ peer[c] \in {"open", "eof"}
  /\ n > 0
  /\ task' = [task EXCEPT ![c] = Captured(@, n)]
  /\ UNCHANGED <<mainVars, peerVars, recVars>>

(* Empty data: _capture_payload returns and the handler's locals are set.  *)
ReadEof(c) ==
  /\ Free
  /\ task[c].pc = "read"
  /\ peer[c] = "eof"
  /\ task[c].total = sent[c]
  /\ task' = [task EXCEPT ![c] = [@ EXCEPT !.pc = "close", !.payload = task[c].kept, !.truncated = task[c].clipped]]
  /\ UNCHANGED <<mainVars, peerVars, recVars>>

(* The finally clause: writer.close and wait_closed.                       *)
CloseWriter(c) ==
  /\ Free
  /\ task[c].pc = "close"
  /\ Goto(c, IF task[c].error THEN "raised" ELSE "record")
  /\ UNCHANGED <<mainVars, peerVars, recVars>>

Event(c) == [conn |-> c, payload |-> task[c].payload, truncated |-> task[c].truncated]

Returned(c, step, pc) ==
  task' = [task EXCEPT ![c].pc = pc, ![c].returned = @ \cup {step}]

Fault == faults < MaxFaults /\ faults' = faults + 1

AfterRecord == IF Syslog THEN "syslog" ELSE "attacker"

(* Mutant: what write_event raises leaves the handler.                     *)
RecordEvent_Escaping(c) ==
  /\ Free
  /\ task[c].pc = "record"
  /\ \/ LogDir!write_event(Event(c)) /\ loop' = c /\ Returned(c, "record", AfterRecord) /\ UNCHANGED faults
     \/ LogDir!write_event_Raises /\ loop' = NoConn /\ Goto(c, "raised") /\ Fault
  /\ UNCHANGED <<mainVars, peerVars>>

(* _record_event holds the loop from here on: no await inside the lock.    *)
RecordEvent(c) ==
  /\ Free
  /\ task[c].pc = "record"
  /\ \/ LogDir!write_event(Event(c)) /\ Returned(c, "record", AfterRecord) /\ UNCHANGED faults
     \/ LogDir!write_event_Raises /\ Goto(c, AfterRecord) /\ Fault
  /\ loop' = c
  /\ UNCHANGED <<mainVars, peerVars>>

(* Mutant: an event the collector did not take goes to the local log.      *)
send_syslog_FallingBack(c) ==
  /\ Alive /\ loop = c
  /\ task[c].pc = "syslog"
  /\ LogDir!LogUnchanged \/ LogDir!write_event(Event(c))
  /\ Goto(c, "attacker")
  /\ UNCHANGED <<mainVars, peerVars, loop, faults>>

(* Delivered, refused or timed out: nothing but time passes.               *)
send_syslog(c) ==
  /\ Alive /\ loop = c
  /\ task[c].pc = "syslog"
  /\ Goto(c, "attacker")
  /\ UNCHANGED <<mainVars, peerVars, recVars>>

UpdateRecord(c) ==
  /\ Alive /\ loop = c
  /\ task[c].pc = "attacker"
  /\ \/ LogDir!update_attacker_record /\ Returned(c, "attacker", "done") /\ UNCHANGED faults
     \/ LogDir!RecordRefused /\ Goto(c, "done") /\ UNCHANGED faults
     \/ LogDir!update_attacker_record_Raises /\ Goto(c, "done") /\ Fault
  /\ loop' = NoConn
  /\ UNCHANGED <<mainVars, peerVars>>

Handle(c) ==
  \/ BannerRefused(c)
  \/ ReadInterrupted(c)
  \/ WriteBanner(c)
  \/ ReadData(c)
  \/ ReadEof(c)
  \/ CloseWriter(c)
  \/ RecordEvent(c)
  \/ send_syslog(c)
  \/ UpdateRecord(c)

Main == _serve_port \/ CloseServers \/ ServersClosed

Next ==
  \/ Main
  \/ SignalHandler
  \/ Kill
  \/ Start
  \/ \E c \in Conns : Accept(c) \/ Send(c) \/ Leave(c) \/ Handle(c)

(* The loop runs every ready task, and it has no other work: weak fairness *)
(* of each handler and of run_listeners.  No fairness is asked of clients, *)
(* signals or kills.                                                       *)
Fairness == WF_vars(Main) /\ \A c \in Conns : WF_vars(Handle(c))

Spec     == Init /\ [][Next]_vars
FairSpec == Spec /\ Fairness

-----------------------------------------------------------------------------

Lines       == {events[i] : i \in 1..Len(events)}
Recorded(c) == \E e \in Lines : e.conn = c

(* A connection whose handler saw the end of file is recorded with the     *)
(* first max_payload_bytes of what the client sent, and `truncated` tells  *)
(* a clipped payload from one of exactly that length, however the bytes    *)
(* fell into reads (listener.py:36-56, docs/logging.md:46).                *)
RecordedPayload == \A e \in Lines : peer[e.conn] = "eof" =>
  /\ e.payload = Least(sent[e.conn], MaxPayload)
  /\ e.truncated = (sent[e.conn] > MaxPayload)

(* A process that stops by itself owes the log a line and the attacker     *)
(* record a session for every connection that was not killed with an       *)
(* earlier process or lost to an error no clause catches.  Each fault and  *)
(* each cut line may cost one line or one session and no more: a step that *)
(* fails takes neither the next step nor another connection with it, and   *)
(* the shutdown takes none (listener.py:66-90, 200-208).  A broken record  *)
(* counts nothing any more.                                                *)
CleanExitRecordsAll == main = "exited" =>
  LET owed      == {c \in Conns : task[c].pc \notin {"none", "gone"} /\ ~ task[c].error}
      unlogged  == {c \in owed : ~ Recorded(c)}
      uncounted == IF record.state = "broken" THEN 0 ELSE Cardinality(owed) - record.session_count
  IN  Cardinality(unlogged) + uncounted <= faults + cuts

(* A write that returned has put its event on a line of its own: a line    *)
(* cut by a full disk or a kill, in this container or an earlier one,      *)
(* spoils one later event at most (writer.py:31-33).                       *)
CutsCostOneLine ==
  Cardinality({c \in Conns : "record" \in task[c].returned /\ ~ Recorded(c)}) <= cuts

(* A record that can be read counts exactly the sessions folded into it,   *)
(* across kills, restarts and failed updates: session_count never starts   *)
(* over (fingerprint.py:32-48).                                            *)
SessionCountExact == record.state = "readable" =>
  record.session_count = Cardinality({c \in Conns : "attacker" \in task[c].returned})

(* A client that closes its side has its handler run through all three     *)
(* recording steps, or the process is killed: failing steps, other         *)
(* connections, a blocking syslog step and a stop under way may delay a    *)
(* handler and never end or starve it (listener.py:59-134).                *)
HandlersFinish == \A c \in Conns : peer[c] = "eof" ~> task[c].pc \in {"done", "gone"}

(* The process and its log directory keep what Recorder promises: no line  *)
(* is written for a connection twice or after it was lost, and no restart, *)
(* kill or failed write takes or moves one that is there                   *)
(* (writer.py:27-33, listener.py:66-90).                                   *)
Accepted  == {c \in Conns : task[c].pc # "none"}
LostConns == {c \in Accepted : ~ Recorded(c) /\
                task[c].pc \in {"syslog", "attacker", "done", "raised", "gone"}}
Promise == INSTANCE Recorder WITH
  seen <- Accepted, logged <- [i \in 1..Len(events) |-> events[i].conn], lost <- LostConns
KeepsLog == Promise!Spec

(* payload_base64 is "everything they sent" (docs/logging.md:31), up to    *)
(* the cap.                                                                *)
PayloadKept == \A e \in Lines : e.payload = Least(sent[e.conn], MaxPayload)

(* The process "runs its listeners until SIGTERM/SIGINT"                   *)
(* (runtime/__main__.py:3): after the signal it ends.                      *)
StopsOnSignal == stop_event ~> ~ Alive

=============================================================================
