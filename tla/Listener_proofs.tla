---------------------------- MODULE Listener_proofs ----------------------------
(***************************************************************************)
(* What the listener and its log guarantee for every number of ports,      *)
(* connections, containers and faults, every cap and every read size.      *)
(***************************************************************************)
EXTENDS Listener, FiniteSetTheorems, SequenceTheorems, TLAPS

-----------------------------------------------------------------------------
(* Type correctness, in the parts that steps leave alone together.         *)

MainOK ==
  /\ starts \in 1..MaxStarts
  /\ main \in {"bind", "serve", "wait closed", "exited", "killed"}
  /\ next \in 1..(NPorts + 1)
  /\ server \in [Ports -> {"unbound", "listening", "failed", "closed"}]
  /\ stop_event \in BOOLEAN
  /\ main = "bind" => next \in 1..NPorts
PeerOK == peer \in [Conns -> {"absent", "open", "eof", "reset", "lost"}] /\ sent \in [Conns -> Nat]
TaskOK == task \in [Conns -> Tasks]
LoopOK == loop \in Conns \cup {NoConn} /\ faults \in 0..MaxFaults
LogOK  == LogDir!LogTypeOK(Events)

TypeInv == MainOK /\ PeerOK /\ TaskOK /\ LoopOK /\ LogOK

LEMMA TypeParts == TypeInv => TypeOK
BY DEF TypeInv, TypeOK, MainOK, PeerOK, TaskOK, LoopOK, LogOK

LEMMA NatConstants ==
  NPorts \in Nat /\ MaxPayload \in Nat /\ ReadSize \in Nat /\ ReadSize # 0 /\ MaxFaults \in Nat /\ MaxStarts \in Nat /\ MaxStarts # 0
BY ListenerAssumption DEF ListenerAssumption

LEMMA HandlerType == \A pc \in Steps : Handler(pc) \in Tasks
BY DEF Handler, Tasks

LEMMA TypeInit == Init => TypeInv
<1> SUFFICES ASSUME Init PROVE TypeInv
  OBVIOUS
<1>1. MainOK
  <2>1. main = IF NPorts = 0 THEN "serve" ELSE "bind"
    BY DEF Init
  <2>2. starts = 1 /\ next = 1 /\ server = [p \in Ports |-> "unbound"] /\ stop_event = FALSE
    BY DEF Init
  <2>3. 1 \in 1..MaxStarts /\ 1 \in 1..(NPorts + 1) /\ (NPorts # 0 => 1 \in 1..NPorts)
    BY NatConstants
  <2> QED
    BY <2>1, <2>2, <2>3 DEF MainOK
<1>2. PeerOK
  BY DEF Init, PeerOK
<1>3. TaskOK
  BY HandlerType DEF Init, TaskOK, Steps
<1>4. LoopOK
  BY NatConstants DEF Init, LoopOK
<1>5. LogOK
  BY DEF Init, LogOK, LogDir!LogInit, LogDir!LogTypeOK, LogDir!Records
<1> QED
  BY <1>1, <1>2, <1>3, <1>4, <1>5 DEF TypeInv

(* What every step of the log directory does to its type.                  *)
LEMMA LogTypes ==
  ASSUME LogDir!LogTypeOK(Events)
  PROVE  /\ \A e \in Events : LogDir!write_event(e) => LogDir!LogTypeOK(Events)'
         /\ LogDir!LogUnchanged => LogDir!LogTypeOK(Events)'
         /\ LogDir!CutLine => LogDir!LogTypeOK(Events)'
         /\ LogDir!BreakRecord => LogDir!LogTypeOK(Events)'
         /\ LogDir!update_attacker_record => LogDir!LogTypeOK(Events)'
<1> USE DEF LogDir!LogTypeOK
<1>1. \A e \in Events : LogDir!write_event(e) => LogDir!LogTypeOK(Events)'
  BY DEF LogDir!write_event
<1>2. LogDir!LogUnchanged => LogDir!LogTypeOK(Events)'
  BY DEF LogDir!LogUnchanged
<1>3. LogDir!CutLine => LogDir!LogTypeOK(Events)'
  BY DEF LogDir!CutLine
<1>4. LogDir!BreakRecord => LogDir!LogTypeOK(Events)'
  BY DEF LogDir!BreakRecord, LogDir!Records
<1>5. LogDir!update_attacker_record => LogDir!LogTypeOK(Events)'
  BY DEF LogDir!update_attacker_record, LogDir!Records
<1> QED
  BY <1>1, <1>2, <1>3, <1>4, <1>5

LEMMA PartsKept ==
  /\ MainOK /\ UNCHANGED mainVars => MainOK'
  /\ PeerOK /\ UNCHANGED peerVars => PeerOK'
  /\ TaskOK /\ UNCHANGED task => TaskOK'
  /\ LoopOK /\ LogOK /\ UNCHANGED recVars => LoopOK' /\ LogOK'
<1>1. MainOK /\ UNCHANGED mainVars => MainOK'
  BY DEF MainOK, mainVars
<1>2. PeerOK /\ UNCHANGED peerVars => PeerOK'
  BY DEF PeerOK, peerVars
<1>3. TaskOK /\ UNCHANGED task => TaskOK'
  BY DEF TaskOK
<1>4. LoopOK /\ LogOK /\ UNCHANGED recVars => LoopOK' /\ LogOK'
  BY DEF LoopOK, LogOK, recVars, LogDir!LogTypeOK
<1> QED
  BY <1>1, <1>2, <1>3, <1>4

LEMMA TypeStep == TypeInv /\ [Next]_vars => TypeInv'
<1> SUFFICES ASSUME TypeInv, [Next]_vars PROVE TypeInv'
  OBVIOUS
<1> USE DEF TypeInv
<1>1. CASE _serve_port
  <2>1. next \in 1..NPorts /\ next' = next + 1 /\ main' = (IF next = NPorts THEN "serve" ELSE "bind")
    BY <1>1 DEF _serve_port, MainOK
  <2>2. next' \in 1..(NPorts + 1) /\ (main' = "bind" => next' \in 1..NPorts)
    BY <2>1, NatConstants
  <2>3. server' \in [Ports -> {"unbound", "listening", "failed", "closed"}]
    BY <1>1 DEF _serve_port, MainOK
  <2>4. starts' = starts /\ stop_event' = stop_event
    BY <1>1 DEF _serve_port
  <2>5. MainOK'
    BY <2>1, <2>2, <2>3, <2>4 DEF MainOK
  <2> QED
    BY <1>1, <2>5, PartsKept DEF _serve_port
<1>2. CASE SignalHandler \/ CloseServers \/ ServersClosed \/ Start
  <2>1. ASSUME SignalHandler \/ CloseServers \/ ServersClosed PROVE MainOK'
    BY <1>2, <2>1 DEF SignalHandler, CloseServers, ServersClosed, MainOK
  <2>2. ASSUME Start PROVE MainOK'
    <3>1. starts' \in 1..MaxStarts
      <4>1. starts \in 1..MaxStarts /\ starts < MaxStarts /\ starts' = starts + 1
        BY <2>2 DEF Start, MainOK
      <4> QED
        BY <4>1, NatConstants
    <3>2. next' = 1 /\ main' = (IF NPorts = 0 THEN "serve" ELSE "bind")
      BY <2>2 DEF Start
    <3>3. next' \in 1..(NPorts + 1) /\ (main' = "bind" => next' \in 1..NPorts)
      BY <3>2, NatConstants
    <3>4. server' = [p \in Ports |-> "unbound"] /\ stop_event' = FALSE
      BY <2>2 DEF Start
    <3> QED
      BY <3>1, <3>2, <3>3, <3>4 DEF MainOK
  <2>3. MainOK'
    BY <1>2, <2>1, <2>2
  <2> QED
    BY <1>2, <2>3, PartsKept DEF SignalHandler, CloseServers, ServersClosed, Start
<1>3. CASE Kill
  <2>1. MainOK' /\ LoopOK'
    BY <1>3 DEF Kill, MainOK, LoopOK
  <2>2. TaskOK'
    BY <1>3 DEF Kill, TaskOK, Tasks, Steps
  <2>3. LogOK'
    BY <1>3, LogTypes DEF Kill, LogOK
  <2> QED
    BY <1>3, <2>1, <2>2, <2>3, PartsKept DEF Kill
<1>4. ASSUME NEW c \in Conns, Accept(c) PROVE TypeInv'
  <2>1. TaskOK'
    BY <1>4, HandlerType DEF Accept, Steps, TaskOK
  <2>2. PeerOK'
    BY <1>4 DEF Accept, PeerOK
  <2> QED
    BY <1>4, <2>1, <2>2, PartsKept DEF Accept
<1>5. ASSUME NEW c \in Conns, Send(c) \/ Leave(c) PROVE TypeInv'
  <2>1. PeerOK'
    BY <1>5 DEF Send, Leave, PeerOK
  <2> QED
    BY <1>5, <2>1, PartsKept DEF Send, Leave
<1>6. ASSUME NEW c \in Conns, BannerRefused(c) \/ ReadInterrupted(c) \/ WriteBanner(c) \/ CloseWriter(c) \/ ReadEof(c)
      PROVE  TypeInv'
  <2>1. TaskOK'
    <3>1. CASE ReadEof(c)
      <4>1. [task[c] EXCEPT !.pc = "close", !.payload = task[c].kept, !.truncated = task[c].clipped] \in Tasks
        BY DEF TaskOK, Tasks, Steps
      <4> QED
        BY <3>1, <4>1 DEF ReadEof, TaskOK
    <3>2. CASE ReadInterrupted(c)
      <4>1. [task[c] EXCEPT !.pc = "close", !.error = (peer[c] = "lost")] \in Tasks
        BY DEF TaskOK, Tasks, Steps
      <4> QED
        BY <3>2, <4>1 DEF ReadInterrupted, TaskOK
    <3>3. CASE BannerRefused(c) \/ WriteBanner(c) \/ CloseWriter(c)
      BY <3>3 DEF BannerRefused, WriteBanner, CloseWriter, Goto, TaskOK, Tasks, Steps
    <3> QED
      BY <1>6, <3>1, <3>2, <3>3
  <2> QED
    BY <1>6, <2>1, PartsKept DEF BannerRefused, ReadInterrupted, WriteBanner, CloseWriter, ReadEof
<1>7. ASSUME NEW c \in Conns, ReadData(c) PROVE TypeInv'
  <2> DEFINE n == Least(ReadSize, sent[c] - task[c].total)
  <2>1. n \in Nat
    BY <1>7, NatConstants DEF ReadData, Least, Tasks, TaskOK, PeerOK
  <2>2. Captured(task[c], n) \in Tasks
    <3>1. task[c] \in Tasks /\ task[c].total \in Nat /\ task[c].kept \in Nat
      BY DEF TaskOK, Tasks
    <3>2. task[c].total + n \in Nat
      BY <2>1, <3>1
    <3>3. task[c].total < MaxPayload => task[c].kept + Least(n, MaxPayload - task[c].total) \in Nat
      BY <2>1, <3>1, NatConstants DEF Least
    <3> HIDE DEF n
    <3> QED
      BY <3>1, <3>2, <3>3 DEF Captured, Tasks
  <2>3. TaskOK'
    BY <1>7, <2>2 DEF ReadData, TaskOK
  <2> QED
    BY <1>7, <2>3, PartsKept DEF ReadData
<1>8. ASSUME NEW c \in Conns, RecordEvent(c) PROVE TypeInv'
  <2>1. LogOK'
    <3>1. Event(c) \in Events
      BY DEF Event, Events, Tasks, TaskOK
    <3>2. LogDir!write_event(Event(c)) \/ LogDir!LogUnchanged \/ LogDir!CutLine
      BY <1>8 DEF RecordEvent, LogDir!write_event_Raises
    <3> QED
      BY <3>1, <3>2, LogTypes DEF LogOK
  <2>2. TaskOK'
    <3>1. Returned(c, "record", AfterRecord) \/ Goto(c, AfterRecord)
      BY <1>8 DEF RecordEvent
    <3> QED
      BY <3>1 DEF Returned, Goto, AfterRecord, Tasks, Steps, TaskOK
  <2>3. LoopOK'
    <3>1. (faults' = faults \/ Fault) /\ loop' = c
      BY <1>8 DEF RecordEvent
    <3> QED
      BY <3>1, NatConstants DEF Fault, LoopOK
  <2> QED
    BY <1>8, <2>1, <2>2, <2>3, PartsKept DEF RecordEvent
<1>9. ASSUME NEW c \in Conns, send_syslog(c) PROVE TypeInv'
  <2>1. TaskOK'
    BY <1>9 DEF send_syslog, Goto, Tasks, Steps, TaskOK
  <2> QED
    BY <1>9, <2>1, PartsKept DEF send_syslog
<1>10. ASSUME NEW c \in Conns, UpdateRecord(c) PROVE TypeInv'
  <2>1. LogOK'
    <3>1. LogDir!update_attacker_record \/ LogDir!LogUnchanged \/ LogDir!BreakRecord
      BY <1>10 DEF UpdateRecord, LogDir!RecordRefused, LogDir!update_attacker_record_Raises
    <3> QED
      BY <3>1, LogTypes DEF LogOK
  <2>2. TaskOK'
    <3>1. Returned(c, "attacker", "done") \/ Goto(c, "done")
      BY <1>10 DEF UpdateRecord
    <3> QED
      BY <3>1 DEF Returned, Goto, Tasks, Steps, TaskOK
  <2>3. LoopOK'
    <3>1. (faults' = faults \/ Fault) /\ loop' = NoConn
      BY <1>10 DEF UpdateRecord
    <3> QED
      BY <3>1, NatConstants DEF Fault, LoopOK
  <2> QED
    BY <1>10, <2>1, <2>2, <2>3, PartsKept DEF UpdateRecord
<1>11. CASE UNCHANGED vars
  BY <1>11, PartsKept DEF vars
<1> QED
  BY <1>1, <1>2, <1>3, <1>4, <1>5, <1>6, <1>7, <1>8, <1>9, <1>10, <1>11 DEF Next, Main, Handle

(* The process, its connections and its log directory are well formed at   *)
(* any time (runtime/listener.py, logging/writer.py).                      *)
THEOREM TypeCorrect == Spec => []TypeOK
<1>1. Spec => []TypeInv
  BY TypeInit, TypeStep, PTL DEF Spec
<1> QED
  BY <1>1, TypeParts, PTL

-----------------------------------------------------------------------------
(* Payloads.  While it reads, a handler has kept and clipped what the cap  *)
(* asks of the bytes it has read so far; from its end of file on, of all   *)
(* that was sent, which does not change any more.                          *)

Past == {"syslog", "attacker", "done", "gone"}

AllSent(c, payload, truncated) ==
  peer[c] = "eof" => payload = Least(sent[c], MaxPayload) /\ truncated = (sent[c] > MaxPayload)

CaptureInv(c) ==
  /\ task[c].total <= sent[c]
  /\ task[c].kept = Least(task[c].total, MaxPayload)
  /\ task[c].clipped = (task[c].total > MaxPayload)
  /\ task[c].pc \in {"close", "record"} => AllSent(c, task[c].payload, task[c].truncated)

EventInv == \A e \in Lines :
  task[e.conn].pc \in Past /\ AllSent(e.conn, e.payload, e.truncated)

PayloadInv == EventInv /\ \A c \in Conns : CaptureInv(c)

(* Steps of run_listeners and of the operator touch no connection.         *)
LEMMA MainSteps ==
  ASSUME _serve_port \/ SignalHandler \/ CloseServers \/ ServersClosed \/ Start
  PROVE  UNCHANGED <<peerVars, task, recVars>>
BY DEF _serve_port, SignalHandler, CloseServers, ServersClosed, Start

(* What the steps that write to the log directory do to the events.        *)
LEMMA EventsAfter ==
  /\ \A e \in Events : LogDir!write_event(e) => events' = IF tail = "whole" THEN Append(events, e) ELSE events
  /\ LogDir!write_event_Raises => events' = events
  /\ LogDir!LogUnchanged \/ LogDir!CutLine \/ LogDir!BreakRecord => events' = events
  /\ LogDir!update_attacker_record => events' = events
  /\ LogDir!RecordRefused \/ LogDir!update_attacker_record_Raises => events' = events
BY DEF LogDir!write_event, LogDir!write_event_Raises, LogDir!LogUnchanged, LogDir!CutLine, LogDir!BreakRecord,
       LogDir!update_attacker_record, LogDir!RecordRefused, LogDir!update_attacker_record_Raises

LEMMA EventsTyped == TypeInv => events \in Seq(Events)
BY DEF TypeInv, LogOK, LogDir!LogTypeOK

LEMMA EventConn == TypeInv => \A e \in Lines : e \in Events /\ e.conn \in Conns
<1> SUFFICES ASSUME TypeInv, NEW e \in Lines PROVE e \in Events /\ e.conn \in Conns
  OBVIOUS
<1>1. PICK i \in 1..Len(events) : e = events[i]
  BY DEF Lines
<1>2. events[i] \in Events
  BY EventsTyped
<1> QED
  BY <1>1, <1>2 DEF Events

(* Appending an event adds its line and leaves the others where they are.  *)
LEMMA Appended ==
  ASSUME NEW s \in Seq(Events), NEW e \in Events
  PROVE  /\ Len(Append(s, e)) = Len(s) + 1 /\ Len(s) \in Nat
         /\ \A i \in 1..Len(s) : Append(s, e)[i] = s[i]
         /\ Append(s, e)[Len(s) + 1] = e
OBVIOUS

LEMMA LinesAfter ==
  ASSUME TypeInv
  PROVE  /\ events' = events => Lines' = Lines
         /\ \A e \in Events : events' = Append(events, e) => Lines' = Lines \cup {e}
<1>1. events' = events => Lines' = Lines
  BY DEF Lines
<1>2. ASSUME NEW e \in Events, events' = Append(events, e) PROVE Lines' = Lines \cup {e}
  <2>1. /\ Len(events') = Len(events) + 1 /\ Len(events) \in Nat
        /\ \A i \in 1..Len(events) : events'[i] = events[i]
        /\ events'[Len(events) + 1] = e
    BY <1>2, EventsTyped, Appended
  <2>2. Lines' \subseteq Lines \cup {e}
    BY <2>1 DEF Lines
  <2>3. Lines \cup {e} \subseteq Lines'
    BY <2>1 DEF Lines
  <2> QED
    BY <2>2, <2>3
<1> QED
  BY <1>1, <1>2

LEMMA EventTyped == TypeInv => \A c \in Conns : Event(c) \in Events /\ Event(c).conn = c
BY DEF TypeInv, TaskOK, Event, Events, Tasks

(* A write that returns records its own connection, unless it completed a  *)
(* cut line, and unrecords none.                                           *)
LEMMA RecordedAfter ==
  ASSUME TypeInv
  PROVE  /\ events' = events => \A d \in Conns : Recorded(d)' <=> Recorded(d)
         /\ \A c \in Conns : LogDir!write_event(Event(c)) =>
              \A d \in Conns : Recorded(d)' <=> (Recorded(d) \/ (tail = "whole" /\ d = c))
<1>1. events' = events => \A d \in Conns : Recorded(d)' <=> Recorded(d)
  BY LinesAfter DEF Recorded
<1>2. ASSUME NEW c \in Conns, LogDir!write_event(Event(c)), NEW d \in Conns
      PROVE  Recorded(d)' <=> (Recorded(d) \/ (tail = "whole" /\ d = c))
  <2>1. Event(c) \in Events /\ Event(c).conn = c
    BY EventTyped
  <2>2. CASE tail = "whole"
    <3>1. Lines' = Lines \cup {Event(c)}
      BY <1>2, <2>1, <2>2, LinesAfter DEF LogDir!write_event
    <3>2. Recorded(d)' <=> \E e \in Lines \cup {Event(c)} : e.conn = d
      BY <3>1 DEF Recorded
    <3> QED
      BY <2>1, <2>2, <3>2 DEF Recorded
  <2>3. CASE tail # "whole"
    BY <1>1, <1>2, <2>3 DEF LogDir!write_event
  <2> QED
    BY <2>2, <2>3
<1> QED
  BY <1>1, <1>2

LEMMA NothingRead == Least(0, MaxPayload) = 0 /\ (0 > MaxPayload) = FALSE
BY NatConstants DEF Least

LEMMA PayloadInit == Init => PayloadInv
<1> SUFFICES ASSUME Init PROVE PayloadInv
  OBVIOUS
<1>1. EventInv
  <2>1. events = <<>>
    BY DEF Init, LogDir!LogInit
  <2>2. Lines = {}
    BY <2>1 DEF Lines
  <2> QED
    BY <2>2 DEF EventInv
<1>2. ASSUME NEW c \in Conns PROVE CaptureInv(c)
  <2>1. /\ task[c].pc = "none" /\ task[c].total = 0 /\ task[c].kept = 0 /\ task[c].clipped = FALSE /\ sent[c] = 0
    BY DEF Init, Handler
  <2>2. task[c].total <= sent[c] /\ task[c].kept = Least(task[c].total, MaxPayload)
    BY <2>1, NothingRead
  <2>3. task[c].clipped = (task[c].total > MaxPayload)
    BY <2>1, NothingRead, Zenon
  <2>4. ~ task[c].pc \in {"close", "record"}
    BY <2>1
  <2> QED
    BY <2>2, <2>3, <2>4, Zenon DEF CaptureInv
<1> QED
  BY <1>1, <1>2 DEF PayloadInv

(* A turn of _capture_payload's loop, whatever the size of the read.       *)
LEMMA CaptureTurn ==
  ASSUME NEW t \in Tasks, NEW n \in Nat, n > 0,
         t.kept = Least(t.total, MaxPayload), t.clipped = (t.total > MaxPayload)
  PROVE  /\ Captured(t, n).total = t.total + n
         /\ Captured(t, n).kept = Least(t.total + n, MaxPayload)
         /\ Captured(t, n).clipped = (t.total + n > MaxPayload)
         /\ Captured(t, n).pc = t.pc
<1>1. t.total \in Nat
  BY DEF Tasks
<1>2. Captured(t, n).total = t.total + n /\ Captured(t, n).pc = t.pc
  BY DEF Captured, Tasks
<1>3. Captured(t, n).kept = IF t.total < MaxPayload THEN t.kept + Least(n, MaxPayload - t.total) ELSE t.kept
  BY DEF Captured, Tasks
<1>4. Captured(t, n).clipped = IF t.total < MaxPayload THEN t.clipped \/ n > MaxPayload - t.total ELSE TRUE
  BY DEF Captured, Tasks
<1>5. Captured(t, n).kept = Least(t.total + n, MaxPayload)
  BY <1>1, <1>3, NatConstants DEF Least
<1>6. Captured(t, n).clipped = (t.total + n > MaxPayload)
  <2>1. CASE t.total < MaxPayload
    <3>0. (t.total > MaxPayload) = FALSE
      BY <1>1, <2>1, NatConstants
    <3>1. t.clipped = FALSE
      BY <3>0, Zenon
    <3>2. (n > MaxPayload - t.total) = (t.total + n > MaxPayload)
      BY <1>1, <2>1, NatConstants
    <3> QED
      BY <1>4, <2>1, <3>1, <3>2
  <2>2. CASE ~ (t.total < MaxPayload)
    <3>1. (t.total + n > MaxPayload) = TRUE
      BY <1>1, <2>2, NatConstants
    <3> QED
      BY <1>4, <2>2, <3>1
  <2> QED
    BY <2>1, <2>2
<1> QED
  BY <1>2, <1>5, <1>6

LEMMA PayloadStep == TypeInv /\ PayloadInv /\ [Next]_vars => PayloadInv'
<1> SUFFICES ASSUME TypeInv, PayloadInv, [Next]_vars PROVE PayloadInv'
  OBVIOUS
<1>e. \A e \in Lines : e.conn \in Conns
  BY EventConn
<1>t. task \in [Conns -> Tasks] /\ sent \in [Conns -> Nat] /\ peer \in [Conns -> {"absent", "open", "eof", "reset", "lost"}]
  BY DEF TypeInv, TaskOK, PeerOK
<1>l. events' = events => Lines' = Lines
  BY LinesAfter
<1>0. ASSUME UNCHANGED <<peerVars, task, events>> PROVE PayloadInv'
  BY <1>0, <1>l DEF PayloadInv, EventInv, CaptureInv, AllSent, peerVars
<1>1. CASE _serve_port \/ SignalHandler \/ CloseServers \/ ServersClosed \/ Start
  BY <1>1, <1>0, MainSteps DEF recVars
<1>2. CASE Kill
  <2>1. events' = events /\ UNCHANGED peerVars
    BY <1>2, EventsAfter DEF Kill
  <2>2. \A c \in Conns :
          /\ task'[c].total = task[c].total /\ task'[c].kept = task[c].kept /\ task'[c].clipped = task[c].clipped
          /\ task'[c].payload = task[c].payload /\ task'[c].truncated = task[c].truncated
          /\ task'[c].pc = task[c].pc \/ task'[c].pc = "gone"
    BY <1>2, <1>t DEF Kill, Tasks
  <2>3. EventInv'
    BY <2>1, <2>2, <1>e, <1>l DEF PayloadInv, EventInv, AllSent, Past, peerVars
  <2>4. ASSUME NEW c \in Conns PROVE CaptureInv(c)'
    BY <2>1, <2>2 DEF PayloadInv, CaptureInv, AllSent, peerVars
  <2> QED
    BY <2>3, <2>4 DEF PayloadInv
<1>3. ASSUME NEW c \in Conns, Accept(c) \/ Send(c) \/ Leave(c) PROVE PayloadInv'
  <2>1. task[c].pc \in {"none", "banner", "read"} /\ events' = events
    BY <1>3 DEF Accept, Send, Leave, recVars
  <2>2. \A d \in Conns \ {c} : task'[d] = task[d] /\ sent'[d] = sent[d] /\ peer'[d] = peer[d]
    BY <1>3, <1>t DEF Accept, Send, Leave, peerVars
  <2>3. EventInv'
    BY <2>1, <2>2, <1>e, <1>l DEF PayloadInv, EventInv, AllSent, Past
  <2>4. CaptureInv(c)'
    <3>1. CASE Accept(c)
      <4>1. /\ task'[c].total = 0 /\ task'[c].kept = 0 /\ task'[c].clipped = FALSE
            /\ task'[c].pc \in {"banner", "read"} /\ sent' = sent
        BY <3>1, <1>t DEF Accept, Handler
      <4>2. task'[c].total <= sent'[c]
        BY <4>1, <1>t
      <4> QED
        BY <4>1, <4>2, NothingRead DEF CaptureInv
    <3>2. CASE Send(c) \/ Leave(c)
      <4>1. task' = task /\ task[c].pc \in {"banner", "read"} /\ (sent'[c] = sent[c] \/ sent'[c] = sent[c] + 1)
        BY <3>2, <1>t DEF Send, Leave
      <4>2. task[c].total \in Nat /\ sent[c] \in Nat
        BY <1>t DEF Tasks
      <4> QED
        BY <4>1, <4>2 DEF CaptureInv, PayloadInv
    <3> QED
      BY <1>3, <3>1, <3>2
  <2>5. ASSUME NEW d \in Conns \ {c} PROVE CaptureInv(d)'
    BY <2>2 DEF PayloadInv, CaptureInv, AllSent
  <2> QED
    BY <2>3, <2>4, <2>5 DEF PayloadInv
<1>4. ASSUME NEW c \in Conns,
             BannerRefused(c) \/ ReadInterrupted(c) \/ WriteBanner(c) \/ ReadData(c) \/ ReadEof(c) \/ CloseWriter(c)
      PROVE  PayloadInv'
  <2>1. task[c].pc \in {"banner", "read", "close"} /\ events' = events /\ UNCHANGED peerVars
    BY <1>4 DEF BannerRefused, ReadInterrupted, WriteBanner, ReadData, ReadEof, CloseWriter, recVars
  <2>2. \A d \in Conns \ {c} : task'[d] = task[d]
    BY <1>4, <1>t DEF BannerRefused, ReadInterrupted, WriteBanner, ReadData, ReadEof, CloseWriter, Goto
  <2>3. EventInv'
    BY <2>1, <2>2, <1>e, <1>l DEF PayloadInv, EventInv, AllSent, Past, peerVars
  <2>4. CaptureInv(c)'
    <3>1. CASE ReadData(c)
      <4> DEFINE n == Least(ReadSize, sent[c] - task[c].total)
      <4>1. n \in Nat /\ n > 0 /\ task[c].total + n <= sent[c]
        <5>1. task[c].total \in Nat /\ sent[c] \in Nat /\ task[c].total <= sent[c]
          BY <1>t DEF PayloadInv, CaptureInv, Tasks
        <5> QED
          BY <3>1, <5>1, NatConstants DEF ReadData, Least
      <4>2. task'[c] = Captured(task[c], n) /\ task[c].pc = "read"
        BY <3>1, <1>t DEF ReadData
      <4> HIDE DEF n
      <4>3. task[c] \in Tasks /\ task[c].kept = Least(task[c].total, MaxPayload) /\ task[c].clipped = (task[c].total > MaxPayload)
        BY <1>t DEF PayloadInv, CaptureInv
      <4>4. /\ task'[c].total = task[c].total + n
            /\ task'[c].kept = Least(task[c].total + n, MaxPayload)
            /\ task'[c].clipped = (task[c].total + n > MaxPayload)
            /\ task'[c].pc = "read"
        BY <4>1, <4>2, <4>3, CaptureTurn
      <4> QED
        BY <4>1, <4>4, <2>1 DEF CaptureInv, peerVars
    <3>2. CASE ReadEof(c)
      <4>1. /\ task'[c].total = task[c].total /\ task'[c].kept = task[c].kept /\ task'[c].clipped = task[c].clipped
            /\ task'[c].payload = task[c].kept /\ task'[c].truncated = task[c].clipped
            /\ task[c].total = sent[c]
        BY <3>2, <1>t DEF ReadEof, Tasks
      <4> QED
        BY <4>1, <2>1 DEF PayloadInv, CaptureInv, AllSent, peerVars
    <3>3. CASE BannerRefused(c) \/ ReadInterrupted(c) \/ WriteBanner(c)
      <4>1. /\ task'[c].total = task[c].total /\ task'[c].kept = task[c].kept /\ task'[c].clipped = task[c].clipped
            /\ task'[c].pc = "read" \/ peer[c] # "eof"
        <5>1. CASE BannerRefused(c)
          BY <5>1, <1>t DEF BannerRefused, Goto, Tasks
        <5>2. CASE ReadInterrupted(c)
          BY <5>2, <1>t DEF ReadInterrupted, Tasks
        <5>3. CASE WriteBanner(c)
          BY <5>3, <1>t DEF WriteBanner, Goto, Tasks
        <5> QED
          BY <3>3, <5>1, <5>2, <5>3
      <4> QED
        BY <4>1, <2>1 DEF PayloadInv, CaptureInv, AllSent, peerVars
    <3>4. CASE CloseWriter(c)
      <4>1. /\ task'[c].total = task[c].total /\ task'[c].kept = task[c].kept /\ task'[c].clipped = task[c].clipped
            /\ task'[c].payload = task[c].payload /\ task'[c].truncated = task[c].truncated
            /\ task[c].pc = "close"
        BY <3>4, <1>t DEF CloseWriter, Goto, Tasks
      <4> QED
        BY <4>1, <2>1 DEF PayloadInv, CaptureInv, AllSent, peerVars
    <3> QED
      BY <1>4, <3>1, <3>2, <3>3, <3>4
  <2>5. ASSUME NEW d \in Conns \ {c} PROVE CaptureInv(d)'
    BY <2>1, <2>2 DEF PayloadInv, CaptureInv, AllSent, peerVars
  <2> QED
    BY <2>3, <2>4, <2>5 DEF PayloadInv
<1>5. ASSUME NEW c \in Conns, RecordEvent(c) \/ send_syslog(c) \/ UpdateRecord(c) PROVE PayloadInv'
  <2>1. UNCHANGED peerVars
    BY <1>5 DEF RecordEvent, send_syslog, UpdateRecord
  <2>2. /\ \A d \in Conns \ {c} : task'[d] = task[d]
        /\ task'[c].total = task[c].total /\ task'[c].kept = task[c].kept /\ task'[c].clipped = task[c].clipped
        /\ task'[c].pc \in {"syslog", "attacker", "done"}
    <3>1. \/ Returned(c, "record", AfterRecord) \/ Goto(c, AfterRecord) \/ Goto(c, "attacker")
          \/ Returned(c, "attacker", "done") \/ Goto(c, "done")
      BY <1>5 DEF RecordEvent, send_syslog, UpdateRecord
    <3> QED
      BY <3>1, <1>t DEF Returned, Goto, AfterRecord, Tasks
  <2>3. Lines' = Lines \/ (task[c].pc = "record" /\ Lines' = Lines \cup {Event(c)})
    <3>1. Event(c) \in Events
      BY <1>t DEF Event, Events, Tasks
    <3>2. events' = events \/ (task[c].pc = "record" /\ events' = Append(events, Event(c)))
      BY <1>5, <3>1, EventsAfter DEF RecordEvent, send_syslog, UpdateRecord, recVars
    <3> QED
      BY <3>1, <3>2, LinesAfter
  <2>4. EventInv'
    <3>1. ASSUME NEW e \in Lines PROVE task'[e.conn].pc \in Past /\ AllSent(e.conn, e.payload, e.truncated)'
      BY <2>1, <2>2, <1>e, <1>l DEF PayloadInv, EventInv, AllSent, Past, peerVars
    <3>2. ASSUME task[c].pc = "record"
          PROVE  /\ task'[Event(c).conn].pc \in Past
                 /\ peer'[Event(c).conn] = "eof" =>
                      /\ Event(c).payload = Least(sent'[Event(c).conn], MaxPayload)
                      /\ Event(c).truncated = (sent'[Event(c).conn] > MaxPayload)
      <4>1. Event(c).conn = c /\ Event(c).payload = task[c].payload /\ Event(c).truncated = task[c].truncated
        BY DEF Event
      <4>2. AllSent(c, task[c].payload, task[c].truncated)
        BY <3>2 DEF PayloadInv, CaptureInv
      <4> QED
        BY <2>1, <2>2, <4>1, <4>2 DEF Past, AllSent, peerVars
    <3>3. ASSUME NEW e \in Lines' PROVE e \in Lines \/ (task[c].pc = "record" /\ e = Event(c))
      BY <2>3
    <3>4. ASSUME NEW e \in Lines' 
              PROVE  /\ task'[e.conn].pc \in Past
                     /\ peer'[e.conn] = "eof" =>
                          /\ e.payload = Least(sent'[e.conn], MaxPayload)
                          /\ e.truncated = (sent'[e.conn] > MaxPayload)
      <4>1. CASE e \in Lines
        BY <3>1, <4>1, Zenon DEF AllSent
      <4>2. CASE task[c].pc = "record" /\ e = Event(c)
        BY <3>2, <4>2, Zenon
      <4> QED
        BY <3>3, <4>1, <4>2
    <3> QED
      BY <3>4, Zenon DEF EventInv, AllSent
  <2>5. ASSUME NEW d \in Conns PROVE CaptureInv(d)'
    BY <2>1, <2>2 DEF PayloadInv, CaptureInv, AllSent, peerVars
  <2> QED
    BY <2>4, <2>5 DEF PayloadInv
<1>6. CASE UNCHANGED vars
  BY <1>6, <1>0 DEF vars, recVars
<1> QED
  BY <1>1, <1>2, <1>3, <1>4, <1>5, <1>6 DEF Next, Main, Handle

(* For every cap and every way the bytes fall into reads, what is recorded *)
(* of a connection that was read to its end is the capped payload with a   *)
(* `truncated` that tells clipped from exactly full (listener.py:36-56).   *)
THEOREM PayloadsRecorded == Spec => []RecordedPayload
<1>1. Init => TypeInv /\ PayloadInv
  BY TypeInit, PayloadInit
<1>2. TypeInv /\ PayloadInv /\ [Next]_vars => (TypeInv /\ PayloadInv)'
  BY TypeStep, PayloadStep
<1>3. PayloadInv => RecordedPayload
  BY DEF PayloadInv, EventInv, AllSent, RecordedPayload
<1> QED
  BY <1>1, <1>2, <1>3, PTL DEF Spec

-----------------------------------------------------------------------------
(* The refinement of Recorder.  EventInv says that a connection that is    *)
(* logged is past its recording step, so none is logged twice or lost.     *)

LogLines == [i \in 1..Len(events) |-> events[i].conn]
Logged   == {e.conn : e \in Lines}
Over     == {"syslog", "attacker", "done", "raised", "gone"}

LEMMA View ==
  /\ Accepted = {c \in Conns : task[c].pc # "none"}
  /\ Accepted' = {c \in Conns : task'[c].pc # "none"}
  /\ LostConns = {c \in Conns : task[c].pc \in Over /\ c \notin Logged}
  /\ LostConns' = {c \in Conns : task'[c].pc \in Over /\ c \notin Logged'}
BY DEF Accepted, LostConns, Logged, Over, Recorded

LEMMA LogLinesType == TypeInv => LogLines \in Seq(Conns) /\ Logged = {LogLines[i] : i \in 1..Len(LogLines)}
<1> SUFFICES ASSUME TypeInv PROVE LogLines \in Seq(Conns) /\ Logged = {LogLines[i] : i \in 1..Len(LogLines)}
  OBVIOUS
<1>1. Len(events) \in Nat /\ \A i \in 1..Len(events) : events[i] \in Lines /\ events[i].conn \in Conns
  <2>1. Len(events) \in Nat
    BY EventsTyped
  <2>2. \A i \in 1..Len(events) : events[i] \in Lines
    BY DEF Lines
  <2> QED
    BY <2>1, <2>2, EventConn
<1>2. LogLines \in [1..Len(events) -> Conns]
  BY <1>1 DEF LogLines
<1>3. LogLines \in Seq(Conns) /\ Len(LogLines) = Len(events)
  BY <1>1, <1>2, SeqDef, LenProperties
<1>4. \A i \in 1..Len(events) : LogLines[i] = events[i].conn
  BY DEF LogLines
<1>5. Logged \subseteq {LogLines[i] : i \in 1..Len(LogLines)}
  BY <1>3, <1>4 DEF Logged, Lines
<1>6. {LogLines[i] : i \in 1..Len(LogLines)} \subseteq Logged
  BY <1>1, <1>3, <1>4 DEF Logged
<1> QED
  BY <1>3, <1>5, <1>6

(* An event that is appended appends its connection to the abstract log.   *)
LEMMA LogLinesAfter ==
  ASSUME TypeInv
  PROVE  /\ events' = events => LogLines' = LogLines /\ Logged' = Logged
         /\ \A e \in Events : events' = Append(events, e) =>
              LogLines' = Append(LogLines, e.conn) /\ Logged' = Logged \cup {e.conn}
<1>1. events' = events => LogLines' = LogLines /\ Logged' = Logged
  BY LinesAfter DEF LogLines, Logged
<1>2. ASSUME NEW e \in Events, events' = Append(events, e)
      PROVE  LogLines' = Append(LogLines, e.conn) /\ Logged' = Logged \cup {e.conn}
  <2>1. /\ Len(events') = Len(events) + 1 /\ Len(events) \in Nat
        /\ \A i \in 1..Len(events) : events'[i] = events[i]
        /\ events'[Len(events) + 1] = e
    BY <1>2, EventsTyped, Appended
  <2>2. LogLines' = [i \in 1..(Len(events) + 1) |-> events'[i].conn]
    BY <2>1 DEF LogLines
  <2>3. /\ LogLines \in Seq(Conns) /\ Len(LogLines) = Len(events)
        /\ \A i \in 1..Len(events) : LogLines[i] = events[i].conn
    <3>1. LogLines \in Seq(Conns)
      BY LogLinesType
    <3>2. DOMAIN LogLines = 1..Len(events) /\ \A i \in 1..Len(events) : LogLines[i] = events[i].conn
      BY DEF LogLines
    <3> QED
      BY <2>1, <3>1, <3>2, LenProperties
  <2>4. e.conn \in Conns
    BY DEF Events
  <2>5. /\ Append(LogLines, e.conn) \in Seq(Conns)
        /\ DOMAIN Append(LogLines, e.conn) = 1..(Len(events) + 1)
        /\ \A i \in 1..Len(events) : Append(LogLines, e.conn)[i] = LogLines[i]
        /\ Append(LogLines, e.conn)[Len(events) + 1] = e.conn
    BY <2>1, <2>3, <2>4, AppendProperties
  <2>6. \A i \in 1..(Len(events) + 1) : LogLines'[i] = Append(LogLines, e.conn)[i]
    BY <2>1, <2>2, <2>3, <2>5
  <2>7. LogLines' = Append(LogLines, e.conn)
    <3> DEFINE n == Len(events) + 1
               log == Append(LogLines, e.conn)
    <3>1. log = [i \in 1..n |-> log[i]]
      BY <2>5
    <3>2. \A i \in 1..n : events'[i].conn = log[i]
      BY <2>2, <2>6
    <3> QED
      BY <2>2, <3>1, <3>2
  <2>8. Logged' = Logged \cup {e.conn}
    BY <1>2, LinesAfter DEF Logged
  <2> QED
    BY <2>7, <2>8
<1> QED
  BY <1>1, <1>2

LEMMA PromiseSteps ==
  ASSUME TypeInv
  PROVE  /\ UNCHANGED <<Accepted, LogLines, LostConns>> => [Promise!Next]_<<Accepted, LogLines, LostConns>>
         /\ \A c \in Conns : Accepted' = Accepted \cup {c} /\ UNCHANGED <<LogLines, LostConns>> =>
              [Promise!Next]_<<Accepted, LogLines, LostConns>>
         /\ \A c \in Conns : /\ c \in Accepted \ (Logged \cup LostConns)
                            /\ LogLines' = Append(LogLines, c) /\ UNCHANGED <<Accepted, LostConns>> =>
              [Promise!Next]_<<Accepted, LogLines, LostConns>>
         /\ \A S \in SUBSET Conns : /\ S \subseteq Accepted \ (Logged \cup LostConns)
                                   /\ LostConns' = LostConns \cup S /\ UNCHANGED <<Accepted, LogLines>> =>
              [Promise!Next]_<<Accepted, LogLines, LostConns>>
<1>1. Promise!Pending = Accepted \ (Logged \cup LostConns)
  BY LogLinesType DEF Promise!Pending, LogLines
<1> QED
  BY <1>1 DEF Promise!Next, Promise!See, Promise!Log, Promise!Lose, LogLines

LEMMA PromiseStep ==
  TypeInv /\ PayloadInv /\ [Next]_vars => [Promise!Next]_<<Accepted, LogLines, LostConns>>
<1> SUFFICES ASSUME TypeInv, PayloadInv, [Next]_vars PROVE [Promise!Next]_<<Accepted, LogLines, LostConns>>
  OBVIOUS
<1>t. task \in [Conns -> Tasks]
  BY DEF TypeInv, TaskOK
<1>p. \A c \in Logged : c \in Conns /\ task[c].pc \in Past
  BY EventConn DEF Logged, PayloadInv, EventInv
<1>0. ASSUME events' = events PROVE Logged' = Logged /\ LogLines' = LogLines
  BY <1>0, LogLinesAfter
<1>1. CASE UNCHANGED <<task, events>>
  BY <1>1, <1>0, View, PromiseSteps
<1>2. CASE _serve_port \/ SignalHandler \/ CloseServers \/ ServersClosed \/ Start
  BY <1>1, <1>2, MainSteps DEF recVars
<1>3. CASE Kill
  <2>1. Logged' = Logged /\ LogLines' = LogLines
    BY <1>0, <1>3, EventsAfter DEF Kill
  <2>2. \A c \in Conns :
          task'[c].pc = IF task[c].pc \in {"none", "done", "raised", "gone"} THEN task[c].pc ELSE "gone"
    BY <1>3, <1>t DEF Kill, Finished, Tasks
  <2> DEFINE S == Accepted \ (Logged \cup LostConns)
  <2>3. Accepted' = Accepted
    BY <2>2, View
  <2>4. LostConns' = LostConns \cup S
    BY <2>1, <2>2, View DEF Over
  <2>5. S \in SUBSET Conns
    BY DEF Accepted
  <2> QED
    BY <2>1, <2>3, <2>4, <2>5, PromiseSteps
(* A step of one connection's handler that logs nothing.                   *)
<1>4. ASSUME NEW c \in Conns, events' = events, \A d \in Conns \ {c} : task'[d] = task[d],
             task'[c].pc # "none", task[c].pc \in Over => task'[c].pc \in Over,
             task[c].pc = "none" => task'[c].pc \notin Over
      PROVE  [Promise!Next]_<<Accepted, LogLines, LostConns>>
  <2>1. Logged' = Logged /\ LogLines' = LogLines
    BY <1>0, <1>4
  <2>2. CASE task[c].pc = "none"
    <3>1. Accepted' = Accepted \cup {c}
      BY <1>4, View
    <3>2. LostConns' = LostConns
      BY <1>4, <2>1, <2>2, View DEF Over
    <3> QED
      BY <2>1, <3>1, <3>2, PromiseSteps
  <2>3. CASE task[c].pc # "none"
    <3>1. Accepted' = Accepted
      BY <1>4, <2>3, View
    <3>2. CASE task'[c].pc \in Over /\ task[c].pc \notin Over
      <4>1. c \in Accepted \ (Logged \cup LostConns)
        BY <1>p, <2>3, <3>2, View DEF Past, Over
      <4>2. LostConns' = LostConns \cup {c}
        BY <1>4, <2>1, <3>2, <4>1, View
      <4>3. {c} \in SUBSET Conns /\ {c} \subseteq Accepted \ (Logged \cup LostConns)
        BY <4>1
      <4> QED
        BY <2>1, <3>1, <4>2, <4>3, PromiseSteps
    <3>3. CASE ~ (task'[c].pc \in Over /\ task[c].pc \notin Over)
      <4>1. LostConns' = LostConns
        BY <1>4, <2>1, <3>3, View
      <4> QED
        BY <2>1, <3>1, <4>1, PromiseSteps
    <3> QED
      BY <3>2, <3>3
  <2> QED
    BY <2>2, <2>3
<1>5. ASSUME NEW c \in Conns, Accept(c) PROVE [Promise!Next]_<<Accepted, LogLines, LostConns>>
  <2>1. task[c].pc = "none" /\ task'[c].pc \in {"banner", "read"} /\ events' = events
    BY <1>5, <1>t DEF Accept, Handler, recVars
  <2>2. \A d \in Conns \ {c} : task'[d] = task[d]
    BY <1>5, <1>t DEF Accept
  <2> QED
    BY <1>4, <2>1, <2>2 DEF Over
<1>6. ASSUME NEW c \in Conns, Send(c) \/ Leave(c) PROVE [Promise!Next]_<<Accepted, LogLines, LostConns>>
  BY <1>1, <1>6 DEF Send, Leave, recVars
<1>7. ASSUME NEW c \in Conns,
             BannerRefused(c) \/ ReadInterrupted(c) \/ WriteBanner(c) \/ ReadData(c) \/ ReadEof(c) \/ CloseWriter(c)
      PROVE  [Promise!Next]_<<Accepted, LogLines, LostConns>>
  <2>1. task[c].pc \in {"banner", "read", "close"} /\ events' = events
    BY <1>7 DEF BannerRefused, ReadInterrupted, WriteBanner, ReadData, ReadEof, CloseWriter, recVars
  <2>2. \A d \in Conns \ {c} : task'[d] = task[d]
    BY <1>7, <1>t DEF BannerRefused, ReadInterrupted, WriteBanner, ReadData, ReadEof, CloseWriter, Goto
  <2>3. task'[c].pc # "none"
    <3>1. CASE ReadData(c)
      <4> DEFINE n == Least(ReadSize, sent[c] - task[c].total)
      <4>1. task'[c] = Captured(task[c], n) /\ task[c].pc = "read"
        BY <3>1, <1>t DEF ReadData
      <4>2. Captured(task[c], n).pc = task[c].pc
        BY <1>t DEF Captured, Tasks
      <4> QED
        BY <4>1, <4>2
    <3>2. CASE ReadEof(c)
      BY <3>2, <1>t DEF ReadEof, Tasks
    <3>3. CASE ReadInterrupted(c)
      BY <3>3, <1>t DEF ReadInterrupted, Tasks
    <3>4. CASE BannerRefused(c) \/ WriteBanner(c) \/ CloseWriter(c)
      BY <3>4, <1>t DEF BannerRefused, WriteBanner, CloseWriter, Goto, Tasks
    <3> QED
      BY <1>7, <3>1, <3>2, <3>3, <3>4
  <2> QED
    BY <1>4, <2>1, <2>2, <2>3 DEF Over
<1>8. ASSUME NEW c \in Conns, RecordEvent(c) \/ send_syslog(c) \/ UpdateRecord(c)
      PROVE  [Promise!Next]_<<Accepted, LogLines, LostConns>>
  <2>1. \/ Returned(c, "record", AfterRecord) \/ Goto(c, AfterRecord) \/ Goto(c, "attacker")
        \/ Returned(c, "attacker", "done") \/ Goto(c, "done")
    BY <1>8 DEF RecordEvent, send_syslog, UpdateRecord
  <2>2. /\ \A d \in Conns \ {c} : task'[d] = task[d]
        /\ task'[c].pc \in {"syslog", "attacker", "done"}
    BY <2>1, <1>t DEF Returned, Goto, AfterRecord, Tasks
  <2>3. task[c].pc \in {"record", "syslog", "attacker"}
    BY <1>8 DEF RecordEvent, send_syslog, UpdateRecord
  <2>4. Event(c) \in Events /\ (events' = events \/ (task[c].pc = "record" /\ events' = Append(events, Event(c))))
    <3>1. Event(c) \in Events
      BY <1>t DEF Event, Events, Tasks
    <3> QED
      BY <1>8, <3>1, EventsAfter DEF RecordEvent, send_syslog, UpdateRecord, recVars
  <2>5. CASE events' = events
    BY <1>4, <2>2, <2>3, <2>5 DEF Over
  <2>6. CASE task[c].pc = "record" /\ events' = Append(events, Event(c))
    <3>1. Logged' = Logged \cup {c} /\ LogLines' = Append(LogLines, c)
      <4>1. Event(c).conn = c
        BY DEF Event
      <4> QED
        BY <2>4, <2>6, <4>1, LogLinesAfter
    <3>2. c \in Accepted \ (Logged \cup LostConns)
      BY <1>p, <2>6, View DEF Past, Over
    <3>3. Accepted' = Accepted
      BY <2>2, <2>6, View
    <3>4. LostConns' = LostConns
      BY <2>2, <2>6, <3>1, View DEF Over
    <3> QED
      BY <3>1, <3>2, <3>3, <3>4, PromiseSteps
  <2> QED
    BY <2>4, <2>5, <2>6
<1>9. CASE UNCHANGED vars
  BY <1>1, <1>9 DEF vars, recVars
<1> QED
  BY <1>2, <1>3, <1>5, <1>6, <1>7, <1>8, <1>9 DEF Next, Main, Handle

(* The process, whatever kills, restarts and failing writes it meets, with *)
(* its log directory implements Recorder: a connection is logged at most   *)
(* once, never after it was lost, and for good (writer.py:31-33).          *)
THEOREM ListenerKeepsLog == Spec => KeepsLog
<1>1. Init => Promise!Init
  BY DEF Init, Handler, Promise!Init, LogDir!LogInit, Accepted, LostConns
<1>2. TypeInv /\ PayloadInv /\ [Next]_vars => [Promise!Next]_<<Accepted, LogLines, LostConns>>
  BY PromiseStep
<1>3. Init => TypeInv /\ PayloadInv
  BY TypeInit, PayloadInit
<1>4. TypeInv /\ PayloadInv /\ [Next]_vars => (TypeInv /\ PayloadInv)'
  BY TypeStep, PayloadStep
<1> QED
  BY <1>1, <1>2, <1>3, <1>4, PTL DEF Spec, KeepsLog, Promise!Spec, LogLines

-----------------------------------------------------------------------------
(* Counting.  Writes that returned without an event to show, and one that  *)
(* a cut tail will still swallow, are paid for by cuts; the attacker       *)
(* record has counted the updates that returned.                           *)

Swallowed == {c \in Conns : "record" \in task[c].returned /\ ~ Recorded(c)}
Folded    == {c \in Conns : "attacker" \in task[c].returned}

(* A step returns in its place only.                                       *)
ReturnedInv == \A c \in Conns :
  /\ "record" \in task[c].returned => task[c].pc \in Past
  /\ "attacker" \in task[c].returned => task[c].pc = "done"

CountInv ==
  /\ ReturnedInv
  /\ Cardinality(Swallowed) + (IF tail = "cut" THEN 1 ELSE 0) <= cuts
  /\ record.state # "broken" => record.session_count = Cardinality(Folded)

LEMMA CountInit == Init => CountInv
<1> SUFFICES ASSUME Init PROVE CountInv
  OBVIOUS
<1>1. \A c \in Conns : task[c].returned = {}
  BY DEF Init, Handler
<1>2. tail = "whole" /\ cuts = 0 /\ record.session_count = 0
  BY DEF Init, LogDir!LogInit
<1>3. Swallowed = {} /\ Folded = {}
  BY <1>1 DEF Swallowed, Folded
<1> QED
  BY <1>1, <1>2, <1>3, FS_EmptySet DEF CountInv, ReturnedInv

LEMMA CountStep ==
  ASSUME IsFiniteSet(Conns)
  PROVE  TypeInv /\ CountInv /\ [Next]_vars => CountInv'
<1> SUFFICES ASSUME TypeInv, CountInv, [Next]_vars PROVE CountInv'
  OBVIOUS
<1>t. task \in [Conns -> Tasks] /\ cuts \in Nat /\ record \in LogDir!Records /\ tail \in {"whole", "cut"}
  BY DEF TypeInv, TaskOK, LogOK, LogDir!LogTypeOK
<1>f. /\ IsFiniteSet(Swallowed) /\ IsFiniteSet(Folded)
      /\ Cardinality(Swallowed) \in Nat /\ Cardinality(Folded) \in Nat
  BY FS_Subset, FS_CardinalityType DEF Swallowed, Folded
<1>i. /\ ReturnedInv
      /\ Cardinality(Swallowed) + (IF tail = "cut" THEN 1 ELSE 0) <= cuts
      /\ record.state # "broken" => record.session_count = Cardinality(Folded)
  BY DEF CountInv
(* Steps by which no recording step returns.                               *)
<1>0. ASSUME events' = events, \A c \in Conns : task'[c].returned = task[c].returned, ReturnedInv',
             \/ tail' = tail /\ cuts' = cuts
             \/ LogDir!CutLine,
             record' = record \/ record'.state = "broken"
      PROVE  CountInv'
  <2>1. Swallowed' = Swallowed /\ Folded' = Folded
    BY <1>0, RecordedAfter DEF Swallowed, Folded
  <2>2. Cardinality(Swallowed') + (IF tail' = "cut" THEN 1 ELSE 0) <= cuts'
    <3>1. CASE tail' = tail /\ cuts' = cuts
      BY <1>i, <2>1, <3>1
    <3>2. CASE LogDir!CutLine
      <4>1. cuts' = cuts + 1 /\ Cardinality(Swallowed) <= cuts
        BY <1>f, <1>i, <1>t, <3>2 DEF LogDir!CutLine
      <4> QED
        BY <1>f, <1>t, <2>1, <4>1
    <3> QED
      BY <1>0, <3>1, <3>2
  <2>3. record'.state # "broken" => record'.session_count = Cardinality(Folded')
    BY <1>0, <1>i, <2>1
  <2> QED
    BY <1>0, <2>2, <2>3 DEF CountInv
<1>1. CASE _serve_port \/ SignalHandler \/ CloseServers \/ ServersClosed \/ Start
  BY <1>0, <1>1, <1>i, MainSteps DEF recVars, ReturnedInv
<1>2. CASE Kill
  <2>1. \A c \in Conns : /\ task'[c].returned = task[c].returned
                         /\ task'[c].pc = IF task[c].pc \in {"none", "done", "raised", "gone"} THEN task[c].pc ELSE "gone"
    BY <1>2, <1>t DEF Kill, Finished, Tasks
  <2>2. ReturnedInv'
    BY <1>i, <2>1 DEF ReturnedInv, Past
  <2>3. /\ events' = events
        /\ (tail' = tail /\ cuts' = cuts) \/ LogDir!CutLine
        /\ record' = record \/ record'.state = "broken"
    BY <1>2, <1>t DEF Kill, LogDir!LogUnchanged, LogDir!CutLine, LogDir!BreakRecord, LogDir!Records
  <2> QED
    BY <1>0, <2>1, <2>2, <2>3
<1>3. ASSUME NEW c \in Conns, Accept(c) \/ Send(c) \/ Leave(c) PROVE CountInv'
  <2>1. UNCHANGED recVars /\ \A d \in Conns \ {c} : task'[d] = task[d]
    BY <1>3, <1>t DEF Accept, Send, Leave
  <2>2. task'[c].returned = task[c].returned /\ (task'[c] = task[c] \/ task'[c].returned = {})
    <3>1. CASE Accept(c)
      <4>1. task[c].pc = "none" /\ task'[c].returned = {}
        BY <1>t, <3>1 DEF Accept, Handler
      <4>2. "record" \notin task[c].returned /\ "attacker" \notin task[c].returned
        BY <1>i, <4>1 DEF ReturnedInv, Past
      <4> QED
        BY <1>t, <4>1, <4>2 DEF Tasks
    <3>2. CASE Send(c) \/ Leave(c)
      BY <3>2 DEF Send, Leave
    <3> QED
      BY <1>3, <3>1, <3>2
  <2>3. ReturnedInv'
    BY <1>i, <2>1, <2>2 DEF ReturnedInv
  <2> QED
    BY <1>0, <2>1, <2>2, <2>3 DEF recVars
<1>4. ASSUME NEW c \in Conns,
             BannerRefused(c) \/ ReadInterrupted(c) \/ WriteBanner(c) \/ ReadData(c) \/ ReadEof(c) \/ CloseWriter(c)
      PROVE  CountInv'
  <2>1. UNCHANGED recVars /\ task[c].pc \in {"banner", "read", "close"}
    BY <1>4 DEF BannerRefused, ReadInterrupted, WriteBanner, ReadData, ReadEof, CloseWriter
  <2>2. \A d \in Conns \ {c} : task'[d] = task[d]
    BY <1>4, <1>t DEF BannerRefused, ReadInterrupted, WriteBanner, ReadData, ReadEof, CloseWriter, Goto
  <2>3. task'[c].returned = task[c].returned
    <3>1. CASE ReadData(c)
      <4> DEFINE n == Least(ReadSize, sent[c] - task[c].total)
      <4>1. task'[c] = Captured(task[c], n)
        BY <3>1, <1>t DEF ReadData
      <4>2. Captured(task[c], n).returned = task[c].returned
        BY <1>t DEF Captured, Tasks
      <4> QED
        BY <4>1, <4>2
    <3>2. CASE ReadEof(c)
      BY <3>2, <1>t DEF ReadEof, Tasks
    <3>3. CASE ReadInterrupted(c)
      BY <3>3, <1>t DEF ReadInterrupted, Tasks
    <3>4. CASE BannerRefused(c) \/ WriteBanner(c) \/ CloseWriter(c)
      BY <3>4, <1>t DEF BannerRefused, WriteBanner, CloseWriter, Goto, Tasks
    <3> QED
      BY <1>4, <3>1, <3>2, <3>3, <3>4
  <2>4. "record" \notin task[c].returned /\ "attacker" \notin task[c].returned
    BY <1>i, <2>1 DEF ReturnedInv, Past
  <2>5. ReturnedInv'
    BY <1>i, <2>2, <2>3, <2>4 DEF ReturnedInv
  <2> QED
    BY <1>0, <2>1, <2>2, <2>3, <2>5 DEF recVars
(* A recording step that does not return.                                  *)
<1>5. ASSUME NEW c \in Conns, NEW pc \in {"syslog", "attacker", "done"}, Goto(c, pc),
             task[c].pc \in {"record", "syslog", "attacker"}, events' = events,
             (tail' = tail /\ cuts' = cuts) \/ LogDir!CutLine,
             record' = record \/ record'.state = "broken"
      PROVE  CountInv'
  <2>1. /\ task'[c].returned = task[c].returned /\ task'[c].pc = pc
        /\ \A d \in Conns \ {c} : task'[d] = task[d]
    BY <1>5, <1>t DEF Goto, Tasks
  <2>2. "attacker" \notin task[c].returned
    BY <1>5, <1>i DEF ReturnedInv
  <2>3. ReturnedInv'
    BY <1>5, <1>i, <2>1, <2>2 DEF ReturnedInv, Past
  <2> QED
    BY <1>0, <1>5, <2>1, <2>3
<1>6. ASSUME NEW c \in Conns, RecordEvent(c) PROVE CountInv'
  <2>1. task[c].pc = "record" /\ AfterRecord \in {"syslog", "attacker", "done"}
    BY <1>6 DEF RecordEvent, AfterRecord
  <2>2. CASE LogDir!write_event_Raises /\ Goto(c, AfterRecord)
    <3>1. /\ events' = events /\ record' = record
          /\ (tail' = tail /\ cuts' = cuts) \/ LogDir!CutLine
      BY <2>2 DEF LogDir!write_event_Raises, LogDir!LogUnchanged, LogDir!CutLine
    <3> QED
      BY <1>5, <2>1, <2>2, <3>1
  <2>3. CASE LogDir!write_event(Event(c)) /\ Returned(c, "record", AfterRecord)
    <3>1. /\ \A d \in Conns : Recorded(d)' <=> (Recorded(d) \/ (tail = "whole" /\ d = c))
          /\ tail' = "whole" /\ cuts' = cuts /\ record' = record
      BY <2>3, RecordedAfter DEF LogDir!write_event
    <3>2. /\ task'[c].returned = task[c].returned \cup {"record"} /\ task'[c].pc \in {"syslog", "attacker"}
          /\ \A d \in Conns \ {c} : task'[d] = task[d]
      BY <2>3, <1>t DEF Returned, AfterRecord, Tasks
    <3>3. "record" \notin task[c].returned /\ "attacker" \notin task[c].returned
      BY <1>i, <2>1 DEF ReturnedInv, Past
    <3>4. ReturnedInv'
      BY <1>i, <3>2, <3>3 DEF ReturnedInv, Past
    <3>5. Folded' = Folded
      BY <3>2, <3>3 DEF Folded
    <3>6. c \notin Swallowed
      BY <3>3 DEF Swallowed
    <3>7. Cardinality(Swallowed') <= cuts
      <4>1. CASE tail = "whole"
        <5>1. \A d \in Conns : Recorded(d)' <=> (Recorded(d) \/ d = c)
          BY <3>1, <4>1
        <5>3. Swallowed' \subseteq Swallowed
          BY <3>2, <5>1 DEF Swallowed
        <5>4. Cardinality(Swallowed') <= Cardinality(Swallowed) /\ Cardinality(Swallowed') \in Nat
          BY <1>f, <5>3, FS_Subset, FS_CardinalityType
        <5> QED
          BY <1>f, <1>i, <1>t, <4>1, <5>4
      <4>2. CASE tail = "cut"
        <5>1. \A d \in Conns : Recorded(d)' <=> Recorded(d)
          BY <3>1, <4>2
        <5>2. Swallowed' \subseteq Swallowed \cup {c}
          BY <3>2, <5>1 DEF Swallowed
        <5>3. Cardinality(Swallowed \cup {c}) = Cardinality(Swallowed) + 1 /\ IsFiniteSet(Swallowed \cup {c})
          BY <1>f, <3>6, FS_AddElement
        <5>4. Cardinality(Swallowed') <= Cardinality(Swallowed \cup {c}) /\ Cardinality(Swallowed') \in Nat
          <6>1. IsFiniteSet(Swallowed') /\ Cardinality(Swallowed') <= Cardinality(Swallowed \cup {c})
            BY <5>2, <5>3, FS_Subset
          <6> QED
            BY <6>1, FS_CardinalityType
        <5>5. Cardinality(Swallowed) + 1 <= cuts
          BY <1>i, <4>2
        <5> QED
          BY <1>f, <1>t, <5>3, <5>4, <5>5
      <4> QED
        BY <1>t, <4>1, <4>2
    <3>8. Cardinality(Swallowed') \in Nat
      <4>1. Swallowed' \subseteq Conns
        BY DEF Swallowed
      <4> QED
        BY <4>1, FS_Subset, FS_CardinalityType
    <3>9. Cardinality(Swallowed') + (IF tail' = "cut" THEN 1 ELSE 0) <= cuts'
      BY <1>t, <3>1, <3>7, <3>8
    <3>10. record'.state # "broken" => record'.session_count = Cardinality(Folded')
      BY <1>i, <3>1, <3>5
    <3> QED
      BY <3>4, <3>9, <3>10 DEF CountInv
  <2> QED
    BY <1>6, <2>2, <2>3 DEF RecordEvent
<1>7. ASSUME NEW c \in Conns, send_syslog(c) PROVE CountInv'
  BY <1>5, <1>7 DEF send_syslog, recVars
<1>8. ASSUME NEW c \in Conns, UpdateRecord(c) PROVE CountInv'
  <2>1. task[c].pc = "attacker"
    BY <1>8 DEF UpdateRecord
  <2>2. CASE Goto(c, "done") /\ (LogDir!RecordRefused \/ LogDir!update_attacker_record_Raises)
    <3>1. /\ events' = events /\ tail' = tail /\ cuts' = cuts
          /\ record' = record \/ record'.state = "broken"
      BY <1>t, <2>2 DEF LogDir!RecordRefused, LogDir!update_attacker_record_Raises, LogDir!LogUnchanged,
                       LogDir!BreakRecord, LogDir!Records
    <3> QED
      BY <1>5, <2>1, <2>2, <3>1
  <2>3. CASE LogDir!update_attacker_record /\ Returned(c, "attacker", "done")
    <3>1. /\ record.state # "broken" /\ record'.session_count = record.session_count + 1
          /\ events' = events /\ tail' = tail /\ cuts' = cuts
      BY <2>3 DEF LogDir!update_attacker_record
    <3>2. /\ task'[c].returned = task[c].returned \cup {"attacker"} /\ task'[c].pc = "done"
          /\ \A d \in Conns \ {c} : task'[d] = task[d]
      BY <2>3, <1>t DEF Returned, Tasks
    <3>3. "attacker" \notin task[c].returned
      BY <1>i, <2>1 DEF ReturnedInv
    <3>4. ReturnedInv'
      BY <1>i, <3>2 DEF ReturnedInv, Past
    <3>5. Swallowed' = Swallowed
      BY <3>1, <3>2, RecordedAfter DEF Swallowed
    <3>6. Folded' = Folded \cup {c} /\ c \notin Folded
      BY <3>2, <3>3 DEF Folded
    <3>7. Cardinality(Folded') = Cardinality(Folded) + 1
      BY <1>f, <3>6, FS_AddElement
    <3> QED
      BY <1>i, <3>1, <3>4, <3>5, <3>7 DEF CountInv
  <2> QED
    BY <1>8, <2>2, <2>3 DEF UpdateRecord
<1>9. CASE UNCHANGED vars
  BY <1>0, <1>9, <1>i DEF vars, recVars, ReturnedInv
<1> QED
  BY <1>1, <1>2, <1>3, <1>4, <1>6, <1>7, <1>8, <1>9 DEF Next, Main, Handle

(* Of any finite number of connections, in any number of containers: each  *)
(* cut line spoils one event at most (writer.py:31-33).                    *)
THEOREM CutCostsAtMostOneLine ==
  ASSUME IsFiniteSet(Conns)
  PROVE  Spec => []CutsCostOneLine
<1>1. TypeInv /\ CountInv => CutsCostOneLine
  <2> SUFFICES ASSUME TypeInv, CountInv PROVE CutsCostOneLine
    OBVIOUS
  <2>1. Cardinality(Swallowed) \in Nat /\ cuts \in Nat
    BY FS_Subset, FS_CardinalityType DEF Swallowed, TypeInv, LogOK, LogDir!LogTypeOK
  <2>2. Cardinality(Swallowed) <= cuts
    BY <2>1 DEF CountInv
  <2> QED
    BY <2>2 DEF CutsCostOneLine, Swallowed
<1> QED
  BY <1>1, TypeInit, TypeStep, CountInit, CountStep, PTL DEF Spec

(* Of any finite number of connections, in any number of containers: the   *)
(* record counts the sessions folded into it (fingerprint.py:32-48).       *)
THEOREM SessionsCounted ==
  ASSUME IsFiniteSet(Conns)
  PROVE  Spec => []SessionCountExact
<1>1. CountInv => SessionCountExact
  BY DEF CountInv, SessionCountExact, Folded
<1> QED
  BY <1>1, TypeInit, TypeStep, CountInit, CountStep, PTL DEF Spec

-----------------------------------------------------------------------------
(* A clean end.  Every line and every session that is missing, and the     *)
(* line that a cut tail will still swallow, is owed by a fault or a cut.   *)

Unlogged == {c \in Conns : task[c].pc \in {"syslog", "attacker", "done"} /\ ~ Recorded(c)}
Missed   == {c \in Conns : task[c].pc = "done" /\ "attacker" \notin task[c].returned}

CutDebt  == IF tail = "cut" THEN 1 ELSE 0
MissDebt == IF record.state = "broken" THEN 0 ELSE Cardinality(Missed)
DebtInv  == Cardinality(Unlogged) + CutDebt + MissDebt <= faults + cuts

(* A handler that did not come to its recording steps met an error, and    *)
(* the process ends after its handlers.                                    *)
EndInv ==
  /\ \A c \in Conns : task[c].pc = "raised" => task[c].error
  /\ main = "exited" => \A c \in Conns : Finished(c)

LEMMA EndStep == TypeInv /\ EndInv /\ [Next]_vars => EndInv'
<1> SUFFICES ASSUME TypeInv, EndInv, [Next]_vars PROVE EndInv'
  OBVIOUS
<1>t. task \in [Conns -> Tasks]
  BY DEF TypeInv, TaskOK
<1>1. CASE _serve_port \/ SignalHandler \/ CloseServers \/ ServersClosed \/ Start
  <2>1. task' = task
    BY <1>1, MainSteps
  <2>2. main' = "exited" => ServersClosed
    BY <1>1 DEF _serve_port, SignalHandler, CloseServers, Start, Free, Alive
  <2> QED
    BY <2>1, <2>2 DEF EndInv, ServersClosed, Finished
<1>2. CASE Kill
  <2>1. main' # "exited"
    BY <1>2 DEF Kill
  <2>2. \A c \in Conns : task'[c] = task[c] \/ task'[c].pc = "gone"
    BY <1>2, <1>t DEF Kill, Tasks
  <2> QED
    BY <2>1, <2>2 DEF EndInv
(* A step of a connection: the process has not ended, and only CloseWriter *)
(* leaves a handler "raised".                                              *)
<1>3. ASSUME NEW c \in Conns, main' # "exited", \A d \in Conns \ {c} : task'[d] = task[d],
             task'[c] = task[c] \/ task'[c].pc # "raised" \/ task'[c].error
      PROVE  EndInv'
  BY <1>3 DEF EndInv
<1>4. ASSUME NEW c \in Conns, Accept(c) \/ Send(c) \/ Leave(c) PROVE EndInv'
  <2>1. main' # "exited" /\ \A d \in Conns \ {c} : task'[d] = task[d]
    BY <1>4, <1>t DEF Accept, Send, Leave, Free, Alive, mainVars
  <2>2. task'[c] = task[c] \/ task'[c].pc # "raised"
    BY <1>4, <1>t DEF Accept, Send, Leave, Handler
  <2> QED
    BY <1>3, <2>1, <2>2
<1>5. ASSUME NEW c \in Conns,
             BannerRefused(c) \/ ReadInterrupted(c) \/ WriteBanner(c) \/ ReadData(c) \/ ReadEof(c) \/ CloseWriter(c)
      PROVE  EndInv'
  <2>1. main' # "exited" /\ \A d \in Conns \ {c} : task'[d] = task[d]
    BY <1>5, <1>t DEF BannerRefused, ReadInterrupted, WriteBanner, ReadData, ReadEof, CloseWriter, Goto, Free, Alive, mainVars
  <2>2. task'[c].pc # "raised" \/ task'[c].error
    <3>1. CASE ReadData(c)
      <4> DEFINE n == Least(ReadSize, sent[c] - task[c].total)
      <4>1. task'[c] = Captured(task[c], n) /\ task[c].pc = "read"
        BY <3>1, <1>t DEF ReadData
      <4>2. Captured(task[c], n).pc = task[c].pc
        BY <1>t DEF Captured, Tasks
      <4> QED
        BY <4>1, <4>2
    <3>2. CASE ReadEof(c)
      BY <3>2, <1>t DEF ReadEof, Tasks
    <3>3. CASE ReadInterrupted(c)
      BY <3>3, <1>t DEF ReadInterrupted, Tasks
    <3>4. CASE BannerRefused(c) \/ WriteBanner(c) \/ CloseWriter(c)
      BY <3>4, <1>t DEF BannerRefused, WriteBanner, CloseWriter, Goto, Tasks
    <3> QED
      BY <1>5, <3>1, <3>2, <3>3, <3>4
  <2> QED
    BY <1>3, <2>1, <2>2
<1>6. ASSUME NEW c \in Conns, RecordEvent(c) \/ send_syslog(c) \/ UpdateRecord(c) PROVE EndInv'
  <2>1. main' # "exited"
    BY <1>6 DEF RecordEvent, send_syslog, UpdateRecord, Free, Alive, mainVars
  <2>2. \/ Returned(c, "record", AfterRecord) \/ Goto(c, AfterRecord) \/ Goto(c, "attacker")
        \/ Returned(c, "attacker", "done") \/ Goto(c, "done")
    BY <1>6 DEF RecordEvent, send_syslog, UpdateRecord
  <2>3. task'[c].pc # "raised" /\ \A d \in Conns \ {c} : task'[d] = task[d]
    BY <2>2, <1>t DEF Returned, Goto, AfterRecord, Tasks
  <2> QED
    BY <1>3, <2>1, <2>3
<1>7. CASE UNCHANGED vars
  BY <1>7 DEF vars, mainVars, EndInv, Finished
<1> QED
  BY <1>1, <1>2, <1>4, <1>5, <1>6, <1>7 DEF Next, Main, Handle

LEMMA DebtInit == Init => DebtInv /\ EndInv
<1> SUFFICES ASSUME Init PROVE DebtInv /\ EndInv
  OBVIOUS
<1>1. /\ \A c \in Conns : task[c].pc = "none"
      /\ tail = "whole" /\ cuts = 0 /\ faults = 0 /\ record.state = "absent"
      /\ main # "exited"
  BY DEF Init, Handler, LogDir!LogInit
<1>2. Unlogged = {} /\ Missed = {}
  BY <1>1 DEF Unlogged, Missed
<1> QED
  BY <1>1, <1>2, FS_EmptySet DEF DebtInv, CutDebt, MissDebt, EndInv

LEMMA OneMore ==
  ASSUME NEW S, IsFiniteSet(S), NEW x, NEW T, T \subseteq S \cup {x}
  PROVE  Cardinality(T) <= Cardinality(S) + 1
<1>1. /\ IsFiniteSet(S \cup {x})
      /\ Cardinality(S \cup {x}) = IF x \in S THEN Cardinality(S) ELSE Cardinality(S) + 1
  BY FS_AddElement
<1>2. IsFiniteSet(T) /\ Cardinality(T) <= Cardinality(S \cup {x})
  BY <1>1, FS_Subset
<1>3. Cardinality(S) \in Nat /\ Cardinality(T) \in Nat
  BY <1>2, FS_CardinalityType
<1>4. CASE x \in S
  BY <1>1, <1>2, <1>3, <1>4
<1>5. CASE x \notin S
  BY <1>1, <1>2, <1>5
<1> QED
  BY <1>4, <1>5

LEMMA DebtStep ==
  ASSUME IsFiniteSet(Conns)
  PROVE  TypeInv /\ ReturnedInv /\ DebtInv /\ [Next]_vars => DebtInv'
<1> SUFFICES ASSUME TypeInv, ReturnedInv, DebtInv, [Next]_vars PROVE DebtInv'
  OBVIOUS
<1>t. /\ task \in [Conns -> Tasks] /\ cuts \in Nat /\ faults \in Nat
      /\ record \in LogDir!Records /\ tail \in {"whole", "cut"}
  BY NatConstants DEF TypeInv, TaskOK, LoopOK, LogOK, LogDir!LogTypeOK
<1>f. /\ IsFiniteSet(Unlogged) /\ IsFiniteSet(Missed)
      /\ Cardinality(Unlogged) \in Nat /\ Cardinality(Missed) \in Nat
  BY FS_Subset, FS_CardinalityType DEF Unlogged, Missed
<1>f2. /\ IsFiniteSet(Unlogged') /\ IsFiniteSet(Missed')
       /\ Cardinality(Unlogged') \in Nat /\ Cardinality(Missed') \in Nat
  <2>1. Unlogged' \subseteq Conns /\ Missed' \subseteq Conns
    BY DEF Unlogged, Missed
  <2> QED
    BY <2>1, FS_Subset, FS_CardinalityType
<1>r. events' = events => \A d \in Conns : Recorded(d)' <=> Recorded(d)
  BY RecordedAfter
(* What a step may add to each of the three debts, and what pays for it.   *)
<1>s. ASSUME Unlogged' \subseteq Unlogged PROVE Cardinality(Unlogged') <= Cardinality(Unlogged)
  BY <1>f, <1>s, FS_Subset
<1>a. ASSUME NEW c \in Conns, Unlogged' \subseteq Unlogged \cup {c}
      PROVE  Cardinality(Unlogged') <= Cardinality(Unlogged) + 1
  BY <1>a, <1>f, OneMore
<1>m. ASSUME Missed' \subseteq Missed, record' = record \/ record'.state = "broken" PROVE MissDebt' <= MissDebt
  <2>1. Cardinality(Missed') <= Cardinality(Missed)
    BY <1>f, <1>m, FS_Subset
  <2> QED
    BY <1>f, <1>f2, <1>m, <2>1 DEF MissDebt
<1>d. /\ MissDebt \in Nat /\ MissDebt' \in Nat /\ CutDebt \in 0..1 /\ CutDebt' \in 0..1
      /\ Cardinality(Unlogged) + CutDebt + MissDebt <= faults + cuts
  BY <1>f, <1>f2 DEF MissDebt, CutDebt, DebtInv
<1>c. ASSUME (tail' = tail /\ cuts' = cuts) \/ LogDir!CutLine
      PROVE  \/ cuts' = cuts /\ CutDebt' = CutDebt
             \/ cuts' = cuts + 1 /\ CutDebt' = 1
  BY <1>c DEF LogDir!CutLine, CutDebt
(* Steps that add no debt.                                                 *)
<1>0. ASSUME Unlogged' \subseteq Unlogged, Missed' \subseteq Missed, faults' = faults,
             (tail' = tail /\ cuts' = cuts) \/ LogDir!CutLine,
             record' = record \/ record'.state = "broken"
      PROVE  DebtInv'
  <2>1. Cardinality(Unlogged') <= Cardinality(Unlogged) /\ MissDebt' <= MissDebt
    BY <1>0, <1>s, <1>m
  <2>2. CASE cuts' = cuts /\ CutDebt' = CutDebt
    BY <1>0, <1>d, <1>f, <1>f2, <1>t, <2>1, <2>2 DEF DebtInv
  <2>3. CASE cuts' = cuts + 1 /\ CutDebt' = 1
    BY <1>0, <1>d, <1>f, <1>f2, <1>t, <2>1, <2>3 DEF DebtInv
  <2> QED
    BY <1>0, <1>c, <2>2, <2>3
(* Steps of a connection that is not past its recording step, and of none. *)
<1>q. ASSUME UNCHANGED recVars, NEW c \in Conns, \A d \in Conns \ {c} : task'[d] = task[d],
             task'[c] = task[c] \/ task'[c].pc \notin {"syslog", "attacker", "done"}
      PROVE  DebtInv'
  <2>1. Unlogged' \subseteq Unlogged /\ Missed' \subseteq Missed
    BY <1>q, <1>r DEF Unlogged, Missed, recVars
  <2> QED
    BY <1>0, <1>q, <2>1 DEF recVars
<1>u. ASSUME UNCHANGED <<task, recVars>> PROVE DebtInv'
  <2>1. Unlogged' \subseteq Unlogged /\ Missed' \subseteq Missed
    BY <1>u, <1>r DEF Unlogged, Missed, recVars
  <2> QED
    BY <1>0, <1>u, <2>1 DEF recVars
<1>1. CASE _serve_port \/ SignalHandler \/ CloseServers \/ ServersClosed \/ Start
  BY <1>1, <1>u, MainSteps
<1>2. CASE Kill
  <2>1. \A c \in Conns : task'[c] = task[c] \/ task'[c].pc = "gone"
    BY <1>2, <1>t DEF Kill, Tasks
  <2>2. /\ events' = events /\ faults' = faults
        /\ (tail' = tail /\ cuts' = cuts) \/ LogDir!CutLine
        /\ record' = record \/ record'.state = "broken"
    BY <1>2, <1>t DEF Kill, LogDir!LogUnchanged, LogDir!CutLine, LogDir!BreakRecord, LogDir!Records
  <2>3. Unlogged' \subseteq Unlogged /\ Missed' \subseteq Missed
    BY <1>r, <2>1, <2>2 DEF Unlogged, Missed
  <2> QED
    BY <1>0, <2>2, <2>3
<1>3. ASSUME NEW c \in Conns, Accept(c) \/ Send(c) \/ Leave(c) PROVE DebtInv'
  <2>1. UNCHANGED recVars /\ \A d \in Conns \ {c} : task'[d] = task[d]
    BY <1>3, <1>t DEF Accept, Send, Leave
  <2>2. task'[c] = task[c] \/ task'[c].pc \in {"banner", "read"}
    BY <1>3, <1>t DEF Accept, Send, Leave, Handler
  <2> QED
    BY <1>q, <2>1, <2>2
<1>4. ASSUME NEW c \in Conns,
             BannerRefused(c) \/ ReadInterrupted(c) \/ WriteBanner(c) \/ ReadData(c) \/ ReadEof(c) \/ CloseWriter(c)
      PROVE  DebtInv'
  <2>1. UNCHANGED recVars
    BY <1>4 DEF BannerRefused, ReadInterrupted, WriteBanner, ReadData, ReadEof, CloseWriter
  <2>2. \A d \in Conns \ {c} : task'[d] = task[d]
    BY <1>4, <1>t DEF BannerRefused, ReadInterrupted, WriteBanner, ReadData, ReadEof, CloseWriter, Goto
  <2>3. task'[c].pc \notin {"syslog", "attacker", "done"}
    <3>1. CASE ReadData(c)
      <4> DEFINE n == Least(ReadSize, sent[c] - task[c].total)
      <4>1. task'[c] = Captured(task[c], n) /\ task[c].pc = "read"
        BY <3>1, <1>t DEF ReadData
      <4>2. Captured(task[c], n).pc = task[c].pc
        BY <1>t DEF Captured, Tasks
      <4> QED
        BY <4>1, <4>2
    <3>2. CASE ReadEof(c)
      BY <3>2, <1>t DEF ReadEof, Tasks
    <3>3. CASE ReadInterrupted(c)
      BY <3>3, <1>t DEF ReadInterrupted, Tasks
    <3>4. CASE BannerRefused(c) \/ WriteBanner(c) \/ CloseWriter(c)
      BY <3>4, <1>t DEF BannerRefused, WriteBanner, CloseWriter, Goto, Tasks
    <3> QED
      BY <1>4, <3>1, <3>2, <3>3, <3>4
  <2> QED
    BY <1>q, <2>1, <2>2, <2>3
<1>5. ASSUME NEW c \in Conns, RecordEvent(c) PROVE DebtInv'
  <2>1. task[c].pc = "record" /\ record' = record
    BY <1>5 DEF RecordEvent, LogDir!write_event, LogDir!write_event_Raises, LogDir!LogUnchanged, LogDir!CutLine
  <2>2. Returned(c, "record", AfterRecord) \/ Goto(c, AfterRecord)
    BY <1>5 DEF RecordEvent
  <2>3. task'[c].pc \in {"syslog", "attacker"} /\ \A d \in Conns \ {c} : task'[d] = task[d]
    BY <2>2, <1>t DEF Returned, Goto, AfterRecord, Tasks
  <2>4. Missed' \subseteq Missed
    BY <2>3 DEF Missed
  <2>5. MissDebt' <= MissDebt
    BY <1>m, <2>1, <2>4
  <2>6. CASE LogDir!write_event(Event(c)) /\ faults' = faults
    <3>1. /\ \A d \in Conns : Recorded(d)' <=> (Recorded(d) \/ (tail = "whole" /\ d = c))
          /\ tail' = "whole" /\ cuts' = cuts
      BY <2>6, RecordedAfter DEF LogDir!write_event
    <3>2. CutDebt' = 0
      BY <3>1 DEF CutDebt
    <3>3. Cardinality(Unlogged') <= Cardinality(Unlogged) + CutDebt
      <4>1. CASE tail = "whole"
        <5>1. Unlogged' \subseteq Unlogged
          BY <2>3, <3>1, <4>1 DEF Unlogged
        <5> QED
          BY <1>d, <1>f, <1>f2, <1>s, <5>1
      <4>2. CASE tail = "cut"
        <5>1. Unlogged' \subseteq Unlogged \cup {c}
          BY <2>3, <3>1 DEF Unlogged
        <5>2. CutDebt = 1
          BY <4>2 DEF CutDebt
        <5> QED
          BY <1>a, <5>1, <5>2
      <4> QED
        BY <1>t, <4>1, <4>2
    <3> QED
      BY <1>d, <1>f, <1>f2, <1>t, <2>5, <2>6, <3>1, <3>2, <3>3 DEF DebtInv
  <2>7. CASE LogDir!write_event_Raises /\ Fault
    <3>1. /\ events' = events /\ faults' = faults + 1
          /\ (tail' = tail /\ cuts' = cuts) \/ LogDir!CutLine
      BY <2>7 DEF Fault, LogDir!write_event_Raises, LogDir!LogUnchanged, LogDir!CutLine
    <3>2. Unlogged' \subseteq Unlogged \cup {c}
      BY <1>r, <2>3, <3>1 DEF Unlogged
    <3>3. Cardinality(Unlogged') <= Cardinality(Unlogged) + 1
      BY <1>a, <3>2
    <3>4. CASE cuts' = cuts /\ CutDebt' = CutDebt
      BY <1>d, <1>f, <1>f2, <1>t, <2>5, <3>1, <3>3, <3>4 DEF DebtInv
    <3>5. CASE cuts' = cuts + 1 /\ CutDebt' = 1
      BY <1>d, <1>f, <1>f2, <1>t, <2>5, <3>1, <3>3, <3>5 DEF DebtInv
    <3> QED
      BY <1>c, <3>1, <3>4, <3>5
  <2> QED
    BY <1>5, <2>6, <2>7 DEF RecordEvent
<1>6. ASSUME NEW c \in Conns, send_syslog(c) PROVE DebtInv'
  <2>1. task[c].pc = "syslog" /\ UNCHANGED recVars /\ Goto(c, "attacker")
    BY <1>6 DEF send_syslog
  <2>2. task'[c].pc = "attacker" /\ \A d \in Conns \ {c} : task'[d] = task[d]
    BY <2>1, <1>t DEF Goto, Tasks
  <2>3. Unlogged' \subseteq Unlogged /\ Missed' \subseteq Missed
    BY <1>r, <2>1, <2>2 DEF Unlogged, Missed, recVars
  <2> QED
    BY <1>0, <2>1, <2>3 DEF recVars
<1>7. ASSUME NEW c \in Conns, UpdateRecord(c) PROVE DebtInv'
  <2>1. task[c].pc = "attacker" /\ (Returned(c, "attacker", "done") \/ Goto(c, "done"))
    BY <1>7 DEF UpdateRecord
  <2>2. task'[c].pc = "done" /\ \A d \in Conns \ {c} : task'[d] = task[d]
    BY <2>1, <1>t DEF Returned, Goto, Tasks
  <2>3. events' = events /\ tail' = tail /\ cuts' = cuts
    BY <1>7 DEF UpdateRecord, LogDir!update_attacker_record, LogDir!RecordRefused, LogDir!update_attacker_record_Raises,
       LogDir!LogUnchanged, LogDir!BreakRecord
  <2>4. Unlogged' \subseteq Unlogged
    BY <1>r, <2>1, <2>2, <2>3 DEF Unlogged
  <2>5. Cardinality(Unlogged') <= Cardinality(Unlogged) /\ CutDebt' = CutDebt
    BY <1>s, <2>3, <2>4 DEF CutDebt
  <2>6. CASE LogDir!update_attacker_record /\ Returned(c, "attacker", "done") /\ faults' = faults
    <3>1. "attacker" \in task'[c].returned
      BY <2>6, <1>t DEF Returned, Tasks
    <3>2. Missed' \subseteq Missed
      BY <2>2, <3>1 DEF Missed
    <3>3. Cardinality(Missed') <= Cardinality(Missed)
      BY <1>f, <3>2, FS_Subset
    <3>4. MissDebt' <= MissDebt
      BY <1>f, <1>f2, <2>6, <3>3 DEF MissDebt, LogDir!update_attacker_record
    <3> QED
      BY <1>d, <1>f, <1>f2, <1>t, <2>3, <2>5, <2>6, <3>4 DEF DebtInv
  <2>7. CASE record'.state = "broken" /\ (faults' = faults \/ faults' = faults + 1)
    <3>1. MissDebt' = 0
      BY <2>7 DEF MissDebt
    <3> QED
      BY <1>d, <1>f, <1>f2, <1>t, <2>3, <2>5, <2>7, <3>1 DEF DebtInv
  <2>8. CASE LogDir!LogUnchanged /\ faults' = faults + 1
    <3>1. Missed' \subseteq Missed \cup {c}
      BY <2>2 DEF Missed
    <3>2. Cardinality(Missed') <= Cardinality(Missed) + 1
      BY <1>f, <3>1, OneMore
    <3>4. record' = record
      BY <2>8 DEF LogDir!LogUnchanged
    <3>5. MissDebt' <= MissDebt + 1
      BY <1>f, <1>f2, <3>2, <3>4 DEF MissDebt
    <3> QED
      BY <1>d, <1>f, <1>f2, <1>t, <2>3, <2>5, <2>8, <3>5 DEF DebtInv
  <2> QED
    BY <1>7, <1>t, <2>6, <2>7, <2>8 DEF UpdateRecord, Fault, LogDir!RecordRefused, LogDir!update_attacker_record_Raises,
       LogDir!LogUnchanged, LogDir!BreakRecord, LogDir!Records
<1>8. CASE UNCHANGED vars
  BY <1>8, <1>u DEF vars
<1> QED
  BY <1>1, <1>2, <1>3, <1>4, <1>5, <1>6, <1>7, <1>8 DEF Next, Main, Handle

(* However many connections, containers, faults and kills there are: when  *)
(* a process has ended by itself, each line and each session that is       *)
(* missing of a connection it did not lose is paid for by a fault or a cut *)
(* of its own (listener.py:66-90, 200-208).                                *)
THEOREM CleanExitRecords ==
  ASSUME IsFiniteSet(Conns)
  PROVE  Spec => []CleanExitRecordsAll
<1>1. TypeInv /\ CountInv /\ EndInv /\ DebtInv => CleanExitRecordsAll
  <2> SUFFICES ASSUME TypeInv, CountInv, EndInv, DebtInv, main = "exited" PROVE CleanExitRecordsAll
    BY DEF CleanExitRecordsAll
  <2> DEFINE owed      == {c \in Conns : task[c].pc \notin {"none", "gone"} /\ ~ task[c].error}
             unlogged  == {c \in owed : ~ Recorded(c)}
             uncounted == IF record.state = "broken" THEN 0 ELSE Cardinality(owed) - record.session_count
  <2>1. \A c \in owed : task[c].pc = "done"
    BY DEF EndInv, Finished
  <2>2. owed \subseteq Folded \cup Missed /\ unlogged \subseteq Unlogged
    BY <2>1 DEF Folded, Missed, Unlogged
  <2>3. /\ IsFiniteSet(Folded) /\ IsFiniteSet(Missed) /\ IsFiniteSet(Unlogged) /\ IsFiniteSet(owed) /\ IsFiniteSet(unlogged)
    BY FS_Subset DEF Folded, Missed, Unlogged
  <2>4. /\ Cardinality(Folded) \in Nat /\ Cardinality(Missed) \in Nat /\ Cardinality(Unlogged) \in Nat
        /\ Cardinality(owed) \in Nat /\ Cardinality(unlogged) \in Nat
    BY <2>3, FS_CardinalityType
  <2>5. Cardinality(unlogged) <= Cardinality(Unlogged)
    BY <2>2, <2>3, FS_Subset
  <2>6. Cardinality(owed) <= Cardinality(Folded) + Cardinality(Missed)
    <3>1. Folded \cap Missed = {}
      BY DEF Folded, Missed
    <3>2. Cardinality(Folded \cap Missed) = 0
      BY <3>1, FS_EmptySet
    <3>3. IsFiniteSet(Folded \cup Missed) /\ Cardinality(Folded \cup Missed) = Cardinality(Folded) + Cardinality(Missed) - 0
      BY <2>3, <3>2, FS_Union
    <3>4. Cardinality(owed) <= Cardinality(Folded \cup Missed)
      BY <2>2, <3>3, FS_Subset
    <3> QED
      BY <2>4, <3>3, <3>4
  <2>7. record.state # "broken" => record.session_count = Cardinality(Folded)
    BY DEF CountInv
  <2>8. Cardinality(Unlogged) + CutDebt + MissDebt <= faults + cuts /\ CutDebt \in 0..1 /\ faults \in Nat /\ cuts \in Nat
    BY NatConstants DEF DebtInv, CutDebt, TypeInv, LoopOK, LogOK, LogDir!LogTypeOK
  <2>9. uncounted <= MissDebt /\ uncounted \in Int /\ MissDebt \in Nat
    BY <2>4, <2>6, <2>7 DEF MissDebt
  <2>10. Cardinality(unlogged) + uncounted <= faults + cuts
    <3> HIDE DEF uncounted, unlogged
    <3> QED
      BY <2>4, <2>5, <2>8, <2>9
  <2> QED
    BY <2>10 DEF CleanExitRecordsAll
<1>2. CountInv => ReturnedInv
  BY DEF CountInv
<1> QED
  BY <1>1, <1>2, TypeInit, TypeStep, CountInit, CountStep, DebtInit, DebtStep, EndStep, PTL DEF Spec

=============================================================================
