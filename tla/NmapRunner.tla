------------------------------ MODULE NmapRunner ------------------------------
(***************************************************************************)
(* One call of run_nmap (scan/nmap_runner.py): the calling thread, the     *)
(* nmap process, two pipes and the two threads that drain them, and the    *)
(* temporary file nmap writes its XML to.  nmap itself is external.        *)
(*                                                                         *)
(* A line of output is "text", or a "marker" that _is_privilege_error      *)
(* looks for, or one that cannot be decoded, or one that a child of nmap   *)
(* writes "later", when nmap itself has ended.  Time is abstracted: a      *)
(* timeout may expire whenever what it waits for has not happened.         *)
(***************************************************************************)
EXTENDS Naturals, Sequences, SequencesExt

CONSTANTS
  PipeSize,    (* bound: the lines a pipe holds                              *)
  MaxLines     (* bound: the lines nmap writes to each of its outputs        *)

ASSUME NmapAssumption == PipeSize \in Nat \ {0} /\ MaxLines \in Nat

VARIABLES
  main,        (* where run_nmap is                                          *)
  outcome,     (* what it returns or raises                                  *)
  xml_path,    (* the temporary file                                         *)
  process,     (* the nmap process: its exit code and how much it wrote of   *)
               (* its XML                                                    *)
  pipe,        (* pipe[o]: the lines in the pipe of output o                 *)
  lines,       (* lines[o]: stdout_lines and stderr_lines                    *)
  reader,      (* reader[o]: the thread in _drain_lines                      *)
  held         (* held[x]: a child that outlives nmap keeps the pipe x open, *)
               (* or still writes the XML                                    *)

vars == <<main, outcome, xml_path, process, pipe, lines, reader, held>>

Outputs == {"stdout", "stderr"}
Kinds   == {"text", "marker", "undecodable", "later"}
Shared  == Outputs \cup {"xml"}

Outcomes == {"none", "xml", "unreadable", "not found", "not started", "no thread", "timeout",
             "privileges", "failed", "interrupted"}

TypeOK ==
  /\ main \in {"start", "popen", "start stdout", "start stderr", "wait", "kill", "join stdout", "join stderr",
               "decide", "unlink", "ended"}
  /\ outcome \in Outcomes
  /\ xml_path \in {"absent", "empty", "partial", "whole"}
  /\ process \in [state : {"none", "running", "exited"}, code : {"zero", "error", "killed"},
                  xml : {"nothing", "partial", "whole"}]
  /\ pipe \in [Outputs -> Seq(Kinds)] /\ \A o \in Outputs : Len(pipe[o]) <= PipeSize
  /\ lines \in [Outputs -> Seq(Kinds)]
  /\ reader \in [Outputs -> {"none", "reading", "in callback", "done", "dead"}]
  /\ held \in [Shared -> BOOLEAN]
  /\ main \in {"unlink", "ended"} => outcome # "none"

Init ==
  /\ main = "start"
  /\ outcome = "none"
  /\ xml_path = "absent"
  /\ process = [state |-> "none", code |-> "zero", xml |-> "nothing"]
  /\ pipe = [o \in Outputs |-> <<>>]
  /\ lines = [o \in Outputs |-> <<>>]
  /\ reader = [o \in Outputs |-> "none"]
  /\ held = [x \in Shared |-> FALSE]

nmapVars   == <<process, pipe, held>>
threadVars == <<lines, reader>>

(* What the children that outlive nmap may have of it.                     *)
Survivors == {h \in [Shared -> BOOLEAN] : process.xml = "whole" => ~ h["xml"]}

Running == process.state = "running"
Exited  == process.state = "exited"

-----------------------------------------------------------------------------
(* The calling thread.                                                     *)

(* ensure_nmap_available, then mkstemp.                                    *)
Begin ==
  /\ main = "start"
  /\ \/ main' = "ended" /\ outcome' = "not found" /\ UNCHANGED xml_path
     \/ main' = "popen" /\ xml_path' = "empty" /\ UNCHANGED outcome
  /\ UNCHANGED <<nmapVars, threadVars>>

Popen ==
  /\ main = "popen"
  /\ \/ main' = "start stdout" /\ process' = [process EXCEPT !.state = "running"] /\ UNCHANGED outcome
     \/ main' = "unlink" /\ outcome' = "not started" /\ UNCHANGED process
  /\ UNCHANGED <<xml_path, pipe, held, threadVars>>

Starting(o)   == IF o = "stdout" THEN "start stdout" ELSE "start stderr"
AfterStart(o) == IF o = "stdout" THEN "start stderr" ELSE "wait"

(* Thread.start raises when the system has no thread to give: nobody waits *)
(* for nmap then.                                                          *)
StartThread(o) ==
  /\ main = Starting(o)
  /\ \/ main' = AfterStart(o) /\ reader' = [reader EXCEPT ![o] = "reading"] /\ UNCHANGED outcome
     \/ main' = "unlink" /\ outcome' = "no thread" /\ UNCHANGED reader
  /\ UNCHANGED <<xml_path, nmapVars, lines>>

WaitReturns ==
  /\ main = "wait"
  /\ Exited
  /\ main' = "join stdout"
  /\ UNCHANGED <<outcome, xml_path, nmapVars, threadVars>>

WaitExpires ==
  /\ main = "wait"
  /\ ~ Exited
  /\ main' = "kill"
  /\ outcome' = "timeout"
  /\ UNCHANGED <<xml_path, nmapVars, threadVars>>

(* Mutant: after a timeout nmap is not killed.                             *)
KillAndWait_NotKilling ==
  /\ main = "kill"
  /\ main' = "join stdout"
  /\ UNCHANGED <<outcome, xml_path, nmapVars, threadVars>>

(* kill does nothing to a process that has exited by now; its children     *)
(* live on.                                                                *)
KillAndWait ==
  /\ main = "kill"
  /\ main' = "join stdout"
  /\ IF Exited THEN UNCHANGED <<process, held>>
     ELSE /\ process' = [process EXCEPT !.state = "exited", !.code = "killed"]
          /\ held' \in Survivors
  /\ UNCHANGED <<outcome, xml_path, pipe, threadVars>>

Ended(o) == reader[o] \in {"done", "dead"}

(* Five seconds are enough for a thread that can go on to read all that    *)
(* nmap wrote: one that has not ended by then is inside on_progress, or    *)
(* reads a pipe that children of nmap keep open.                           *)
Open(o)     == ~ Exited \/ held[o]
ReadUp(o)   == \A i \in 1..Len(pipe[o]) : pipe[o][i] = "later"
Stuck(o)    == reader[o] = "in callback" \/ (reader[o] = "reading" /\ ReadUp(o) /\ Open(o))

Joining(o) == IF o = "stdout" THEN "join stdout" ELSE "join stderr"

(* Mutant: only a failed scan is decided upon.                             *)
AfterJoin_Unlink(o) == IF o = "stdout" THEN "join stderr" ELSE "unlink"

AfterJoin(o) == IF o = "stdout" THEN "join stderr" ELSE IF outcome = "timeout" THEN "unlink" ELSE "decide"

(* Mutant: the thread that reads stderr is not joined.                     *)
Join_StdoutOnly(o) ==
  /\ main = "join stdout" /\ o = "stdout"
  /\ Ended(o) \/ Stuck(o)
  /\ main' = AfterJoin("stderr")
  /\ UNCHANGED <<outcome, xml_path, nmapVars, threadVars>>

(* Mutant: the threads are joined without a timeout.                       *)
Join_NoTimeout(o) ==
  /\ main = Joining(o)
  /\ Ended(o)
  /\ main' = AfterJoin(o)
  /\ UNCHANGED <<outcome, xml_path, nmapVars, threadVars>>

Join(o) ==
  /\ main = Joining(o)
  /\ Ended(o) \/ Stuck(o)
  /\ main' = AfterJoin(o)
  /\ UNCHANGED <<outcome, xml_path, nmapVars, threadVars>>

_is_privilege_error == Contains(lines["stderr"], "marker")

(* Mutant: the exit code is not looked at.                                 *)
Decide_AnyExit ==
  /\ main = "decide"
  /\ outcome' = IF _is_privilege_error THEN "privileges" ELSE "xml"
  /\ main' = "unlink"
  /\ UNCHANGED <<xml_path, nmapVars, threadVars>>

(* The tests on returncode and stderr_text, and the read of the file,      *)
(* which may fail: nothing has looked at what nmap wrote.                  *)
Decide ==
  /\ main = "decide"
  /\ outcome' \in IF process.code = "zero" THEN {"xml", "unreadable"}
                  ELSE IF _is_privilege_error THEN {"privileges"} ELSE {"failed"}
  /\ main' = "unlink"
  /\ UNCHANGED <<xml_path, nmapVars, threadVars>>

(* The finally clause.                                                     *)
Unlink ==
  /\ main = "unlink"
  /\ xml_path' = "absent"
  /\ main' = "ended"
  /\ UNCHANGED <<outcome, nmapVars, threadVars>>

(* Control-C anywhere between mkstemp and the end of the try block; before *)
(* the block begins, no finally clause runs.                               *)
Interrupt ==
  /\ main \notin {"start", "unlink", "ended"}
  /\ outcome' = "interrupted"
  /\ \/ main' = "unlink"
     \/ main = "popen" /\ main' = "ended"
  /\ UNCHANGED <<xml_path, nmapVars, threadVars>>

Main ==
  \/ Begin \/ Popen \/ WaitReturns \/ KillAndWait
  \/ (\E o \in Outputs : StartThread(o) \/ Join(o)) \/ Decide \/ Unlink

-----------------------------------------------------------------------------
(* _drain_lines, in two threads.                                           *)

(* Mutant: stderr is drained only once stdout has ended.                   *)
Draining_OneByOne(o) ==
  reader[o] = "reading" /\ (o = "stderr" => Ended("stdout"))

Draining(o) == reader[o] = "reading"

(* The line is kept, and for stdout handed to on_progress, which returns,  *)
(* blocks or raises; a line that cannot be decoded ends the thread.        *)
ReadLine(o) ==
  /\ Draining(o)
  /\ pipe[o] # <<>>
  /\ pipe' = [pipe EXCEPT ![o] = Tail(@)]
  /\ IF Head(pipe[o]) = "undecodable"
       THEN reader' = [reader EXCEPT ![o] = "dead"] /\ UNCHANGED lines
       ELSE /\ lines' = [lines EXCEPT ![o] = Append(@, Head(pipe[o]))]
            /\ reader' = [reader EXCEPT ![o] = IF o = "stdout" THEN "in callback" ELSE @]
  /\ UNCHANGED <<main, outcome, xml_path, process, held>>

(* A callback need not return: the terminal it writes to may be stopped.   *)
on_progress ==
  /\ reader["stdout"] = "in callback"
  /\ \E next \in {"reading", "dead"} : reader' = [reader EXCEPT !["stdout"] = next]
  /\ UNCHANGED <<main, outcome, xml_path, nmapVars, lines>>

EndOfFile(o) ==
  /\ Draining(o)
  /\ pipe[o] = <<>> /\ ~ Open(o)
  /\ reader' = [reader EXCEPT ![o] = "done"]
  /\ UNCHANGED <<main, outcome, xml_path, nmapVars, lines>>

Drain(o) == ReadLine(o) \/ EndOfFile(o)

-----------------------------------------------------------------------------
(* nmap.                                                                   *)

(* What is written once the call has ended is left out.                    *)
Room(o) == main # "ended" /\ Len(pipe[o]) < PipeSize /\ Len(pipe[o]) + Len(lines[o]) < MaxLines

(* It waits while the pipe is full, or has nobody left to read it.         *)
WriteLine(o) ==
  /\ Running
  /\ Room(o)
  /\ \E kind \in {"text", "undecodable"} \cup (IF o = "stderr" THEN {"marker"} ELSE {}) :
       pipe' = [pipe EXCEPT ![o] = Append(@, kind)]
  /\ UNCHANGED <<main, outcome, xml_path, process, threadVars, held>>

(* What its children still write when nmap has ended.                      *)
WriteLater(o) ==
  /\ Exited /\ held[o]
  /\ Room(o)
  /\ pipe' = [pipe EXCEPT ![o] = Append(@, "later")]
  /\ UNCHANGED <<main, outcome, xml_path, process, threadVars, held>>

(* It, or a child that outlives it, creates or truncates the file of -oX;  *)
(* what it writes to a file that was unlinked since is lost.               *)
WriteXml ==
  /\ Running \/ (Exited /\ held["xml"])
  /\ \/ /\ process.xml = "nothing"
        /\ process' = [process EXCEPT !.xml = "partial"]
        /\ xml_path' = "partial"
     \/ /\ process.xml = "partial"
        /\ process' = [process EXCEPT !.xml = "whole"]
        /\ xml_path' = IF xml_path = "absent" THEN "absent" ELSE "whole"
  /\ UNCHANGED <<main, outcome, pipe, held, threadVars>>

(* It exits with 0 once the XML is written; children may outlive it, as    *)
(* those of a wrapper script do.                                           *)
Exit ==
  /\ Running
  /\ \E code \in {"zero", "error"} :
       /\ code = "zero" => process.xml = "whole"
       /\ process' = [process EXCEPT !.state = "exited", !.code = code]
  /\ held' \in Survivors
  /\ UNCHANGED <<main, outcome, xml_path, pipe, threadVars>>

ChildrenExit(o) ==
  /\ Exited /\ held[o]
  /\ held' = [held EXCEPT ![o] = FALSE]
  /\ UNCHANGED <<main, outcome, xml_path, process, pipe, threadVars>>

Nmap == WriteXml \/ Exit \/ \E o \in Outputs : WriteLine(o) \/ WriteLater(o) \/ ChildrenExit(o)

Next ==
  \/ Main
  \/ WaitExpires
  \/ Interrupt
  \/ \E o \in Outputs : Drain(o)
  \/ on_progress
  \/ Nmap

(* The operating system runs every thread.  That the wait's timeout        *)
(* expires is asked separately (Timeout), and nothing is asked of nmap, of *)
(* on_progress or of the user.                                             *)
Fairness == WF_vars(Main) /\ \A o \in Outputs : WF_vars(Drain(o))
Timeout  == WF_vars(WaitExpires)

Spec == Init /\ [][Next]_vars /\ Fairness

-----------------------------------------------------------------------------

(* Once nmap is being waited for, a call that is not interrupted leaves no *)
(* nmap running.  Its temporary file is gone for good too, unless nmap     *)
(* failed or was killed and a child of it lives on to create the file      *)
(* again.  A call that could not start a thread leaves nmap running        *)
(* (nmap_runner.py:112-144).                                               *)
NothingLeft == main = "ended" /\ outcome \notin {"interrupted", "no thread"} =>
  /\ ~ Running
  /\ xml_path = "absent" \/ (held["xml"] /\ process.code # "zero")

(* What is returned is the whole file of an nmap that exited by itself     *)
(* without an error, never one it is still writing.                        *)
XmlComplete == main = "unlink" /\ outcome = "xml" =>
  Exited /\ process.code = "zero" /\ xml_path = "whole"

(* The error says "privileges" exactly when nmap did: whatever the exit    *)
(* races with, the thread that reads stderr has read all of it by the time *)
(* it is looked at, even when the join times out.  Only a thread that died *)
(* of an undecodable line may have missed it (nmap_runner.py:126-140).     *)
RightError == outcome \in {"privileges", "failed"} /\ reader["stderr"] # "dead" =>
  /\ ReadUp("stderr")
  /\ (outcome = "privileges") = Contains(lines["stderr"], "marker")

(* nmap never waits on a pipe whose reader waits for the other pipe: a     *)
(* full pipe is read, by a thread that runs, without any timeout having to *)
(* rescue the call.  The exceptions are a reader that died, a callback     *)
(* that does not return, and an interrupt (nmap_runner.py:11-13).          *)
PipesDrained == \A o \in Outputs :
  main = "wait" /\ Len(pipe[o]) = PipeSize ~> \/ Len(pipe[o]) < PipeSize
                                             \/ reader[o] \in {"in callback", "dead"}
                                             \/ outcome = "interrupted"

(* run_nmap comes to an end once its timeout has expired, whatever nmap,   *)
(* its children and on_progress do (nmap_runner.py:116-127).               *)
AlwaysEnds == Timeout => <>(main = "ended")

=============================================================================
