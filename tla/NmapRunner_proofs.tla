--------------------------- MODULE NmapRunner_proofs ---------------------------
(***************************************************************************)
(* The safety of run_nmap for pipes of any size and any amount of output.  *)
(***************************************************************************)
EXTENDS NmapRunner, TLAPS

-----------------------------------------------------------------------------
(* Type correctness.                                                       *)

MainOK ==
  /\ main \in {"start", "popen", "start stdout", "start stderr", "wait", "kill", "join stdout", "join stderr", "decide", "unlink", "ended"}
  /\ outcome \in Outcomes
  /\ xml_path \in {"absent", "empty", "partial", "whole"}
  /\ main \in {"unlink", "ended"} => outcome # "none"
ProcessOK ==
  process \in [state : {"none", "running", "exited"}, code : {"zero", "error", "killed"},
               xml : {"nothing", "partial", "whole"}]
PipesOK ==
  /\ pipe \in [Outputs -> Seq(Kinds)]
  /\ \A o \in Outputs : Len(pipe[o]) <= PipeSize
  /\ lines \in [Outputs -> Seq(Kinds)]
  /\ reader \in [Outputs -> {"none", "reading", "in callback", "done", "dead"}]
  /\ held \in [Shared -> BOOLEAN]

TypeInv == MainOK /\ ProcessOK /\ PipesOK

LEMMA TypeParts == TypeInv <=> TypeOK
BY DEF TypeInv, TypeOK, MainOK, ProcessOK, PipesOK

LEMMA TypeInit == Init => TypeInv
<1> SUFFICES ASSUME Init PROVE TypeInv
  OBVIOUS
<1>1. MainOK /\ ProcessOK
  BY DEF Init, MainOK, ProcessOK, Outcomes
<1>2. <<>> \in Seq(Kinds) /\ Len(<<>>) <= PipeSize
  BY NmapAssumption DEF NmapAssumption
<1>3. PipesOK
  BY <1>2 DEF Init, PipesOK, Shared
<1> QED
  BY <1>1, <1>3 DEF TypeInv

LEMMA TypeStep == TypeInv /\ [Next]_vars => TypeInv'
<1> SUFFICES ASSUME TypeInv, [Next]_vars PROVE TypeInv'
  OBVIOUS
<1>m. UNCHANGED <<main, outcome, xml_path>> => MainOK'
  BY DEF TypeInv, MainOK
<1>p. UNCHANGED process => ProcessOK'
  BY DEF TypeInv, ProcessOK
<1>q. UNCHANGED <<pipe, held, threadVars>> => PipesOK'
  BY DEF TypeInv, PipesOK, threadVars
<1>1. ASSUME Begin \/ WaitReturns \/ WaitExpires \/ Decide \/ Unlink \/ Interrupt \/ \E o \in Outputs : Join(o) PROVE TypeInv'
  <2>1. MainOK'
    BY <1>1 DEF Begin, WaitReturns, WaitExpires, Decide, Unlink, Interrupt, Join, Joining, AfterJoin, TypeInv, MainOK, Outcomes
  <2>2. UNCHANGED <<nmapVars, threadVars>>
    BY <1>1 DEF Begin, WaitReturns, WaitExpires, Decide, Unlink, Interrupt, Join
  <2> QED
    BY <1>p, <1>q, <2>1, <2>2 DEF nmapVars, TypeInv
<1>2. ASSUME Popen PROVE TypeInv'
  <2>1. MainOK' /\ ProcessOK'
    BY <1>2 DEF Popen, TypeInv, MainOK, ProcessOK, Outcomes
  <2> QED
    BY <1>2, <1>q, <2>1 DEF Popen, TypeInv
<1>3. ASSUME NEW o \in Outputs, StartThread(o) PROVE TypeInv'
  <2>1. MainOK' /\ PipesOK'
    BY <1>3 DEF StartThread, AfterStart, nmapVars, TypeInv, MainOK, PipesOK, Outcomes
  <2> QED
    BY <1>3, <1>p, <2>1 DEF StartThread, nmapVars, TypeInv
<1>4. ASSUME KillAndWait PROVE TypeInv'
  <2>1. MainOK'
    BY <1>4 DEF KillAndWait, TypeInv, MainOK
  <2>2. ProcessOK'
    BY <1>4 DEF KillAndWait, TypeInv, ProcessOK
  <2>3. PipesOK'
    BY <1>4 DEF KillAndWait, Survivors, threadVars, TypeInv, PipesOK
  <2> QED
    BY <2>1, <2>2, <2>3 DEF TypeInv
<1>5. ASSUME NEW o \in Outputs, ReadLine(o) PROVE TypeInv'
  <2>1. pipe[o] \in Seq(Kinds) /\ pipe[o] # <<>> /\ lines[o] \in Seq(Kinds) /\ Len(pipe[o]) <= PipeSize
    BY <1>5 DEF ReadLine, TypeInv, PipesOK
  <2>2. /\ Tail(pipe[o]) \in Seq(Kinds) /\ Len(Tail(pipe[o])) <= PipeSize
        /\ Head(pipe[o]) \in Kinds /\ Append(lines[o], Head(pipe[o])) \in Seq(Kinds)
    BY <2>1, NmapAssumption DEF NmapAssumption
  <2>3. pipe' \in [Outputs -> Seq(Kinds)] /\ \A x \in Outputs : Len(pipe'[x]) <= PipeSize
    BY <1>5, <2>2 DEF ReadLine, TypeInv, PipesOK
  <2>4. lines' \in [Outputs -> Seq(Kinds)]
    BY <1>5, <2>2 DEF ReadLine, TypeInv, PipesOK
  <2>5. reader' \in [Outputs -> {"none", "reading", "in callback", "done", "dead"}]
    BY <1>5 DEF ReadLine, TypeInv, PipesOK
  <2>6. PipesOK'
    BY <1>5, <2>3, <2>4, <2>5 DEF ReadLine, TypeInv, PipesOK
  <2> QED
    BY <1>5, <1>m, <1>p, <2>6 DEF ReadLine, TypeInv
<1>6. ASSUME on_progress \/ \E o \in Outputs : EndOfFile(o) PROVE TypeInv'
  <2>1. PipesOK'
    BY <1>6 DEF on_progress, EndOfFile, nmapVars, TypeInv, PipesOK
  <2> QED
    BY <1>6, <1>m, <1>p, <2>1 DEF on_progress, EndOfFile, nmapVars, TypeInv
<1>7. ASSUME NEW o \in Outputs, WriteLine(o) \/ WriteLater(o) PROVE TypeInv'
  <2>1. PICK kind \in Kinds : pipe' = [pipe EXCEPT ![o] = Append(@, kind)]
    BY <1>7 DEF WriteLine, WriteLater, Kinds
  <2>2. pipe[o] \in Seq(Kinds) /\ Len(pipe[o]) < PipeSize
    BY <1>7 DEF WriteLine, WriteLater, Room, TypeInv, PipesOK
  <2>3. Append(pipe[o], kind) \in Seq(Kinds) /\ Len(Append(pipe[o], kind)) <= PipeSize
    BY <2>2, NmapAssumption DEF NmapAssumption
  <2>4. PipesOK'
    BY <1>7, <2>1, <2>3 DEF WriteLine, WriteLater, threadVars, TypeInv, PipesOK
  <2> QED
    BY <1>7, <1>m, <1>p, <2>4 DEF WriteLine, WriteLater, TypeInv
<1>8. ASSUME WriteXml PROVE TypeInv'
  <2>1. MainOK' /\ ProcessOK'
    BY <1>8 DEF WriteXml, TypeInv, MainOK, ProcessOK
  <2> QED
    BY <1>8, <1>q, <2>1 DEF WriteXml, TypeInv
<1>9. ASSUME Exit PROVE TypeInv'
  <2>1. ProcessOK'
    BY <1>9 DEF Exit, TypeInv, ProcessOK
  <2>2. PipesOK'
    BY <1>9 DEF Exit, Survivors, threadVars, TypeInv, PipesOK
  <2> QED
    BY <1>9, <1>m, <2>1, <2>2 DEF Exit, TypeInv
<1>10. ASSUME NEW o \in Outputs, ChildrenExit(o) PROVE TypeInv'
  <2>1. PipesOK'
    BY <1>10 DEF ChildrenExit, threadVars, TypeInv, PipesOK, Shared
  <2> QED
    BY <1>10, <1>m, <1>p, <2>1 DEF ChildrenExit, TypeInv
<1>11. CASE UNCHANGED vars
  BY <1>11, <1>m, <1>p, <1>q DEF vars, TypeInv, threadVars
<1> QED
  BY <1>1, <1>2, <1>3, <1>4, <1>5, <1>6, <1>7, <1>8, <1>9, <1>10, <1>11 DEF Next, Main, Drain, Nmap

(* Whatever nmap writes and whenever the timeout expires, the call, its    *)
(* threads and its pipes stay well formed (scan/nmap_runner.py).           *)
THEOREM TypeCorrect == Spec => []TypeOK
BY TypeInit, TypeStep, TypeParts, PTL DEF Spec

-----------------------------------------------------------------------------
(* Where the process is when the caller is past waiting for it, and what   *)
(* of its XML is in the file while the file exists.                        *)

ProcessInv ==
  /\ main \in {"start", "popen"} => process.state = "none"
  /\ main \in {"join stdout", "join stderr", "decide"} => Exited
  /\ main \in {"unlink", "ended"} /\ outcome \notin {"interrupted", "no thread"} => ~ Running
  /\ outcome = "xml" => Exited /\ process.code = "zero"
  /\ outcome \in {"privileges", "failed"} => main \in {"unlink", "ended"}
  /\ Exited /\ process.code = "zero" => process.xml = "whole"

FileInv ==
  /\ main = "start" => xml_path = "absent"
  /\ main = "ended" /\ outcome \notin {"interrupted", "no thread"} =>
       xml_path = "absent" \/ (held["xml"] /\ process.code # "zero")
  /\ main \notin {"start", "ended"} =>
       /\ xml_path # "absent"
       /\ process.xml = "whole" => xml_path = "whole"
  /\ process.state = "none" => process.xml = "nothing"

(* nmap has exited, and the reader of stderr died or has read all that     *)
(* nmap wrote there: what still comes is its children's.                   *)
Silent == Exited /\ (reader["stderr"] = "dead" \/ ReadUp("stderr"))

StderrInv ==
  /\ reader["stderr"] # "in callback"
  /\ reader["stderr"] = "done" => Silent
  /\ main = "decide" => Silent
  /\ outcome \in {"privileges", "failed"} =>
       /\ Silent
       /\ reader["stderr"] # "dead" => (outcome = "privileges" <=> Contains(lines["stderr"], "marker"))

LEMMA SafetyInit == Init => ProcessInv /\ FileInv /\ StderrInv
BY DEF Init, ProcessInv, FileInv, StderrInv, Exited, Running, Outputs

LEMMA ProcessStep == TypeInv /\ ProcessInv /\ [Next]_vars => ProcessInv'
<1> SUFFICES ASSUME TypeInv, ProcessInv, [Next]_vars PROVE ProcessInv'
  OBVIOUS
<1> USE DEF ProcessInv, Exited, Running
<1>p. ProcessOK
  BY DEF TypeInv
<1>1. ASSUME Begin \/ WaitReturns \/ WaitExpires \/ Decide \/ Unlink \/ Interrupt \/ \E o \in Outputs : StartThread(o) \/ Join(o)
      PROVE  ProcessInv'
  BY <1>1 DEF Begin, StartThread, Starting, AfterStart, WaitReturns, WaitExpires, Decide, Unlink, Interrupt, Join, Joining, AfterJoin, nmapVars
<1>2. ASSUME Popen PROVE ProcessInv'
  BY <1>2, <1>p DEF Popen, ProcessOK
<1>3. ASSUME KillAndWait PROVE ProcessInv'
  BY <1>3, <1>p DEF KillAndWait, ProcessOK
<1>4. ASSUME on_progress \/ \E o \in Outputs : ReadLine(o) \/ EndOfFile(o) \/ WriteLine(o) \/ WriteLater(o) \/ ChildrenExit(o) PROVE ProcessInv'
  BY <1>4 DEF on_progress, ReadLine, EndOfFile, WriteLine, WriteLater, ChildrenExit, nmapVars
<1>5. ASSUME WriteXml PROVE ProcessInv'
  BY <1>5, <1>p DEF WriteXml, ProcessOK
<1>6. ASSUME Exit PROVE ProcessInv'
  BY <1>6, <1>p DEF Exit, ProcessOK
<1>7. CASE UNCHANGED vars
  BY <1>7 DEF vars
<1> QED
  BY <1>1, <1>2, <1>3, <1>4, <1>5, <1>6, <1>7 DEF Next, Main, Drain, Nmap

LEMMA FileStep == TypeInv /\ ProcessInv /\ FileInv /\ [Next]_vars => FileInv'
<1> SUFFICES ASSUME TypeInv, ProcessInv, FileInv, [Next]_vars PROVE FileInv'
  OBVIOUS
<1> USE DEF FileInv, Exited, Running
<1>p. ProcessOK
  BY DEF TypeInv
<1>q. PipesOK /\ "xml" \in Shared /\ "xml" \notin Outputs
  BY DEF TypeInv, Shared, Outputs
<1>1. ASSUME Begin PROVE FileInv'
  BY <1>1 DEF Begin, nmapVars, ProcessInv
<1>2. ASSUME Popen PROVE FileInv'
  BY <1>2, <1>p DEF Popen, ProcessOK
<1>3. ASSUME WaitReturns \/ WaitExpires \/ Decide \/ Unlink \/ Interrupt \/ \E o \in Outputs : StartThread(o) \/ Join(o)
      PROVE  FileInv'
  BY <1>3 DEF StartThread, Starting, AfterStart, WaitReturns, WaitExpires, Decide, Unlink, Interrupt, Join, Joining, AfterJoin, nmapVars
<1>4. ASSUME KillAndWait PROVE FileInv'
  BY <1>4, <1>p DEF KillAndWait, ProcessOK
<1>5. ASSUME on_progress \/ \E o \in Outputs : ReadLine(o) \/ EndOfFile(o) \/ WriteLine(o) \/ WriteLater(o) \/ ChildrenExit(o)
      PROVE  FileInv'
  <2>1. UNCHANGED <<main, outcome, xml_path, process>>
    BY <1>5 DEF on_progress, ReadLine, EndOfFile, WriteLine, WriteLater, ChildrenExit, nmapVars
  <2>2. held'["xml"] = held["xml"]
    BY <1>5, <1>q DEF on_progress, ReadLine, EndOfFile, WriteLine, WriteLater, ChildrenExit, nmapVars, PipesOK, Outputs
  <2> QED
    BY <2>1, <2>2
<1>6. ASSUME WriteXml PROVE FileInv'
  <2>1. /\ process.state # "none" /\ UNCHANGED <<main, outcome, held>>
        /\ process'.state = process.state /\ process'.code = process.code
    BY <1>6, <1>p DEF WriteXml, ProcessOK
  <2>2. main = "ended" /\ outcome \notin {"interrupted", "no thread"} => Exited /\ held["xml"] /\ process.xml # "whole"
    BY <1>6, <1>p DEF WriteXml, ProcessInv
  <2>3. main = "ended" /\ outcome \notin {"interrupted", "no thread"} => process.code # "zero"
    BY <2>2 DEF ProcessInv
  <2>4. main \notin {"start", "ended"} => xml_path' # "absent" /\ (process'.xml = "whole" => xml_path' = "whole")
    BY <1>6, <1>p DEF WriteXml, ProcessOK
  <2>5. main # "start"
    BY <2>1 DEF ProcessInv
  <2> QED
    BY <2>1, <2>2, <2>3, <2>4, <2>5
<1>7. ASSUME Exit PROVE FileInv'
  BY <1>7, <1>p DEF Exit, ProcessOK, ProcessInv
<1>8. CASE UNCHANGED vars
  BY <1>8 DEF vars
<1> QED
  BY <1>1, <1>2, <1>3, <1>4, <1>5, <1>6, <1>7, <1>8 DEF Next, Main, Drain, Nmap

LEMMA StderrStep == TypeInv /\ ProcessInv /\ StderrInv /\ [Next]_vars => StderrInv'
<1> SUFFICES ASSUME TypeInv, ProcessInv, StderrInv, [Next]_vars PROVE StderrInv'
  OBVIOUS
<1>p. ProcessOK /\ PipesOK /\ "stderr" \in Outputs /\ "stdout" \in Outputs
  BY DEF TypeInv, Outputs
<1>0. ASSUME Exited => Exited', UNCHANGED <<pipe, lines, reader>>,
             main' = "decide" => main = "decide" \/ Silent,
             outcome' \in {"privileges", "failed"} => outcome' = outcome
      PROVE  StderrInv'
  BY <1>0 DEF StderrInv, Silent, ReadUp
<1>1. ASSUME Begin \/ WaitReturns \/ WaitExpires \/ Unlink \/ Interrupt PROVE StderrInv'
  BY <1>0, <1>1 DEF Begin, WaitReturns, WaitExpires, Unlink, Interrupt, nmapVars, threadVars, Exited
<1>2. ASSUME Popen PROVE StderrInv'
  <2>1. ~ Exited
    BY <1>2 DEF Popen, ProcessInv, Exited
  <2> QED
    BY <1>0, <1>2, <2>1 DEF Popen, threadVars
<1>3. ASSUME NEW o \in Outputs, StartThread(o) PROVE StderrInv'
  <2>1. /\ reader'["stderr"] = reader["stderr"] \/ reader'["stderr"] = "reading"
        /\ main' # "decide" /\ outcome' \in {outcome, "no thread"} /\ UNCHANGED <<process, pipe, lines>>
    BY <1>3, <1>p DEF StartThread, AfterStart, nmapVars, PipesOK
  <2>2. outcome \notin {"privileges", "failed"}
    BY <1>3 DEF StartThread, Starting, ProcessInv
  <2> QED
    BY <2>1, <2>2 DEF StderrInv, Silent, ReadUp, Exited
<1>4. ASSUME KillAndWait PROVE StderrInv'
  <2>1. Exited' /\ main' # "decide" /\ UNCHANGED <<outcome, pipe, lines, reader>>
    BY <1>4, <1>p DEF KillAndWait, threadVars, Exited, ProcessOK
  <2> QED
    BY <1>0, <2>1
<1>5. ASSUME NEW o \in Outputs, Join(o) PROVE StderrInv'
  <2>1. UNCHANGED <<outcome, process, pipe, lines, reader>>
    BY <1>5 DEF Join, nmapVars, threadVars
  <2>2. main' = "decide" => Silent
    <3>1. main' = "decide" => o = "stderr" /\ Exited
      BY <1>5 DEF Join, Joining, AfterJoin, Outputs, ProcessInv
    <3>2. o = "stderr" => reader["stderr"] = "dead" \/ ReadUp("stderr")
      BY <1>5 DEF Join, Ended, Stuck, StderrInv, Silent
    <3> QED
      BY <3>1, <3>2 DEF Silent
  <2> QED
    BY <1>0, <2>1, <2>2 DEF Exited
<1>6. ASSUME Decide PROVE StderrInv'
  <2>1. main = "decide" /\ main' = "unlink" /\ UNCHANGED <<process, pipe, lines, reader>>
    BY <1>6 DEF Decide, nmapVars, threadVars
  <2>2. outcome' \in {"privileges", "failed"} => (outcome' = "privileges" <=> Contains(lines["stderr"], "marker"))
    BY <1>6 DEF Decide, _is_privilege_error
  <2>3. Silent /\ Silent'
    BY <2>1 DEF StderrInv, Silent, ReadUp, Exited
  <2> QED
    BY <2>1, <2>2, <2>3 DEF StderrInv, Silent, ReadUp, Exited
<1>7. ASSUME NEW o \in Outputs, ReadLine(o) PROVE StderrInv'
  <2>1. UNCHANGED <<main, outcome, process>> /\ reader[o] = "reading" /\ pipe[o] # <<>>
    BY <1>7 DEF ReadLine, Draining
  <2>2. CASE o = "stdout"
    <3>1. reader'["stderr"] = reader["stderr"] /\ pipe'["stderr"] = pipe["stderr"] /\ lines'["stderr"] = lines["stderr"]
      BY <1>7, <1>p, <2>2 DEF ReadLine, PipesOK
    <3> QED
      BY <2>1, <3>1 DEF StderrInv, Silent, ReadUp, Exited
  <2>3. CASE o = "stderr"
    <3>1. reader'["stderr"] \in {"dead", "reading"}
      BY <1>7, <1>p, <2>1, <2>3 DEF ReadLine, PipesOK
    (* What is read once nmap has exited and all it wrote was read.        *)
    <3>2. Silent => Silent' /\ (Contains(lines'["stderr"], "marker") <=> Contains(lines["stderr"], "marker"))
      <4> SUFFICES ASSUME Silent
                   PROVE  Silent' /\ (Contains(lines'["stderr"], "marker") <=> Contains(lines["stderr"], "marker"))
        OBVIOUS
      <4> DEFINE p == pipe["stderr"]
                 l == lines["stderr"]
      <4>1. p \in Seq(Kinds) /\ p # <<>> /\ l \in Seq(Kinds) /\ ReadUp("stderr")
        BY <1>p, <2>1, <2>3 DEF PipesOK, Silent
      <4>2. Head(p) = "later" /\ pipe'["stderr"] = Tail(p)
        <5>1. 1 \in 1..Len(p) /\ Head(p) = p[1]
          BY <4>1
        <5> QED
          BY <1>7, <1>p, <2>3, <4>1, <5>1 DEF ReadLine, PipesOK, ReadUp
      <4>3. lines'["stderr"] = Append(l, "later")
        BY <1>7, <1>p, <2>3, <4>2 DEF ReadLine, PipesOK
      <4>4. ReadUp("stderr")'
        <5> SUFFICES ASSUME NEW i \in 1..Len(Tail(p)) PROVE Tail(p)[i] = "later"
          BY <4>2 DEF ReadUp
        <5>1. i + 1 \in 1..Len(p) /\ Tail(p)[i] = p[i + 1]
          BY <4>1
        <5> QED
          BY <4>1, <5>1 DEF ReadUp
      <4>5. Contains(Append(l, "later"), "marker") <=> Contains(l, "marker")
        <5>1. /\ Len(Append(l, "later")) = Len(l) + 1 /\ Append(l, "later")[Len(l) + 1] = "later"
              /\ \A i \in 1..Len(l) : Append(l, "later")[i] = l[i]
          BY <4>1
        <5>2. \A i \in 1..(Len(l) + 1) : i \in 1..Len(l) \/ i = Len(l) + 1
          BY <4>1
        <5>3. \A i \in 1..Len(l) : i \in 1..(Len(l) + 1)
          BY <4>1
        <5> QED
          BY <5>1, <5>2, <5>3 DEF Contains
      <4>6. Silent'
        BY <2>1, <4>4 DEF Silent, Exited
      <4> QED
        BY <4>3, <4>5, <4>6
    <3> QED
      BY <2>1, <2>3, <3>1, <3>2 DEF StderrInv
  <2> QED
    BY <2>2, <2>3 DEF Outputs
<1>8. ASSUME on_progress PROVE StderrInv'
  <2>1. reader'["stderr"] = reader["stderr"] /\ UNCHANGED <<main, outcome, process, pipe, lines>>
    BY <1>8, <1>p DEF on_progress, PipesOK, nmapVars
  <2> QED
    BY <2>1 DEF StderrInv, Silent, ReadUp, Exited
<1>9. ASSUME NEW o \in Outputs, EndOfFile(o) PROVE StderrInv'
  <2>1. UNCHANGED <<main, outcome, process, pipe, lines>> /\ reader[o] = "reading" /\ pipe[o] = <<>> /\ Exited
    BY <1>9 DEF EndOfFile, Draining, Open, nmapVars
  <2>2. reader'["stderr"] = reader["stderr"] \/ (o = "stderr" /\ reader'["stderr"] = "done")
    BY <1>9, <1>p DEF EndOfFile, PipesOK
  <2>3. pipe["stderr"] = <<>> => Silent
    BY <2>1 DEF Silent, ReadUp
  <2> QED
    BY <2>1, <2>2, <2>3 DEF StderrInv, Silent, ReadUp, Exited
<1>10. ASSUME NEW o \in Outputs, WriteLine(o) PROVE StderrInv'
  <2>1. ~ Exited /\ UNCHANGED <<main, outcome, process, lines, reader>>
    BY <1>10 DEF WriteLine, Running, Exited, threadVars
  <2>2. ~ Exited' /\ ~ Silent
    BY <2>1 DEF Exited, Silent
  <2> QED
    BY <2>1, <2>2 DEF StderrInv
<1>11. ASSUME NEW o \in Outputs, WriteLater(o) PROVE StderrInv'
  <2>1. Exited' = Exited /\ UNCHANGED <<main, outcome, lines, reader>>
    BY <1>11 DEF WriteLater, Exited, threadVars
  <2>2. pipe["stderr"] \in Seq(Kinds) /\ pipe'["stderr"] \in {pipe["stderr"], Append(pipe["stderr"], "later")}
    BY <1>11, <1>p DEF WriteLater, PipesOK
  <2>3. ReadUp("stderr") => ReadUp("stderr")'
    BY <2>2 DEF ReadUp
  <2> QED
    BY <2>1, <2>3 DEF StderrInv, Silent
<1>12. ASSUME WriteXml \/ Exit \/ \E o \in Outputs : ChildrenExit(o) PROVE StderrInv'
  <2>1. Exited => Exited'
    BY <1>12, <1>p DEF WriteXml, Exit, ChildrenExit, Running, Exited, ProcessOK
  <2> QED
    BY <1>0, <1>12, <2>1 DEF WriteXml, Exit, ChildrenExit, threadVars
<1>13. CASE UNCHANGED vars
  BY <1>0, <1>13 DEF vars, Exited
<1> QED
  BY <1>1, <1>2, <1>3, <1>4, <1>5, <1>6, <1>7, <1>8, <1>9, <1>10, <1>11, <1>12, <1>13 DEF Next, Main, Drain, Nmap

LEMMA SafetyAlways == Spec => [](TypeInv /\ ProcessInv /\ FileInv /\ StderrInv)
BY TypeInit, TypeStep, SafetyInit, ProcessStep, FileStep, StderrStep, PTL DEF Spec

(* However the call ends, short of an interrupt and of a thread that does  *)
(* not start, it leaves no nmap, and a file only where nmap failed or was  *)
(* killed and its children go on (nmap_runner.py:112-144).                 *)
THEOREM NothingIsLeft == Spec => []NothingLeft
<1>1. ProcessInv /\ FileInv => NothingLeft
  BY DEF ProcessInv, FileInv, NothingLeft
<1> QED
  BY <1>1, SafetyAlways, PTL

(* What is read is the whole XML of an nmap that ended well                *)
(* (nmap_runner.py:129-141).                                               *)
THEOREM ReadXmlIsComplete == Spec => []XmlComplete
<1>1. ProcessInv /\ FileInv => XmlComplete
  BY DEF ProcessInv, FileInv, XmlComplete
<1> QED
  BY <1>1, SafetyAlways, PTL

(* Whatever the exit, the threads and the joins race with, the error names *)
(* the cause that nmap named (nmap_runner.py:126-140).                     *)
THEOREM ErrorIsRight == Spec => []RightError
<1>1. StderrInv => RightError
  <2> SUFFICES ASSUME StderrInv, outcome \in {"privileges", "failed"}, reader["stderr"] # "dead"
               PROVE  /\ ReadUp("stderr")
                      /\ (outcome = "privileges") = Contains(lines["stderr"], "marker")
    BY DEF RightError
  <2>1. ReadUp("stderr") /\ (outcome = "privileges" <=> Contains(lines["stderr"], "marker"))
    BY DEF StderrInv, Silent
  <2>2. (outcome = "privileges") = Contains(lines["stderr"], "marker")
    BY <2>1, Zenon DEF Contains
  <2> QED
    BY <2>1, <2>2
<1> QED
  BY <1>1, SafetyAlways, PTL

=============================================================================
