-------------------------- MODULE TwinConfigs_proofs --------------------------
(***************************************************************************)
(* What TwinConfigs guarantees for every set of twins, profiles and        *)
(* `generate` invocations, failing or not.                                 *)
(***************************************************************************)
EXTENDS TwinConfigs, TLAPS

-----------------------------------------------------------------------------
(* Type correctness.                                                       *)

LEMMA NoValues ==
  /\ Missing \in Files /\ Broken \in Files /\ Undecodable \in Files
  /\ NoStart \in Starts /\ NoList \in Lists /\ NoGenerate \in Generates
  /\ \A c \in Configs : Whole(c) \in Files
BY DEF Missing, Broken, Undecodable, Files, NoConfig, NoStart, Starts, NoList, Lists, NoGenerate, Generates, Whole

(* A configuration of a whole file is one that generate wrote.             *)
WholeOnes == \A t \in Twins : file[t].state = "whole" => file[t].config \in Configs
WrittenOnes == \A g \in Generators : gen[g].pc # "idle" => gen[g].twin \in Twins /\ gen[g].config \in Configs
StartedTwin == start.pc # "none" => start.twin \in Twins

TypeInv == TypeOK /\ WholeOnes /\ WrittenOnes /\ StartedTwin

LEMMA TypeInit == Init => TypeInv
<1> SUFFICES ASSUME Init PROVE TypeInv
  OBVIOUS
<1>1. TypeOK
  <2>1. start.pc = "none"
    BY DEF Init, NoStart
  <2> QED
    BY <2>1, NoValues DEF Init, TypeOK, Settings
<1>2. WholeOnes /\ WrittenOnes /\ StartedTwin
  BY DEF Init, WholeOnes, WrittenOnes, StartedTwin, Missing, NoStart, NoGenerate
<1> QED
  BY <1>1, <1>2 DEF TypeInv

LEMMA GeneratingType == TypeInv => \A t \in Twins : Generating(t) \subseteq Profiles
BY DEF TypeInv, WrittenOnes, Generating, Configs

LEMMA ListeningType == \A c \in Configs : \A bound \in Listening(c) : bound \subseteq Nat
<1> SUFFICES ASSUME NEW c \in Configs, NEW bound \in Listening(c), NEW port \in bound PROVE port \in Nat
  OBVIOUS
<1>1. PICK e \in c.profile : port = e.port
  BY DEF Listening, ports
<1>2. c.profile \subseteq Entries
  BY ConfigAssumption DEF ConfigAssumption, Configs
<1> QED
  BY <1>1, <1>2 DEF Entries

LEMMA TypeStep == TypeInv /\ [Next]_vars => TypeInv'
<1> SUFFICES ASSUME TypeInv, [Next]_vars PROVE TypeInv'
  OBVIOUS
<1> USE DEF TypeInv, TypeOK, WholeOnes, WrittenOnes, StartedTwin
<1>1. CASE EditSettings
  BY <1>1 DEF EditSettings
<1>2. ASSUME NEW g \in Generators, BeginGenerate(g) PROVE TypeInv'
  <2>1. PICK t \in Twins, p \in Profiles :
          /\ gen' = [gen EXCEPT ![g] = [pc |-> "open", twin |-> t,
                       config |-> [profile |-> p, allow_outbound |-> allow_outbound]]]
          /\ start' = [start EXCEPT !.current = IF t = start.twin THEN @ \cup {p} ELSE @]
    BY <1>2 DEF BeginGenerate
  <2>2. [profile |-> p, allow_outbound |-> allow_outbound] \in Configs
    BY DEF Configs, allow_outbound
  <2>3. gen' \in [Generators -> Generates] /\ WrittenOnes'
    BY <2>1, <2>2 DEF Generates
  <2>4. start' \in Starts /\ (\A f \in DOMAIN start \ {"current"} : start'[f] = start[f])
    BY <2>1 DEF Starts
  <2> QED
    BY <1>2, <2>3, <2>4 DEF BeginGenerate, Starts
<1>3. ASSUME NEW g \in Generators, OpenConfig(g) PROVE TypeInv'
  <2>1. list' \in Lists
    BY <1>3 DEF OpenConfig, Touch, Lists
  <2>2. file' \in [Twins -> Files] /\ WholeOnes'
    BY <1>3, NoValues DEF OpenConfig, Broken
  <2>3. gen' \in [Generators -> Generates] /\ WrittenOnes'
    BY <1>3 DEF OpenConfig, Generates
  <2> QED
    BY <1>3, <2>1, <2>2, <2>3 DEF OpenConfig
<1>4. ASSUME NEW g \in Generators, WriteConfig(g) PROVE TypeInv'
  <2>1. list' \in Lists
    BY <1>4 DEF WriteConfig, Touch, Lists
  <2>2. gen[g].config \in Configs /\ gen[g].twin \in Twins
    BY <1>4 DEF WriteConfig
  <2>3. PICK text \in {Whole(gen[g].config), Broken, Undecodable} : file' = [file EXCEPT ![gen[g].twin] = text]
    BY <1>4 DEF WriteConfig
  <2>4. text \in Files /\ (text.state = "whole" => text.config \in Configs)
    BY <2>2, NoValues DEF Broken, Undecodable, Whole
  <2>5. file' \in [Twins -> Files] /\ WholeOnes'
    BY <2>3, <2>4
  <2>6. gen' \in [Generators -> Generates] /\ WrittenOnes'
    BY <1>4, NoValues DEF WriteConfig, NoGenerate
  <2> QED
    BY <1>4, <2>1, <2>5, <2>6 DEF WriteConfig
<1>5. CASE BeginRun
  <2>1. PICK t \in Twins, bridge \in BOOLEAN :
          /\ load_twin_config(t)
          /\ start' = [NoStart EXCEPT !.pc = "read", !.twin = t, !.bridge = bridge, !.decided = file[t].config,
                         !.current = {file[t].config.profile} \cup Generating(t)]
    BY <1>5 DEF BeginRun
  <2>2. file[t].config \in Configs
    BY <2>1 DEF load_twin_config
  <2>3. {file[t].config.profile} \cup Generating(t) \subseteq Profiles
    BY <2>2, GeneratingType DEF Configs
  <2>4. start' \in Starts /\ start'.pc = "read" /\ start'.twin = t /\ start'.decided = file[t].config
    BY <2>1, <2>2, <2>3, NoValues DEF Starts, NoStart
  <2> QED
    BY <1>5, <2>2, <2>4 DEF BeginRun
<1>6. CASE ReadConfig
  <2>1. CASE load_twin_config(start.twin)
    <3>1. file[start.twin].config \in Configs
      BY <1>6, <2>1 DEF ReadConfig, load_twin_config
    <3>2. PICK bound \in Listening(file[start.twin].config) :
            start' = [start EXCEPT !.pc = "serving", !.config = file[start.twin].config, !.bound = bound]
      BY <1>6, <2>1 DEF ReadConfig
    <3>3. bound \in SUBSET Nat
      BY <3>1, <3>2, ListeningType
    <3> QED
      BY <1>6, <3>1, <3>2, <3>3 DEF ReadConfig, Starts
  <2>2. CASE ~ load_twin_config(start.twin)
    <3>1. start' = NoStart /\ UNCHANGED <<settings, consented, file, gen, list>>
      BY <1>6, <2>2 DEF ReadConfig
    <3> QED
      BY <3>1, NoValues DEF NoStart
  <2> QED
    BY <2>1, <2>2
<1>7. CASE EndStart
  BY <1>7, NoValues DEF EndStart, NoStart
<1>8. CASE list_twin_names
  BY <1>8 DEF list_twin_names, Lists
<1>9. ASSUME NEW t \in Twins, Row(t) PROVE TypeInv'
  <2>1. list' \in Lists
    <3>1. [list EXCEPT !.todo = @ \ {t}, !.rows = @ \cup {t}] \in Lists /\ [list EXCEPT !.todo = @ \ {t}] \in Lists
      BY <1>9 DEF Lists
    <3> QED
      BY <1>9, <3>1, NoValues DEF Row
  <2> QED
    BY <1>9, <2>1 DEF Row
<1>10. CASE EndList
  BY <1>10, NoValues DEF EndList
<1>11. CASE UNCHANGED vars
  BY <1>11 DEF vars
<1> QED
  BY <1>1, <1>2, <1>3, <1>4, <1>5, <1>6, <1>7, <1>8, <1>9, <1>10, <1>11 DEF Next

(* The state of settings, files and invocations is well formed at any time *)
(* (config/loader.py, generate/store.py, run.py, list.py).                 *)
THEOREM TypeCorrect == Spec => []TypeOK
<1>1. Spec => []TypeInv
  BY TypeInit, TypeStep, PTL DEF Spec
<1>2. TypeInv => TypeOK
  BY DEF TypeInv
<1> QED
  BY <1>1, <1>2, PTL

-----------------------------------------------------------------------------
(* Consent.  It is inherited at every hand-over: settings to generate, to  *)
(* config.json, to the two reads.                                          *)

Consent(c) == c.allow_outbound => consented

ConsentInv ==
  /\ settings = "true" => consented
  /\ \A g \in Generators : Consent(gen[g].config)
  /\ \A t \in Twins : Consent(file[t].config)
  /\ Consent(start.decided) /\ Consent(start.config)
  /\ ~ start.bridge => consented

LEMMA ConsentInit == Init => ConsentInv
BY DEF Init, ConsentInv, Consent, Missing, NoStart, NoGenerate, NoConfig

LEMMA ConsentStep == TypeInv /\ ConsentInv /\ [Next]_vars => ConsentInv'
<1> SUFFICES ASSUME TypeInv, ConsentInv, [Next]_vars PROVE ConsentInv'
  OBVIOUS
<1> USE DEF ConsentInv, Consent
<1> USE DEF TypeInv, TypeOK, StartedTwin, WrittenOnes
<1>1. CASE EditSettings
  BY <1>1 DEF EditSettings
<1>2. ASSUME NEW g \in Generators, BeginGenerate(g) PROVE ConsentInv'
  <2>1. PICK t \in Twins, p \in Profiles :
          /\ gen' = [gen EXCEPT ![g] = [pc |-> "open", twin |-> t,
                       config |-> [profile |-> p, allow_outbound |-> allow_outbound]]]
          /\ start' = [start EXCEPT !.current = IF t = start.twin THEN @ \cup {p} ELSE @]
    BY <1>2 DEF BeginGenerate
  <2>2. start'.decided = start.decided /\ start'.config = start.config /\ start'.bridge = start.bridge
    BY <2>1 DEF Starts
  <2> QED
    BY <1>2, <2>1, <2>2 DEF BeginGenerate, allow_outbound
<1>3. ASSUME NEW g \in Generators, OpenConfig(g) PROVE ConsentInv'
  BY <1>3 DEF OpenConfig, Broken, NoConfig
<1>4. ASSUME NEW g \in Generators, WriteConfig(g) PROVE ConsentInv'
  <2>1. PICK text \in {Whole(gen[g].config), Broken, Undecodable} : file' = [file EXCEPT ![gen[g].twin] = text]
    BY <1>4 DEF WriteConfig
  <2>2. Consent(text.config)
    BY DEF Whole, Broken, Undecodable, NoConfig
  <2>3. \A t \in Twins : Consent(file'[t].config)
    BY <1>4, <2>1, <2>2 DEF WriteConfig
  <2>4. \A h \in Generators : Consent(gen'[h].config)
    BY <1>4 DEF WriteConfig, NoGenerate, NoConfig
  <2> QED
    BY <1>4, <2>3, <2>4 DEF WriteConfig
<1>5. CASE BeginRun
  BY <1>5 DEF BeginRun, NoConfig, NoStart, _require_containment
<1>6. CASE ReadConfig
  <2>1. CASE load_twin_config(start.twin)
    <3>1. PICK bound \in Listening(file[start.twin].config) :
            start' = [start EXCEPT !.pc = "serving", !.config = file[start.twin].config, !.bound = bound]
      BY <1>6, <2>1 DEF ReadConfig
    <3>2. /\ start'.decided = start.decided /\ start'.config = file[start.twin].config
          /\ start'.bridge = start.bridge /\ start.twin \in Twins
      BY <1>6, <3>1 DEF ReadConfig, Starts
    <3> QED
      BY <1>6, <3>2 DEF ReadConfig
  <2>2. CASE ~ load_twin_config(start.twin)
    <3>1. start' = NoStart /\ UNCHANGED <<settings, consented, file, gen>>
      BY <1>6, <2>2 DEF ReadConfig
    <3> QED
      BY <3>1 DEF NoStart, NoConfig
  <2> QED
    BY <2>1, <2>2
<1>7. CASE EndStart
  BY <1>7 DEF EndStart, NoStart, NoConfig
<1>8. CASE list_twin_names
  BY <1>8 DEF list_twin_names
<1>9. ASSUME NEW t \in Twins, Row(t) PROVE ConsentInv'
  BY <1>9 DEF Row
<1>10. CASE EndList
  BY <1>10 DEF EndList
<1>11. CASE UNCHANGED vars
  BY <1>11 DEF vars
<1> QED
  BY <1>1, <1>2, <1>3, <1>4, <1>5, <1>6, <1>7, <1>8, <1>9, <1>10, <1>11 DEF Next

(* No torn, missing or half-edited file makes up the permission to reach   *)
(* out: a twin that has it was generated when the operator's settings said *)
(* so (config/loader.py, generate/generator.py, run.py:182-187).           *)
THEOREM OutboundNeedsConsent == Spec => []OutboundConsented
<1>1. Init => TypeInv /\ ConsentInv
  BY TypeInit, ConsentInit
<1>2. TypeInv /\ ConsentInv /\ [Next]_vars => (TypeInv /\ ConsentInv)'
  BY TypeStep, ConsentStep
<1>3. ConsentInv => OutboundConsented
  BY DEF ConsentInv, Consent, OutboundConsented
<1> QED
  BY <1>1, <1>2, <1>3, PTL DEF Spec

-----------------------------------------------------------------------------
(* The two reads of config.json.  What is in the file of the twin, and     *)
(* what generates are about to write to it, is current.                    *)

CurrentInv ==
  /\ start.pc # "none" =>
       /\ file[start.twin].state = "whole" => file[start.twin].config.profile \in start.current
       /\ Generating(start.twin) \subseteq start.current
  /\ start.bound # {} => start.config.profile \in start.current /\ start.bound \in Listening(start.config)

LEMMA CurrentInit == Init => CurrentInv
BY DEF Init, CurrentInv, NoStart

LEMMA CurrentStep == TypeInv /\ CurrentInv /\ [Next]_vars => CurrentInv'
<1> SUFFICES ASSUME TypeInv, CurrentInv, [Next]_vars PROVE CurrentInv'
  OBVIOUS
<1>t. /\ file \in [Twins -> Files] /\ gen \in [Generators -> Generates] /\ start \in Starts
      /\ start.pc # "none" => start.twin \in Twins
      /\ \A g \in Generators : gen[g].pc # "idle" => gen[g].twin \in Twins
  BY DEF TypeInv, TypeOK, StartedTwin, WrittenOnes
(* A step that leaves the file and the generates as they are.              *)
<1>0. ASSUME UNCHANGED <<file, gen, start>> PROVE CurrentInv'
  BY <1>0 DEF CurrentInv, Generating, Listening, ports
<1>n. ASSUME start' = NoStart PROVE CurrentInv'
  BY <1>n DEF CurrentInv, NoStart
<1>1. CASE EditSettings
  BY <1>0, <1>1 DEF EditSettings
<1>2. ASSUME NEW g \in Generators, BeginGenerate(g) PROVE CurrentInv'
  <2>1. PICK t \in Twins, p \in Profiles :
          /\ gen' = [gen EXCEPT ![g] = [pc |-> "open", twin |-> t,
                       config |-> [profile |-> p, allow_outbound |-> allow_outbound]]]
          /\ start' = [start EXCEPT !.current = IF t = start.twin THEN @ \cup {p} ELSE @]
    BY <1>2 DEF BeginGenerate
  <2>2. /\ start'.pc = start.pc /\ start'.twin = start.twin /\ start'.bound = start.bound
        /\ start'.config = start.config
        /\ start'.current = IF t = start.twin THEN start.current \cup {p} ELSE start.current
    BY <1>t, <2>1 DEF Starts
  <2>3. start.pc # "none" => Generating(start.twin)' \subseteq start'.current
    <3> SUFFICES ASSUME start.pc # "none", NEW h \in Generators, gen'[h].pc # "idle", gen'[h].twin = start.twin
                 PROVE  gen'[h].config.profile \in start'.current
      BY <2>2 DEF Generating
    <3>1. CASE h = g
      BY <1>t, <2>1, <2>2, <3>1
    <3>2. CASE h # g
      BY <1>t, <2>1, <2>2, <3>2 DEF CurrentInv, Generating
    <3> QED
      BY <3>1, <3>2
  <2>4. file' = file
    BY <1>2 DEF BeginGenerate
  <2> QED
    BY <2>2, <2>3, <2>4 DEF CurrentInv, Listening, ports
(* A generate that goes on writes what was current.                        *)
<1>w. ASSUME NEW g \in Generators, gen[g].pc # "idle", start' = start,
             NEW text, file' = [file EXCEPT ![gen[g].twin] = text],
             text.state = "whole" => text.config = gen[g].config,
             \A h \in Generators : gen'[h].pc # "idle" =>
               gen[h].pc # "idle" /\ gen'[h].twin = gen[h].twin /\ gen'[h].config = gen[h].config
      PROVE  CurrentInv'
  <2>1. start.pc # "none" => Generating(start.twin)' \subseteq Generating(start.twin)
    BY <1>w DEF Generating
  <2>2. start.pc # "none" /\ gen[g].twin = start.twin => gen[g].config.profile \in start.current
    BY <1>w DEF CurrentInv, Generating
  <2>3. start.pc # "none" /\ file'[start.twin].state = "whole" => file'[start.twin].config.profile \in start.current
    BY <1>t, <1>w, <2>2 DEF CurrentInv
  <2> QED
    BY <1>w, <2>1, <2>3 DEF CurrentInv, Listening, ports
<1>3. ASSUME NEW g \in Generators, OpenConfig(g) PROVE CurrentInv'
  <2>1. \A h \in Generators : gen'[h].pc # "idle" =>
          gen[h].pc # "idle" /\ gen'[h].twin = gen[h].twin /\ gen'[h].config = gen[h].config
    BY <1>3, <1>t DEF OpenConfig, Generates
  <2> QED
    BY <1>3, <1>w, <2>1 DEF OpenConfig, Broken
<1>4. ASSUME NEW g \in Generators, WriteConfig(g) PROVE CurrentInv'
  <2>1. \A h \in Generators : gen'[h].pc # "idle" =>
          gen[h].pc # "idle" /\ gen'[h].twin = gen[h].twin /\ gen'[h].config = gen[h].config
    BY <1>4, <1>t DEF WriteConfig, NoGenerate
  <2>2. PICK text \in {Whole(gen[g].config), Broken, Undecodable} : file' = [file EXCEPT ![gen[g].twin] = text]
    BY <1>4 DEF WriteConfig
  <2>3. text.state = "whole" => text.config = gen[g].config
    BY DEF Whole, Broken, Undecodable
  <2> QED
    BY <1>4, <1>w, <2>1, <2>2, <2>3 DEF WriteConfig
<1>5. CASE BeginRun
  <2>1. PICK t \in Twins, bridge \in BOOLEAN :
          start' = [NoStart EXCEPT !.pc = "read", !.twin = t, !.bridge = bridge, !.decided = file[t].config,
                     !.current = {file[t].config.profile} \cup Generating(t)]
    BY <1>5 DEF BeginRun
  <2>2. start'.twin = t /\ start'.bound = {} /\ start'.current = {file[t].config.profile} \cup Generating(t)
    BY <2>1 DEF NoStart
  <2>3. file' = file /\ gen' = gen
    BY <1>5 DEF BeginRun
  <2> QED
    BY <2>2, <2>3 DEF CurrentInv, Generating
<1>6. CASE ReadConfig
  <2>1. CASE load_twin_config(start.twin)
    <3>1. PICK bound \in Listening(file[start.twin].config) :
            start' = [start EXCEPT !.pc = "serving", !.config = file[start.twin].config, !.bound = bound]
      BY <1>6, <2>1 DEF ReadConfig
    <3>2. /\ start'.pc = "serving" /\ start'.twin = start.twin /\ start'.current = start.current
          /\ start'.config = file[start.twin].config /\ start'.bound = bound
      BY <1>t, <3>1 DEF Starts
    <3>3. start.pc = "read" /\ file' = file /\ gen' = gen
      BY <1>6 DEF ReadConfig
    <3>4. Generating(start.twin)' = Generating(start.twin)
      BY <3>2, <3>3 DEF Generating
    <3> QED
      BY <2>1, <3>1, <3>2, <3>3, <3>4 DEF CurrentInv, load_twin_config, Listening, ports
  <2>2. CASE ~ load_twin_config(start.twin)
    BY <1>6, <1>n, <2>2 DEF ReadConfig
  <2> QED
    BY <2>1, <2>2
<1>7. CASE EndStart
  BY <1>7, <1>n DEF EndStart
<1>8. CASE list_twin_names
  BY <1>0, <1>8 DEF list_twin_names
<1>9. ASSUME NEW t \in Twins, Row(t) PROVE CurrentInv'
  BY <1>0, <1>9 DEF Row
<1>10. CASE EndList
  BY <1>0, <1>10 DEF EndList
<1>11. CASE UNCHANGED vars
  BY <1>0, <1>11 DEF vars
<1> QED
  BY <1>1, <1>2, <1>3, <1>4, <1>5, <1>6, <1>7, <1>8, <1>9, <1>10, <1>11 DEF Next

(* Whatever generates, crashes and mixed texts do to config.json before,   *)
(* between and after the two reads, a port that answers is open in the     *)
(* profile `run` decided by or in one that was being generated into the    *)
(* twin since (run.py:138, runtime/__main__.py:27).                        *)
THEOREM AnswersOnlyWhereOpen == Spec => []AnswersWhereOpen
<1>1. Init => TypeInv /\ CurrentInv
  BY TypeInit, CurrentInit
<1>2. TypeInv /\ CurrentInv /\ [Next]_vars => (TypeInv /\ CurrentInv)'
  BY TypeStep, CurrentStep
<1>3. CurrentInv => AnswersWhereOpen
  <2> SUFFICES ASSUME CurrentInv, NEW port \in Reachable
               PROVE  \E profile \in start.current : OpenIn(port, profile)
    BY DEF AnswersWhereOpen
  <2>1. port \in start.bound
    BY DEF Reachable
  <2>2. start.config.profile \in start.current /\ start.bound \in Listening(start.config)
    BY <2>1 DEF CurrentInv
  <2>3. PICK e \in ports(start.config) : port = e.port
    BY <2>1, <2>2 DEF Listening
  <2> QED
    BY <2>2, <2>3 DEF OpenIn, ports
<1> QED
  BY <1>1, <1>2, <1>3, PTL DEF Spec

-----------------------------------------------------------------------------
(* `list`.  A twin whose file has been whole ever since is still to come   *)
(* or has its row, and no load of another twin changes that.               *)

ListInv == list.pc = "rows" =>
  /\ list.steady \subseteq list.todo \cup list.rows
  /\ \A t \in list.steady : file[t].state = "whole"

LEMMA ListInit == Init => ListInv
BY DEF Init, ListInv, NoList

LEMMA ListStep == TypeInv /\ ListInv /\ [Next]_vars => ListInv'
<1> SUFFICES ASSUME TypeInv, ListInv, [Next]_vars PROVE ListInv'
  OBVIOUS
<1> USE DEF TypeInv, TypeOK, ListInv
<1>1. CASE EditSettings
  BY <1>1 DEF EditSettings
<1>2. ASSUME NEW g \in Generators, BeginGenerate(g) PROVE ListInv'
  BY <1>2 DEF BeginGenerate
<1>3. ASSUME NEW g \in Generators, OpenConfig(g) PROVE ListInv'
  BY <1>3 DEF OpenConfig, Touch, Lists
<1>4. ASSUME NEW g \in Generators, WriteConfig(g) PROVE ListInv'
  <2>1. \A t \in Twins : t # gen[g].twin => file'[t] = file[t]
    BY <1>4 DEF WriteConfig
  <2>2. /\ list'.pc = list.pc /\ list'.todo = list.todo /\ list'.rows = list.rows
        /\ list'.steady = list.steady \ {gen[g].twin}
    BY <1>4 DEF WriteConfig, Touch, Lists
  <2>3. list.steady \subseteq Twins
    BY DEF Lists
  <2> QED
    BY <2>1, <2>2, <2>3
<1>5. CASE BeginRun
  BY <1>5 DEF BeginRun
<1>6. CASE ReadConfig
  BY <1>6 DEF ReadConfig
<1>7. CASE EndStart
  BY <1>7 DEF EndStart
<1>8. CASE list_twin_names
  BY <1>8 DEF list_twin_names
<1>9. ASSUME NEW t \in Twins, Row(t) PROVE ListInv'
  <2>1. file' = file
    BY <1>9 DEF Row
  <2>2. CASE load_twin_config(t) /\ list' = [list EXCEPT !.todo = @ \ {t}, !.rows = @ \cup {t}]
    BY <2>1, <2>2 DEF Lists
  <2>3. CASE TwinConfigLoadError(t) /\ list' = [list EXCEPT !.todo = @ \ {t}]
    BY <2>1, <2>3 DEF Lists, TwinConfigLoadError
  <2>4. CASE list' = NoList
    BY <2>4 DEF NoList
  <2> QED
    BY <1>9, <2>2, <2>3, <2>4 DEF Row
<1>10. CASE EndList
  BY <1>10 DEF EndList, NoList
<1>11. CASE UNCHANGED vars
  BY <1>11 DEF vars
<1> QED
  BY <1>1, <1>2, <1>3, <1>4, <1>5, <1>6, <1>7, <1>8, <1>9, <1>10, <1>11 DEF Next

(* However many twins there are and whichever of them are broken, a table  *)
(* that `list` prints has a row for each one that could be read all the    *)
(* time (cli/commands/list.py:49-56).                                      *)
THEOREM ListMissesNone == Spec => []ListComplete
<1>1. Init => TypeInv /\ ListInv
  BY TypeInit, ListInit
<1>2. TypeInv /\ ListInv /\ [Next]_vars => (TypeInv /\ ListInv)'
  BY TypeStep, ListStep
<1>3. ListInv => ListComplete
  BY DEF ListInv, ListComplete
<1> QED
  BY <1>1, <1>2, <1>3, PTL DEF Spec

=============================================================================
