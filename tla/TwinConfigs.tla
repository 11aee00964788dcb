------------------------------ MODULE TwinConfigs ------------------------------
(***************************************************************************)
(* From the operator's settings and a scan to the ports a twin serves:     *)
(* `generate` bakes the settings (config/loader.py) and a profile into     *)
(* config.json (generate/generator.py, generate/store.py), which `run`     *)
(* reads, the process in the container reads again when it starts          *)
(* (runtime/__main__.py), and `list` reads for every twin.                 *)
(*                                                                         *)
(* Nothing locks a file, and write_text truncates before it writes.  JSON  *)
(* that is cut is refused; a settings file that is cut is valid YAML with  *)
(* fewer settings.                                                         *)
(***************************************************************************)
EXTENDS Naturals, FiniteSets

CONSTANTS
  Twins,       (* the names of the twins                                     *)
  NoTwin,      (* no twin is selected                                        *)
  Profiles,    (* the stored profiles: each a set of port entries            *)
  Generators,  (* `generate` invocations that may be under way at once       *)
  MayFail      (* whether a generate may be killed or its disk be full       *)

Entries == [port : Nat, protocol : {"tcp", "udp"}, state : {"open", "closed", "filtered"}]

ASSUME ConfigAssumption ==
  /\ \A p \in Profiles : p \subseteq Entries
  /\ NoTwin \notin Twins
  /\ MayFail \in BOOLEAN

VARIABLES
  settings,    (* what the operator's config.yaml says of allow_outbound     *)
  consented,   (* history: whether it ever said true                         *)
  file,        (* file[t]: the config.json of twin t                         *)
  gen,         (* gen[g]: where `generate` invocation g is                   *)
  start,       (* one `run` and the container it starts                      *)
  list         (* one `list`                                                 *)

vars == <<settings, consented, file, gen, start, list>>

(* A file without the setting, or without any content, is "silent".        *)
Settings == {"silent", "true", "malformed"}

Configs  == [profile : Profiles, allow_outbound : BOOLEAN]
NoConfig == [profile |-> {}, allow_outbound |-> FALSE]

(* A broken file is empty or cut, or has the end of another text; it is    *)
(* undecodable when the cut is inside a character of a banner.             *)
Files       == [state : {"absent", "broken", "undecodable", "whole"}, config : Configs \cup {NoConfig}]
Missing     == [state |-> "absent", config |-> NoConfig]
Broken      == [state |-> "broken", config |-> NoConfig]
Undecodable == [state |-> "undecodable", config |-> NoConfig]
Whole(c)    == [state |-> "whole", config |-> c]

(* decided is what `run` read, and bridge its network mode (the other is   *)
(* macvlan); config is what the process read, and bound the ports it got.  *)
(* current is history: the profile decided by, and those of the generates  *)
(* of the twin that were under way then or have begun since.               *)
Starts == [pc : {"none", "read", "serving"}, twin : Twins \cup {NoTwin}, bridge : BOOLEAN,
           decided : Configs \cup {NoConfig}, config : Configs \cup {NoConfig}, bound : SUBSET Nat,
           current : SUBSET Profiles]

(* todo are the names list_twin_names found and list_twins has not come    *)
(* to; steady is history: the twins with a whole file ever since.          *)
Lists == [pc : {"none", "rows"}, todo : SUBSET Twins, rows : SUBSET Twins, steady : SUBSET Twins]

Generates == [pc : {"idle", "open", "write"}, twin : Twins \cup {NoTwin}, config : Configs \cup {NoConfig}]

TypeOK ==
  /\ settings \in Settings
  /\ consented \in BOOLEAN
  /\ file \in [Twins -> Files]
  /\ gen \in [Generators -> Generates]
  /\ start \in Starts
  /\ start.pc # "none" => start.decided \in Configs
  /\ start.pc = "serving" => start.config \in Configs
  /\ list \in Lists

NoStart    == [pc |-> "none", twin |-> NoTwin, bridge |-> TRUE,
               decided |-> NoConfig, config |-> NoConfig, bound |-> {}, current |-> {}]
NoList     == [pc |-> "none", todo |-> {}, rows |-> {}, steady |-> {}]
NoGenerate == [pc |-> "idle", twin |-> NoTwin, config |-> NoConfig]

Init ==
  /\ settings = "silent"
  /\ consented = FALSE
  /\ file = [t \in Twins |-> Missing]
  /\ gen = [g \in Generators |-> NoGenerate]
  /\ start = NoStart
  /\ list = NoList

-----------------------------------------------------------------------------
(* The settings.                                                           *)

(* An editor truncates the file, then writes it.                           *)
EditSettings ==
  /\ \E s \in Settings :
       /\ s = "silent" \/ settings = "silent"
       /\ settings' = s
       /\ consented' = (consented \/ s = "true")
  /\ UNCHANGED <<file, gen, start, list>>

(* load_settings exits on malformed settings.                              *)
SettingsLoad == settings # "malformed"

(* Mutant: a setting that is not there counts as consent.                  *)
allow_outbound_OptOut == SettingsLoad

(* load_global_config: the operator's file over the shipped defaults, which *)
(* deny.                                                                   *)
allow_outbound == settings = "true"

-----------------------------------------------------------------------------
(* `generate`.                                                             *)

(* The profile loads, at this build's schema version, or nothing happens.  *)
BeginGenerate(g) ==
  /\ gen[g].pc = "idle"
  /\ SettingsLoad
  /\ \E t \in Twins, p \in Profiles :
       /\ gen' = [gen EXCEPT ![g] = [pc |-> "open", twin |-> t,
                    config |-> [profile |-> p, allow_outbound |-> allow_outbound]]]
       /\ start' = [start EXCEPT !.current = IF t = start.twin THEN @ \cup {p} ELSE @]
  /\ UNCHANGED <<settings, consented, file, list>>

Touch(t) == list' = [list EXCEPT !.steady = @ \ {t}]

(* write_text opens the file: it is created or truncated.                  *)
OpenConfig(g) ==
  /\ gen[g].pc = "open"
  /\ file' = [file EXCEPT ![gen[g].twin] = Broken]
  /\ gen' = [gen EXCEPT ![g].pc = "write"]
  /\ Touch(gen[g].twin)
  /\ UNCHANGED <<settings, consented, start>>

(* A text written over one that another generate wrote since may leave     *)
(* that one's end; a kill or a full disk leaves a part.                    *)
WriteConfig(g) ==
  /\ gen[g].pc = "write"
  /\ \/ file' = [file EXCEPT ![gen[g].twin] = Whole(gen[g].config)]
     \/ /\ MayFail \/ file[gen[g].twin].state = "whole"
        /\ \E part \in {Broken, Undecodable} : file' = [file EXCEPT ![gen[g].twin] = part]
  /\ gen' = [gen EXCEPT ![g] = NoGenerate]
  /\ Touch(gen[g].twin)
  /\ UNCHANGED <<settings, consented, start>>

-----------------------------------------------------------------------------
(* The ports of a configuration.                                           *)

(* Mutant: every port of the profile gets a listener.                      *)
ports_AnyState(c) == c.profile

(* generate_twin_config: the open entries, whatever their protocol.        *)
ports(c) == {e \in c.profile : e.state = "open"}

(* create_twin_container publishes the ports, as TCP, on a bridge only: on *)
(* macvlan the container has an address of its own.                        *)
Published == {e.port : e \in ports(start.decided)}
Reachable == IF start.bridge THEN Published \cap start.bound ELSE start.bound

(* _serve_port: a port that cannot be bound is logged and left out.        *)
Listening(c) == SUBSET {e.port : e \in ports(c)}

-----------------------------------------------------------------------------
(* `run`, and the process it starts.                                       *)

(* Mutant: a configuration that does not parse runs with defaults.         *)
load_twin_config_Lenient(t) == file[t].state # "absent"

(* load_twin_config, and model_validate_json in the container, return only *)
(* what was written in full.                                               *)
load_twin_config(t) == file[t].state = "whole"

(* What load_twin_config raises for the rest: an OSError and a text that   *)
(* does not validate are converted, a UnicodeDecodeError is not.           *)
TwinConfigLoadError(t) == file[t].state \in {"absent", "broken"}
UnicodeDecodeError(t)  == file[t].state = "undecodable"

(* Bound: `run` and `list` only read the files, so one of them at a time   *)
(* is enough to see all they can see.                                      *)
OneReader == start.pc = "none" /\ list.pc = "none"

(* Mutant: macvlan is not refused to a twin that is to be contained.       *)
_require_containment_BridgeOnly(c, bridge) == TRUE

(* Its first half; the marker is TwinLifecycle's.                          *)
_require_containment(c, bridge) == c.allow_outbound \/ bridge

Generating(t) == {gen[g].config.profile : g \in {h \in Generators : gen[h].pc # "idle" /\ gen[h].twin = t}}

(* The network and the published ports are those of this read; the other   *)
(* checks and the Docker calls between the two reads are TwinLifecycle's.  *)
BeginRun ==
  /\ OneReader
  /\ SettingsLoad
  /\ \E t \in Twins, bridge \in BOOLEAN :
       /\ load_twin_config(t)
       /\ _require_containment(file[t].config, bridge)
       /\ start' = [NoStart EXCEPT !.pc = "read", !.twin = t, !.bridge = bridge, !.decided = file[t].config,
                      !.current = {file[t].config.profile} \cup Generating(t)]
  /\ UNCHANGED <<settings, consented, file, gen, list>>

(* _main in the container reads the mounted file: it serves it, or ends    *)
(* with a traceback.                                                       *)
ReadConfig ==
  /\ start.pc = "read"
  /\ IF load_twin_config(start.twin)
       THEN \E bound \in Listening(file[start.twin].config) :
              start' = [start EXCEPT !.pc = "serving", !.config = file[start.twin].config, !.bound = bound]
       ELSE start' = NoStart
  /\ UNCHANGED <<settings, consented, file, gen, list>>

(* A Docker call fails, the container exits, or the twin is stopped.       *)
EndStart ==
  /\ start.pc # "none"
  /\ start' = NoStart
  /\ UNCHANGED <<settings, consented, file, gen, list>>

-----------------------------------------------------------------------------
(* `list`.                                                                 *)

list_twin_names ==
  /\ OneReader
  /\ SettingsLoad
  /\ list' = [pc |-> "rows", todo |-> {t \in Twins : file[t].state # "absent"}, rows |-> {},
              steady |-> {t \in Twins : file[t].state = "whole"}]
  /\ UNCHANGED <<settings, consented, file, gen, start>>

(* Mutant: a twin that does not load ends the loop, and the table is       *)
(* printed as it is.                                                       *)
Row_Breaking(t) ==
  /\ t \in list.todo
  /\ \/ load_twin_config(t) /\ list' = [list EXCEPT !.todo = @ \ {t}, !.rows = @ \cup {t}]
     \/ TwinConfigLoadError(t) /\ list' = [list EXCEPT !.todo = {}]
     \/ ~ TwinConfigLoadError(t) /\ list' = NoList
  /\ UNCHANGED <<settings, consented, file, gen, start>>

(* One turn of list_twins' loop.  A twin that does not load is skipped; a  *)
(* text that cannot be decoded, and an error of Docker once it is there to *)
(* be asked, end the command with a traceback and no table.                *)
Row(t) ==
  /\ t \in list.todo
  /\ \/ load_twin_config(t) /\ list' = [list EXCEPT !.todo = @ \ {t}, !.rows = @ \cup {t}]
     \/ TwinConfigLoadError(t) /\ list' = [list EXCEPT !.todo = @ \ {t}]
     \/ (UnicodeDecodeError(t) \/ load_twin_config(t)) /\ list' = NoList
  /\ UNCHANGED <<settings, consented, file, gen, start>>

(* The table is printed.                                                   *)
EndList ==
  /\ list.pc = "rows" /\ list.todo = {}
  /\ list' = NoList
  /\ UNCHANGED <<settings, consented, file, gen, start>>

-----------------------------------------------------------------------------

Next ==
  \/ EditSettings
  \/ \E g \in Generators : BeginGenerate(g) \/ OpenConfig(g) \/ WriteConfig(g)
  \/ BeginRun \/ ReadConfig \/ EndStart
  \/ list_twin_names \/ (\E t \in Twins : Row(t)) \/ EndList

Spec == Init /\ [][Next]_vars

-----------------------------------------------------------------------------
(* A twin is on a network that is not contained only with the operator's   *)
(* consent: no file that is cut, missing or being rewritten, settings or   *)
(* configuration, and no macvlan, makes up an allow_outbound: true that    *)
(* was never written (config/schema.py:95-97, run.py:96-101 and 182-187).  *)
OutboundConsented ==
  start.decided.allow_outbound \/ start.config.allow_outbound \/ ~ start.bridge => consented

(* "a `closed`/`filtered` port in the profile gets no entry, so the twin   *)
(* doesn't accept connections there either" (generate/generator.py:3-5):   *)
(* although what is published and what is bound come from two reads of a   *)
(* file that generates, their crashes and their mixed texts may change in  *)
(* between, a port answers only if it is open in the profile `run` decided *)
(* by or in one that was being generated into this twin at the time, never *)
(* in an older one or in another twin's.                                   *)
OpenIn(port, profile) == \E e \in profile : e.port = port /\ e.state = "open"
AnswersWhereOpen == \A port \in Reachable : \E profile \in start.current : OpenIn(port, profile)

(* A table that `list` prints has a row for every twin whose configuration *)
(* was whole all the time, whatever became of the files of other twins     *)
(* meanwhile: one that is broken is skipped (cli/commands/list.py:49-56).  *)
(* It says nothing of a list that ends with a traceback instead.           *)
ListComplete == list.pc = "rows" /\ list.todo = {} => list.steady \subseteq list.rows

=============================================================================
