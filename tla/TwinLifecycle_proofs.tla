-------------------------- MODULE TwinLifecycle_proofs --------------------------
(***************************************************************************)
(* Denied twins are covered for every number of twins and of `run` and     *)
(* `stop` commands.  The firewall's part is not proved again: the steps of *)
(* TwinLifecycle are steps of Containment, whose theorems are cited.       *)
(***************************************************************************)
EXTENDS TwinLifecycle, TLAPS

HP == INSTANCE ContainmentSettles_proofs WITH MayTamper <- FALSE, foreign <- {}

(* One containment-setup at a time and a boot id, as for Containment.      *)
Undisturbed == (\A p, q \in Setups : p = q) /\ HasBootId

-----------------------------------------------------------------------------
(* The host's steps are Containment's.                                     *)

LEMMA SameHost ==
  /\ Host!TypeOK = HP!TypeOK
  /\ \A s \in Subnets : Host!evaluate(s) = HP!evaluate(s) /\ (Host!Effective(s) <=> HP!Effective(s))
BY DEF Host!TypeOK, HP!TypeOK, Host!Chains, HP!Chains, Host!Targets, HP!Targets, Host!Markers, HP!Markers,
       Host!SetupRecords, HP!SetupRecords, Host!PCs, HP!PCs, Host!Outcomes, HP!Outcomes,
       Host!evaluate, HP!evaluate, Host!Effective, HP!Effective, Host!EgressDropped, HP!EgressDropped,
       Host!RepliesFlow, HP!RepliesFlow, Host!Contains, HP!Contains

LEMMA SameEffective == \A s \in Subnets : Host!Effective(s) <=> HP!Effective(s)
BY SameHost

LEMMA HostInit == Init => HP!Init
BY DEF Init, Host!Init, HP!Init, Host!Chains, HP!Chains

(* Both instances define the same helpers.                                 *)
LEMMA SameHelpers ==
  /\ Host!egress_rules = HP!egress_rules /\ Host!read_boot_id = HP!read_boot_id
  /\ \A p, pc, i : Host!Goto(p, pc, i) <=> HP!Goto(p, pc, i)
  /\ \A p, result : Host!Exit(p, result) <=> HP!Exit(p, result)
  /\ \A p, pc : Host!At(p, pc) <=> HP!At(p, pc)
  /\ \A p \in Setups : Host!Rule(p) = HP!Rule(p) /\ (Host!NextLeftover(p) <=> HP!NextLeftover(p))
  /\ \A s, r : (Host!Present(s, r) <=> HP!Present(s, r)) /\ Host!Deleted(s, r) = HP!Deleted(s, r)
                /\ Host!Inserted(s, r) = HP!Inserted(s, r)
<1>1. Host!egress_rules = HP!egress_rules /\ Host!read_boot_id = HP!read_boot_id
  BY DEF Host!egress_rules, HP!egress_rules, Host!read_boot_id, HP!read_boot_id, Host!NoBootId, HP!NoBootId
<1>2. \A p, pc, i : Host!Goto(p, pc, i) <=> HP!Goto(p, pc, i)
  BY DEF Host!Goto, HP!Goto
<1>3. \A p, result : Host!Exit(p, result) <=> HP!Exit(p, result)
  BY DEF Host!Exit, HP!Exit
<1>4. \A p, pc : Host!At(p, pc) <=> HP!At(p, pc)
  BY DEF Host!At, HP!At
<1>5. \A p \in Setups : Host!Rule(p) = HP!Rule(p) /\ (Host!NextLeftover(p) <=> HP!NextLeftover(p))
  BY <1>1, <1>2 DEF Host!Rule, HP!Rule, Host!NextLeftover, HP!NextLeftover
<1>6. \A s, r : Host!Present(s, r) <=> HP!Present(s, r)
  BY DEF Host!Present, HP!Present, Host!Contains, HP!Contains
<1>7. \A s, r : Host!Deleted(s, r) = HP!Deleted(s, r)
  <2>1. \A q, t : Host!RemoveFirst(q, t) = HP!RemoveFirst(q, t)
    BY DEF Host!RemoveFirst, HP!RemoveFirst, Host!RemoveAt, HP!RemoveAt, Host!SelectInSeq, HP!SelectInSeq,
           Host!Min, HP!Min
  <2> QED
    BY <2>1 DEF Host!Deleted, HP!Deleted
<1>8. \A s, r : Host!Inserted(s, r) = HP!Inserted(s, r)
  BY DEF Host!Inserted, HP!Inserted
<1> QED
  BY <1>1, <1>2, <1>3, <1>4, <1>5, <1>6, <1>7, <1>8

LEMMA SameStep == \A p \in Setups : Host!Step(p) => HP!Step(p) /\ boot' = boot
<1> SUFFICES ASSUME NEW p \in Setups, Host!Step(p) PROVE HP!Step(p) /\ boot' = boot
  OBVIOUS
<1>1. CASE Host!BeginSetup(p)
  BY <1>1, SameHelpers DEF Host!BeginSetup, HP!BeginSetup, HP!Step
<1>2. CASE Host!CheckRule(p)
  BY <1>2, SameHelpers DEF Host!CheckRule, HP!CheckRule, HP!Step
<1>3. CASE Host!ProbeRule(p)
  BY <1>3, SameHelpers DEF Host!ProbeRule, HP!ProbeRule, HP!Step
<1>4. CASE Host!DeleteRule(p)
  BY <1>4, SameHelpers DEF Host!DeleteRule, HP!DeleteRule, HP!Step
<1>5. CASE Host!DeleteVanished(p)
  BY <1>5, SameHelpers DEF Host!DeleteVanished, HP!DeleteVanished, HP!Step
<1>6. CASE Host!InsertRule(p)
  BY <1>6, SameHelpers DEF Host!InsertRule, HP!InsertRule, HP!Step
<1>7. CASE Host!TruncateMarker(p)
  BY <1>7, SameHelpers DEF Host!TruncateMarker, HP!TruncateMarker, HP!Step
<1>8. CASE Host!WriteMarker(p)
  BY <1>8, SameHelpers DEF Host!WriteMarker, HP!WriteMarker, HP!Step
<1>9. CASE Host!AbortSetup(p)
  BY <1>9, SameHelpers DEF Host!AbortSetup, HP!AbortSetup, HP!Step
<1> QED
  BY <1>1, <1>2, <1>3, <1>4, <1>5, <1>6, <1>7, <1>8, <1>9 DEF Host!Step

LEMMA SameReboot == Host!Reboot => HP!Reboot
BY DEF Host!Reboot, HP!Reboot, Host!Chains, HP!Chains

LEMMA HostNext == [Next]_vars => [HP!Next]_HP!vars
<1> SUFFICES ASSUME [Next]_vars PROVE [HP!Next]_HP!vars
  OBVIOUS
<1>0. ASSUME UNCHANGED hostVars PROVE [HP!Next]_HP!vars
  BY <1>0 DEF hostVars, HP!vars
<1>1. CASE HostStep
  BY <1>1, SameStep DEF HostStep, HP!Next
<1>2. CASE Reboot
  BY <1>2, SameReboot DEF Reboot, HP!Next
<1>3. ASSUME NEW p \in Runs, RunStep(p) PROVE UNCHANGED hostVars
  BY <1>3 DEF RunStep, BeginRun, get_twin_container_status, _require_containment, get_network, create_network,
              create_twin_container, start_twin_container, FailRun
<1>4. ASSUME NEW q \in Stops, StopStep(q) PROVE UNCHANGED hostVars
  BY <1>4 DEF StopStep, BeginStop, stop_twin_container, remove_twin_container, FailStop
<1>5. ASSUME NEW t \in Twins, Regenerate(t) \/ ContainerExits(t) PROVE UNCHANGED hostVars
  BY <1>5 DEF Regenerate, ContainerExits
<1>6. ASSUME NEW n \in Networks, RemoveNetwork(n) PROVE UNCHANGED hostVars
  BY <1>6 DEF RemoveNetwork
<1>7. CASE UNCHANGED vars
  BY <1>0, <1>7 DEF vars, hostVars
<1> QED
  BY <1>0, <1>1, <1>2, <1>3, <1>4, <1>5, <1>6, <1>7 DEF Next

LEMMA HostSpec == Spec => HP!Spec
  BY HostInit, HostNext, PTL DEF Spec, HP!Spec

-----------------------------------------------------------------------------
(* Type correctness of what Docker and the commands keep.                  *)

DockerOK ==
  /\ config \in [Twins -> Configs]
  /\ networks \in [Networks -> Subnets \cup {EgressSubnet, MacvlanSubnet, NoNetwork}]
  /\ container \in [Twins -> Containers]
CliOK == run \in [Runs -> RunRecords] /\ stop \in [Stops -> StopRecords]

LEMMA IdleRunType == \A t \in Twins : IdleRun(t) \in RunRecords /\ IdleRun(t).pc = "idle"
BY DEF IdleRun, RunRecords, RunSteps, Configs

LEMMA NetworkType == CliOK => \A p \in Runs : Network(p) \in Networks
BY DEF CliOK, Network, Networks, RunRecords, Configs

LEMMA TypeInit == Init => DockerOK /\ CliOK
<1> SUFFICES ASSUME Init PROVE DockerOK /\ CliOK
  OBVIOUS
<1>1. DockerOK
  BY DEF Init, DockerOK, Containers, Absent, Networks
<1>2. run \in [Runs -> RunRecords]
  <2>1. {IdleRun(t) : t \in Twins} \subseteq RunRecords
    BY IdleRunType
  <2> QED
    BY <2>1 DEF Init
<1>3. stop \in [Stops -> StopRecords]
  BY DEF Init, StopRecords
<1> QED
  BY <1>1, <1>2, <1>3 DEF CliOK

LEMMA RunMoves ==
  ASSUME CliOK, NEW p \in Runs
  PROVE  /\ \A pc \in RunSteps : RunGoto(p, pc) => run' \in [Runs -> RunRecords]
         /\ RunExit(p) => run' \in [Runs -> RunRecords]
<1>1. run[p] \in RunRecords /\ run[p].twin \in Twins
  BY DEF CliOK, RunRecords
<1>2. \A pc \in RunSteps : RunGoto(p, pc) => run' \in [Runs -> RunRecords]
  BY DEF RunGoto, CliOK, RunRecords
<1>3. RunExit(p) => run' \in [Runs -> RunRecords]
  BY <1>1, IdleRunType DEF RunExit, CliOK
<1> QED
  BY <1>2, <1>3

LEMMA TypeStep == DockerOK /\ CliOK /\ [Next]_vars => (DockerOK /\ CliOK)'
<1> SUFFICES ASSUME DockerOK, CliOK, [Next]_vars PROVE (DockerOK /\ CliOK)'
  OBVIOUS
<1>d. UNCHANGED <<config, dockerVars>> => DockerOK'
  BY DEF DockerOK, dockerVars
<1>c. UNCHANGED cliVars => CliOK'
  BY DEF CliOK, cliVars
<1>1. ASSUME NEW p \in Runs, RunStep(p) PROVE (DockerOK /\ CliOK)'
  <2>1. stop' = stop /\ config' = config
    BY <1>1 DEF RunStep, BeginRun, get_twin_container_status, _require_containment, get_network, create_network,
                create_twin_container, start_twin_container, FailRun
  <2>2. run' \in [Runs -> RunRecords]
    <3>1. CASE BeginRun(p)
      <4>1. PICK t \in Twins, s \in Subnets :
              run' = [run EXCEPT ![p] = [pc |-> "status", twin |-> t, subnet |-> s, config |-> config[t]]]
        BY <3>1 DEF BeginRun
      <4>2. [pc |-> "status", twin |-> t, subnet |-> s, config |-> config[t]] \in RunRecords
        BY DEF RunRecords, RunSteps, DockerOK
      <4> QED
        BY <4>1, <4>2 DEF CliOK
    <3>2. CASE ~ BeginRun(p)
      <4>1. (\E pc \in RunSteps : RunGoto(p, pc)) \/ RunExit(p)
        BY <1>1, <3>2 DEF RunStep, get_twin_container_status, _require_containment, get_network, create_network,
                    create_twin_container, start_twin_container, FailRun, RunSteps
      <4> QED
        BY <4>1, RunMoves
    <3> QED
      BY <3>1, <3>2
  <2>3. networks' \in [Networks -> Subnets \cup {EgressSubnet, MacvlanSubnet, NoNetwork}]
    <3>1. CASE create_network(p)
      <4>1. Wanted(p) \in Subnets \cup {EgressSubnet, MacvlanSubnet, NoNetwork}
        BY DEF Wanted, CliOK, RunRecords
      <4> QED
        BY <3>1, <4>1 DEF create_network, DockerOK
    <3>2. CASE ~ create_network(p)
      BY <1>1, <3>2 DEF RunStep, BeginRun, get_twin_container_status, _require_containment, get_network,
                        create_twin_container, start_twin_container, FailRun, dockerVars, DockerOK
    <3> QED
      BY <3>1, <3>2
  <2>4. container' \in [Twins -> Containers]
    <3>1. CASE create_twin_container(p)
      <4>1. [status |-> "created", network |-> Network(p), denied |-> run[p].config.denied] \in Containers
        BY NetworkType DEF Containers, CliOK, RunRecords, Configs
      <4> QED
        BY <3>1, <4>1 DEF create_twin_container, DockerOK
    <3>2. CASE start_twin_container(p)
      BY <3>2 DEF start_twin_container, DockerOK, Containers
    <3>3. CASE ~ create_twin_container(p) /\ ~ start_twin_container(p)
      BY <1>1, <3>3 DEF RunStep, BeginRun, get_twin_container_status, _require_containment, get_network,
                        create_network, FailRun, dockerVars, DockerOK
    <3> QED
      BY <3>1, <3>2, <3>3
  <2> QED
    BY <2>1, <2>2, <2>3, <2>4 DEF DockerOK, CliOK
<1>2. ASSUME NEW q \in Stops, StopStep(q) PROVE (DockerOK /\ CliOK)'
  <2>1. UNCHANGED <<config, networks, run>>
    BY <1>2 DEF StopStep, BeginStop, stop_twin_container, remove_twin_container, FailStop, dockerVars
  <2>2. stop' \in [Stops -> StopRecords]
    BY <1>2 DEF StopStep, BeginStop, stop_twin_container, remove_twin_container, FailStop, CliOK, StopRecords
  <2>3. container' \in [Twins -> Containers]
    <3>1. Absent \in Containers
      BY DEF Absent, Containers, Networks
    <3>2. CASE stop_twin_container(q)
      BY <3>2 DEF stop_twin_container, DockerOK, Containers
    <3>3. CASE ~ stop_twin_container(q)
      BY <1>2, <3>1, <3>3 DEF StopStep, BeginStop, remove_twin_container, FailStop, dockerVars, DockerOK
    <3> QED
      BY <3>2, <3>3
  <2> QED
    BY <2>1, <2>2, <2>3 DEF DockerOK, CliOK
<1>3. ASSUME NEW t \in Twins, Regenerate(t) PROVE (DockerOK /\ CliOK)'
  BY <1>3, <1>c DEF Regenerate, DockerOK, dockerVars
<1>4. ASSUME NEW t \in Twins, ContainerExits(t) PROVE (DockerOK /\ CliOK)'
  BY <1>4, <1>c DEF ContainerExits, DockerOK, Containers
<1>5. ASSUME NEW n \in Networks, RemoveNetwork(n) PROVE (DockerOK /\ CliOK)'
  BY <1>5, <1>c DEF RemoveNetwork, DockerOK
<1>6. CASE HostStep
  BY <1>6, <1>c, <1>d DEF HostStep
<1>7. CASE Reboot
  <2>1. run' \in [Runs -> RunRecords]
    BY <1>7, IdleRunType DEF Reboot, CliOK, RunRecords
  <2>2. stop' \in [Stops -> StopRecords]
    BY <1>7 DEF Reboot, CliOK, StopRecords
  <2>3. container' \in [Twins -> Containers]
    BY <1>7 DEF Reboot, DockerOK, Containers
  <2> QED
    BY <1>7, <2>1, <2>2, <2>3 DEF Reboot, DockerOK, CliOK
<1>8. CASE UNCHANGED vars
  BY <1>8, <1>c, <1>d DEF vars
<1> QED
  BY <1>1, <1>2, <1>3, <1>4, <1>5, <1>6, <1>7, <1>8 DEF Next

(* Whatever the settings, networks and commands do, everything stays well  *)
(* formed (cli/commands/run.py, stop.py, docker/client.py).                *)
THEOREM TypeCorrect == Spec => []TypeOK
<1>1. HP!Spec => []HP!TypeOK
  BY HP!TypeCorrect, LifecycleAssumption
<1>2. HP!TypeOK /\ DockerOK /\ CliOK => TypeOK
  BY SameHost DEF TypeOK, DockerOK, CliOK
<1> QED
  BY <1>1, <1>2, HostSpec, TypeInit, TypeStep, PTL DEF Spec

-----------------------------------------------------------------------------
(* Denied twins.  What `run` has found out about the firewall stays true   *)
(* until the next reboot, which ends `run` and every container.  What that *)
(* is depends on how many setups there are, so the argument is about a set *)
(* C of subnets that an active marker vouches for and that only grows      *)
(* within a boot.                                                          *)

(* No twin of this boot can meet a "contained" network outside C: whoever  *)
(* made it, or found it in order, had been shown its subnet in C.          *)
NetworkIn(C) == networks["contained"] \in C \cup {NoNetwork}

Checked(p, C) ==
  /\ run[p].pc \in {"network", "make network", "create"} /\ run[p].config.denied =>
       run[p].config.mode = "bridge" /\ run[p].subnet \in C
  /\ run[p].pc = "create" /\ run[p].config.denied => NetworkIn(C)
  /\ run[p].pc = "start" /\ container[run[p].twin].status # "absent" /\ container[run[p].twin].denied => NetworkIn(C)

Contained(t, C) ==
  /\ container[t].status # "absent" /\ container[t].denied => container[t].network = "contained"
  /\ container[t].status = "running" /\ container[t].denied => networks["contained"] \in C

DeniedInv(C) == (\A p \in Runs : Checked(p, C)) /\ (\A t \in Twins : Contained(t, C))

LEMMA DeniedInit == ASSUME Init, NEW C PROVE DeniedInv(C)
<1>1. \A p \in Runs : run[p].pc = "idle"
  BY IdleRunType DEF Init
<1>2. \A t \in Twins : container[t].status = "absent"
  BY DEF Init, Absent
<1> QED
  BY <1>1, <1>2 DEF DeniedInv, Checked, Contained

(* A `run` command that another step leaves where it is.                   *)
LEMMA CheckedStays ==
  ASSUME NEW C, NEW D, NEW p \in Runs, Checked(p, C), run'[p] = run[p], C \subseteq D, NetworkIn(C) => NetworkIn(D)',
         \/ NetworkIn(D)'
         \/ container'[run[p].twin].status # "absent" /\ container'[run[p].twin].denied =>
              container[run[p].twin].status # "absent" /\ container[run[p].twin].denied
  PROVE  Checked(p, D)'
<1>1. run'[p].pc \in {"network", "make network", "create"} /\ run'[p].config.denied =>
        run'[p].config.mode = "bridge" /\ run'[p].subnet \in D
  BY DEF Checked
<1>2. run'[p].pc = "create" /\ run'[p].config.denied => NetworkIn(D)'
  BY DEF Checked
<1>3. run'[p].pc = "start" /\ container'[run'[p].twin].status # "absent" /\ container'[run'[p].twin].denied => NetworkIn(D)'
  BY DEF Checked
<1> QED
  BY <1>1, <1>2, <1>3 DEF Checked

(* A container that does not start and keeps its network if it runs.       *)
LEMMA ContainedStays ==
  ASSUME NEW C, NEW D, NEW t \in Twins, Contained(t, C), C \subseteq D,
         container'[t].status # "absent" =>
           /\ container[t].status # "absent"
           /\ container'[t].denied = container[t].denied
           /\ container'[t].network = container[t].network,
         container'[t].status = "running" => container[t].status = "running",
         container[t].status = "running" /\ container[t].denied => networks'["contained"] = networks["contained"]
  PROVE  Contained(t, D)'
BY DEF Contained

(* Short of a reboot, steps of `run`.                                      *)
LEMMA DeniedRunStep ==
  ASSUME NEW C \in SUBSET Subnets, NEW D,
         HP!TypeOK, \A s \in Subnets : Host!evaluate(s) = "active" => s \in C,
         DockerOK, CliOK, DeniedInv(C), NEW p \in Runs, RunStep(p), C \subseteq D
  PROVE  DeniedInv(D)'
<1>c. \A q \in Runs : run[q] \in RunRecords /\ run[q].twin \in Twins /\ Checked(q, C)
  BY DEF CliOK, RunRecords, DeniedInv
<1>d. \A t \in Twins : Contained(t, C)
  BY DEF DeniedInv
<1>n. NoNetwork \notin C /\ "contained" \in Networks
  BY LifecycleAssumption DEF Networks
<1>w. run[p].config.denied /\ run[p].config.mode = "bridge" => Network(p) = "contained" /\ Wanted(p) = run[p].subnet
  BY DEF Network, Wanted
<1>g. /\ \A pc \in RunSteps : RunGoto(p, pc) =>
             /\ run'[p].pc = pc /\ run'[p].twin = run[p].twin /\ run'[p].subnet = run[p].subnet
             /\ run'[p].config = run[p].config
             /\ \A q \in Runs \ {p} : run'[q] = run[q]
      /\ RunExit(p) => run'[p].pc = "idle" /\ \A q \in Runs \ {p} : run'[q] = run[q]
  <2>1. \A pc \in RunSteps : RunGoto(p, pc) =>
             /\ run'[p].pc = pc /\ run'[p].twin = run[p].twin /\ run'[p].subnet = run[p].subnet
             /\ run'[p].config = run[p].config
             /\ \A q \in Runs \ {p} : run'[q] = run[q]
    BY DEF RunGoto, CliOK, RunRecords
  <2>2. RunExit(p) => run'[p].pc = "idle" /\ \A q \in Runs \ {p} : run'[q] = run[q]
    BY <1>c, IdleRunType DEF RunExit, CliOK
  <2> QED
    BY <2>1, <2>2
(* Steps that leave the containers and networks alone.                     *)
<1>0. ASSUME UNCHANGED dockerVars, \A q \in Runs \ {p} : run'[q] = run[q], Checked(p, D)' PROVE DeniedInv(D)'
  <2>1. NetworkIn(C) => NetworkIn(D)'
    BY <1>0 DEF NetworkIn, dockerVars
  <2>2. \A q \in Runs \ {p} : Checked(q, D)'
    BY <1>0, <1>c, <2>1, CheckedStays DEF dockerVars
  <2>3. \A t \in Twins : Contained(t, D)'
    BY <1>0, <1>d, ContainedStays DEF dockerVars
  <2> QED
    BY <1>0, <2>2, <2>3 DEF DeniedInv
<1>x. ASSUME UNCHANGED dockerVars, RunExit(p) PROVE DeniedInv(D)'
  <2>1. Checked(p, D)'
    BY <1>g, <1>x DEF Checked
  <2> QED
    BY <1>0, <1>g, <1>x, <2>1
<1>1. CASE BeginRun(p)
  <2>1. /\ UNCHANGED dockerVars /\ \A q \in Runs \ {p} : run'[q] = run[q]
        /\ run'[p].pc = "status"
    BY <1>1 DEF BeginRun, CliOK
  <2> QED
    BY <1>0, <2>1 DEF Checked
<1>2. CASE get_twin_container_status(p)
  <2>1. CASE RunExit(p)
    BY <1>2, <1>x, <2>1 DEF get_twin_container_status
  <2>2. CASE RunGoto(p, "contain")
    BY <1>0, <1>2, <1>g, <2>2 DEF get_twin_container_status, Checked, RunSteps
  <2> QED
    BY <1>2, <2>1, <2>2 DEF get_twin_container_status
<1>3. CASE _require_containment(p)
  <2>1. CASE RunExit(p)
    BY <1>3, <1>x, <2>1 DEF _require_containment
  <2>2. CASE RunGoto(p, "network") /\ ~ RunExit(p)
    <3>1. run[p].config.denied => run[p].config.mode = "bridge" /\ Host!evaluate(run[p].subnet) = "active"
      BY <1>3, <2>2 DEF _require_containment
    <3>2. Host!evaluate(run[p].subnet) = "active" => run[p].subnet \in Subnets
      <4>1. run[p].subnet \in Subnets \cup {NoNetwork}
        BY <1>c DEF RunRecords
      <4>2. marker = NoMarker \/ marker.subnet \in Subnets
        BY DEF HP!TypeOK, HP!Markers
      <4> QED
        BY <4>1, <4>2, LifecycleAssumption DEF Host!evaluate
    <3>3. run[p].config.denied => run[p].subnet \in C
      BY <3>1, <3>2
    <3>4. Checked(p, D)'
      BY <1>g, <2>2, <3>1, <3>3 DEF Checked, RunSteps
    <3> QED
      BY <1>0, <1>3, <1>g, <2>2, <3>4 DEF _require_containment, RunSteps
  <2> QED
    BY <1>3, <2>1, <2>2 DEF _require_containment
<1>4. CASE get_network(p)
  <2>0. UNCHANGED dockerVars /\ run[p].pc = "network"
    BY <1>4 DEF get_network, RunAt
  <2>1. CASE RunExit(p)
    BY <1>x, <2>0, <2>1
  <2>2. CASE RunGoto(p, "make network")
    <3>1. Checked(p, D)'
      BY <1>c, <1>g, <2>0, <2>2 DEF Checked, RunSteps
    <3> QED
      BY <1>0, <1>g, <2>0, <2>2, <3>1 DEF RunSteps
  <2>3. CASE RunGoto(p, "create") /\ ~ RunExit(p) /\ ~ RunGoto(p, "make network")
    <3>1. run[p].config.denied => networks["contained"] \in C
      BY <1>4, <1>c, <1>w, <2>0, <2>3 DEF get_network, Checked
    <3>2. run[p].config.denied => NetworkIn(D)'
      BY <2>0, <3>1 DEF NetworkIn, dockerVars
    <3>3. Checked(p, D)'
      BY <1>c, <1>g, <2>0, <2>3, <3>2 DEF Checked, RunSteps
    <3> QED
      BY <1>0, <1>g, <2>0, <2>3, <3>3 DEF RunSteps
  <2> QED
    BY <1>4, <2>1, <2>2, <2>3 DEF get_network
<1>5. CASE create_network(p)
  <2>0. container' = container /\ run[p].pc = "make network"
    BY <1>5 DEF create_network, RunAt
  <2>1. CASE RunExit(p) /\ UNCHANGED networks
    BY <1>x, <2>0, <2>1 DEF dockerVars
  <2>2. CASE /\ networks[Network(p)] = NoNetwork /\ networks' = [networks EXCEPT ![Network(p)] = Wanted(p)]
             /\ RunGoto(p, "create")
    <3>1. Network(p) = "contained" => networks'["contained"] \in C
      <4>1. Network(p) = "contained" => run[p].config.denied
        BY DEF Network
      <4>2. run[p].config.denied => run[p].config.mode = "bridge" /\ run[p].subnet \in C
        BY <1>c, <2>0 DEF Checked
      <4> QED
        BY <1>n, <1>w, <2>2, <4>1, <4>2 DEF DockerOK
    <3>2. Network(p) # "contained" => networks'["contained"] = networks["contained"]
      BY <1>n, <2>2 DEF DockerOK
    <3>3. NetworkIn(C) => NetworkIn(D)'
      BY <3>1, <3>2 DEF NetworkIn
    <3>4. run[p].config.denied => NetworkIn(D)'
      BY <1>c, <1>w, <2>0, <3>1 DEF Checked, NetworkIn
    <3>5. Checked(p, D)'
      BY <1>c, <1>g, <2>0, <2>2, <3>4 DEF Checked, RunSteps
    <3>6. \A q \in Runs \ {p} : Checked(q, D)'
      BY <1>c, <1>g, <2>0, <2>2, <3>3, CheckedStays DEF RunSteps
    <3>7. ASSUME NEW t \in Twins PROVE Contained(t, D)'
      <4>1. container[t].status = "running" /\ container[t].denied => networks'["contained"] = networks["contained"]
        BY <1>d, <1>n, <2>2, <3>2 DEF Contained
      <4> QED
        BY <1>d, <2>0, <4>1, ContainedStays
    <3> QED
      BY <3>5, <3>6, <3>7 DEF DeniedInv
  <2> QED
    BY <1>5, <2>1, <2>2 DEF create_network
<1>6. CASE create_twin_container(p)
  <2>t. PICK t \in Twins : t = run[p].twin
    BY <1>c
  <2>0. networks' = networks /\ run[p].pc = "create"
    BY <1>6 DEF create_twin_container, RunAt
  <2>1. CASE RunExit(p) /\ UNCHANGED container
    BY <1>x, <2>0, <2>1 DEF dockerVars
  <2>2. CASE /\ container' = [container EXCEPT ![t] =
                   [status |-> "created", network |-> Network(p), denied |-> run[p].config.denied]]
             /\ RunGoto(p, "start")
    <3>0. /\ container'[t] = [status |-> "created", network |-> Network(p), denied |-> run[p].config.denied]
          /\ \A u \in Twins \ {t} : container'[u] = container[u]
      BY <2>2 DEF DockerOK
    <3>1. NetworkIn(C) => NetworkIn(D)'
      BY <2>0 DEF NetworkIn
    <3>2. run[p].config.denied => NetworkIn(D)' /\ Network(p) = "contained"
      BY <1>c, <1>w, <2>0, <3>1 DEF Checked
    <3>3. ASSUME NEW q \in Runs \ {p} PROVE Checked(q, D)'
      <4>1. \/ NetworkIn(D)'
            \/ container'[run[q].twin].status # "absent" /\ container'[run[q].twin].denied =>
                 container[run[q].twin].status # "absent" /\ container[run[q].twin].denied
        BY <1>c, <3>0, <3>2
      <4> QED
        BY <1>c, <1>g, <2>2, <3>1, <4>1, CheckedStays DEF RunSteps
    <3>4. Checked(p, D)'
      <4>1. run'[p].pc = "start" /\ run'[p].twin = t
        BY <1>g, <2>t, <2>2 DEF RunSteps
      <4>2. container'[t].denied = run[p].config.denied
        BY <3>0
      <4> QED
        BY <3>2, <4>1, <4>2 DEF Checked
    <3>5. Contained(t, D)'
      <4>1. container'[t].status = "created" /\ container'[t].denied = run[p].config.denied /\ container'[t].network = Network(p)
        BY <3>0
      <4> QED
        BY <3>2, <4>1 DEF Contained
    <3>6. \A u \in Twins \ {t} : Contained(u, D)'
      BY <1>d, <2>0, <3>0, ContainedStays
    <3> QED
      BY <3>3, <3>4, <3>5, <3>6 DEF DeniedInv
  <2> QED
    BY <1>6, <2>t, <2>1, <2>2 DEF create_twin_container
<1>7. CASE start_twin_container(p)
  <2>t. PICK t \in Twins : t = run[p].twin
    BY <1>c
  <2>0. /\ networks' = networks /\ run[p].pc = "start" /\ RunExit(p) /\ container[t].status # "absent"
        /\ networks[container[t].network] # NoNetwork
    BY <1>7, <2>t DEF start_twin_container, RunAt
  <2>1. /\ container'[t].status = "running" /\ container'[t].denied = container[t].denied
        /\ container'[t].network = container[t].network
        /\ \A u \in Twins \ {t} : container'[u] = container[u]
    BY <1>7, <2>t DEF start_twin_container, DockerOK, Containers
  <2>2. NetworkIn(C) => NetworkIn(D)'
    BY <2>0 DEF NetworkIn
  <2>3. container[t].denied => container[t].network = "contained" /\ networks["contained"] \in C
    <3>1. container[t].denied => NetworkIn(C) /\ container[t].network = "contained"
      BY <1>c, <1>d, <2>t, <2>0 DEF Checked, Contained
    <3> QED
      BY <2>0, <3>1 DEF NetworkIn
  <2>4. ASSUME NEW q \in Runs \ {p} PROVE Checked(q, D)'
    <3>1. container'[run[q].twin].status # "absent" /\ container'[run[q].twin].denied =>
            container[run[q].twin].status # "absent" /\ container[run[q].twin].denied
      BY <1>c, <2>0, <2>1
    <3> QED
      BY <1>c, <1>g, <2>0, <2>2, <3>1, CheckedStays
  <2>5. Checked(p, D)'
    BY <1>g, <2>0 DEF Checked
  <2>6. Contained(t, D)'
    BY <2>0, <2>1, <2>3 DEF Contained
  <2>7. \A u \in Twins \ {t} : Contained(u, D)'
    BY <1>d, <2>0, <2>1, ContainedStays
  <2> QED
    BY <2>4, <2>5, <2>6, <2>7 DEF DeniedInv
<1>8. CASE FailRun(p)
  BY <1>8, <1>x DEF FailRun
<1> QED
  BY <1>1, <1>2, <1>3, <1>4, <1>5, <1>6, <1>7, <1>8 DEF RunStep

LEMMA DeniedStep ==
  ASSUME NEW C \in SUBSET Subnets, NEW D,
         HP!TypeOK, \A s \in Subnets : Host!evaluate(s) = "active" => s \in C,
         DockerOK, CliOK, DeniedInv(C), [Next]_vars, boot' = boot => C \subseteq D
  PROVE  DeniedInv(D)'
<1>d. /\ \A p \in Runs : Checked(p, C) /\ run[p].twin \in Twins
      /\ \A t \in Twins : Contained(t, C)
  BY DEF DeniedInv, CliOK, RunRecords
<1>n. NoNetwork \notin C /\ "contained" \in Networks
  BY LifecycleAssumption DEF Networks
(* Steps that start no container and make no network.                      *)
<1>0. ASSUME run' = run, boot' = boot, NetworkIn(C) => NetworkIn(D)',
             \A t \in Twins :
               /\ container'[t].status # "absent" =>
                    /\ container[t].status # "absent"
                    /\ container'[t].denied = container[t].denied
                    /\ container'[t].network = container[t].network
               /\ container'[t].status = "running" => container[t].status = "running"
               /\ container[t].status = "running" /\ container[t].denied => networks'["contained"] = networks["contained"]
      PROVE  DeniedInv(D)'
  <2>1. \A p \in Runs : Checked(p, D)'
    BY <1>0, <1>d, CheckedStays
  <2>2. \A t \in Twins : Contained(t, D)'
    BY <1>0, <1>d, ContainedStays
  <2> QED
    BY <2>1, <2>2 DEF DeniedInv
<1>u. networks' = networks => (boot' = boot /\ NetworkIn(C) => NetworkIn(D)')
  BY DEF NetworkIn
<1>1. ASSUME NEW p \in Runs, RunStep(p) PROVE DeniedInv(D)'
  <2>1. boot' = boot
    BY <1>1 DEF RunStep, BeginRun, get_twin_container_status, _require_containment, get_network, create_network,
                create_twin_container, start_twin_container, FailRun, hostVars
  <2> QED
    BY <1>1, <2>1, DeniedRunStep
<1>2. ASSUME NEW q \in Stops, StopStep(q) PROVE DeniedInv(D)'
  <2>1. UNCHANGED <<boot, networks, run>>
    BY <1>2 DEF StopStep, BeginStop, stop_twin_container, remove_twin_container, FailStop, dockerVars, hostVars
  <2>2. ASSUME NEW t \in Twins
        PROVE  /\ container'[t].status # "absent" =>
                    /\ container[t].status # "absent"
                    /\ container'[t].denied = container[t].denied
                    /\ container'[t].network = container[t].network
               /\ container'[t].status = "running" => container[t].status = "running"
    <3>1. CASE stop_twin_container(q)
      BY <3>1 DEF stop_twin_container, DockerOK, Containers
    <3>2. CASE remove_twin_container(q)
      BY <3>2 DEF remove_twin_container, DockerOK, Absent
    <3>3. CASE BeginStop(q) \/ FailStop(q)
      BY <3>3 DEF BeginStop, FailStop, dockerVars
    <3> QED
      BY <1>2, <3>1, <3>2, <3>3 DEF StopStep
  <2> QED
    BY <1>0, <1>u, <2>1, <2>2
<1>3. ASSUME NEW t \in Twins, Regenerate(t) PROVE DeniedInv(D)'
  BY <1>0, <1>3, <1>u DEF Regenerate, hostVars, dockerVars, cliVars
<1>4. ASSUME NEW t \in Twins, ContainerExits(t) PROVE DeniedInv(D)'
  <2>1. UNCHANGED <<boot, networks, run>>
    BY <1>4 DEF ContainerExits, hostVars, cliVars
  <2>2. /\ container'[t].status = "exited" /\ container'[t].denied = container[t].denied
        /\ container'[t].network = container[t].network /\ container[t].status = "running"
        /\ \A u \in Twins \ {t} : container'[u] = container[u]
    BY <1>4 DEF ContainerExits, DockerOK, Containers
  <2> QED
    BY <1>0, <1>u, <2>1, <2>2
<1>5. ASSUME NEW n \in Networks, RemoveNetwork(n) PROVE DeniedInv(D)'
  <2>1. UNCHANGED <<boot, container, run>>
    BY <1>5 DEF RemoveNetwork, hostVars, cliVars
  <2>2. networks'["contained"] = IF n = "contained" THEN NoNetwork ELSE networks["contained"]
    BY <1>5, <1>n DEF RemoveNetwork, DockerOK
  <2>3. NetworkIn(C) => NetworkIn(D)'
    BY <2>1, <2>2 DEF NetworkIn
  <2>4. \A t \in Twins : container[t].status = "running" /\ container[t].denied => networks'["contained"] = networks["contained"]
    BY <1>5, <1>d, <2>2 DEF RemoveNetwork, Contained
  <2> QED
    BY <1>0, <2>1, <2>3, <2>4
<1>6. CASE HostStep
  <2>1. UNCHANGED <<boot, networks, container, run>>
    BY <1>6, SameStep DEF HostStep, dockerVars, cliVars
  <2> QED
    BY <1>0, <1>u, <2>1
<1>7. CASE Reboot
  <2>1. \A p \in Runs : run'[p].pc = "idle"
    BY <1>7, <1>d, IdleRunType DEF Reboot
  <2>2. \A t \in Twins :
          /\ container'[t].status = (IF container[t].status = "running" THEN "exited" ELSE container[t].status)
          /\ container'[t].denied = container[t].denied /\ container'[t].network = container[t].network
    BY <1>7 DEF Reboot, DockerOK, Containers
  <2>3. \A t \in Twins : Contained(t, D)'
    BY <1>d, <2>2 DEF Contained
  <2> QED
    BY <2>1, <2>3 DEF DeniedInv, Checked
<1>8. CASE UNCHANGED vars
  BY <1>0, <1>8, <1>u DEF vars, hostVars, dockerVars, cliVars
<1> QED
  BY <1>1, <1>2, <1>3, <1>4, <1>5, <1>6, <1>7, <1>8 DEF Next

-----------------------------------------------------------------------------
(* One setup at a time: C is what the firewall covers.                     *)

Covered == {s \in Subnets : Host!Effective(s)}

(* For any number of twins, subnets and `run` and `stop` commands, with    *)
(* one containment-setup at a time, a running twin that was created to     *)
(* deny outbound traffic is on a network that the firewall covers          *)
(* (run.py:88-213, docker/client.py:62-91).                                *)
THEOREM DeniedTwinsAlwaysCovered ==
  ASSUME Undisturbed
  PROVE  Spec => []DeniedTwinsCovered
<1>0. HP!Undisturbed
  BY DEF Undisturbed, HP!Undisturbed, HP!OneSetup
<1>1. HP!Spec => []HP!TypeOK
  BY HP!TypeCorrect, LifecycleAssumption
<1>2. HP!Spec => []HP!MarkerTruthful
  BY <1>0, HP!MarkerNeverLies, LifecycleAssumption
<1>3. HP!Spec => HP!CoverageStable
  BY <1>0, HP!CoverageLasts, LifecycleAssumption
<1>e. (\A s \in Subnets : Host!Effective(s) <=> HP!Effective(s))'
  BY SameEffective, PTL
<1>4. ASSUME HP!TypeOK, HP!MarkerTruthful, DockerOK, CliOK, DeniedInv(Covered), [Next]_vars,
             [\A s \in Subnets \ {}' : HP!Effective(s) /\ boot' = boot => HP!Effective(s)']_HP!vars
      PROVE  DeniedInv(Covered)'
  <2>1. boot' = boot => Covered \subseteq Covered'
    <3>1. CASE \A s \in Subnets \ {}' : HP!Effective(s) /\ boot' = boot => HP!Effective(s)'
      BY <1>e, <3>1, SameHost DEF Covered
    <3>2. CASE UNCHANGED HP!vars
      BY <1>e, <3>2 DEF HP!vars, Covered, Host!Effective, Host!EgressDropped, Host!RepliesFlow, Host!Contains
    <3> QED
      BY <1>4, <3>1, <3>2
  <2>2. Covered \in SUBSET Subnets /\ \A s \in Subnets : Host!evaluate(s) = "active" => s \in Covered
    BY <1>4, SameHost DEF HP!MarkerTruthful, Covered
  <2>3. PICK C, D : C = Covered /\ D = Covered'
    OBVIOUS
  <2>4. DeniedInv(C)
    BY <1>4, <2>3
  <2>5. DeniedInv(D)'
    BY <1>4, <2>1, <2>2, <2>3, <2>4, DeniedStep
  <2> QED
    BY <2>3, <2>5 DEF DeniedInv, Checked, Contained, NetworkIn
<1>5. DeniedInv(Covered) => DeniedTwinsCovered
  BY DEF DeniedInv, Contained, Covered, DeniedTwinsCovered
<1>6. Init => DeniedInv(Covered)
  BY DeniedInit
<1> QED
  BY <1>1, <1>2, <1>3, <1>4, <1>5, <1>6, HostSpec, TypeInit, TypeStep, PTL DEF Spec, HP!CoverageStable

-----------------------------------------------------------------------------
(* Any number of setups: C is the subnets that have every rule or will be  *)
(* given it by a setup on its way.                                         *)

Secured == {s \in Subnets : \A i \in 1..4 : HP!Kept(s, i)}

(* Setups that overlap can uncover a network that a twin has just been     *)
(* found safe on, so a denied twin can start uncovered.  None stays so:    *)
(* with no setup running, every running denied twin is on a network that   *)
(* the firewall covers.                                                    *)
SettledCovered == Host!AllIdle => DeniedTwinsCovered

(* Within a boot a secured subnet stays secured.                           *)
LEMMA SecuredStays ==
  ASSUME ~ MayAbort, HP!TypeOK, HP!SettleInv, [HP!Next]_HP!vars, boot' = boot
  PROVE  Secured \subseteq Secured'
<1>1. ASSUME NEW s \in Subnets, \A i \in 1..4 : HP!Kept(s, i), NEW i \in 1..4 PROVE HP!Kept(s, i)'
  BY <1>1, HP!SettleStep, LifecycleAssumption DEF HP!KeepsKept
<1> QED
  BY <1>1 DEF Secured

(* For any number of containment-setups none of which is killed, twins,    *)
(* networks, `run` and `stop` commands, on a host with a boot id: the race *)
(* between `run` and overlapping setups is transient (run.py:88-213,       *)
(* firewall.py install_rules).                                             *)
THEOREM DeniedTwinsSettleCovered ==
  ASSUME ~ MayAbort, HasBootId
  PROVE  Spec => []SettledCovered
<1>1. HP!Spec => []HP!TypeOK
  BY HP!TypeCorrect, LifecycleAssumption
<1>2. HP!Spec => []HP!SettleInv
  BY HP!SettleInvariant, LifecycleAssumption
<1>3. Init => DeniedInv(Secured)
  BY DeniedInit
<1>4. ASSUME HP!TypeOK, HP!SettleInv, DockerOK, CliOK, DeniedInv(Secured), [Next]_vars
      PROVE  DeniedInv(Secured)'
  <2>1. boot' = boot => Secured \subseteq Secured'
    BY <1>4, HostNext, SecuredStays
  <2>2. Secured \in SUBSET Subnets /\ \A s \in Subnets : Host!evaluate(s) = "active" => s \in Secured
    BY <1>4, SameHost DEF HP!SettleInv, HP!MarkerKept, HP!evaluate, Secured
  <2>3. PICK C, D : C = Secured /\ D = Secured'
    OBVIOUS
  <2>4. DeniedInv(C)
    BY <1>4, <2>3
  <2>5. DeniedInv(D)'
    BY <1>4, <2>1, <2>2, <2>3, <2>4, DeniedStep
  <2> QED
    BY <2>3, <2>5 DEF DeniedInv, Checked, Contained, NetworkIn
<1>5. ASSUME HP!TypeOK, HP!SettleInv, DeniedInv(Secured) PROVE SettledCovered
  <2> SUFFICES ASSUME Host!AllIdle, NEW t \in Twins, container[t].status = "running", container[t].denied
               PROVE  container[t].network = "contained" /\ Host!Effective(networks["contained"])
    BY DEF SettledCovered, DeniedTwinsCovered
  <2>1. container[t].network = "contained" /\ networks["contained"] \in Secured
    BY <1>5 DEF DeniedInv, Contained
  <2>2. HP!AllIdle
    BY DEF Host!AllIdle, HP!AllIdle, Host!At, HP!At
  <2>3. HP!Effective(networks["contained"])
    BY <1>5, <2>1, <2>2, HP!KeptEffective, LifecycleAssumption DEF Secured
  <2> QED
    BY <2>1, <2>3, SameHost DEF Secured
<1> QED
  BY <1>1, <1>2, <1>3, <1>4, <1>5, HostSpec, TypeInit, TypeStep, PTL DEF Spec

=============================================================================
