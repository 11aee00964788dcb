----------------------------- MODULE TwinLifecycle -----------------------------
(***************************************************************************)
(* The life of twin containers on one host: `honeytwin run`                *)
(* (cli/commands/run.py) checks containment, picks a Docker network,       *)
(* creates a container and starts it; `honeytwin stop`                     *)
(* (cli/commands/stop.py) stops and removes it.  Each Docker call is one   *)
(* atomic step of the daemon, containers and networks are found by name at *)
(* every call, and nothing locks one command against another.              *)
(*                                                                         *)
(* The firewall, the marker and containment-setup are those of             *)
(* Containment, on the same variables.                                     *)
(***************************************************************************)
EXTENDS Naturals

CONSTANTS
  Setups, NoMarker, Subnets, MaxBoot, HasBootId, MayAbort,   (* Containment's *)
  Twins,         (* the names of the generated twins                       *)
  Runs,          (* `run` invocations that may be under way at once        *)
  Stops,         (* `stop` invocations that may be under way at once       *)
  NoNetwork,     (* a Docker network that does not exist                   *)
  EgressSubnet,  (* the bridge_egress_subnet setting                       *)
  MacvlanSubnet  (* the macvlan_subnet setting                             *)

ASSUME LifecycleAssumption ==
  /\ MaxBoot \in Nat \ {0}
  /\ NoMarker \notin [subnet : Subnets, boot : 0..MaxBoot]
  /\ HasBootId \in BOOLEAN
  /\ MayAbort \in BOOLEAN
  /\ NoNetwork \notin Subnets \cup {EgressSubnet, MacvlanSubnet}
  /\ EgressSubnet \notin Subnets
  /\ MacvlanSubnet \notin Subnets

VARIABLES
  table, marker, boot, setup,   (* Containment's                           *)
  config,      (* config[t]: what the twin's config.json says              *)
  networks,    (* networks[n]: the subnet of Docker network n              *)
  container,   (* container[t]: the container named t                      *)
  run,         (* run[p]: where `run` invocation p is                      *)
  stop         (* stop[q]: where `stop` invocation q is                    *)

(* Nothing but containment-setup and a reboot touches the firewall here.   *)
Host == INSTANCE Containment WITH MayTamper <- FALSE, foreign <- {}

hostVars   == <<table, marker, boot, setup>>
dockerVars == <<networks, container>>
cliVars    == <<run, stop>>
vars       == <<hostVars, config, dockerVars, cliVars>>

-----------------------------------------------------------------------------

Configs == [denied : BOOLEAN, mode : {"bridge", "macvlan"}]

Networks == {"contained", "egress", "macvlan"}

(* `denied` remembers what the configuration said when the container was   *)
(* created.                                                                *)
Absent     == [status |-> "absent", network |-> "contained", denied |-> FALSE]
Containers == [status : {"absent", "created", "running", "exited"},
               network : Networks, denied : BOOLEAN]

RunSteps == {"idle", "status", "contain", "network", "make network", "create", "start"}

RunRecords  == [pc : RunSteps, twin : Twins, subnet : Subnets \cup {NoNetwork}, config : Configs]
StopRecords == [pc : {"idle", "stop", "remove"}, twin : Twins]

IdleRun(t) == [pc |-> "idle", twin |-> t, subnet |-> NoNetwork,
               config |-> [denied |-> TRUE, mode |-> "bridge"]]

TypeOK ==
  /\ Host!TypeOK
  /\ config \in [Twins -> Configs]
  /\ networks \in [Networks -> Subnets \cup {EgressSubnet, MacvlanSubnet, NoNetwork}]
  /\ container \in [Twins -> Containers]
  /\ run \in [Runs -> RunRecords]
  /\ stop \in [Stops -> StopRecords]

Init ==
  /\ Host!Init
  /\ config \in [Twins -> Configs]
  /\ networks = [n \in Networks |-> NoNetwork]
  /\ container = [t \in Twins |-> Absent]
  /\ run \in [Runs -> {IdleRun(t) : t \in Twins}]
  /\ stop \in [Stops -> [pc : {"idle"}, twin : Twins]]

-----------------------------------------------------------------------------
(* `honeytwin run`.                                                        *)

RunAt(p, pc)    == run[p].pc = pc
RunGoto(p, pc)  == run' = [run EXCEPT ![p].pc = pc]
RunExit(p)      == run' = [run EXCEPT ![p] = IdleRun(@.twin)]

Network(p) ==
  IF run[p].config.mode = "macvlan" THEN "macvlan"
  ELSE IF run[p].config.denied THEN "contained" ELSE "egress"

(* Mutant: a macvlan_subnet that is not set is passed on, not refused.     *)
Wanted_Unset(p) ==
  IF run[p].config.mode = "macvlan" THEN "None"
  ELSE IF run[p].config.denied THEN run[p].subnet ELSE EgressSubnet

Wanted(p) ==
  IF run[p].config.mode = "macvlan" THEN MacvlanSubnet
  ELSE IF run[p].config.denied THEN run[p].subnet ELSE EgressSubnet

(* Not root; load_settings, load_twin_config and get_client succeed.       *)
BeginRun(p) == \E t \in Twins, s \in Subnets :
  /\ RunAt(p, "idle")
  /\ run' = [run EXCEPT ![p] = [pc |-> "status", twin |-> t, subnet |-> s,
                                config |-> config[t]]]
  /\ UNCHANGED <<hostVars, config, dockerVars, stop>>

(* Any container of that name, running or not, makes `run` refuse.         *)
get_twin_container_status(p) ==
  /\ RunAt(p, "status")
  /\ IF container[run[p].twin].status = "absent" THEN RunGoto(p, "contain")
     ELSE RunExit(p)
  /\ UNCHANGED <<hostVars, config, dockerVars, stop>>

_require_containment(p) ==
  /\ RunAt(p, "contain")
  /\ IF \/ ~ run[p].config.denied
        \/ run[p].config.mode = "bridge" /\ Host!evaluate(run[p].subnet) = "active"
     THEN RunGoto(p, "network")
     ELSE RunExit(p)
  /\ UNCHANGED <<hostVars, config, dockerVars, stop>>

(* Mutant: a bridge network of the right name is reused on any subnet.     *)
get_network_AnySubnet(p) ==
  /\ RunAt(p, "network")
  /\ RunGoto(p, IF networks[Network(p)] = NoNetwork THEN "make network" ELSE "create")
  /\ UNCHANGED <<hostVars, config, dockerVars, stop>>

(* networks.get: a bridge on another subnet is refused, a macvlan network  *)
(* of the right name is taken as it is.                                    *)
get_network(p) ==
  /\ RunAt(p, "network")
  /\ IF networks[Network(p)] = NoNetwork THEN RunGoto(p, "make network")
     ELSE IF Network(p) = "macvlan" \/ networks[Network(p)] = Wanted(p) THEN RunGoto(p, "create")
     ELSE RunExit(p)
  /\ UNCHANGED <<hostVars, config, dockerVars, stop>>

(* networks.create: the daemon refuses a name that now exists.             *)
create_network(p) ==
  /\ RunAt(p, "make network")
  /\ IF networks[Network(p)] = NoNetwork
     THEN networks' = [networks EXCEPT ![Network(p)] = Wanted(p)] /\ RunGoto(p, "create")
     ELSE RunExit(p) /\ UNCHANGED networks
  /\ UNCHANGED <<hostVars, config, container, stop>>

(* containers.create: the daemon refuses a name in use.                    *)
create_twin_container(p) ==
  /\ RunAt(p, "create")
  /\ IF container[run[p].twin].status = "absent"
     THEN /\ container' = [container EXCEPT ![run[p].twin] =
                             [status |-> "created", network |-> Network(p), denied |-> run[p].config.denied]]
          /\ RunGoto(p, "start")
     ELSE RunExit(p) /\ UNCHANGED container
  /\ UNCHANGED <<hostVars, config, networks, stop>>

(* containers.get by name, then start: whatever container has the name is  *)
(* started on the network that now has the name it was created with.       *)
start_twin_container(p) == LET t == run[p].twin IN
  /\ RunAt(p, "start")
  /\ container[t].status # "absent"
  /\ networks[container[t].network] # NoNetwork
  /\ container' = [container EXCEPT ![t].status = "running"]
  /\ RunExit(p)
  /\ UNCHANGED <<hostVars, config, networks, stop>>

(* A Docker call fails (no such container or network, a port in use), the  *)
(* macvlan settings are missing, or the invocation is killed; nothing is   *)
(* undone.                                                                 *)
FailRun(p) ==
  /\ ~ RunAt(p, "idle")
  /\ RunExit(p)
  /\ UNCHANGED <<hostVars, config, dockerVars, stop>>

RunStep(p) ==
  \/ BeginRun(p)
  \/ get_twin_container_status(p)
  \/ _require_containment(p)
  \/ get_network(p)
  \/ create_network(p)
  \/ create_twin_container(p)
  \/ start_twin_container(p)
  \/ FailRun(p)

-----------------------------------------------------------------------------
(* `honeytwin stop`.                                                       *)

BeginStop(q) == \E t \in Twins :
  /\ stop[q].pc = "idle"
  /\ container[t].status # "absent"
  /\ stop' = [stop EXCEPT ![q] = [pc |-> "stop", twin |-> t]]
  /\ UNCHANGED <<hostVars, config, dockerVars, run>>

stop_twin_container(q) == LET t == stop[q].twin IN
  /\ stop[q].pc = "stop"
  /\ container[t].status # "absent"
  /\ container' = [container EXCEPT ![t].status = IF @ = "running" THEN "exited" ELSE @]
  /\ stop' = [stop EXCEPT ![q].pc = "remove"]
  /\ UNCHANGED <<hostVars, config, networks, run>>

remove_twin_container(q) ==
  /\ stop[q].pc = "remove"
  /\ container[stop[q].twin].status # "absent"
  /\ container' = [container EXCEPT ![stop[q].twin] = Absent]
  /\ stop' = [stop EXCEPT ![q].pc = "idle"]
  /\ UNCHANGED <<hostVars, config, networks, run>>

(* NotFound from a container another command removed, or killed.           *)
FailStop(q) ==
  /\ stop[q].pc # "idle"
  /\ stop' = [stop EXCEPT ![q].pc = "idle"]
  /\ UNCHANGED <<hostVars, config, dockerVars, run>>

StopStep(q) == BeginStop(q) \/ stop_twin_container(q) \/ remove_twin_container(q) \/ FailStop(q)

-----------------------------------------------------------------------------
(* The rest of the host.                                                   *)

(* `honeytwin generate` rewrites config.json, whatever runs from it.       *)
Regenerate(t) == \E c \in Configs :
  /\ config' = [config EXCEPT ![t] = c]
  /\ UNCHANGED <<hostVars, dockerVars, cliVars>>

(* `docker network rm`, which the mismatch message asks the operator for;  *)
(* the daemon refuses it while a running container is attached.            *)
RemoveNetwork(n) ==
  /\ networks[n] # NoNetwork
  /\ \A t \in Twins : container[t].status = "running" => container[t].network # n
  /\ networks' = [networks EXCEPT ![n] = NoNetwork]
  /\ UNCHANGED <<hostVars, config, container, cliVars>>

ContainerExits(t) ==
  /\ container[t].status = "running"
  /\ container' = [container EXCEPT ![t].status = "exited"]
  /\ UNCHANGED <<hostVars, config, networks, cliVars>>

(* Containers have no restart policy, and networks survive.                *)
Reboot ==
  /\ Host!Reboot
  /\ container' = [t \in Twins |-> [container[t] EXCEPT !.status = IF @ = "running" THEN "exited" ELSE @]]
  /\ run' = [p \in Runs |-> IdleRun(run[p].twin)]
  /\ stop' = [q \in Stops |-> [stop[q] EXCEPT !.pc = "idle"]]
  /\ UNCHANGED <<config, networks>>

HostStep ==
  /\ \E p \in Setups : Host!Step(p)
  /\ UNCHANGED <<config, dockerVars, cliVars>>

Next ==
  \/ \E p \in Runs : RunStep(p)
  \/ \E q \in Stops : StopStep(q)
  \/ \E t \in Twins : Regenerate(t) \/ ContainerExits(t)
  \/ \E n \in Networks : RemoveNetwork(n)
  \/ HostStep
  \/ Reboot

Spec == Init /\ [][Next]_vars

-----------------------------------------------------------------------------
(* With one containment-setup at a time and nothing else deleting rules: a *)
(* running twin that was created to deny outbound traffic is on the        *)
(* contained bridge network, and the firewall covers the subnet that       *)
(* network has now; through reboots, changed settings, regenerated         *)
(* configurations, removed networks and concurrent run and stop commands   *)
(* that find containers and networks by name (run.py:88-213,               *)
(* docker/client.py:62-91).                                                *)
DeniedTwinsCovered == \A t \in Twins :
  container[t].status = "running" /\ container[t].denied =>
    /\ container[t].network = "contained"
    /\ Host!Effective(networks["contained"])

(* `run` refuses "to start a twin whose containment would not actually     *)
(* hold" (run.py:89): a denied twin is covered at the moment it starts.    *)
StartsCovered == [][\A t \in Twins :
  container[t].status # "running" /\ container'[t].status = "running" /\ container[t].denied
    => Host!Effective(networks["contained"])]_vars

=============================================================================
