# A TLA+ model of HoneyTwin

HoneyTwin scans a host with nmap, generates a *twin* of it (ports and banners),
and runs the twin as a Docker container that records every connection. The
promise that makes it safe to run is *egress containment*: a twin that denies
outbound traffic cannot reach anything by itself. This directory models the
parts of the program that keep state, checks them with TLC and proves the
central ones with TLAPS. Source references are to `src/honeytwin/`.

## Inventory

| Component | State it keeps | Operations | Hard behaviour | What makes it correct |
|---|---|---|---|---|
| Egress containment: `containment/firewall.py`, `containment/marker.py`, `cli/commands/containment.py` | iptables rules in two chains, `containment.json` | `containment-setup` (-C, -D, -I calls, then the marker), `containment-status` | no locking between invocations, failure between any two calls, reboots, other programs editing rules, changed subnet | an active marker is true; coverage is not lost within a boot; a complete set is in order |
| Twin lifecycle: `cli/commands/run.py`, `stop.py`, `docker/client.py` | Docker networks and containers | `run`, `stop` | check and start several calls apart, lookup by name at each call, half-done commands | a running denied twin is on a covered subnet |
| Twin runtime: `runtime/listener.py`, `runtime/__main__.py` | asyncio tasks, servers | read config, bind, accept, capture, record, stop on a signal | interleaved connections, resets, held-open clients, blocking calls in the loop, SIGKILL | what is recorded is what was sent, up to the cap; a clean exit loses nothing; no handler starves |
| Event log: `logging/*.py` | `events.jsonl`, `attackers/<ip>.json` | append, read-modify-write, forward to syslog | partial writes, truncated records, restarts on one directory, blocked collector | one failure costs one event or one record, and nothing that was logged goes away |
| Profile store: `profile/store.py`, used by `cli/commands/scan.py`, `scan/import_.py` | `profiles/`, `raw-xml/` | scan, import, save, load | check-then-open, interrupted saves, importing what is being written, two independent counts | a scan never alters an earlier profile; profile and raw XML correlate |
| nmap runner: `scan/nmap_runner.py`, `xml_parser.py`, `profiles.py` | a process, two pipes, two threads, a temporary file | run with a timeout | timeout against exit, full pipes, threads joined with a timeout, children that outlive nmap | it ends, reports the right error, returns a complete file, leaves nothing behind but what it cannot help |
| Generator: `generate/*.py`, `cli/commands/generate.py`, `list.py` | `twins/<name>/config.json` | generate, load, list | torn files, rewritten between two reads | though host and container may see two configurations, a port answers only where the scan found it open; a torn file is never used; a list that is printed is complete |
| Configuration: `config/*.py`, `cli/commands/_common.py` | the operator's `config.yaml` | load | read while edited, malformed, silent | outbound traffic needs the operator's word |
| CLI wiring, warnings, packaging | none | | | |

How they meet: `run` trusts the *marker* and not the firewall, because it
refuses to be root; the *subnet* named in the settings is what ties marker,
rules and Docker network together; `generate` bakes settings and a profile into
the file that `run` reads once and the container again; the container writes a
log directory mounted from the host, which outlives it. `PROJECT.json` lists
every hazard at its line.

## Modules

| Module | Models | EXTENDS / INSTANCE |
|---|---|---|
| `EgressPromise` | abstract: subnets covered, promised, disowned | |
| `Containment` | rules, marker, boot id, `containment-setup` | `Promise == INSTANCE EgressPromise` with a refinement mapping |
| `Containment_proofs` | theorems about it | `Containment` |
| `ContainmentSettles_proofs` | theorems about setups that overlap | `Containment_proofs` |
| `TwinLifecycle` | `run`, `stop`, networks, containers, composed with the host side | `Host == INSTANCE Containment` on the same variables |
| `Recorder` | abstract: connections seen, the sequence of lines, connections lost for good | |
| `EventLog` | operations on one log directory | |
| `Listener` | the process in the container, and the next one on its log | `LogDir == INSTANCE EventLog`, `Promise == INSTANCE Recorder` with a refinement mapping |
| `NmapRunner` | one `run_nmap` and the nmap it runs | |
| `ProfileStore` | `scan` and `scan --import` on the two directories | |
| `TwinConfigs` | settings, `generate`, the two readers of `config.json`, `list` | |
| `TwinLifecycle_proofs` | theorems about it | `TwinLifecycle`, `HP == INSTANCE ContainmentSettles_proofs` |
| `Listener_proofs`, `NmapRunner_proofs`, `ProfileStore_proofs`, `TwinConfigs_proofs` | theorems about the module they are named after | that module |
| `MC*` | symmetry sets and input sets for TLC; values in the `.cfg` files | the module they are named after |

**Containment.** `table[s][c]` is what chain `c` holds about subnet `s`; rules of
disjoint subnets match different packets, so their relative order is left out.
Each `iptables` call of `install_rules` and `remove_rules` is one action at its
place in the program (`CheckRule`, `ProbeRule`, `DeleteRule`, `InsertRule`), and
`write_marker` is two, since `write_text` truncates before it writes.
`DeleteVanished` is a `-D` that fails because another invocation deleted the
rule first; `AbortSetup` is any other failure or a kill, at any step. `Reboot`
empties the tables and keeps the marker; a host that restores rules at boot is
left out (`run` refuses there until the next setup, since the boot id changed).
`Tamper` is another program deleting rules. No command could notice, since the
marker is all `run` may read (docs/containment.md says so), so the history
variable `foreign` remembers the subnets it happened to since boot: the
properties about the marker speak of the others, and `EgressPromise` has an
action `Disown` for it. `Effective(s)` is what the rules are for: in both chains
a drop exists and an accept comes first.

**TwinLifecycle.** `run` is `get_twin_container_status`, `_require_containment`
(which evaluates the marker for the subnet of *its* settings), `get_network` and
`create_network` (`create_bridge_network`, `create_macvlan_network`),
`create_twin_container`, `start_twin_container`; every Docker call is one atomic
step of the daemon and any of them may fail (`FailRun`), with nothing undone.
Docker is external: a name in use is refused, a network with a running container
cannot be removed, a container has no restart policy. The model starts a
container on the network that has its network's *name*; daemons that insist on
the network's identity fail instead, which `FailRun` covers. `Regenerate`
rewrites a twin's configuration at any time. Nothing else deletes rules here.

**Listener and EventLog.** A handler runs uninterrupted between awaits, so each
such stretch is an action. `_record_event` awaits nothing inside its lock: it
holds the whole loop (`loop`), from `write_event` to `update_attacker_record`,
which makes the lock itself redundant. Bytes are counted. `peer` is what the
socket will report: data, end of file, a reset, or another `OSError`. asyncio is
external, as in the image's Python 3.12: a `StreamReader` with an exception
raises it whatever it has buffered, `Server.wait_closed` waits for the open
connections, and a handler whose connection closes runs to its end before
`run_listeners` is woken. A connection in the backlog counts as not accepted.
A recording step may raise (`Fault`), before or after it has written something:
`CutLine` leaves an incomplete line at the end of `events.jsonl`, to which the
next event is then appended, `BreakRecord` an attacker record that no longer
parses, which every later update refuses. `Kill` may do either to the handler
that holds the loop or is about to. `Start` is the next container of the twin,
with a fresh process and the old directory. `cuts` and `returned` are history.
`events` is a sequence, and so are `Recorder`'s lines, so that a second line for
one connection would be one that `Recorder` does not allow.

**NmapRunner.** The calling thread, the two reader threads and nmap are three
kinds of process; a pipe is a queue of at most `PipeSize` lines, on which nmap
blocks. `StartThread` is one of the two `Thread.start()`, either of which may
raise when there are no threads to be had: the call then unlinks its file and
leaves nmap running ("no thread"). Timeouts have no length: `WaitExpires` may
happen whenever nmap still runs, and a join that times out is a join on a thread
that cannot go on by itself (`Stuck`: in the callback, or with all that nmap
wrote read and the pipe still open), since five seconds are ample for one that
can. nmap is external: it exits with 0 only after it wrote its XML, and children
of a wrapper may outlive it (`held`), keep its pipes open, write "later" lines to
them, and write the XML, also after the call has unlinked it. What goes to a pipe
after the call has ended is left out. `read_text` may fail.
`Interrupt` is Control-C.

**ProfileStore.** One target and one second, where names collide: `Read` takes a
text (one that parses, one that does not, or a retained raw XML that another
invocation may be writing), `Parse` refuses it or goes on, and then each
`exists()` of `_unique_path`, each opening and each writing of a file is a step.
`earlier` and `disturbed` are history variables.

**TwinConfigs.** `config.yaml` is silent about `allow_outbound`, says true, or is
malformed; a cut YAML file is a silent one, since it still parses. `generate` is
`BeginGenerate` (settings and profile are read and merged), `OpenConfig` (the
file is truncated) and `WriteConfig`; two that overlap may leave the end of one
text after the other. `BeginRun` is the read of `run`, `ReadConfig` the one of
the process in the container; ports are published from the first and bound from
the second. On a bridge a port is reachable if both have it, on macvlan, where
nothing is published, if it is bound; any of the binds may fail. A torn file is
"broken", or "undecodable" when a UTF-8 character was cut, which
`load_twin_config` does not convert to its own error. `list_twin_names` and one
`Row` per twin are `list`; an undecodable file, or an error of Docker, ends it
with a traceback and no table. `current`, a history variable, holds the profiles
that a start may go by: the one `run` decided by and those that were being
generated into its twin since. `OneReader` is a bound: readers change no file, so
they are looked at one at a time.

## Runs

| Run | Question | Instance |
|---|---|---|
| `containment_single` | Does presence of all rules imply their order, is the marker truthful, is coverage stable, is `EgressPromise` implemented, with one setup at a time failing anywhere and something else deleting rules? | 1 setup, 2 subnets, 3 boots, aborts, foreign deletions |
| `containment_concurrent` | Do interleaved setups that finish leave effective containment, and a truthful marker? | 2 setups, 2 subnets, 2 boots |
| `containment_order` | *violated*: and if one of them is killed? | 2 setups, 1 subnet, aborts |
| `twin_covered` | Is every running denied twin covered? | 1 setup, 1 run, 1 stop, 1 twin, 2 subnets, 2 boots |
| `twin_race` | *violated*: and with two setups at once? | 2 setups, 1 run, 1 subnet |
| `listener_twin` | Is what is recorded right, what may be missing after a clean exit, what do a fault, a kill and a restart cost, is `Recorder` implemented, does every handler get through? | 1 port with a banner, 2 clients, cap 1, reads of 2, up to 2 bytes, 1 fault, 2 containers |
| `listener_kept` | *violated*: is everything sent recorded? | 1 client, 2 ports |
| `listener_stop` | *violated*: does the process end after SIGTERM? | 1 client, fair loop |
| `nmap` | Does `run_nmap` end, with the right error or a complete file; what may it leave behind; are full pipes read? | pipes of 1 line, 2 lines each |
| `profile_concurrent` | Does a scan leave alone what was there when it began; do the two directories correlate? | 2 invocations at once, 4 in all, failures |
| `profile_race` | *violated*: and what another scan saved meanwhile? | 2 scans |
| `twin_configs` | Does anything but the operator's word allow outbound traffic; can a port answer that no current profile has open; does a printed list miss a twin? | 2 twins, 2 generates, 2 profiles, failures |

Why the bounds are enough. A rule sequence has four rules and a second subnet is
what a change of `bridge_subnet` needs; a marker differs from the current boot in
one way only, so two boots show staleness and a third a second reboot over a
stale marker; the theorems remove all three bounds. Two setups are enough to
interleave; the runs that fail already fail with two. One `run` and one `stop`
meet through Docker names, and a regenerated configuration gives the one twin
every kind. A cap of 1 with reads of 2 has payloads below, at and above the cap
and a read across it; connections differ by port only in the banner, and the two
clients are enough for one to find the line the other's write was cut on. One
fault and one kill put two imperfections into one log. A pipe of one line is full
at once, and a second line makes nmap block; a third would repeat it. Four texts
fill names 0 to 3, so a number is taken twice and a retained text imported while
it is written. Two generates overlap, and a second twin is what `list` must not
lose when the first one breaks. Deadlock is checked in every run of
`Containment`, `TwinLifecycle` and `TwinConfigs`; `Listener` really stops (exit
or kill of the last container), `NmapRunner` when the call has ended, and
`ProfileStore` when the bound on scans is reached.

What the violated runs show, with the lines they contradict, is in `PROJECT.json`
under `findings`:

- two overlapping `containment-setup`, one killed, can leave a drop above its
  accept with all rules present; every later setup says "already in place";
- with two overlapping setups, `run` can start a denied twin while one of them
  has the rules cleared, on the strength of the other's marker;
- a client that sends and then resets is recorded with an empty payload;
- a client that holds its connection open keeps the process alive after SIGTERM
  until `docker stop` kills it, and is then not recorded at all;
- two scans of one target that finish in the same second can overwrite each other.

What the passing runs except by name is worth a reader's attention too:

- `CleanExitRecordsAll` owes nothing to a handler that ends with another
  `OSError` than a reset, which leaves no event; every other line or session that
  is missing after a clean exit is paid for by one fault or one cut line, and a
  broken attacker record counts nothing any more;
- `AnswersWhereOpen` lets either protocol open a port: an open udp entry becomes a
  TCP listener. A regeneration between the two reads may leave a twin that
  publishes one profile and binds another, or serves nothing at all;
- `NothingLeft` leaves out interrupts, one of which, between `mkstemp` and the
  `try`, leaves the temporary file; a thread that cannot be started, which leaves
  nmap running; and children that outlive an nmap that failed or was killed, which
  may create the file again;
- `ListComplete` speaks of tables that are printed: one undecodable configuration,
  or an error of Docker on one twin, ends `list` with a traceback, though list.py
  calls Docker optional (lines 3-8);
- `Correlated` speaks only of saves that neither overlap nor fail halfway, after
  which profile and raw XML are numbered apart for good;
- `CoverageStable` says nothing of a subnet whose rules something else deleted,
  until the reboot, even if a later setup repaired it.

## Fairness

`Listener` and `NmapRunner` have liveness properties. `FairSpec` of `Listener`
asks weak fairness of each handler and of `run_listeners`: asyncio runs every
ready callback in turn, and the blocking steps inside the lock all end (the
syslog socket has a timeout). Nothing is asked of clients, signals or kills, so
"the client closes" is always a premise, and `Kill` an allowed end.

`NmapRunner` asks weak fairness of the calling thread and of each reader thread,
which the operating system runs. Nothing is asked of nmap, its children, the
callback or the user. `PipesDrained` holds without the timeout: draining must
not depend on it. `AlwaysEnds` has the timeout as its premise (`Timeout`, weak
fairness of `WaitExpires`), as the code does.

## Proofs

Every theorem holds for any values of the constants that satisfy the module's
`ASSUME`; sizes, bounds on boots, faults, scans or containers are arbitrary.

| Module | Theorem | Says: `Spec =>` | Under |
|---|---|---|---|
| `Containment_proofs` | `TypeCorrect` | `[]TypeOK` | |
| | `InPlaceOrdered` | `[]InPlaceMeansOrdered` | one setup at a time |
| | `MarkerNeverLies` | `[]MarkerTruthful` | `Undisturbed`: one setup at a time, a boot id |
| | `CoverageLasts` | `CoverageStable` | `Undisturbed` |
| | `ContainmentKeepsPromise` | `KeepsPromise`, the refinement of `EgressPromise` | `Undisturbed` |
| `ContainmentSettles_proofs` | `SetupsSettle` | `[]SettledEffective` | no kills, no failures of a call's own |
| | `SettledMarkerTruthful` | `[]SettledTruthful` | the same, a boot id |
| | `SetupsLeaveOrder` | `[]SettledInOrder`: no drop above its accept once no setup runs | no kills, no failures of a call's own |
| `TwinLifecycle_proofs` | `TypeCorrect` | `[]TypeOK` | |
| | `DeniedTwinsAlwaysCovered` | `[]DeniedTwinsCovered` | `Undisturbed` |
| | `DeniedTwinsSettleCovered` | `[]SettledCovered`: `DeniedTwinsCovered` whenever no setup runs | no kills, a boot id |
| `Listener_proofs` | `TypeCorrect` | `[]TypeOK` | |
| | `PayloadsRecorded` | `[]RecordedPayload` | |
| | `CleanExitRecords` | `[]CleanExitRecordsAll` | finitely many connections |
| | `ListenerKeepsLog` | `KeepsLog`, the refinement of `Recorder` | |
| | `CutCostsAtMostOneLine` | `[]CutsCostOneLine` | finitely many connections |
| | `SessionsCounted` | `[]SessionCountExact` | finitely many connections |
| `NmapRunner_proofs` | `TypeCorrect` | `[]TypeOK` | |
| | `NothingIsLeft` | `[]NothingLeft` | |
| | `ReadXmlIsComplete` | `[]XmlComplete` | |
| | `ErrorIsRight` | `[]RightError` | |
| `TwinConfigs_proofs` | `TypeCorrect` | `[]TypeOK` | |
| | `OutboundNeedsConsent` | `[]OutboundConsented` | |
| | `AnswersOnlyWhereOpen` | `[]AnswersWhereOpen` | |
| | `ListMissesNone` | `[]ListComplete` | |
| `ProfileStore_proofs` | `TypeCorrect` | `[]TypeOK` | |
| | `EarlierProfilesKept` | `[]EarlierKept` | |
| | `ProfilesCorrelate` | `[]Correlated` | |

The hypotheses are needed: `containment_order` and `twin_race` refute the
properties for two setups, one of them killed in the first case, and
`SetupsLeaveOrder` shows that it takes that kill. Failures, kills
and foreign deletions are allowed wherever the last column does not say
otherwise; "no kills" is `~ MayAbort`, under which a `-D` still fails on a rule
that another invocation deleted first.

None of the properties is inductive. What is, and why:

**Containment.** The argument replaces each chain by the *set* of its rules:
`Live[s]` are the rules subnet `s` has, and `Tidy` says every chain is a
subsequence of accept, drop. Then
- `DeleteEffect` and `InsertEffect` reduce `-D` and `-I 1` to removing and adding
  one element of `Live`; the second needs that no earlier rule is live, which is
  why leftovers are cleared first and rules inserted in reverse;
- `FullSetEffective` turns `Effective` and `rules_installed` into `Live[s] = 1..4`;
- `OrderInv` (`Tidy` and `Cleared`: how far clearing has come) is inductive even
  with foreign deletions, which only shrink `Live`;
- `CoverInv` adds `Progress` (what an invocation's place says about `Live`) and
  `MarkerHonest` (a marker of this boot names a complete set), both for the
  subnets that are not `foreign`.

**Setups that overlap.** Chains may then hold duplicates in any order, and
`Live` says too little. `SettleInv` speaks of obligations instead. A rule is
`Kept` if it is present or `Restored`: some invocation is past the point where it
could delete that rule and has its insertion ahead. `Claims(p)` are the rules
that `p` found or inserted and relies on. `ClaimsKept` (what anyone claims is
kept), `AcceptsHeaded` (a chain that holds anything starts with its accept, or
the accept will be inserted on top) and `MarkerKept` (the four rules of the
subnet a marker of this boot names are kept) are inductive for any number of
invocations: who deletes a rule first failed to find some rule of the subnet, so
it goes on to insert them all, and who fails on a vanished rule leaves that to
the one that deleted it. Where nobody runs nothing is restored, so `Kept` means
present (`HeadedFlows`, `KeptEffective`).

**TwinLifecycle.** The proof is by composition: `HostSpec` shows that the host
side of every step is a step of `Containment`, instantiated as `HP` with no
foreign deletions, so its theorems apply as they stand. `DeniedInv(C)` then
carries what `run` learned, for a set `C` of subnets that keeps its members until
a reboot: `Covered`, the contained ones, with one setup at a time; `Secured`,
those whose rules are `Kept`, with many. `Checked(p)`: past the containment
check, the subnet of a denying run is in `C`, and past the network step the network called
"contained" is; `Contained(t)`: a denying container is on that network, which
cannot be replaced under a running container. `CoverageLasts`, or `SecuredStays`,
is what keeps a check valid until a reboot, which ends commands and containers
alike. So the race that `twin_race` finds is transient: with setups that are not
killed, a twin can be uncovered only while one of them runs.

**Listener.** `PayloadInv` follows a payload through the loop of
`_capture_payload`: collected bytes (`CaptureInv`), then the event (`EventInv`).
For the refinement it is enough that an event is written by its own handler, and
once. `EndInv` says that a process that ended by itself left no handler under
way, and none raised except by an error no clause catches. `DebtInv` does the
accounts: connections past `write_event` without a line (`Unlogged`), the line
that a cut tail will still swallow, and connections done without a session
(`MissDebt`) are together no more than faults and cuts, at every moment: a step
that costs one of them is a fault or a cut itself. `CountInv` pays for events that returned but cannot be parsed, the one that
a cut tail will still swallow included, with `cuts`, and counts the updates that
returned in `session_count`; both are cardinalities, hence the finite set.

**NmapRunner.** `ProcessInv` places the process for each point of the caller and
`FileInv` the XML in the file. `RightError` reads `lines` after a join that may
have timed out, so `StderrInv` says what can still be missing then: nothing, if
nmap has exited and its lines are read, unless the reader died (`Silent`); what
children still write is no marker.

**TwinConfigs.** `ConsentInv` makes every hand-over inherit consent (settings,
`generate`, `config.json`, both reads), `CurrentInv` that what the twin's file
holds, and what the `generate`s under way will put there, is `current`, `ListInv` that a steady twin is
still to come or has its row.

**ProfileStore.** `StoreInv` bounds the counting loop, which nothing in its code
does: a file is only ever added, so the taken numbers of a directory and the
invocations that may still add one (`Pending`) are together no more than the
texts there have been (`Counting`), and the loop has passed over taken numbers
only (`Passing`). `ChoiceInv` adds that what was there when a save began is still
there, so the count never stops at one of those numbers. `OrderInv` describes the
one save that is under way while none interferes: every number it does not touch
holds a pair (`Matched`), and once its profile is written under `m`, every number
below `m` is taken in both directories and `m` is free in `raw-xml`, so that the
second count must stop at `m` as well (`ProfileAt`).

Only model-checked: liveness (`HandlersFinish`, `PipesDrained`, `AlwaysEnds`),
which is out of the prover's reach, and whatever a run finds violated. The other
way round, three statements are wider in the proof than in a run:
`containment_concurrent` has no foreign deletions, with which two setups are too
many states; `SettledInOrder` has no run of its own, being a part of what
`SettledEffective` needs; nor has `SettledCovered`, since the smallest instance
with two setups and a `run` takes TLC about five minutes (it held there).

## Not modelled

The fields of the XML other than whether the text parses, the copying of
banners, validation of settings other than `allow_outbound` and `bridge_subnet`,
warnings, packaging: no state, or data only. `containment-status` reads what
`evaluate` and `rules_installed` define. File contents other than whole, torn or
empty; the length of timeouts, so not how long a blocked syslog collector stops
a twin; descriptors and memory; the environment of `sudo` (a different home
directory gives a different marker, and `run` then refuses); names of twins that
sanitise to one directory. A host without a boot id is a constant of
`Containment` (`HasBootId`) that no run sets to FALSE: an earlier boot's marker is
then reported active, as the tests expect. `remove_marker`, `load_raw_xml`,
`resolve_twin_config` and the `load_twin_config` of `config/loader.py` have no
caller.

## Plan

In the order of importance, and where it stands:

1. Egress containment: `Containment`, its abstraction `EgressPromise`; all its
   properties that hold proved, for one setup and for many. Done.
2. `TwinLifecycle`, composed with it on the same variables; proved from its
   theorems. Done.
3. `Listener` over `EventLog`, with faults, kills and restarts, and its
   abstraction `Recorder`; safety proved, liveness checked. Done.
4. `NmapRunner`: threads, pipes, timeouts; safety proved, liveness checked. Done.
5. `ProfileStore`: `scan` and `scan --import` as a whole; proved. Done.
6. `TwinConfigs`: settings, `generate`, the readers; proved. Done.

Left:

- a limit on descriptors in `Listener`, if the code ever promises anything there;
- divergences that are stated in prose only: a host without a boot id, udp entries
  that become TCP listeners, a `list` that ends with a traceback, an nmap that is
  left running when a thread cannot be started;
- the listener started by `TwinLifecycle`, so that a restart after a reboot and
  the containment of that boot are one behaviour.
