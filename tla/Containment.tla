------------------------------ MODULE Containment ------------------------------
(***************************************************************************)
(* The host side of egress containment: the iptables rules that deny a     *)
(* twin subnet outbound traffic (containment/firewall.py), the marker file *)
(* that records they were installed (containment/marker.py), and the       *)
(* `containment-setup` invocations that write both                         *)
(* (cli/commands/containment.py).                                          *)
(*                                                                         *)
(* Every iptables call is one atomic step of the kernel, and nothing locks *)
(* one invocation against another, so the calls of several invocations     *)
(* interleave.  The rules of two disjoint subnets never match the same     *)
(* packet, so a chain is modelled as one sequence per subnet.              *)
(***************************************************************************)
EXTENDS Naturals, FiniteSets, Sequences, SequencesExt

CONSTANTS
  Setups,      (* containment-setup invocations that may run at once        *)
  NoMarker,    (* a marker file that is absent or does not parse            *)
  Subnets,     (* the values bridge_subnet may be given in the settings     *)
  MaxBoot,     (* bound: the number of times the host boots                 *)
  HasBootId,   (* whether the host has /proc/sys/kernel/random/boot_id      *)
  MayAbort,    (* whether an invocation may be killed or a call may fail    *)
  MayTamper    (* whether something else deletes rules without a reboot     *)

ASSUME ContainmentAssumption ==
  /\ MaxBoot \in Nat \ {0}
  /\ NoMarker \notin [subnet : Subnets, boot : 0..MaxBoot]
  /\ HasBootId \in BOOLEAN
  /\ MayAbort \in BOOLEAN
  /\ MayTamper \in BOOLEAN

VARIABLES
  table,    (* table[s][c]: the rules naming subnet s in chain c, top first *)
  marker,   (* what reading containment.json gives                          *)
  boot,     (* the number of the current boot                               *)
  setup,    (* setup[p]: where invocation p is                              *)
  foreign   (* history: the subnets that something else deleted a rule of   *)
            (* since the host booted; no code reads it                      *)

vars == <<table, marker, boot, setup, foreign>>

-----------------------------------------------------------------------------

Chains  == {"DOCKER-USER", "INPUT"}
Targets == {"accept", "drop"}

(* The four (chain, rule) pairs, in the order their chains must hold them. *)
egress_rules == << [chain |-> "DOCKER-USER", target |-> "accept"],
                   [chain |-> "DOCKER-USER", target |-> "drop"],
                   [chain |-> "INPUT",       target |-> "accept"],
                   [chain |-> "INPUT",       target |-> "drop"] >>

(* `iptables -C`, `-D` and `-I 1` on rule r of subnet s.                   *)
Present(s, r)  == Contains(table[s][r.chain], r.target)
Deleted(s, r)  == [table EXCEPT ![s][r.chain] = RemoveFirst(@, r.target)]
(* Mutant: -A, appending, where the code inserts at position 1.            *)
Inserted_Appending(s, r) == [table EXCEPT ![s][r.chain] = Append(@, r.target)]
Inserted(s, r) == [table EXCEPT ![s][r.chain] = <<r.target>> \o @]

rules_installed(s) == \A i \in 1..4 : Present(s, egress_rules[i])

-----------------------------------------------------------------------------

NoBootId == 0

read_boot_id == IF HasBootId THEN boot ELSE NoBootId

Markers == [subnet : Subnets, boot : 0..MaxBoot] \cup {NoMarker}

(* Mutant: a marker of an earlier boot still counts.                       *)
evaluate_AcrossBoots(s) ==
  IF marker = NoMarker THEN "missing"
  ELSE IF marker.subnet # s THEN "subnet-mismatch"
  ELSE "active"

evaluate(s) ==
  IF marker = NoMarker THEN "missing"
  ELSE IF marker.subnet # s THEN "subnet-mismatch"
  ELSE IF HasBootId /\ marker.boot # boot THEN "stale"
  ELSE "active"

-----------------------------------------------------------------------------
(* One invocation: load_settings, the presence checks of install_rules     *)
(* ("check"), remove_rules ("probe" and "delete"), the inserts in reverse  *)
(* ("insert"), then the two halves of Path.write_text: opening the marker  *)
(* truncates it ("truncate"), the new text follows ("write").              *)

PCs == {"idle", "check", "probe", "delete", "insert", "truncate", "write"}

Outcomes == {"none", "installed", "failed"}

SetupRecords == [pc : PCs, subnet : Subnets, rule : 1..4, outcome : Outcomes]

TypeOK ==
  /\ table \in [Subnets -> [Chains -> Seq(Targets)]]
  /\ marker \in Markers
  /\ boot \in 1..MaxBoot
  /\ setup \in [Setups -> SetupRecords]
  /\ foreign \subseteq Subnets

Init ==
  /\ table = [s \in Subnets |-> [c \in Chains |-> <<>>]]
  /\ marker = NoMarker
  /\ boot = 1
  /\ setup \in [Setups -> [pc : {"idle"}, subnet : Subnets, rule : {1}, outcome : {"none"}]]
  /\ foreign = {}

At(p, pc)       == setup[p].pc = pc
Rule(p)         == egress_rules[setup[p].rule]
Goto(p, pc, i)  == setup' = [setup EXCEPT ![p] = [@ EXCEPT !.pc = pc, !.rule = i]]
Exit(p, result) == setup' = [setup EXCEPT ![p] = [@ EXCEPT !.pc = "idle", !.outcome = result]]

(* The settings name the subnet; they may differ from one invocation to    *)
(* the next.                                                               *)
BeginSetup(p) == \E s \in Subnets :
  /\ At(p, "idle")
  /\ setup' = [setup EXCEPT ![p] = [pc |-> "check", subnet |-> s, rule |-> 1, outcome |-> "none"]]
  /\ UNCHANGED <<table, marker, boot, foreign>>

(* Mutant: always clears and reinstalls, complete set or not.              *)
CheckRule_Reinstalling(p) ==
  /\ At(p, "check")
  /\ Goto(p, "probe", 1)
  /\ UNCHANGED <<table, marker, boot, foreign>>

(* rules_installed: `all` stops at the first rule that is missing.         *)
CheckRule(p) ==
  /\ At(p, "check")
  /\ IF ~ Present(setup[p].subnet, Rule(p)) THEN Goto(p, "probe", 1)
     ELSE IF setup[p].rule < 4 THEN Goto(p, "check", setup[p].rule + 1)
     ELSE Goto(p, "truncate", 1)
  /\ UNCHANGED <<table, marker, boot, foreign>>

NextLeftover(p) ==
  IF setup[p].rule < 4 THEN Goto(p, "probe", setup[p].rule + 1) ELSE Goto(p, "insert", 4)

(* Mutant: inserts without clearing partial leftovers.                     *)
ProbeRule_KeepingLeftovers(p) ==
  /\ At(p, "probe")
  /\ NextLeftover(p)
  /\ UNCHANGED <<table, marker, boot, foreign>>

(* remove_rules looks before it deletes.                                   *)
ProbeRule(p) ==
  /\ At(p, "probe")
  /\ IF Present(setup[p].subnet, Rule(p)) THEN Goto(p, "delete", setup[p].rule) ELSE NextLeftover(p)
  /\ UNCHANGED <<table, marker, boot, foreign>>

DeleteRule(p) ==
  /\ At(p, "delete")
  /\ Present(setup[p].subnet, Rule(p))
  /\ table' = Deleted(setup[p].subnet, Rule(p))
  /\ NextLeftover(p)
  /\ UNCHANGED <<marker, boot, foreign>>

(* The rule went away between -C and -D: -D fails, FirewallError.          *)
DeleteVanished(p) ==
  /\ At(p, "delete")
  /\ ~ Present(setup[p].subnet, Rule(p))
  /\ Exit(p, "failed")
  /\ UNCHANGED <<table, marker, boot, foreign>>

(* Mutant: the countdown runs one rule too far.                            *)
InsertRule_OneTooMany(p) ==
  /\ At(p, "insert")
  /\ table' = Inserted(setup[p].subnet, Rule(p))
  /\ IF setup[p].rule >= 1 THEN Goto(p, "insert", setup[p].rule - 1) ELSE Goto(p, "truncate", 1)
  /\ UNCHANGED <<marker, boot, foreign>>

InsertRule(p) ==
  /\ At(p, "insert")
  /\ table' = Inserted(setup[p].subnet, Rule(p))
  /\ IF setup[p].rule > 1 THEN Goto(p, "insert", setup[p].rule - 1) ELSE Goto(p, "truncate", 1)
  /\ UNCHANGED <<marker, boot, foreign>>

TruncateMarker(p) ==
  /\ At(p, "truncate")
  /\ marker' = NoMarker
  /\ Goto(p, "write", 1)
  /\ UNCHANGED <<table, boot, foreign>>

(* A shorter text written over one that another invocation wrote after     *)
(* this one's truncation leaves the longer one's tail: no valid JSON.      *)
WriteMarker(p) ==
  /\ At(p, "write")
  /\ \/ marker' = [subnet |-> setup[p].subnet, boot |-> read_boot_id]
     \/ marker # NoMarker /\ marker' = NoMarker
  /\ Exit(p, "installed")
  /\ UNCHANGED <<table, boot, foreign>>

(* Mutant: the marker is written although install_rules raised.            *)
AbortSetup_StillMarking(p) ==
  /\ MayAbort
  /\ ~ At(p, "idle")
  /\ marker' = [subnet |-> setup[p].subnet, boot |-> read_boot_id]
  /\ Exit(p, "failed")
  /\ UNCHANGED <<table, boot, foreign>>

(* An iptables call fails for a reason of its own (xtables lock, missing   *)
(* chain), the marker cannot be written, or the invocation is killed.      *)
AbortSetup(p) ==
  /\ MayAbort
  /\ ~ At(p, "idle")
  /\ Exit(p, "failed")
  /\ UNCHANGED <<table, marker, boot, foreign>>

Step(p) ==
  \/ BeginSetup(p)
  \/ CheckRule(p)
  \/ ProbeRule(p)
  \/ DeleteRule(p)
  \/ DeleteVanished(p)
  \/ InsertRule(p)
  \/ TruncateMarker(p)
  \/ WriteMarker(p)
  \/ AbortSetup(p)

(* A reboot empties the tables, kills every process and keeps the file.    *)
Reboot ==
  /\ boot < MaxBoot
  /\ boot' = boot + 1
  /\ table' = [s \in Subnets |-> [c \in Chains |-> <<>>]]
  /\ setup' = [p \in Setups |-> [setup[p] EXCEPT !.pc = "idle", !.outcome = "none"]]
  /\ foreign' = {}
  /\ UNCHANGED marker

(* Another firewall tool, or an operator, deletes a rule.                  *)
Tamper == \E s \in Subnets, i \in 1..4 :
  /\ MayTamper
  /\ Present(s, egress_rules[i])
  /\ table' = Deleted(s, egress_rules[i])
  /\ foreign' = foreign \cup {s}
  /\ UNCHANGED <<marker, boot, setup>>

Next == Reboot \/ Tamper \/ \E p \in Setups : Step(p)

Spec == Init /\ [][Next]_vars

-----------------------------------------------------------------------------
(* The firewall drops what a twin of subnet s opens, and lets its replies  *)
(* to inbound connections through: in each chain the accept is met first   *)
(* and a drop is met at all.                                               *)
EgressDropped(s) == \A c \in Chains : Contains(table[s][c], "drop")
RepliesFlow(s)   == \A c \in Chains : table[s][c] # <<>> => Head(table[s][c]) = "accept"
Effective(s)     == EgressDropped(s) /\ RepliesFlow(s)

AllIdle == \A p \in Setups : At(p, "idle")

(* One setup at a time: evaluate says "active" only where both chains do   *)
(* what the rules are for, through failed and killed setups, changes of    *)
(* bridge_subnet, truncated markers and reboots (marker.py evaluate); only *)
(* for a subnet that something else deleted a rule of may it be wrong.     *)
MarkerTruthful == \A s \in Subnets \ foreign : evaluate(s) = "active" => Effective(s)

(* One setup at a time: no step short of a reboot or a foreign deletion    *)
(* takes a subnet out of effective containment; install_rules leaves a     *)
(* complete set alone.                                                     *)
CoverageStable ==
  [][\A s \in Subnets \ foreign' : Effective(s) /\ boot' = boot => Effective(s)']_vars

(* One setup at a time, whatever else deletes rules: when install_rules    *)
(* would report "already in place" the rules are also in working order,    *)
(* though rules_installed only looks at presence.                          *)
InPlaceMeansOrdered == \A s \in Subnets : rules_installed(s) => Effective(s)

(* One setup at a time: marker and tables together implement the promise   *)
(* that EgressPromise states abstractly: coverage only grows within a      *)
(* boot, nothing uncovered is ever promised, and nothing is answered for   *)
(* that something else took rules from.                                    *)
Covered  == {s \in Subnets \ foreign : Effective(s)}
Promised == {s \in Subnets \ foreign : evaluate(s) = "active"}

Promise == INSTANCE EgressPromise WITH covered <- Covered, promised <- Promised, disowned <- foreign

KeepsPromise == Promise!Spec

(* Setups that interleave but are not killed and whose calls do not fail   *)
(* on their own: once none is running, the subnet of each one that said    *)
(* "installed" is effectively contained, though each may have deleted      *)
(* rules of the others and some may have failed on a vanished rule; only a *)
(* subnet that something else deleted a rule of may not be.                *)
SettledEffective ==
  AllIdle => \A p \in Setups :
    setup[p].outcome = "installed" /\ setup[p].subnet \notin foreign => Effective(setup[p].subnet)

(* Of the same setups: once none is running the marker answers "active"    *)
(* only for a subnet that is effectively contained, whichever of them      *)
(* wrote it last, and whatever the others did to the rules meanwhile.      *)
SettledTruthful == AllIdle => MarkerTruthful

(* install_rules clears partial leftovers "because order matters"          *)
(* (firewall.py:87-91): with no setup running, a complete set of rules     *)
(* lets replies through.                                                   *)
SettledRepliesFlow == AllIdle => \A s \in Subnets : rules_installed(s) => RepliesFlow(s)

=============================================================================
