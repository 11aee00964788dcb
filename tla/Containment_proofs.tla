-------------------------- MODULE Containment_proofs --------------------------
(***************************************************************************)
(* Proofs about Containment.  Types are kept in every case; the safety     *)
(* properties are proved for one containment-setup at a time, because the  *)
(* runs of MCContainment refute them for two.  The argument goes through   *)
(* Live, the set of rules each subnet has: under one setup at a time a     *)
(* chain is determined by Live, and every step changes Live by at most one *)
(* rule.                                                                   *)
(***************************************************************************)
EXTENDS Containment, SequenceTheorems, WellFoundedInduction, TLAPS

(* With one setup at a time a chain only ever holds, of a subnet's two     *)
(* rules, a subsequence of <<accept, drop>>.                               *)
Shapes == {<<>>, <<"drop">>, <<"accept">>, <<"accept", "drop">>}

(* Which rules `iptables -C` finds in a chain of each shape.               *)
LEMMA ContainsShape ==
  ASSUME NEW t \in Targets
  PROVE  /\ ~ Contains(<<>>, t)
         /\ Contains(<<"drop">>, t) <=> t = "drop"
         /\ Contains(<<"accept">>, t) <=> t = "accept"
         /\ Contains(<<"accept", "drop">>, t)
BY DEF Contains, Targets

(* `iptables -D` on a complete chain leaves the other rule. RemoveFirst    *)
(* takes the least matching index, so its definition is followed down to   *)
(* SubSeq.                                                                 *)
LEMMA RemoveFirstPair ==
    /\ RemoveFirst(<<"accept", "drop">>, "accept") = <<"drop">>
    /\ RemoveFirst(<<"accept", "drop">>, "drop") = <<"accept">>
<1> DEFINE q == <<"accept", "drop">>
<1>1. Len(q) = 2 /\ q[1] = "accept" /\ q[2] = "drop" /\ q \in Seq(Targets)
  BY DEF Targets
<1>2. {i \in 1..Len(q) : q[i] = "accept"} = {1} /\ {i \in 1..Len(q) : q[i] = "drop"} = {2}
  BY <1>1
<1>3. Min({1}) = 1 /\ Min({2}) = 2
  BY DEF Min
<1>4. Min({i \in 1..Len(q) : q[i] = "accept"}) = 1 /\ Min({i \in 1..Len(q) : q[i] = "drop"}) = 2
  BY <1>2, <1>3
<1>5. RemoveFirst(q, "accept") = RemoveAt(q, 1) /\ RemoveFirst(q, "drop") = RemoveAt(q, 2)
  <2>1. RemoveFirst(q, "accept") = RemoveAt(q, Min({i \in 1..Len(q) : q[i] = "accept"}))
    BY <1>1, <1>2 DEF RemoveFirst, SelectInSeq
  <2>2. RemoveFirst(q, "drop") = RemoveAt(q, Min({i \in 1..Len(q) : q[i] = "drop"}))
    BY <1>1, <1>2 DEF RemoveFirst, SelectInSeq
  <2> QED BY <1>4, <2>1, <2>2
<1>6. SubSeq(q, 1, 0) = <<>> /\ SubSeq(q, 3, 2) = <<>>
  BY <1>1
<1>7. SubSeq(q, 2, 2) = <<"drop">> /\ SubSeq(q, 1, 1) = <<"accept">>
  <2>1. SubSeq(q, 2, 2) \in Seq(Targets) /\ Len(SubSeq(q, 2, 2)) = 1 /\ SubSeq(q, 2, 2)[1] = "drop"
    BY <1>1
  <2>2. SubSeq(q, 1, 1) \in Seq(Targets) /\ Len(SubSeq(q, 1, 1)) = 1 /\ SubSeq(q, 1, 1)[1] = "accept"
    BY <1>1
  <2>3. ASSUME NEW r \in Seq(Targets), Len(r) = 1 PROVE r = <<r[1]>>
    BY <2>3
  <2> QED BY <2>1, <2>2, <2>3
<1>8. RemoveAt(q, 1) = <<>> \o <<"drop">> /\ RemoveAt(q, 2) = <<"accept">> \o <<>>
  <2>1. RemoveAt(q, 1) = SubSeq(q, 1, 0) \o SubSeq(q, 2, 2)
    BY <1>1 DEF RemoveAt
  <2>2. RemoveAt(q, 2) = SubSeq(q, 1, 1) \o SubSeq(q, 3, 2)
    BY <1>1 DEF RemoveAt
  <2> QED BY <1>6, <1>7, <2>1, <2>2
<1>9. <<>> \o <<"drop">> = <<"drop">> /\ <<"accept">> \o <<>> = <<"accept">>
  OBVIOUS
<1> QED BY <1>5, <1>8, <1>9

(* The least element of a nonempty set of naturals, as SelectInSeq chooses *)
(* it, exists.                                                             *)
LEMMA MinOfNats ==
  ASSUME NEW I \in SUBSET Nat, I # {}
  PROVE  Min(I) \in I
<1>1. PICK m \in I : \A n \in I : ~ (<<n, m>> \in OpToRel(<, Nat))
  BY WFMin, NatLessThanWellFounded
<1>2. ASSUME NEW n \in I, n < m PROVE FALSE
  <2>1. <<n, m>> \in Nat \X Nat /\ <<n, m>>[1] < <<n, m>>[2]
    BY <1>2
  <2>2. <<n, m>> \in OpToRel(<, Nat)
    BY <2>1, Zenon DEF OpToRel
  <2> QED BY <1>1, <2>2
<1>3. \A n \in I : m <= n
  BY <1>2
<1> QED BY <1>3 DEF Min

(* Removing a position from a sequence keeps the type of its elements.     *)
LEMMA RemoveAtType ==
  ASSUME NEW S, NEW q \in Seq(S), NEW m \in 1..Len(q)
  PROVE  RemoveAt(q, m) \in Seq(S)
<1>1. Len(q) \in Nat /\ \A i \in 1..Len(q) : q[i] \in S
  BY LenProperties, ElementOfSeq
<1>2. SubSeq(q, 1, m - 1) \in Seq(S)
  <2>1. 1 \in Int /\ m - 1 \in Int /\ \A i \in 1..(m - 1) : q[i] \in S
    BY <1>1
  <2> QED BY <2>1, SubSeqProperties
<1>3. SubSeq(q, m + 1, Len(q)) \in Seq(S)
  <2>1. m + 1 \in Int /\ Len(q) \in Int /\ \A i \in (m + 1)..Len(q) : q[i] \in S
    BY <1>1
  <2> QED BY <2>1, SubSeqProperties
<1> QED BY <1>2, <1>3, ConcatProperties DEF RemoveAt

(* `iptables -D` on a chain of any length leaves a chain: used for type    *)
(* correctness, where chains are arbitrary.                                *)
LEMMA RemoveFirstType ==
  ASSUME NEW S, NEW q \in Seq(S), NEW t
  PROVE  RemoveFirst(q, t) \in Seq(S)
<1> DEFINE I == {i \in 1..Len(q) : q[i] = t}
<1>1. CASE I = {}
  BY <1>1 DEF RemoveFirst
<1>2. CASE I # {}
  <2>1. Min(I) \in 1..Len(q)
    <3>1. Len(q) \in Nat /\ I \in SUBSET Nat
      BY LenProperties
    <3> QED BY <1>2, <3>1, MinOfNats
  <2>2. RemoveFirst(q, t) = RemoveAt(q, Min(I))
    BY <1>2 DEF RemoveFirst, SelectInSeq
  <2> QED BY <2>1, <2>2, RemoveAtType
<1> QED BY <1>1, <1>2

(* `iptables -D` keeps a chain in shape, removes the rule it names and no  *)
(* other (firewall.py remove_rules).                                       *)
LEMMA ShapeRemoval ==
  ASSUME NEW q \in Shapes, NEW t \in Targets
  PROVE  /\ RemoveFirst(q, t) \in Shapes
         /\ ~ Contains(RemoveFirst(q, t), t)
         /\ \A u \in Targets : u # t => (Contains(RemoveFirst(q, t), u) <=> Contains(q, u))
<1>1. RemoveFirst(<<>>, t) = <<>>
  BY DEF RemoveFirst
<1>2. ASSUME NEW u \in Targets PROVE RemoveFirst(<<u>>, t) = IF u = t THEN <<>> ELSE <<u>>
  <2>1. CASE u # t
    <3>1. ~ \E i \in 1..Len(<<u>>) : <<u>>[i] = t
      BY <2>1
    <3> QED BY <2>1, <3>1 DEF RemoveFirst
  <2>2. CASE u = t
    <3>1. {i \in 1..Len(<<u>>) : <<u>>[i] = t} = {1} /\ Min({1}) = 1
      BY <2>2 DEF Min
    <3>2. RemoveFirst(<<u>>, t) = RemoveAt(<<u>>, Min({i \in 1..Len(<<u>>) : <<u>>[i] = t}))
      BY <2>2 DEF RemoveFirst, SelectInSeq
    <3>3. RemoveAt(<<u>>, 1) = SubSeq(<<u>>, 1, 0) \o SubSeq(<<u>>, 2, 1)
      BY DEF RemoveAt
    <3>4. SubSeq(<<u>>, 1, 0) = <<>> /\ SubSeq(<<u>>, 2, 1) = <<>> /\ <<>> \o <<>> = <<>>
      BY ConcatEmptySeq, EmptySeq
    <3> QED BY <2>2, <3>1, <3>2, <3>3, <3>4
  <2> QED BY <2>1, <2>2
<1> QED BY <1>1, <1>2, RemoveFirstPair, ContainsShape DEF Shapes, Targets

(* `iptables -I 1` of a missing rule keeps a chain in shape provided a     *)
(* drop is never inserted above its accept, and adds that rule only        *)
(* (firewall.py install_rules).                                            *)
LEMMA ShapeInsertion ==
  ASSUME NEW q \in Shapes, NEW t \in Targets, ~ Contains(q, t), t = "drop" => ~ Contains(q, "accept")
  PROVE  /\ <<t>> \o q \in Shapes
         /\ Contains(<<t>> \o q, t)
         /\ \A u \in Targets : u # t => (Contains(<<t>> \o q, u) <=> Contains(q, u))
<1>1. <<t>> \o <<>> = <<t>>
  BY ConcatEmptySeq
<1>2. <<"accept">> \o <<"drop">> = <<"accept", "drop">>
  <2>1. <<"accept">> \in Seq(Targets) /\ <<"drop">> \in Seq(Targets) /\ <<"accept", "drop">> \in Seq(Targets)
    BY DEF Targets
  <2> DEFINE r == <<"accept">> \o <<"drop">>
  <2>2. r \in Seq(Targets) /\ Len(r) = 2 /\ r[1] = "accept" /\ r[2] = "drop"
    <3>1. \A i \in 1..2 : r[i] = IF i <= 1 THEN <<"accept">>[i] ELSE <<"drop">>[i - 1]
      BY <2>1, ConcatProperties
    <3> QED BY <2>1, <3>1, ConcatProperties
  <2> HIDE DEF r
  <2>3. r = <<"accept", "drop">>
    BY <2>1, <2>2, SeqEqual
  <2> QED BY <2>3 DEF r
<1>3. CASE q = <<>>
  BY <1>1, <1>3, ContainsShape DEF Shapes, Targets
<1>4. CASE q = <<"drop">> /\ t = "accept"
  BY <1>2, <1>4, ContainsShape DEF Shapes, Targets
<1>5. q = <<>> \/ (q = <<"drop">> /\ t = "accept")
  BY ContainsShape DEF Shapes, Targets
<1> QED BY <1>3, <1>4, <1>5, ContainsShape DEF Shapes, Targets

-----------------------------------------------------------------------------

(* The four rules name a chain and a target.                               *)
LEMMA RuleType ==
  ASSUME NEW i \in 1..4
  PROVE  egress_rules[i] \in [chain : Chains, target : Targets]
BY DEF egress_rules, Chains, Targets

(* -D and -I 1 keep the tables well typed.                                 *)
LEMMA TableType ==
  ASSUME table \in [Subnets -> [Chains -> Seq(Targets)]], NEW s \in Subnets, NEW i \in 1..4
  PROVE  /\ Deleted(s, egress_rules[i]) \in [Subnets -> [Chains -> Seq(Targets)]]
         /\ Inserted(s, egress_rules[i]) \in [Subnets -> [Chains -> Seq(Targets)]]
<1> DEFINE c == egress_rules[i].chain
           t == egress_rules[i].target
<1>1. c \in Chains /\ t \in Targets /\ table[s][c] \in Seq(Targets)
  BY RuleType
<1>2. RemoveFirst(table[s][c], t) \in Seq(Targets)
  BY <1>1, RemoveFirstType
<1>3. <<t>> \o table[s][c] \in Seq(Targets)
  BY <1>1, ConcatProperties
<1>4. Deleted(s, egress_rules[i]) \in [Subnets -> [Chains -> Seq(Targets)]]
  BY <1>1, <1>2 DEF Deleted
<1>5. Inserted(s, egress_rules[i]) \in [Subnets -> [Chains -> Seq(Targets)]]
  BY <1>1, <1>3 DEF Inserted
<1> QED BY <1>4, <1>5

(* Moving an invocation to its next step, or ending it, keeps its record   *)
(* well typed.                                                             *)
LEMMA SetupType ==
  ASSUME setup \in [Setups -> SetupRecords], NEW p \in Setups
  PROVE  /\ \A pc \in PCs, i \in 1..4 : Goto(p, pc, i) => setup' \in [Setups -> SetupRecords]
         /\ \A r \in Outcomes : Exit(p, r) => setup' \in [Setups -> SetupRecords]
<1>1. ASSUME NEW pc \in PCs, NEW i \in 1..4, Goto(p, pc, i)
      PROVE  setup' \in [Setups -> SetupRecords]
  <2>1. [setup[p] EXCEPT !.pc = pc, !.rule = i] \in SetupRecords
    BY DEF SetupRecords
  <2> QED BY <1>1, <2>1 DEF Goto
<1>2. ASSUME NEW r \in Outcomes, Exit(p, r)
      PROVE  setup' \in [Setups -> SetupRecords]
  <2>1. [setup[p] EXCEPT !.pc = "idle", !.outcome = r] \in SetupRecords
    BY DEF SetupRecords, PCs, Outcomes
  <2> QED BY <1>2, <2>1 DEF Exit
<1> QED BY <1>1, <1>2

(* Every step keeps the types.                                             *)
LEMMA TypeStep == TypeOK /\ [Next]_vars => TypeOK'
<1> SUFFICES ASSUME TypeOK, [Next]_vars PROVE TypeOK'
  OBVIOUS
<1>0. /\ table \in [Subnets -> [Chains -> Seq(Targets)]]
      /\ marker \in Markers
      /\ boot \in 1..MaxBoot
      /\ setup \in [Setups -> SetupRecords]
      /\ foreign \subseteq Subnets
  BY DEF TypeOK
<1>1. CASE UNCHANGED vars
  BY <1>0, <1>1 DEF vars, TypeOK
<1>2. CASE Reboot
  <2>1. boot' \in 1..MaxBoot
    <3>1. MaxBoot \in Nat
      BY ContainmentAssumption
    <3>2. boot' = boot + 1 /\ boot < MaxBoot
      BY <1>2 DEF Reboot
    <3> QED BY <1>0, <3>1, <3>2
  <2>2. table' \in [Subnets -> [Chains -> Seq(Targets)]]
    BY <1>2, EmptySeq DEF Reboot
  <2>3. \A p \in Setups : [setup[p] EXCEPT !.pc = "idle", !.outcome = "none"] \in SetupRecords
    BY <1>0 DEF SetupRecords, PCs, Outcomes
  <2>4. setup' \in [Setups -> SetupRecords]
    BY <1>2, <2>3 DEF Reboot
  <2> QED BY <1>0, <1>2, <2>1, <2>2, <2>4 DEF Reboot, TypeOK
<1>3. CASE Tamper
  BY <1>0, <1>3, TableType DEF Tamper, TypeOK
<1>4. ASSUME NEW p \in Setups, Step(p) PROVE TypeOK'
  <2>0. setup[p].subnet \in Subnets /\ setup[p].rule \in 1..4
    BY <1>0 DEF SetupRecords
  <2>1. CASE BeginSetup(p)
    <3>1. PICK s \in Subnets : setup' = [setup EXCEPT ![p] =
             [pc |-> "check", subnet |-> s, rule |-> 1, outcome |-> "none"]]
      BY <2>1 DEF BeginSetup
    <3>2. [pc |-> "check", subnet |-> s, rule |-> 1, outcome |-> "none"] \in SetupRecords
      BY DEF SetupRecords, PCs, Outcomes
    <3> QED BY <1>0, <2>1, <3>1, <3>2 DEF BeginSetup, TypeOK
  <2>2. CASE CheckRule(p)
    <3>1. \E pc \in PCs, i \in 1..4 : Goto(p, pc, i)
      BY <2>0, <2>2 DEF CheckRule, PCs
    <3> QED BY <1>0, <2>2, <3>1, SetupType DEF CheckRule, TypeOK
  <2>3. CASE ProbeRule(p)
    <3>1. \E pc \in PCs, i \in 1..4 : Goto(p, pc, i)
      BY <2>0, <2>3 DEF ProbeRule, NextLeftover, PCs
    <3> QED BY <1>0, <2>3, <3>1, SetupType DEF ProbeRule, TypeOK
  <2>4. CASE DeleteRule(p)
    <3>1. \E pc \in PCs, i \in 1..4 : Goto(p, pc, i)
      BY <2>0, <2>4 DEF DeleteRule, NextLeftover, PCs
    <3>2. table' \in [Subnets -> [Chains -> Seq(Targets)]]
      BY <1>0, <2>0, <2>4, TableType DEF DeleteRule, Rule
    <3> QED BY <1>0, <2>4, <3>1, <3>2, SetupType DEF DeleteRule, TypeOK
  <2>5. CASE DeleteVanished(p)
    BY <1>0, <2>5, SetupType DEF DeleteVanished, TypeOK, Outcomes
  <2>6. CASE InsertRule(p)
    <3>1. \E pc \in PCs, i \in 1..4 : Goto(p, pc, i)
      BY <2>0, <2>6 DEF InsertRule, PCs
    <3>2. table' \in [Subnets -> [Chains -> Seq(Targets)]]
      BY <1>0, <2>0, <2>6, TableType DEF InsertRule, Rule
    <3> QED BY <1>0, <2>6, <3>1, <3>2, SetupType DEF InsertRule, TypeOK
  <2>7. CASE TruncateMarker(p)
    <3>1. setup' \in [Setups -> SetupRecords]
      BY <1>0, <2>7, SetupType DEF TruncateMarker, PCs
    <3> QED BY <1>0, <2>7, <3>1 DEF TruncateMarker, TypeOK, Markers
  <2>8. CASE WriteMarker(p)
    <3>1. read_boot_id \in 0..MaxBoot
      BY <1>0, ContainmentAssumption DEF read_boot_id, NoBootId
    <3>2. setup' \in [Setups -> SetupRecords]
      BY <1>0, <2>8, SetupType DEF WriteMarker, Outcomes
    <3>3. marker' \in Markers
      BY <1>0, <2>0, <2>8, <3>1 DEF WriteMarker, Markers
    <3> QED BY <1>0, <2>8, <3>2, <3>3 DEF WriteMarker, TypeOK
  <2>9. CASE AbortSetup(p)
    BY <1>0, <2>9, SetupType DEF AbortSetup, TypeOK, Outcomes
  <2> QED BY <1>4, <2>1, <2>2, <2>3, <2>4, <2>5, <2>6, <2>7, <2>8, <2>9 DEF Step
<1> QED BY <1>1, <1>2, <1>3, <1>4 DEF Next

(* The state keeps its types for any number of setups, subnets and boots,  *)
(* with failures, kills and foreign deletions allowed.                     *)
THEOREM TypeCorrect == Spec => []TypeOK
<1>1. Init => TypeOK
  BY ContainmentAssumption, EmptySeq DEF Init, TypeOK, Markers, SetupRecords, PCs, Outcomes
<1> QED BY <1>1, TypeStep, PTL DEF Spec

-----------------------------------------------------------------------------

(* The indices in egress_rules of the rules of each subnet that are        *)
(* present.                                                                *)
Live == [s \in Subnets |-> {i \in 1..4 : Present(s, egress_rules[i])}]

(* Every chain is in one of the four shapes.                               *)
Tidy == \A s \in Subnets, c \in Chains : table[s][c] \in Shapes

(* No two of the four rules agree in chain and target.                     *)
LEMMA RuleDistinct ==
  \A i, j \in 1..4 : /\ egress_rules[i].chain = egress_rules[j].chain
                     /\ egress_rules[i].target = egress_rules[j].target
                     => i = j
BY DEF egress_rules

(* `iptables -C` finds rule i exactly when i is live.                      *)
LEMMA PresentLive ==
  ASSUME NEW s \in Subnets, NEW i \in 1..4
  PROVE  Present(s, egress_rules[i]) <=> i \in Live[s]
BY DEF Live

(* A deletion in a tidy table leaves it tidy and takes one rule of one     *)
(* subnet out of Live.                                                     *)
LEMMA DeleteEffect ==
  ASSUME TypeOK, Tidy, NEW s \in Subnets, NEW i \in 1..4, table' = Deleted(s, egress_rules[i])
  PROVE  Tidy' /\ Live' = [Live EXCEPT ![s] = @ \ {i}]
<1> DEFINE c == egress_rules[i].chain
           t == egress_rules[i].target
<1>1. c \in Chains /\ t \in Targets /\ table[s][c] \in Shapes
  BY RuleType DEF Tidy
<1>2. table' = [table EXCEPT ![s][c] = RemoveFirst(@, t)]
  BY DEF Deleted
<1>3. /\ table'[s][c] = RemoveFirst(table[s][c], t)
      /\ \A u \in Subnets, d \in Chains : u # s \/ d # c => table'[u][d] = table[u][d]
  BY <1>1, <1>2 DEF TypeOK
<1>4. Tidy'
  BY <1>1, <1>3, ShapeRemoval DEF Tidy
<1>5. ASSUME NEW u \in Subnets, NEW j \in 1..4
      PROVE  Present(u, egress_rules[j])' <=> Present(u, egress_rules[j]) /\ ~ (u = s /\ j = i)
  <2> DEFINE r == egress_rules[j]
  <2>1. r.chain \in Chains /\ r.target \in Targets
    BY RuleType
  <2>2. CASE u # s \/ r.chain # c
    BY <1>3, <2>1, <2>2 DEF Present
  <2>3. CASE u = s /\ r.chain = c /\ r.target # t
    BY <1>1, <1>3, <2>1, <2>3, ShapeRemoval DEF Present
  <2>4. CASE u = s /\ j = i
    BY <1>1, <1>3, <2>4, ShapeRemoval DEF Present
  <2> QED BY <2>2, <2>3, <2>4, RuleDistinct
<1>6. Live' = [Live EXCEPT ![s] = @ \ {i}]
  BY <1>5 DEF Live
<1> QED BY <1>4, <1>6

(* An insertion leaves the table tidy and adds one rule to Live, provided  *)
(* neither that rule nor an earlier one in egress_rules is live: this is   *)
(* what clearing the leftovers first and inserting in reverse order are    *)
(* for.                                                                    *)
LEMMA InsertEffect ==
  ASSUME TypeOK, Tidy, NEW s \in Subnets, NEW i \in 1..4, table' = Inserted(s, egress_rules[i]),
         Live[s] \cap 1..i = {}
  PROVE  Tidy' /\ Live' = [Live EXCEPT ![s] = @ \cup {i}]
<1> DEFINE c == egress_rules[i].chain
           t == egress_rules[i].target
<1>1. c \in Chains /\ t \in Targets /\ table[s][c] \in Shapes
  BY RuleType DEF Tidy
<1>2. table' = [table EXCEPT ![s][c] = <<t>> \o @]
  BY DEF Inserted
<1>3. /\ table'[s][c] = <<t>> \o table[s][c]
      /\ \A u \in Subnets, d \in Chains : u # s \/ d # c => table'[u][d] = table[u][d]
  BY <1>1, <1>2 DEF TypeOK
<1>4. ~ Contains(table[s][c], t) /\ (t = "drop" => ~ Contains(table[s][c], "accept"))
  <2>1. ~ Contains(table[s][c], t)
    BY PresentLive DEF Present
  <2>2. ASSUME t = "drop" PROVE ~ Contains(table[s][c], "accept")
    <3>1. i \in {2, 4}
      BY <2>2 DEF egress_rules
    <3>2. /\ i - 1 \in 1..4
          /\ egress_rules[i - 1].chain = c
          /\ egress_rules[i - 1].target = "accept"
          /\ i - 1 \notin Live[s]
      BY <3>1 DEF egress_rules
    <3> QED BY <3>2, PresentLive DEF Present
  <2> QED BY <2>1, <2>2
<1>5. /\ table'[s][c] \in Shapes
      /\ Contains(table'[s][c], t)
      /\ \A v \in Targets : v # t => (Contains(table'[s][c], v) <=> Contains(table[s][c], v))
  <2> DEFINE q == table[s][c]
  <2>1. q \in Shapes /\ t \in Targets /\ ~ Contains(q, t) /\ (t = "drop" => ~ Contains(q, "accept"))
    BY <1>1, <1>4
  <2>2. table'[s][c] = <<t>> \o q
    BY <1>3
  <2> HIDE DEF q, t
  <2> QED BY <2>1, <2>2, ShapeInsertion DEF q
<1>T. Tidy'
  BY <1>1, <1>3, <1>5 DEF Tidy
<1>6. ASSUME NEW u \in Subnets, NEW j \in 1..4
      PROVE  Present(u, egress_rules[j])' <=> Present(u, egress_rules[j]) \/ (u = s /\ j = i)
  <2> DEFINE r == egress_rules[j]
  <2>1. r.chain \in Chains /\ r.target \in Targets
    BY RuleType
  <2>2. CASE u # s \/ r.chain # c
    BY <1>3, <2>1, <2>2 DEF Present
  <2>3. CASE u = s /\ r.chain = c /\ r.target # t
    BY <1>3, <1>5, <2>1, <2>3 DEF Present
  <2>4. CASE u = s /\ j = i
    BY <1>1, <1>5, <2>4 DEF Present
  <2> QED BY <2>2, <2>3, <2>4, RuleDistinct
<1>7. Live' = [Live EXCEPT ![s] = @ \cup {i}]
  BY <1>6 DEF Live
<1> QED BY <1>T, <1>7

(* In a tidy table, a subnet has its four rules exactly when               *)
(* rules_installed says so and exactly when the firewall does for it what  *)
(* the rules are for.                                                      *)
LEMMA FullSetEffective ==
  Tidy => \A s \in Subnets : /\ (rules_installed(s) <=> Live[s] = 1..4)
                              /\ (Effective(s) <=> Live[s] = 1..4)
<1> SUFFICES ASSUME Tidy, NEW s \in Subnets
             PROVE  /\ (rules_installed(s) <=> Live[s] = 1..4)
                    /\ (Effective(s) <=> Live[s] = 1..4)
  OBVIOUS
<1>1. rules_installed(s) <=> Live[s] = 1..4
  BY DEF rules_installed, Live
<1>2. Live[s] = 1..4 <=> \A c \in Chains, t \in Targets : Contains(table[s][c], t)
  BY <1>1 DEF rules_installed, Present, egress_rules, Chains, Targets
<1>3. \A c \in Chains : Contains(table[s][c], "accept") /\ Contains(table[s][c], "drop")
                          <=> table[s][c] = <<"accept", "drop">>
  BY ContainsShape DEF Tidy, Shapes, Targets
<1>4. \A c \in Chains : Contains(table[s][c], "drop") /\ (table[s][c] # <<>> => Head(table[s][c]) = "accept")
                          <=> table[s][c] = <<"accept", "drop">>
  BY ContainsShape DEF Tidy, Shapes, Targets
<1> QED BY <1>1, <1>2, <1>3, <1>4 DEF Effective, EgressDropped, RepliesFlow, Targets

(* After a reboot no rule is left.                                         *)
LEMMA RebootEffect ==
  ASSUME Reboot
  PROVE  Tidy' /\ Live' = [s \in Subnets |-> {}]
<1>1. \A s \in Subnets, c \in Chains : table'[s][c] = <<>>
  BY DEF Reboot
<1>2. \A s \in Subnets, i \in 1..4 : ~ Present(s, egress_rules[i])'
  BY <1>1, RuleType, ContainsShape DEF Present
<1> QED BY <1>1, <1>2 DEF Tidy, Shapes, Live

-----------------------------------------------------------------------------

(* At most one containment-setup at a time.                                *)
OneSetup == \A p, q \in Setups : p = q

(* How far remove_rules has come: what it has passed is gone, and it       *)
(* inserts above nothing.                                                  *)
Cleared(p) ==
  /\ setup[p].pc \in {"probe", "delete"} => Live[setup[p].subnet] \cap 1..(setup[p].rule - 1) = {}
  /\ setup[p].pc = "insert" => Live[setup[p].subnet] \cap 1..setup[p].rule = {}

(* The inductive invariant behind rule order.                              *)
OrderInv == Tidy /\ \A p \in Setups : Cleared(p)

(* The fields of an invocation after it moves to its next step.            *)
LEMMA GotoFields ==
  ASSUME TypeOK, NEW p \in Setups, NEW pc, NEW i, Goto(p, pc, i)
  PROVE  setup'[p].pc = pc /\ setup'[p].rule = i /\ setup'[p].subnet = setup[p].subnet
BY DEF Goto, TypeOK, SetupRecords

(* The fields of an invocation after it ends.                              *)
LEMMA ExitFields ==
  ASSUME TypeOK, NEW p \in Setups, NEW r, Exit(p, r)
  PROVE  setup'[p].pc = "idle" /\ setup'[p].subnet = setup[p].subnet
BY DEF Exit, TypeOK, SetupRecords

(* Every step keeps OrderInv, one case per action. Foreign deletions and   *)
(* failures only make Live smaller, which OrderInv tolerates.              *)
LEMMA OrderStep ==
  ASSUME OneSetup
  PROVE  TypeOK /\ OrderInv /\ [Next]_vars => OrderInv'
<1> SUFFICES ASSUME TypeOK, OrderInv, [Next]_vars PROVE OrderInv'
  OBVIOUS
<1>0. Tidy /\ \A p \in Setups : Cleared(p) /\ setup[p] \in SetupRecords
  BY DEF OrderInv, TypeOK
<1>1. CASE UNCHANGED vars
  BY <1>0, <1>1 DEF vars, OrderInv, Tidy, Cleared, Live, Present
<1>2. CASE Reboot
  <2>1. \A p \in Setups : setup'[p].pc = "idle"
    BY <1>0, <1>2 DEF Reboot, SetupRecords
  <2> QED BY <1>2, <2>1, RebootEffect DEF OrderInv, Cleared
<1>3. CASE Tamper
  <2>1. PICK s \in Subnets, i \in 1..4 : table' = Deleted(s, egress_rules[i])
    BY <1>3 DEF Tamper
  <2>2. Tidy' /\ Live' = [Live EXCEPT ![s] = @ \ {i}] /\ setup' = setup
    BY <1>0, <1>3, <2>1, DeleteEffect DEF Tamper
  <2>3. \A u \in Subnets : Live'[u] \subseteq Live[u]
    BY <2>2 DEF Live
  <2>4. \A p \in Setups : Cleared(p)'
    BY <1>0, <2>2, <2>3 DEF Cleared, SetupRecords
  <2> QED BY <2>2, <2>4 DEF OrderInv
<1>4. ASSUME NEW p \in Setups, Step(p) PROVE OrderInv'
  <2> DEFINE s == setup[p].subnet
             i == setup[p].rule
  <2>0. s \in Subnets /\ i \in 1..4 /\ Cleared(p) /\ Live \in [Subnets -> SUBSET (1..4)]
    BY <1>0 DEF SetupRecords, Live
  <2>a. ASSUME UNCHANGED table PROVE Tidy' /\ Live' = Live
    BY <1>0, <2>a DEF Tidy, Live, Present
  <2>b. ASSUME Tidy', Cleared(p)' PROVE OrderInv'
    BY <2>b DEF OneSetup, OrderInv
  <2>1. CASE BeginSetup(p)
    <3>1. setup'[p].pc = "check"
      BY <2>1 DEF BeginSetup, TypeOK
    <3> QED BY <2>1, <2>a, <2>b, <3>1 DEF BeginSetup, Cleared
  <2>2. CASE CheckRule(p)
    <3>1. setup'[p].subnet = s /\ ((setup'[p].pc = "probe" /\ setup'[p].rule = 1) \/ setup'[p].pc \in {"check", "truncate"})
      BY <2>2, GotoFields DEF CheckRule
    <3>2. Cleared(p)'
      BY <3>1 DEF Cleared
    <3> QED BY <2>2, <2>a, <2>b, <3>2 DEF CheckRule
  <2>3. CASE ProbeRule(p)
    <3>1. CASE i \in Live[s]
      <4>1. setup'[p].pc = "delete" /\ setup'[p].rule = i /\ setup'[p].subnet = s
        BY <2>0, <2>3, <3>1, PresentLive, GotoFields DEF ProbeRule, Rule
      <4>2. At(p, "probe") /\ UNCHANGED table
        BY <2>3 DEF ProbeRule
      <4> QED BY <2>0, <2>a, <2>b, <4>1, <4>2 DEF Cleared, At
    <3>2. CASE i \notin Live[s]
      <4>1. setup'[p].subnet = s /\ IF i < 4 THEN setup'[p].pc = "probe" /\ setup'[p].rule = i + 1
                                     ELSE setup'[p].pc = "insert" /\ setup'[p].rule = 4
        BY <2>0, <2>3, <3>2, PresentLive, GotoFields DEF ProbeRule, Rule, NextLeftover
      <4>2. At(p, "probe") /\ UNCHANGED table
        BY <2>3 DEF ProbeRule
      <4>3. Live'[s] \cap 1..i = {}
        BY <2>0, <2>a, <3>2, <4>2 DEF Cleared, At
      <4> QED BY <2>0, <2>a, <2>b, <4>1, <4>2, <4>3 DEF Cleared
    <3> QED BY <3>1, <3>2
  <2>4. CASE DeleteRule(p)
    <3>1. Tidy' /\ Live' = [Live EXCEPT ![s] = @ \ {i}]
      BY <1>0, <2>0, <2>4, DeleteEffect DEF DeleteRule, Rule
    <3>2. setup'[p].subnet = s /\ IF i < 4 THEN setup'[p].pc = "probe" /\ setup'[p].rule = i + 1
                                   ELSE setup'[p].pc = "insert" /\ setup'[p].rule = 4
      BY <2>4, GotoFields DEF DeleteRule, NextLeftover
    <3>3. At(p, "delete")
      BY <2>4 DEF DeleteRule
    <3>4. Live'[s] \cap 1..i = {}
      BY <2>0, <3>1, <3>3 DEF Cleared, At
    <3> QED BY <2>0, <2>b, <3>1, <3>2, <3>4 DEF Cleared
  <2>5. CASE DeleteVanished(p)
    BY <2>5, <2>a, <2>b, ExitFields DEF DeleteVanished, Cleared
  <2>6. CASE InsertRule(p)
    <3>1. At(p, "insert") /\ Live[s] \cap 1..i = {}
      BY <2>0, <2>6 DEF InsertRule, Cleared, At
    <3>2. Tidy' /\ Live' = [Live EXCEPT ![s] = @ \cup {i}]
      BY <1>0, <2>0, <2>6, <3>1, InsertEffect DEF InsertRule, Rule
    <3>3. setup'[p].subnet = s /\ IF i > 1 THEN setup'[p].pc = "insert" /\ setup'[p].rule = i - 1
                                   ELSE setup'[p].pc = "truncate"
      BY <2>6, GotoFields DEF InsertRule
    <3> QED BY <2>0, <2>b, <3>1, <3>2, <3>3 DEF Cleared
  <2>7. CASE TruncateMarker(p)
    BY <2>7, <2>a, <2>b, GotoFields DEF TruncateMarker, Cleared
  <2>8. CASE WriteMarker(p)
    BY <2>8, <2>a, <2>b, ExitFields DEF WriteMarker, Cleared
  <2>9. CASE AbortSetup(p)
    BY <2>9, <2>a, <2>b, ExitFields DEF AbortSetup, Cleared
  <2> QED BY <1>4, <2>1, <2>2, <2>3, <2>4, <2>5, <2>6, <2>7, <2>8, <2>9 DEF Step
<1> QED BY <1>1, <1>2, <1>3, <1>4 DEF Next

(* The empty tables are tidy and nothing is under way.                     *)
LEMMA OrderInit == Init => OrderInv
  BY DEF Init, OrderInv, Tidy, Shapes, Cleared

(* With one setup at a time, whatever else deletes rules, whatever fails   *)
(* and however often the host reboots: a set of rules that install_rules   *)
(* would call "already in place" is in working order.                      *)
THEOREM InPlaceOrdered ==
  ASSUME OneSetup
  PROVE  Spec => []InPlaceMeansOrdered
<1>1. OrderInv => InPlaceMeansOrdered
  BY FullSetEffective DEF OrderInv, InPlaceMeansOrdered
<1> QED BY <1>1, OrderInit, OrderStep, TypeCorrect, PTL DEF Spec

-----------------------------------------------------------------------------

(* What the marker relies on: one setup at a time and a boot id.           *)
Undisturbed == OneSetup /\ HasBootId

(* What the program counter of an invocation says about the rules of its   *)
(* subnet: it only clears an incomplete set and, unless something else     *)
(* deletes rules of that subnet, what it has checked is live, what it has  *)
(* inserted is live, and it writes the marker over a complete set.         *)
Progress(p) ==
  /\ setup[p].pc \in {"probe", "delete", "insert"} => Live[setup[p].subnet] # 1..4
  /\ setup[p].subnet \notin foreign =>
       /\ setup[p].pc = "check" => 1..(setup[p].rule - 1) \subseteq Live[setup[p].subnet]
       /\ setup[p].pc = "insert" => (setup[p].rule + 1)..4 \subseteq Live[setup[p].subnet]
       /\ setup[p].pc \in {"truncate", "write"} => Live[setup[p].subnet] = 1..4

(* A marker is of this boot or an earlier one, and one of this boot names  *)
(* a subnet whose rules are all live, or which something else took one of. *)
MarkerHonest ==
  marker # NoMarker =>
    /\ marker.boot <= boot
    /\ marker.boot = boot /\ marker.subnet \notin foreign => Live[marker.subnet] = 1..4

(* The inductive invariant behind the marker.                              *)
CoverInv == OrderInv /\ MarkerHonest /\ \A p \in Setups : Progress(p)

(* Nothing is marked and nothing is under way at first.                    *)
LEMMA CoverInit == Init => CoverInv
  BY OrderInit DEF Init, CoverInv, MarkerHonest, Progress

(* Every step keeps CoverInv, and short of a reboot no subnet that nothing *)
(* else meddled with loses a complete set of rules: only an incomplete one *)
(* is cleared.                                                             *)
LEMMA CoverStep ==
  ASSUME Undisturbed
  PROVE  TypeOK /\ CoverInv /\ [Next]_vars =>
           /\ CoverInv'
           /\ boot' = boot => \A s \in Subnets \ foreign' : Live[s] = 1..4 => Live'[s] = 1..4
<1> SUFFICES ASSUME TypeOK, CoverInv, [Next]_vars
             PROVE  /\ CoverInv'
                    /\ boot' = boot => \A s \in Subnets \ foreign' : Live[s] = 1..4 => Live'[s] = 1..4
  OBVIOUS
<1>0. /\ Tidy /\ OrderInv /\ MarkerHonest
      /\ \A p \in Setups : Cleared(p) /\ Progress(p) /\ setup[p] \in SetupRecords
      /\ marker = NoMarker \/ marker \in [subnet : Subnets, boot : 0..MaxBoot]
      /\ Live \in [Subnets -> SUBSET (1..4)]
      /\ boot \in Nat
  BY DEF CoverInv, OrderInv, TypeOK, Markers, Live
<1>1. OrderInv' /\ Tidy'
  BY <1>0, OrderStep DEF Undisturbed, OrderInv
<1>2. CASE UNCHANGED vars
  <2>1. Live' = Live
    BY <1>2 DEF vars, Live, Present
  <2> QED BY <1>0, <1>1, <1>2, <2>1 DEF vars, CoverInv, MarkerHonest, Progress
<1>3. CASE Reboot
  <2>1. \A p \in Setups : setup'[p].pc = "idle"
    BY <1>0, <1>3 DEF Reboot, SetupRecords
  <2>2. marker' = marker /\ boot' = boot + 1
    BY <1>3 DEF Reboot
  <2>3. marker # NoMarker => marker.boot \in Nat
    BY <1>0
  <2>4. MarkerHonest'
    BY <1>0, <2>2, <2>3 DEF MarkerHonest
  <2> QED BY <1>0, <1>1, <2>1, <2>2, <2>4 DEF CoverInv, Progress
<1>4. CASE Tamper
  <2>1. PICK s \in Subnets, i \in 1..4 : table' = Deleted(s, egress_rules[i]) /\ foreign' = foreign \cup {s}
    BY <1>4 DEF Tamper
  <2>2. Live' = [Live EXCEPT ![s] = @ \ {i}] /\ UNCHANGED <<marker, boot, setup>>
    BY <1>0, <1>4, <2>1, DeleteEffect DEF Tamper
  <2>3. /\ \A u \in Subnets \ foreign' : u \notin foreign /\ Live'[u] = Live[u]
        /\ \A u \in Subnets : Live[u] # 1..4 => Live'[u] # 1..4
    BY <1>0, <2>1, <2>2
  <2>4. MarkerHonest'
    BY <1>0, <2>2, <2>3 DEF MarkerHonest
  <2>5. \A p \in Setups : Progress(p)'
    BY <1>0, <2>2, <2>3 DEF Progress, SetupRecords
  <2> QED BY <1>1, <2>3, <2>4, <2>5 DEF CoverInv
<1>5. ASSUME NEW p \in Setups, Step(p)
      PROVE  CoverInv' /\ \A s \in Subnets : Live[s] = 1..4 => Live'[s] = 1..4
  <2> DEFINE s == setup[p].subnet
             i == setup[p].rule
  <2>0. s \in Subnets /\ i \in 1..4 /\ Cleared(p) /\ Progress(p)
    BY <1>0 DEF SetupRecords
  <2>a. ASSUME UNCHANGED table PROVE Live' = Live
    BY <2>a DEF Live, Present
  <2>f. UNCHANGED foreign
    BY <1>5 DEF Step, BeginSetup, CheckRule, ProbeRule, DeleteRule, DeleteVanished, InsertRule,
                TruncateMarker, WriteMarker, AbortSetup
  <2>b. ASSUME Progress(p)', MarkerHonest' PROVE CoverInv'
    BY <1>1, <2>b DEF Undisturbed, OneSetup, CoverInv
  <2>c. ASSUME UNCHANGED <<marker, boot>>, \A u \in Subnets : Live[u] = 1..4 => Live'[u] = 1..4
        PROVE  MarkerHonest'
    BY <1>0, <2>c, <2>f DEF MarkerHonest
  <2>1. CASE BeginSetup(p)
    <3>1. setup'[p].pc = "check" /\ setup'[p].rule = 1
      BY <2>1 DEF BeginSetup, TypeOK
    <3> QED BY <2>1, <2>a, <2>b, <2>c, <3>1 DEF BeginSetup, Progress
  <2>2. CASE CheckRule(p)
    <3>1. UNCHANGED table /\ UNCHANGED <<marker, boot>> /\ Live' = Live
      BY <2>2, <2>a DEF CheckRule
    <3>2. setup'[p].subnet = s /\ IF i \notin Live[s] THEN setup'[p].pc = "probe"
                                   ELSE IF i < 4 THEN setup'[p].pc = "check" /\ setup'[p].rule = i + 1
                                   ELSE setup'[p].pc = "truncate"
      BY <2>0, <2>2, PresentLive, GotoFields DEF CheckRule, Rule
    <3>3. s \notin foreign => 1..(i - 1) \subseteq Live[s]
      BY <2>0, <2>2 DEF CheckRule, Progress, At
    <3>4. Progress(p)'
      BY <1>0, <2>0, <2>f, <3>1, <3>2, <3>3 DEF Progress
    <3> QED BY <2>b, <2>c, <3>1, <3>4
  <2>3. CASE ProbeRule(p)
    <3>1. UNCHANGED table /\ UNCHANGED <<marker, boot>> /\ Live' = Live
      BY <2>3, <2>a DEF ProbeRule
    <3>2. setup'[p].subnet = s /\ (\/ setup'[p].pc \in {"delete", "probe"}
                                   \/ setup'[p].pc = "insert" /\ setup'[p].rule = 4)
      BY <2>3, GotoFields DEF ProbeRule, NextLeftover
    <3>3. Live[s] # 1..4
      BY <2>0, <2>3 DEF ProbeRule, Progress, At
    <3>4. Progress(p)'
      BY <1>0, <2>0, <2>f, <3>1, <3>2, <3>3 DEF Progress
    <3> QED BY <2>b, <2>c, <3>1, <3>4
  <2>4. CASE DeleteRule(p)
    <3>1. Live' = [Live EXCEPT ![s] = @ \ {i}] /\ UNCHANGED <<marker, boot>>
      BY <1>0, <2>0, <2>4, DeleteEffect DEF DeleteRule, Rule
    <3>2. setup'[p].subnet = s /\ (\/ setup'[p].pc = "probe"
                                   \/ setup'[p].pc = "insert" /\ setup'[p].rule = 4)
      BY <2>4, GotoFields DEF DeleteRule, NextLeftover
    <3>3. Live[s] # 1..4
      BY <2>0, <2>4 DEF DeleteRule, Progress, At
    <3>4. Live'[s] # 1..4 /\ \A u \in Subnets : Live[u] = 1..4 => Live'[u] = 1..4
      BY <1>0, <2>0, <3>1, <3>3
    <3>5. Progress(p)'
      BY <2>0, <2>f, <3>2, <3>4 DEF Progress
    <3> QED BY <2>b, <2>c, <3>1, <3>4, <3>5
  <2>5. CASE DeleteVanished(p)
    BY <2>5, <2>a, <2>b, <2>c, ExitFields DEF DeleteVanished, Progress
  <2>6. CASE InsertRule(p)
    <3>1. At(p, "insert") /\ Live[s] \cap 1..i = {} /\ (s \notin foreign => (i + 1)..4 \subseteq Live[s])
      BY <2>0, <2>6 DEF InsertRule, Cleared, Progress, At
    <3>2. Live' = [Live EXCEPT ![s] = @ \cup {i}] /\ UNCHANGED <<marker, boot>>
      BY <1>0, <2>0, <2>6, <3>1, InsertEffect DEF InsertRule, Rule
    <3>3. setup'[p].subnet = s /\ IF i > 1 THEN setup'[p].pc = "insert" /\ setup'[p].rule = i - 1
                                   ELSE setup'[p].pc = "truncate"
      BY <2>6, GotoFields DEF InsertRule
    <3>4. (s \notin foreign => i..4 \subseteq Live'[s]) /\ Live'[s] \cap 1..(i - 1) = {} /\ Live'[s] \subseteq 1..4
      BY <1>0, <2>0, <3>1, <3>2
    <3>5. Progress(p)'
      <4>1. CASE i > 1
        <5>1. 1 \notin Live'[s] /\ (i - 1) + 1 = i
          BY <2>0, <3>4, <4>1
        <5> QED BY <2>0, <2>f, <3>3, <3>4, <4>1, <5>1 DEF Progress
      <4>2. CASE i = 1
        <5>1. s \notin foreign => Live'[s] = 1..4
          BY <3>4, <4>2
        <5> QED BY <2>f, <3>3, <4>2, <5>1 DEF Progress
      <4> QED BY <2>0, <4>1, <4>2
    <3>6. \A u \in Subnets : Live[u] = 1..4 => Live'[u] = 1..4
      BY <1>0, <2>0, <3>2
    <3> QED BY <2>b, <2>c, <3>2, <3>5, <3>6
  <2>7. CASE TruncateMarker(p)
    <3>1. setup'[p].subnet = s /\ setup'[p].pc = "write" /\ Live' = Live /\ marker' = NoMarker
      BY <2>7, <2>a, GotoFields DEF TruncateMarker
    <3>2. s \notin foreign => Live[s] = 1..4
      BY <2>0, <2>7 DEF TruncateMarker, Progress, At
    <3> QED BY <2>b, <2>f, <3>1, <3>2 DEF Progress, MarkerHonest
  <2>8. CASE WriteMarker(p)
    <3>1. setup'[p].pc = "idle" /\ Live' = Live /\ boot' = boot
      BY <2>8, <2>a, ExitFields DEF WriteMarker
    <3>2. s \notin foreign => Live[s] = 1..4
      BY <2>0, <2>8 DEF WriteMarker, Progress, At
    <3>3. marker' = NoMarker \/ (marker'.subnet = s /\ marker'.boot = boot)
      BY <2>8 DEF WriteMarker, read_boot_id, Undisturbed
    <3>4. MarkerHonest'
      BY <1>0, <2>f, <3>1, <3>2, <3>3 DEF MarkerHonest
    <3> QED BY <2>b, <3>1, <3>4 DEF Progress
  <2>9. CASE AbortSetup(p)
    BY <2>9, <2>a, <2>b, <2>c, ExitFields DEF AbortSetup, Progress
  <2> QED BY <1>5, <2>1, <2>2, <2>3, <2>4, <2>5, <2>6, <2>7, <2>8, <2>9 DEF Step
<1> QED BY <1>2, <1>3, <1>4, <1>5 DEF Next

(* Undisturbed, an "active" marker names a subnet whose egress is dropped  *)
(* and whose replies flow, through failed and killed setups, truncated     *)
(* markers, changes of bridge_subnet, reboots and foreign deletions in     *)
(* other subnets.                                                          *)
THEOREM MarkerNeverLies ==
  ASSUME Undisturbed
  PROVE  Spec => []MarkerTruthful
<1>1. TypeOK /\ CoverInv => MarkerTruthful
  BY FullSetEffective DEF TypeOK, Markers, CoverInv, OrderInv, MarkerHonest, MarkerTruthful, evaluate, Undisturbed
<1> QED BY <1>1, CoverInit, CoverStep, TypeCorrect, PTL DEF Spec

(* In a tidy table the covered subnets are those with all four rules.      *)
LEMMA CoveredIsFull == Tidy => Covered = {s \in Subnets \ foreign : Live[s] = 1..4}
BY FullSetEffective DEF Covered

(* Undisturbed, no step within a boot takes a subnet out of effective      *)
(* containment.                                                            *)
THEOREM CoverageLasts ==
  ASSUME Undisturbed
  PROVE  Spec => CoverageStable
<1>1. (Tidy => Covered = {s \in Subnets \ foreign : Live[s] = 1..4})'
  BY CoveredIsFull, PTL
<1>2. TypeOK /\ CoverInv /\ [Next]_vars =>
        [\A s \in Subnets \ foreign' : Effective(s) /\ boot' = boot => Effective(s)']_vars
  <2> SUFFICES ASSUME TypeOK, CoverInv, [Next]_vars, NEW s \in Subnets \ foreign', Effective(s), boot' = boot
               PROVE  Effective(s)'
    BY DEF vars
  <2>1. Tidy /\ Tidy'
    BY CoverStep DEF CoverInv, OrderInv
  <2>2. Live[s] = 1..4
    BY <2>1, FullSetEffective
  <2>3. Live'[s] = 1..4
    BY <2>2, CoverStep
  <2> QED BY <1>1, <2>1, <2>3 DEF Covered
<1> QED BY <1>2, CoverInit, CoverStep, TypeCorrect, PTL DEF Spec, CoverageStable

(* Every step of the host is a step of EgressPromise or leaves what it     *)
(* speaks of unchanged: the last insert covers a subnet, the marker's text *)
(* promises one, truncating the marker retracts, a reboot forgets.         *)
LEMMA PromiseStep ==
  ASSUME Undisturbed
  PROVE  TypeOK /\ CoverInv /\ [Next]_vars => [Promise!Next]_<<Covered, Promised, foreign>>
<1> SUFFICES ASSUME TypeOK, CoverInv, [Next]_vars
             PROVE  [Promise!Next]_<<Covered, Promised, foreign>>
  OBVIOUS
<1>0. /\ CoverInv' /\ Tidy /\ Tidy'
      /\ boot' = boot => \A s \in Subnets \ foreign' : Live[s] = 1..4 => Live'[s] = 1..4
  BY CoverStep DEF CoverInv, OrderInv
<1>1. /\ Covered = {s \in Subnets \ foreign : Live[s] = 1..4}
      /\ Covered' = {s \in Subnets \ foreign' : Live'[s] = 1..4}
  <2>1. (Tidy => Covered = {s \in Subnets \ foreign : Live[s] = 1..4})'
    BY CoveredIsFull, PTL
  <2> QED BY <1>0, <2>1, CoveredIsFull
<1>2. Live \in [Subnets -> SUBSET (1..4)] /\ Live' \in [Subnets -> SUBSET (1..4)]
  BY DEF Live
<1>3. /\ UNCHANGED <<Covered, Promised, foreign>> => [Promise!Next]_<<Covered, Promised, foreign>>
      /\ UNCHANGED <<Covered, foreign>> /\ Promised' = {} => [Promise!Next]_<<Covered, Promised, foreign>>
      /\ Promised' = {} /\ Covered' = {} /\ foreign' = {} => [Promise!Next]_<<Covered, Promised, foreign>>
      /\ \A s \in Subnets : UNCHANGED <<Promised, foreign>> /\ s \notin Covered \cup foreign /\ Covered' = Covered \cup {s} =>
           [Promise!Next]_<<Covered, Promised, foreign>>
      /\ \A s \in Subnets : s \in Covered /\ Promised' = {s} /\ UNCHANGED <<Covered, foreign>> =>
           [Promise!Next]_<<Covered, Promised, foreign>>
      /\ \A s \in Subnets : s \notin foreign /\ Covered' = Covered \ {s} /\ Promised' = Promised \ {s}
                           /\ foreign' = foreign \cup {s} => [Promise!Next]_<<Covered, Promised, foreign>>
  BY DEF Promise!Next, Promise!Retract, Promise!Forget, Promise!Cover, Promise!Promise, Promise!Disown
<1>4. CASE UNCHANGED vars
  <2>1. Live' = Live
    BY <1>4 DEF vars, Live, Present
  <2>2. Promised' = Promised /\ foreign' = foreign
    BY <1>4 DEF vars, Promised, evaluate
  <2> QED BY <1>1, <1>3, <2>1, <2>2
<1>5. CASE Reboot
  <2>1. Covered' = {} /\ foreign' = {}
    <3>1. Live' = [s \in Subnets |-> {}]
      BY <1>5, RebootEffect
    <3>2. Covered' = {}
      BY <1>1, <3>1
    <3> QED BY <1>5, <3>2 DEF Reboot
  <2>2. marker # NoMarker => marker.boot # boot'
    <3>1. boot \in Nat /\ (marker # NoMarker => marker.boot \in Nat /\ marker.boot <= boot)
      BY DEF TypeOK, Markers, CoverInv, MarkerHonest
    <3>2. boot' = boot + 1
      BY <1>5 DEF Reboot
    <3> QED BY <3>1, <3>2
  <2>3. Promised' = {}
    BY <1>5, <2>2 DEF Promised, evaluate, Reboot, Undisturbed
  <2> QED BY <1>3, <2>1, <2>3
<1>6. CASE Tamper
  <2>1. PICK s \in Subnets, i \in 1..4 : table' = Deleted(s, egress_rules[i]) /\ foreign' = foreign \cup {s}
    BY <1>6 DEF Tamper
  <2>2. Live' = [Live EXCEPT ![s] = @ \ {i}] /\ UNCHANGED <<marker, boot>>
    BY <1>0, <1>6, <2>1, DeleteEffect DEF Tamper
  <2>3. \A u \in Subnets \ foreign' : Live'[u] = Live[u]
    BY <1>2, <2>1, <2>2
  <2>4. Covered' = Covered \ {s}
    BY <1>1, <2>1, <2>3
  <2>5. Promised' = Promised \ {s}
    BY <2>1, <2>2 DEF Promised, evaluate
  <2>6. CASE s \in foreign
    <3>1. foreign' = foreign /\ s \notin Covered /\ s \notin Promised
      BY <2>1, <2>6 DEF Covered, Promised
    <3> QED BY <1>3, <2>4, <2>5, <3>1
  <2> QED BY <1>3, <2>1, <2>4, <2>5, <2>6
<1>7. ASSUME NEW p \in Setups, Step(p)
      PROVE  [Promise!Next]_<<Covered, Promised, foreign>>
  <2> DEFINE s == setup[p].subnet
             i == setup[p].rule
  <2>0. s \in Subnets /\ i \in 1..4 /\ Cleared(p) /\ Progress(p)
    BY DEF CoverInv, OrderInv, TypeOK, SetupRecords
  <2>f. foreign' = foreign
    BY <1>7 DEF Step, BeginSetup, CheckRule, ProbeRule, DeleteRule, DeleteVanished, InsertRule,
                TruncateMarker, WriteMarker, AbortSetup
  <2>a. ASSUME UNCHANGED table PROVE Covered' = Covered
    BY <2>a, <2>f DEF Covered, Effective, EgressDropped, RepliesFlow
  <2>b. ASSUME UNCHANGED <<marker, boot>> PROVE Promised' = Promised
    BY <2>b, <2>f DEF Promised, evaluate
  <2>c. ASSUME UNCHANGED <<table, marker, boot>> PROVE [Promise!Next]_<<Covered, Promised, foreign>>
    BY <1>3, <2>a, <2>b, <2>c, <2>f
  <2>1. CASE BeginSetup(p) \/ CheckRule(p) \/ ProbeRule(p) \/ DeleteVanished(p) \/ AbortSetup(p)
    BY <2>1, <2>c DEF BeginSetup, CheckRule, ProbeRule, DeleteVanished, AbortSetup
  <2>2. CASE DeleteRule(p)
    <3>1. Live' = [Live EXCEPT ![s] = @ \ {i}] /\ UNCHANGED <<marker, boot>>
      BY <1>0, <2>0, <2>2, DeleteEffect DEF DeleteRule, Rule
    <3>2. Live[s] # 1..4
      BY <2>0, <2>2 DEF DeleteRule, Progress, At
    <3>3. Covered' = Covered
      BY <1>1, <1>2, <2>0, <2>f, <3>1, <3>2
    <3> QED BY <1>3, <2>b, <2>f, <3>1, <3>3
  <2>3. CASE InsertRule(p)
    <3>1. Live[s] \cap 1..i = {} /\ Live[s] # 1..4
      BY <2>0, <2>3 DEF InsertRule, Cleared, Progress, At
    <3>2. Live' = [Live EXCEPT ![s] = @ \cup {i}] /\ UNCHANGED <<marker, boot>>
      BY <1>0, <2>0, <2>3, <3>1, InsertEffect DEF InsertRule, Rule
    <3>3. CASE s \in foreign \/ Live'[s] # 1..4
      <4>1. Covered' = Covered
        BY <1>1, <1>2, <2>0, <2>f, <3>1, <3>2, <3>3
      <4> QED BY <1>3, <2>b, <2>f, <3>2, <4>1
    <3>4. CASE s \notin foreign /\ Live'[s] = 1..4
      <4>1. s \notin Covered \cup foreign /\ Covered' = Covered \cup {s}
        BY <1>1, <1>2, <2>0, <2>f, <3>1, <3>2, <3>4
      <4> QED BY <1>3, <2>0, <2>b, <2>f, <3>2, <4>1
    <3> QED BY <3>3, <3>4
  <2>4. CASE TruncateMarker(p)
    <3>1. Promised' = {}
      BY <2>4 DEF TruncateMarker, Promised, evaluate
    <3> QED BY <1>3, <2>4, <2>a, <2>f, <3>1 DEF TruncateMarker
  <2>5. CASE WriteMarker(p)
    <3>1. (s \notin foreign => s \in Covered) /\ Covered' = Covered
      BY <1>1, <2>0, <2>5, <2>a DEF WriteMarker, Progress, At
    <3>2. CASE marker' = NoMarker
      <4>1. Promised' = {}
        BY <3>2 DEF Promised, evaluate
      <4> QED BY <1>3, <2>f, <3>1, <4>1
    <3>3. CASE marker' = [subnet |-> s, boot |-> read_boot_id] /\ marker' # NoMarker
      <4>1. marker'.boot = boot' /\ marker'.subnet = s
        BY <2>5, <3>3 DEF WriteMarker, read_boot_id, Undisturbed
      <4>2. CASE s \in foreign
        <5>1. Promised' = {}
          BY <2>f, <3>3, <4>1, <4>2 DEF Promised, evaluate
        <5> QED BY <1>3, <2>f, <3>1, <5>1
      <4>3. CASE s \notin foreign
        <5>1. Promised' = {s}
          BY <2>0, <2>f, <3>3, <4>1, <4>3 DEF Promised, evaluate
        <5> QED BY <1>3, <2>0, <2>f, <3>1, <4>3, <5>1
      <4> QED BY <4>2, <4>3
    <3> QED BY <2>5, <3>2, <3>3 DEF WriteMarker
  <2> QED BY <1>7, <2>1, <2>2, <2>3, <2>4, <2>5 DEF Step
<1> QED BY <1>4, <1>5, <1>6, <1>7 DEF Next

(* Undisturbed, iptables calls, marker file and boot id together implement *)
(* EgressPromise.                                                          *)
THEOREM ContainmentKeepsPromise ==
  ASSUME Undisturbed
  PROVE  Spec => KeepsPromise
<1>1. Init => Promise!Init
  BY DEF Init, Promise!Init, Covered, Promised, evaluate, Effective, EgressDropped, Contains, Chains
<1>2. TypeOK /\ CoverInv /\ [Next]_vars => [Promise!Next]_Promise!vars
  BY PromiseStep DEF Promise!vars
<1> QED BY <1>1, <1>2, CoverInit, CoverStep, TypeCorrect, PTL DEF Spec, KeepsPromise, Promise!Spec
=============================================================================
