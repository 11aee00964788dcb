----------------------- MODULE ContainmentSettles_proofs -----------------------
(***************************************************************************)
(* Any number of containment-setups at once, none of them killed.  They    *)
(* delete and insert each other's rules, so a chain may hold anything, and *)
(* nothing can be said of a subnet while they run.  What lasts is that     *)
(* every rule somebody may rely on is either there or still to be inserted *)
(* by an invocation on its way to do so.                                   *)
(***************************************************************************)
EXTENDS Containment_proofs

-----------------------------------------------------------------------------

(* Invocation p will insert rule i of subnet s if nothing stops it: it is  *)
(* past the point where it could find i and delete it.                     *)
Restores(p, s, i) ==
  /\ setup[p].subnet = s
  /\ \/ setup[p].pc \in {"probe", "delete"} /\ i < setup[p].rule
     \/ setup[p].pc = "insert" /\ i <= setup[p].rule

Restored(s, i) == \E p \in Setups : Restores(p, s, i)

Kept(s, i) == Present(s, egress_rules[i]) \/ Restored(s, i)

(* The rules of its subnet that invocation p has found or inserted, and    *)
(* relies on from there.                                                   *)
Claims(p) ==
  {i \in 1..4 :
     \/ setup[p].pc = "check" /\ i < setup[p].rule
     \/ setup[p].pc = "delete" /\ i = setup[p].rule
     \/ setup[p].pc = "insert" /\ i > setup[p].rule
     \/ setup[p].pc \in {"truncate", "write"}
     \/ setup[p].pc = "idle" /\ setup[p].outcome = "installed"}

(* Rules 1 and 3 are the accepts of the two chains: each is the first of   *)
(* its chain or will be inserted on top of it.                             *)
Headed(s, i) ==
  LET chain == table[s][egress_rules[i].chain]
  IN  chain # <<>> => Head(chain) = "accept" \/ Restored(s, i)

ClaimsKept ==
  \A p \in Setups : setup[p].subnet \notin foreign => \A i \in Claims(p) : Kept(setup[p].subnet, i)

AcceptsHeaded == \A s \in Subnets \ foreign : Headed(s, 1) /\ Headed(s, 3)

MarkerKept ==
  marker # NoMarker =>
    /\ marker.boot <= boot
    /\ marker.boot = boot /\ marker.subnet \notin foreign => \A i \in 1..4 : Kept(marker.subnet, i)

SettleInv == ClaimsKept /\ AcceptsHeaded /\ MarkerKept

-----------------------------------------------------------------------------
(* iptables on chains of any content.                                      *)

(* `iptables -D` of one target leaves the other where it was found.        *)
LEMMA OtherStays ==
  ASSUME NEW S, NEW q \in Seq(S), NEW t, NEW u, t # u, Contains(q, u)
  PROVE  Contains(RemoveFirst(q, t), u)
<1> DEFINE I == {i \in 1..Len(q) : q[i] = t}
<1>1. CASE I = {}
  BY <1>1 DEF RemoveFirst
<1>2. CASE I # {}
  <2>0. Len(q) \in Nat /\ I \in SUBSET Nat
    BY LenProperties
  <2> DEFINE m == Min(I)
  <2>1. m \in 1..Len(q) /\ q[m] = t
    BY <1>2, <2>0, MinOfNats
  <2>2. RemoveFirst(q, t) = RemoveAt(q, m)
    BY <1>2 DEF RemoveFirst, SelectInSeq
  <2> HIDE DEF m
  <2>3. \A i \in 1..Len(q) : q[i] \in S
    BY ElementOfSeq
  <2> DEFINE a == SubSeq(q, 1, m - 1)
             b == SubSeq(q, m + 1, Len(q))
  <2>4. /\ a \in Seq(S) /\ Len(a) = m - 1
        /\ \A i \in 1..(m - 1) : a[i] = q[i]
    <3>1. 1 \in Int /\ m - 1 \in Int /\ \A i \in 1..(m - 1) : q[i] \in S
      BY <2>0, <2>1, <2>3
    <3>2. /\ a \in Seq(S)
          /\ Len(a) = IF 1 <= m - 1 THEN (m - 1) - 1 + 1 ELSE 0
          /\ \A i \in 1..((m - 1) - 1 + 1) : a[i] = q[1 + i - 1]
      BY <3>1, SubSeqProperties
    <3> HIDE DEF a
    <3> QED BY <2>0, <2>1, <3>2
  <2>5. /\ b \in Seq(S) /\ Len(b) = Len(q) - m
        /\ \A i \in 1..(Len(q) - m) : b[i] = q[m + i]
    <3>1. m + 1 \in Int /\ Len(q) \in Int /\ \A i \in (m + 1)..Len(q) : q[i] \in S
      BY <2>0, <2>1, <2>3
    <3>2. /\ b \in Seq(S)
          /\ Len(b) = IF m + 1 <= Len(q) THEN Len(q) - (m + 1) + 1 ELSE 0
          /\ \A i \in 1..(Len(q) - (m + 1) + 1) : b[i] = q[(m + 1) + i - 1]
      BY <3>1, SubSeqProperties
    <3> HIDE DEF b
    <3> QED BY <2>0, <2>1, <3>2
  <2> HIDE DEF a, b
  <2>6. /\ Len(a \o b) = Len(a) + Len(b)
        /\ \A i \in 1..(Len(a) + Len(b)) : (a \o b)[i] = IF i <= Len(a) THEN a[i] ELSE b[i - Len(a)]
    BY <2>4, <2>5, ConcatProperties
  <2>7. RemoveAt(q, m) = a \o b
    BY DEF RemoveAt, a, b
  <2>8. PICK k \in 1..Len(q) : q[k] = u
    BY DEF Contains
  <2>9. k # m
    BY <2>1, <2>8
  <2> DEFINE j == IF k < m THEN k ELSE k - 1
  <2>10. j \in 1..Len(a \o b) /\ (a \o b)[j] = u
    <3>1. CASE k < m
      BY <2>0, <2>1, <2>4, <2>5, <2>6, <2>8, <3>1
    <3>2. CASE k > m
      <4>1. j = k - 1 /\ k - m \in 1..(Len(q) - m) /\ j - Len(a) = k - m /\ ~ (j <= Len(a))
            /\ j \in 1..(Len(a) + Len(b))
        BY <2>0, <2>1, <2>4, <2>5, <2>8, <3>2
      <4>2. b[k - m] = q[k]
        <5>1. b[k - m] = q[m + (k - m)]
          BY <2>5, <4>1
        <5> QED BY <2>1, <2>8, <2>0, <5>1
      <4> QED BY <2>6, <2>8, <4>1, <4>2
    <3> QED BY <2>0, <2>1, <2>8, <2>9, <3>1, <3>2
  <2> QED BY <2>2, <2>7, <2>10 DEF Contains
<1> QED BY <1>1, <1>2

(* `iptables -I 1` puts a rule on top and moves no other out.              *)
LEMMA OnTop ==
  ASSUME NEW S, NEW q \in Seq(S), NEW t \in S
  PROVE  /\ Head(<<t>> \o q) = t
         /\ Contains(<<t>> \o q, t)
         /\ \A u : Contains(q, u) => Contains(<<t>> \o q, u)
<1>1. <<t>> \in Seq(S) /\ Len(<<t>>) = 1 /\ <<t>>[1] = t
  OBVIOUS
<1>2. Len(q) \in Nat
  BY LenProperties
<1> DEFINE r == <<t>> \o q
<1>3. r \in Seq(S) /\ Len(r) = 1 + Len(q) /\ \A i \in 1..(1 + Len(q)) : r[i] = IF i <= 1 THEN <<t>>[i] ELSE q[i - 1]
  BY <1>1, ConcatProperties
<1> HIDE DEF r
<1>4. 1 \in 1..Len(r) /\ r[1] = t
  BY <1>1, <1>2, <1>3
<1>5. ASSUME NEW i \in 1..Len(q) PROVE i + 1 \in 1..Len(r) /\ r[i + 1] = q[i]
  <2>1. i + 1 \in 1..(1 + Len(q)) /\ ~ (i + 1 <= 1) /\ (i + 1) - 1 = i
    BY <1>2
  <2> QED BY <1>3, <2>1
<1>6. Head(r) = t
  BY <1>3, <1>4
<1> QED BY <1>4, <1>5, <1>6 DEF Contains, r

(* -D of rule i takes at most that one away, and touches one chain.        *)
LEMMA DeleteLeaves ==
  ASSUME TypeOK, NEW s \in Subnets, NEW i \in 1..4, table' = Deleted(s, egress_rules[i])
  PROVE  /\ \A u \in Subnets, j \in 1..4 :
              Present(u, egress_rules[j]) /\ ~ (u = s /\ j = i) => Present(u, egress_rules[j])'
         /\ \A u \in Subnets, c \in Chains :
              u # s \/ c # egress_rules[i].chain => table'[u][c] = table[u][c]
<1> DEFINE c == egress_rules[i].chain
           t == egress_rules[i].target
<1>1. c \in Chains /\ t \in Targets /\ table[s][c] \in Seq(Targets)
  BY RuleType DEF TypeOK
<1>2. table' = [table EXCEPT ![s][c] = RemoveFirst(@, t)]
  BY DEF Deleted
<1>3. /\ table'[s][c] = RemoveFirst(table[s][c], t)
      /\ \A u \in Subnets, d \in Chains : u # s \/ d # c => table'[u][d] = table[u][d]
  BY <1>1, <1>2 DEF TypeOK
<1>4. ASSUME NEW u \in Subnets, NEW j \in 1..4, Present(u, egress_rules[j]), ~ (u = s /\ j = i)
      PROVE  Present(u, egress_rules[j])'
  <2> DEFINE r == egress_rules[j]
  <2>1. r.chain \in Chains /\ r.target \in Targets
    BY RuleType
  <2>2. CASE u # s \/ r.chain # c
    BY <1>3, <1>4, <2>1, <2>2 DEF Present
  <2>3. CASE u = s /\ r.chain = c
    <3>1. r.target # t
      BY <1>4, <2>3, RuleDistinct
    <3> QED BY <1>1, <1>3, <1>4, <2>1, <2>3, <3>1, OtherStays DEF Present
  <2> QED BY <2>2, <2>3
<1> QED BY <1>3, <1>4

(* -I 1 of rule i puts it on top of its chain and takes nothing away.      *)
LEMMA InsertLeaves ==
  ASSUME TypeOK, NEW s \in Subnets, NEW i \in 1..4, table' = Inserted(s, egress_rules[i])
  PROVE  /\ Present(s, egress_rules[i])'
         /\ Head(table'[s][egress_rules[i].chain]) = egress_rules[i].target
         /\ \A u \in Subnets, j \in 1..4 : Present(u, egress_rules[j]) => Present(u, egress_rules[j])'
         /\ \A u \in Subnets, c \in Chains :
              u # s \/ c # egress_rules[i].chain => table'[u][c] = table[u][c]
<1> DEFINE c == egress_rules[i].chain
           t == egress_rules[i].target
<1>1. c \in Chains /\ t \in Targets /\ table[s][c] \in Seq(Targets)
  BY RuleType DEF TypeOK
<1>2. table' = [table EXCEPT ![s][c] = <<t>> \o @]
  BY DEF Inserted
<1>3. /\ table'[s][c] = <<t>> \o table[s][c]
      /\ \A u \in Subnets, d \in Chains : u # s \/ d # c => table'[u][d] = table[u][d]
  BY <1>1, <1>2 DEF TypeOK
<1>4. /\ Head(table'[s][c]) = t
      /\ Contains(table'[s][c], t)
      /\ \A u : Contains(table[s][c], u) => Contains(table'[s][c], u)
  BY <1>1, <1>3, OnTop
<1>5. ASSUME NEW u \in Subnets, NEW j \in 1..4, Present(u, egress_rules[j]) PROVE Present(u, egress_rules[j])'
  <2>1. egress_rules[j].chain \in Chains
    BY RuleType
  <2> QED BY <1>3, <1>4, <1>5, <2>1 DEF Present
<1> QED BY <1>3, <1>4, <1>5 DEF Present

-----------------------------------------------------------------------------
(* What one step does to the invocations that have rules to put back.      *)

(* Only p moved: a rule that p goes on restoring goes on being restored.   *)
LEMMA RestoredStays ==
  ASSUME NEW p \in Setups, \A q \in Setups \ {p} : setup'[q] = setup[q],
         NEW s, NEW i, Restored(s, i), Restores(p, s, i) => Restores(p, s, i)'
  PROVE  Restored(s, i)'
BY DEF Restored, Restores

(* A higher rule being restored, so are the lower ones.                    *)
LEMMA RestoredBelow ==
  ASSUME TypeOK, NEW q \in Setups, NEW s, NEW i \in 1..4, NEW j \in 1..4, j < i, Restores(q, s, i)
  PROVE  Restores(q, s, j)
<1>1. setup[q].rule \in 1..4
  BY DEF TypeOK, SetupRecords
<1> QED BY <1>1 DEF Restores

(* A step that loses no rule but of a subnet something else deletes from.  *)
KeepsKept == \A s \in Subnets \ foreign', i \in 1..4 : Kept(s, i) => Kept(s, i)'

(* No rule has been lost by a step of p but what p puts back, and p's own  *)
(* claims are on rules it claimed before or that are kept now.             *)
LEMMA SettleByStep ==
  ASSUME TypeOK, SettleInv, NEW p \in Setups, \A q \in Setups \ {p} : setup'[q] = setup[q],
         UNCHANGED <<boot, foreign>>,
         KeepsKept,
         setup'[p].subnet \notin foreign =>
           \A i \in Claims(p)' : (setup'[p].subnet = setup[p].subnet /\ i \in Claims(p)) \/ Kept(setup[p].subnet, i)',
         AcceptsHeaded',
         \/ marker' = marker
         \/ marker' = NoMarker
         \/ /\ marker'.boot <= boot
            /\ marker'.subnet \in Subnets
            /\ marker'.subnet \notin foreign => \A i \in 1..4 : Kept(marker'.subnet, i)
  PROVE  SettleInv'
<1>1. \A q \in Setups : setup[q].subnet \in Subnets
  BY DEF TypeOK, SetupRecords
<1>k. \A s \in Subnets \ foreign, i \in 1..4 : Kept(s, i) => Kept(s, i)'
  BY DEF KeepsKept
<1>2. ASSUME NEW q \in Setups, setup'[q].subnet \notin foreign', NEW i \in Claims(q)'
      PROVE  Kept(setup[q].subnet, i)'
  <2>1. \A j \in Claims(q) : j \in 1..4
    BY DEF Claims
  <2>2. CASE q # p
    <3>1. setup'[q] = setup[q] /\ i \in Claims(q) /\ setup[q].subnet \notin foreign
      BY <1>2, <2>2 DEF Claims
    <3>2. Kept(setup[q].subnet, i)
      BY <3>1 DEF SettleInv, ClaimsKept
    <3> QED BY <1>1, <1>k, <2>1, <3>1, <3>2
  <2>3. CASE q = p
    <3>1. CASE setup'[p].subnet = setup[p].subnet /\ i \in Claims(p)
      <4>1. Kept(setup[p].subnet, i) /\ setup[p].subnet \notin foreign
        BY <1>2, <2>3, <3>1 DEF SettleInv, ClaimsKept
      <4> QED BY <1>1, <1>k, <2>1, <2>3, <3>1, <4>1
    <3> QED BY <1>2, <2>3, <3>1
  <2> QED BY <2>2, <2>3
<1>3. ClaimsKept'
  BY <1>2 DEF ClaimsKept
<1>4. MarkerKept'
  <2>1. CASE marker' = marker
    <3>1. marker # NoMarker => marker.subnet \in Subnets
      BY DEF TypeOK, Markers
    <3> QED BY <1>k, <2>1, <3>1 DEF SettleInv, MarkerKept
  <2>2. CASE marker' = NoMarker
    BY <2>2 DEF MarkerKept
  <2>3. CASE /\ marker'.boot <= boot
             /\ marker'.subnet \in Subnets
             /\ marker'.subnet \notin foreign => \A i \in 1..4 : Kept(marker'.subnet, i)
    BY <1>k, <2>3 DEF MarkerKept
  <2> QED BY <2>1, <2>2, <2>3
<1> QED BY <1>3, <1>4 DEF SettleInv

(* A step that leaves the table alone and goes on restoring what was       *)
(* restored loses nothing.                                                 *)
LEMMA QuietStep ==
  ASSUME SettleInv, UNCHANGED <<table, foreign>>,
         \A s \in Subnets \ foreign, i \in 1..4 : Restored(s, i) => Restored(s, i)'
  PROVE  KeepsKept /\ AcceptsHeaded'
<1>1. ASSUME NEW s \in Subnets \ foreign, NEW i \in 1..4, Kept(s, i) PROVE Kept(s, i)'
  BY <1>1 DEF Kept, Present
<1>2. ASSUME NEW s \in Subnets \ foreign, NEW i \in {1, 3} PROVE Headed(s, i)'
  <2>1. Headed(s, i)
    BY <1>2 DEF SettleInv, AcceptsHeaded
  <2> QED BY <2>1 DEF Headed
<1> QED BY <1>1, <1>2 DEF AcceptsHeaded, KeepsKept

(* Every step of an invocation keeps SettleInv, and what is kept.          *)
LEMMA SettleOwnStep ==
  ASSUME ~ MayAbort, TypeOK, SettleInv, NEW p \in Setups, Step(p)
  PROVE  SettleInv' /\ foreign' = foreign /\ KeepsKept
<1>t. setup[p].subnet \in Subnets /\ setup[p].rule \in 1..4 /\ setup \in [Setups -> SetupRecords]
  BY DEF TypeOK, SetupRecords
<1> SUFFICES ASSUME NEW s \in Subnets, NEW i \in 1..4, s = setup[p].subnet, i = setup[p].rule
             PROVE  SettleInv' /\ foreign' = foreign /\ KeepsKept
  BY <1>t
<1>0. s = setup[p].subnet /\ i = setup[p].rule /\ setup \in [Setups -> SetupRecords] /\ setup[p] \in SetupRecords
  BY <1>t
<1>o. (\A q \in Setups \ {p} : setup'[q] = setup[q]) /\ UNCHANGED <<boot, foreign>>
  BY <1>0 DEF Step, BeginSetup, CheckRule, ProbeRule, DeleteRule, DeleteVanished, InsertRule,
              TruncateMarker, WriteMarker, AbortSetup, NextLeftover, Goto, Exit
<1>q. ASSUME UNCHANGED table, \A u \in Subnets \ foreign, j \in 1..4 : Restores(p, u, j) => Restored(u, j)'
      PROVE  KeepsKept /\ AcceptsHeaded'
  <2>1. ASSUME NEW u \in Subnets \ foreign, NEW j \in 1..4, Restored(u, j) PROVE Restored(u, j)'
    BY <1>o, <1>q, <2>1 DEF Restored, Restores
  <2> QED BY <1>o, <1>q, <2>1, QuietStep
<1>1. CASE BeginSetup(p)
  <2>1. UNCHANGED <<table, marker>> /\ setup[p].pc = "idle" /\ setup'[p].pc = "check" /\ setup'[p].rule = 1
    BY <1>0, <1>1 DEF BeginSetup, At
  <2>2. Claims(p)' = {} /\ \A u, j : ~ Restores(p, u, j)
    BY <2>1 DEF Claims, Restores
  <2> QED BY <1>o, <1>q, <2>1, <2>2, SettleByStep
<1>2. CASE CheckRule(p)
  <2>1. UNCHANGED <<table, marker>> /\ setup[p].pc = "check" /\ setup'[p].subnet = s
    BY <1>2, GotoFields DEF CheckRule, At
  <2>2. IF ~ Present(s, egress_rules[i]) THEN setup'[p].pc = "probe"
        ELSE IF i < 4 THEN setup'[p].pc = "check" /\ setup'[p].rule = i + 1
        ELSE i = 4 /\ setup'[p].pc = "truncate"
    BY <1>0, <1>2, GotoFields DEF CheckRule, Rule
  <2>3. \A u, j : ~ Restores(p, u, j)
    BY <2>1 DEF Restores
  <2>4. ASSUME NEW j \in Claims(p)' PROVE j \in Claims(p) \/ Kept(s, j)'
    <3>1. j \in 1..4 /\ Present(s, egress_rules[i]) /\ j <= i
      BY <1>0, <2>2, <2>4 DEF Claims
    <3>2. CASE j < i
      BY <2>1, <3>1, <3>2 DEF Claims
    <3>3. CASE j = i
      BY <2>1, <3>1, <3>3 DEF Kept, Present
    <3> QED BY <1>0, <3>1, <3>2, <3>3
  <2> QED BY <1>o, <1>q, <2>1, <2>3, <2>4, SettleByStep
<1>3. CASE ProbeRule(p)
  <2>1. UNCHANGED <<table, marker>> /\ setup[p].pc = "probe" /\ setup'[p].subnet = s
    BY <1>3, GotoFields DEF ProbeRule, NextLeftover, At
  <2>2. IF Present(s, egress_rules[i]) THEN setup'[p].pc = "delete" /\ setup'[p].rule = i
        ELSE IF i < 4 THEN setup'[p].pc = "probe" /\ setup'[p].rule = i + 1
        ELSE setup'[p].pc = "insert" /\ setup'[p].rule = 4
    BY <1>0, <1>3, GotoFields DEF ProbeRule, NextLeftover, Rule
  <2>3. ASSUME NEW u \in Subnets \ foreign, NEW j \in 1..4, Restores(p, u, j) PROVE Restored(u, j)'
    <3>1. Restores(p, u, j)'
      BY <1>0, <2>1, <2>2, <2>3 DEF Restores
    <3> QED BY <3>1 DEF Restored
  <2>4. ASSUME NEW j \in Claims(p)' PROVE Kept(s, j)'
    <3>1. j = i /\ Present(s, egress_rules[i])
      BY <1>0, <2>2, <2>4 DEF Claims
    <3> QED BY <2>1, <3>1 DEF Kept, Present
  <2> QED BY <1>o, <1>q, <2>1, <2>3, <2>4, SettleByStep
<1>4. CASE DeleteRule(p)
  <2>1. marker' = marker /\ setup[p].pc = "delete" /\ setup'[p].subnet = s /\ table' = Deleted(s, egress_rules[i])
    BY <1>4, GotoFields DEF DeleteRule, NextLeftover, At, Rule
  <2>2. IF i < 4 THEN setup'[p].pc = "probe" /\ setup'[p].rule = i + 1
        ELSE setup'[p].pc = "insert" /\ setup'[p].rule = 4
    BY <1>4, GotoFields DEF DeleteRule, NextLeftover
  <2>3. ASSUME NEW j \in 1..4, j <= i PROVE Restored(s, j)'
    <3>1. Restores(p, s, j)'
      BY <1>0, <2>1, <2>2, <2>3 DEF Restores
    <3> QED BY <3>1 DEF Restored
  <2>4. ASSUME NEW u \in Subnets, NEW j \in 1..4, Restored(u, j) PROVE Restored(u, j)'
    <3>1. Restores(p, u, j) => Restores(p, u, j)'
      BY <1>0, <2>1, <2>2, <2>4 DEF Restores
    <3> QED BY <1>o, <2>4, <3>1, RestoredStays
  <2>5. ASSUME NEW u \in Subnets \ foreign, NEW j \in 1..4, Kept(u, j) PROVE Kept(u, j)'
    <3>1. CASE u = s /\ j = i
      BY <1>0, <2>3, <3>1 DEF Kept
    <3>2. CASE ~ (u = s /\ j = i)
      BY <1>0, <2>1, <2>4, <2>5, <3>2, DeleteLeaves DEF Kept
    <3> QED BY <3>1, <3>2
  <2>6. ASSUME NEW u \in Subnets \ foreign, NEW j \in {1, 3} PROVE Headed(u, j)'
    <3>1. Headed(u, j)
      BY <2>6 DEF SettleInv, AcceptsHeaded
    <3>2. egress_rules[j].chain \in Chains
      BY RuleType
    <3>3. CASE u # s \/ egress_rules[j].chain # egress_rules[i].chain
      <4>1. table'[u][egress_rules[j].chain] = table[u][egress_rules[j].chain]
        BY <1>0, <2>1, <3>2, <3>3, DeleteLeaves
      <4> QED BY <2>4, <3>1, <4>1 DEF Headed
    <3>4. CASE u = s /\ egress_rules[j].chain = egress_rules[i].chain
      <4>1. j <= i
        BY <1>0, <3>4 DEF egress_rules
      <4> QED BY <2>3, <3>4, <4>1 DEF Headed
    <3> QED BY <3>3, <3>4
  <2>7. AcceptsHeaded'
    BY <1>o, <2>6 DEF AcceptsHeaded
  <2>8. Claims(p)' = {}
    BY <2>2 DEF Claims
  <2>9. KeepsKept
    BY <1>o, <2>5 DEF KeepsKept
  <2> QED BY <1>o, <2>1, <2>7, <2>8, <2>9, SettleByStep
<1>5. CASE DeleteVanished(p)
  <2>1. UNCHANGED <<table, marker>> /\ setup[p].pc = "delete" /\ ~ Present(s, egress_rules[i])
        /\ setup'[p].pc = "idle" /\ setup'[p].outcome = "failed"
    BY <1>0, <1>5 DEF DeleteVanished, Exit, At, Rule, SetupRecords
  <2>2. ASSUME NEW u \in Subnets \ foreign, NEW j \in 1..4, Restores(p, u, j) PROVE Restored(u, j)'
    <3>1. u = s /\ j < i
      BY <2>1, <2>2 DEF Restores
    <3>2. i \in Claims(p)
      BY <1>0, <2>1 DEF Claims
    <3>3. Restored(s, i)
      BY <2>1, <2>2, <3>1, <3>2 DEF SettleInv, ClaimsKept, Kept
    <3>4. PICK q \in Setups : Restores(q, s, i)
      BY <3>3 DEF Restored
    <3>5. q # p
      BY <1>0, <2>1, <3>4 DEF Restores
    <3>6. Restores(q, s, j)
      BY <1>0, <3>1, <3>4, RestoredBelow
    <3>7. Restores(q, s, j)'
      BY <1>o, <3>5, <3>6 DEF Restores
    <3> QED BY <3>1, <3>7 DEF Restored
  <2>3. Claims(p)' = {}
    BY <2>1 DEF Claims
  <2> QED BY <1>o, <1>q, <2>1, <2>2, <2>3, SettleByStep
<1>6. CASE InsertRule(p)
  <2>1. marker' = marker /\ setup[p].pc = "insert" /\ setup'[p].subnet = s /\ table' = Inserted(s, egress_rules[i])
    BY <1>6, GotoFields DEF InsertRule, At, Rule
  <2>2. IF i > 1 THEN setup'[p].pc = "insert" /\ setup'[p].rule = i - 1 ELSE i = 1 /\ setup'[p].pc = "truncate"
    BY <1>0, <1>6, GotoFields DEF InsertRule
  <2>3. /\ Present(s, egress_rules[i])'
        /\ Head(table'[s][egress_rules[i].chain]) = egress_rules[i].target
        /\ \A u \in Subnets, j \in 1..4 : Present(u, egress_rules[j]) => Present(u, egress_rules[j])'
        /\ \A u \in Subnets, c \in Chains : u # s \/ c # egress_rules[i].chain => table'[u][c] = table[u][c]
    BY <1>0, <2>1, InsertLeaves
  <2>4. ASSUME NEW u \in Subnets, NEW j \in 1..4, Restored(u, j), ~ (u = s /\ j = i) PROVE Restored(u, j)'
    <3>1. Restores(p, u, j) => Restores(p, u, j)'
      BY <1>0, <2>1, <2>2, <2>4 DEF Restores
    <3> QED BY <1>o, <2>4, <3>1, RestoredStays
  <2>5. ASSUME NEW u \in Subnets \ foreign, NEW j \in 1..4, Kept(u, j) PROVE Kept(u, j)'
    <3>1. CASE u = s /\ j = i
      BY <2>3, <3>1 DEF Kept
    <3>2. CASE ~ (u = s /\ j = i)
      BY <2>3, <2>4, <2>5, <3>2 DEF Kept
    <3> QED BY <3>1, <3>2
  <2>6. ASSUME NEW u \in Subnets \ foreign, NEW j \in {1, 3} PROVE Headed(u, j)'
    <3>1. Headed(u, j)
      BY <2>6 DEF SettleInv, AcceptsHeaded
    <3>2. egress_rules[j].chain \in Chains /\ egress_rules[j].target = "accept"
      BY <2>6, RuleType DEF egress_rules
    <3>3. CASE u # s \/ egress_rules[j].chain # egress_rules[i].chain
      <4>1. table'[u][egress_rules[j].chain] = table[u][egress_rules[j].chain] /\ ~ (u = s /\ j = i)
        BY <2>3, <3>2, <3>3
      <4> QED BY <2>4, <3>1, <4>1 DEF Headed
    <3>4. CASE u = s /\ egress_rules[j].chain = egress_rules[i].chain /\ j = i
      BY <2>3, <3>2, <3>4 DEF Headed
    <3>5. CASE u = s /\ egress_rules[j].chain = egress_rules[i].chain /\ j # i
      <4>1. i > 1 /\ j <= i - 1
        BY <1>0, <2>6, <3>5 DEF egress_rules
      <4>2. Restores(p, s, j)'
        BY <1>0, <2>1, <2>2, <4>1 DEF Restores
      <4>3. Restored(u, j)'
        BY <3>5, <4>2 DEF Restored
      <4> QED BY <4>3 DEF Headed
    <3> QED BY <3>3, <3>4, <3>5
  <2>7. AcceptsHeaded'
    BY <1>o, <2>6 DEF AcceptsHeaded
  <2>8. ASSUME NEW j \in Claims(p)' PROVE j \in Claims(p) \/ Kept(s, j)'
    <3>1. j \in 1..4 /\ j >= i
      BY <1>0, <2>2, <2>8 DEF Claims
    <3>2. CASE j > i
      BY <2>1, <3>1, <3>2 DEF Claims
    <3>3. CASE j = i
      <4>1. Present(s, egress_rules[j])'
        BY <2>3, <3>3
      <4>2. Kept(s, j)'
        BY <4>1 DEF Kept
      <4> QED BY <4>2
    <3>4. j > i \/ j = i
      BY <1>0, <3>1
    <3> QED BY <3>2, <3>3, <3>4
  <2>9. KeepsKept
    BY <1>o, <2>5 DEF KeepsKept
  <2> QED BY <1>o, <2>1, <2>7, <2>8, <2>9, SettleByStep
<1>7. CASE TruncateMarker(p)
  <2>1. UNCHANGED table /\ marker' = NoMarker /\ setup[p].pc = "truncate" /\ setup'[p].subnet = s
        /\ setup'[p].pc = "write"
    BY <1>7, GotoFields DEF TruncateMarker, At
  <2>2. (\A u, j : ~ Restores(p, u, j)) /\ Claims(p)' \subseteq Claims(p)
    BY <2>1 DEF Restores, Claims
  <2> QED BY <1>o, <1>q, <2>1, <2>2, SettleByStep
<1>8. CASE WriteMarker(p)
  <2>1. UNCHANGED table /\ setup[p].pc = "write" /\ setup'[p].pc = "idle" /\ setup'[p].subnet = s
    BY <1>8, ExitFields DEF WriteMarker, At
  <2>2. (\A u, j : ~ Restores(p, u, j)) /\ Claims(p)' \subseteq Claims(p) /\ Claims(p) = 1..4
    BY <2>1 DEF Restores, Claims
  <2>3. marker' = NoMarker \/ (marker'.subnet = s /\ marker'.boot = read_boot_id)
    BY <1>8 DEF WriteMarker
  <2>4. read_boot_id <= boot
    BY ContainmentAssumption DEF read_boot_id, NoBootId, TypeOK
  <2>5. s \notin foreign => \A j \in 1..4 : Kept(s, j)
    BY <2>2 DEF SettleInv, ClaimsKept
  <2> QED BY <1>0, <1>o, <1>q, <2>1, <2>2, <2>3, <2>4, <2>5, SettleByStep
<1>9. CASE AbortSetup(p)
  BY <1>9 DEF AbortSetup
<1> QED BY <1>1, <1>2, <1>3, <1>4, <1>5, <1>6, <1>7, <1>8, <1>9 DEF Step

(* Every step keeps it: a reboot ends every claim, and a foreign deletion  *)
(* only those on a subnet that is spoken of no longer.                     *)
LEMMA SettleStep ==
  ASSUME ~ MayAbort
  PROVE  TypeOK /\ SettleInv /\ [Next]_vars => SettleInv' /\ (boot' = boot => KeepsKept)
<1> SUFFICES ASSUME TypeOK, SettleInv, [Next]_vars PROVE SettleInv' /\ (boot' = boot => KeepsKept)
  OBVIOUS
<1>1. CASE UNCHANGED vars
  BY <1>1 DEF vars, KeepsKept, SettleInv, ClaimsKept, AcceptsHeaded, MarkerKept, Claims, Kept, Headed, Restored, Restores, Present
<1>2. CASE Reboot
  <2>1. \A p \in Setups : setup'[p].pc = "idle" /\ setup'[p].outcome = "none"
    BY <1>2 DEF Reboot, TypeOK, SetupRecords
  <2>2. ClaimsKept'
    BY <2>1 DEF ClaimsKept, Claims
  <2>3. \A s \in Subnets, c \in Chains : table'[s][c] = <<>>
    BY <1>2 DEF Reboot
  <2>4. AcceptsHeaded'
    BY <2>3, RuleType DEF AcceptsHeaded, Headed
  <2>5. MarkerKept'
    <3>1. boot \in 1..MaxBoot /\ MaxBoot \in Nat /\ boot' = boot + 1 /\ marker' = marker
      BY <1>2, ContainmentAssumption DEF Reboot, TypeOK
    <3>2. marker # NoMarker => marker.boot \in Nat /\ marker.boot <= boot
      BY DEF TypeOK, Markers, SettleInv, MarkerKept
    <3>3. marker # NoMarker => marker.boot <= boot' /\ marker.boot # boot'
      BY <3>1, <3>2
    <3> QED BY <3>1, <3>3 DEF MarkerKept
  <2>6. boot' # boot
    <3>1. boot \in 1..MaxBoot /\ MaxBoot \in Nat /\ boot' = boot + 1
      BY <1>2, ContainmentAssumption DEF Reboot, TypeOK
    <3> QED BY <3>1
  <2> QED BY <2>2, <2>4, <2>5, <2>6 DEF SettleInv
<1>3. CASE Tamper
  <2>1. PICK s \in Subnets, i \in 1..4 : table' = Deleted(s, egress_rules[i]) /\ foreign' = foreign \cup {s}
    BY <1>3 DEF Tamper
  <2>2. UNCHANGED <<marker, boot, setup>>
    BY <1>3 DEF Tamper
  <2>3. \A u \in Subnets \ foreign' : u \notin foreign /\ u # s /\ \A c \in Chains : table'[u][c] = table[u][c]
    BY <2>1, DeleteLeaves
  <2>4. ASSUME NEW u \in Subnets \ foreign', NEW j \in 1..4 PROVE Restored(u, j)' = Restored(u, j)
    BY <2>2 DEF Restored, Restores
  <2>5. ASSUME NEW u \in Subnets \ foreign', NEW j \in 1..4, Kept(u, j) PROVE Kept(u, j)'
    BY <2>3, <2>4, <2>5, RuleType DEF Kept, Present
  <2>6. ASSUME NEW u \in Subnets \ foreign', NEW j \in {1, 3} PROVE Headed(u, j)'
    <3>1. Headed(u, j)
      BY <2>3, <2>6 DEF SettleInv, AcceptsHeaded
    <3> QED BY <2>3, <2>4, <3>1, RuleType DEF Headed
  <2>7. AcceptsHeaded'
    BY <2>6 DEF AcceptsHeaded
  <2>8. ASSUME NEW p \in Setups, setup'[p].subnet \notin foreign', NEW i1 \in Claims(p)'
        PROVE  Kept(setup[p].subnet, i1)'
    <3>1. setup'[p].subnet = setup[p].subnet /\ i1 \in Claims(p) /\ i1 \in 1..4 /\ setup[p].subnet \in Subnets \ foreign'
      BY <2>2, <2>8 DEF Claims, TypeOK, SetupRecords
    <3>2. Kept(setup[p].subnet, i1)
      BY <2>3, <3>1 DEF SettleInv, ClaimsKept
    <3> QED BY <2>5, <3>1, <3>2
  <2>9. ClaimsKept'
    BY <2>8 DEF ClaimsKept
  <2>10. MarkerKept'
    <3>1. marker # NoMarker => marker.subnet \in Subnets
      BY DEF TypeOK, Markers
    <3> QED BY <2>2, <2>3, <2>5, <3>1 DEF SettleInv, MarkerKept
  <2> QED BY <2>5, <2>7, <2>9, <2>10 DEF SettleInv, KeepsKept
<1>4. ASSUME NEW p \in Setups, Step(p) PROVE SettleInv' /\ KeepsKept
  BY <1>4, SettleOwnStep
<1> QED BY <1>1, <1>2, <1>3, <1>4 DEF Next

LEMMA SettleInit == Init => SettleInv
<1> SUFFICES ASSUME Init PROVE SettleInv
  OBVIOUS
<1>1. \A p \in Setups : setup[p].pc = "idle" /\ setup[p].outcome = "none"
  BY DEF Init
<1>2. ClaimsKept
  BY <1>1 DEF ClaimsKept, Claims
<1>3. AcceptsHeaded
  BY RuleType DEF Init, AcceptsHeaded, Headed
<1>4. MarkerKept
  BY DEF Init, MarkerKept
<1> QED BY <1>2, <1>3, <1>4 DEF SettleInv

(* It holds throughout, however many setups there are.                     *)
LEMMA SettleInvariant ==
  ASSUME ~ MayAbort
  PROVE  Spec => []SettleInv
BY SettleInit, SettleStep, TypeCorrect, PTL DEF Spec

-----------------------------------------------------------------------------

(* With no invocation on its way, an accept that is due is in its place,   *)
(* whether or not all four rules are there.                                *)
LEMMA HeadedFlows ==
  ASSUME SettleInv, AllIdle, NEW s \in Subnets \ foreign
  PROVE  RepliesFlow(s)
<1>1. \A i : ~ Restored(s, i)
  BY DEF AllIdle, At, Restored, Restores
<1>2. Headed(s, 1) /\ Headed(s, 3)
  BY DEF SettleInv, AcceptsHeaded
<1> QED BY <1>1, <1>2 DEF RepliesFlow, Headed, egress_rules, Chains

(* And what is kept is there.                                              *)
LEMMA KeptEffective ==
  ASSUME TypeOK, SettleInv, AllIdle, NEW s \in Subnets \ foreign, \A i \in 1..4 : Kept(s, i)
  PROVE  Effective(s)
<1>1. \A i : ~ Restored(s, i)
  BY DEF AllIdle, At, Restored, Restores
<1>2. \A i \in 1..4 : Present(s, egress_rules[i])
  BY <1>1 DEF Kept
<1>3. EgressDropped(s)
  BY <1>2 DEF EgressDropped, Present, egress_rules, Chains
<1> QED BY <1>3, HeadedFlows DEF Effective

(* Any number of containment-setups at once, on any subnets, deleting and  *)
(* inserting each other's rules and failing on the ones that vanish: once  *)
(* none runs, each that reported success left its subnet contained, foreign*)
(* deletions there apart (cli/commands/containment.py,                     *)
(* firewall.py install_rules). Killed ones can leave rules out of order.   *)
THEOREM SetupsSettle ==
  ASSUME ~ MayAbort
  PROVE  Spec => []SettledEffective
<1>1. TypeOK /\ SettleInv => SettledEffective
  <2> SUFFICES ASSUME TypeOK, SettleInv, AllIdle, NEW p \in Setups, setup[p].outcome = "installed",
                      setup[p].subnet \notin foreign
               PROVE  Effective(setup[p].subnet)
    BY DEF SettledEffective
  <2>1. setup[p].subnet \in Subnets \ foreign
    BY DEF TypeOK, SetupRecords
  <2>2. Claims(p) = 1..4
    BY DEF Claims, AllIdle, At
  <2> QED BY <2>1, <2>2, KeptEffective DEF SettleInv, ClaimsKept
<1> QED BY <1>1, SettleInvariant, TypeCorrect, PTL

(* And on a host with a boot id the marker they leave, whichever wrote it  *)
(* last, is "active" for contained subnets only (marker.py evaluate).      *)
THEOREM SettledMarkerTruthful ==
  ASSUME ~ MayAbort, HasBootId
  PROVE  Spec => []SettledTruthful
<1>1. TypeOK /\ SettleInv => SettledTruthful
  <2> SUFFICES ASSUME TypeOK, SettleInv, AllIdle, NEW s \in Subnets \ foreign, evaluate(s) = "active"
               PROVE  Effective(s)
    BY DEF SettledTruthful, MarkerTruthful
  <2>1. marker # NoMarker /\ marker.subnet = s /\ marker.boot = boot
    BY DEF evaluate
  <2> QED BY <2>1, KeptEffective DEF SettleInv, MarkerKept
<1> QED BY <1>1, SettleInvariant, TypeCorrect, PTL

(* What SettledRepliesFlow says of complete sets, of every set of rules    *)
(* that something else deleted none of.                                    *)
SettledInOrder == AllIdle => \A s \in Subnets \ foreign : RepliesFlow(s)

(* It takes a kill, or a call failing on its own, for overlapping setups   *)
(* to leave a drop above its accept: without one, however many overlap and *)
(* whatever they delete of each other's, replies flow once they are over   *)
(* (firewall.py:87-91).                                                    *)
THEOREM SetupsLeaveOrder ==
  ASSUME ~ MayAbort
  PROVE  Spec => []SettledInOrder
<1>1. SettleInv => SettledInOrder
  BY HeadedFlows DEF SettledInOrder
<1> QED BY <1>1, SettleInvariant, PTL

=============================================================================
