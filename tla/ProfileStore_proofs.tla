-------------------------- MODULE ProfileStore_proofs --------------------------
(***************************************************************************)
(* What _unique_path guarantees for any number of invocations that scan at *)
(* once, killed and failing ones included, and what the two files of one   *)
(* save have to do with each other as long as none interferes.             *)
(***************************************************************************)
EXTENDS ProfileStore, FiniteSetTheorems, TLAPS

-----------------------------------------------------------------------------
(* Files are only ever added, one per text and directory.  So a counting   *)
(* loop stops at a number no greater than that of the texts.               *)

TakenIn(d) == {n \in Numbers : files[d][n] # Absent}

(* The invocations that may still add a file to directory d.               *)
Pending(d) == {p \in Savers :
  \/ At(p, "parse")
  \/ saver[p].dir = "profiles" /\ d = "raw-xml" /\ Saving(p)
  \/ saver[p].dir = d /\ saver[p].pc \in {"probe", "open"}}

Carrying == \A p \in Savers : ~ At(p, "idle") => saver[p].xml # Absent

Counted(d) ==
  /\ IsFiniteSet(Pending(d))
  /\ Cardinality(TakenIn(d)) + Cardinality(Pending(d)) <= scans

Counting == \A d \in Dirs : Counted(d)

(* The loop has passed over taken numbers only, and what has been opened   *)
(* is there.                                                               *)
Passing(p) ==
  /\ Saving(p) => \A m \in Numbers : m < saver[p].number => m \in TakenIn(saver[p].dir)
  /\ At(p, "write") => saver[p].number \in TakenIn(saver[p].dir)

(* Before there is anything to save, nothing has been passed.              *)
Fresh == \A p \in Savers : At(p, "parse") => saver[p].number = 0 /\ saver[p].dir = "profiles"

StoreInv == TypeOK /\ Carrying /\ Counting /\ Fresh /\ \A p \in Savers : Passing(p)

LEMMA Texts ==
  /\ Absent \in Files /\ Empty \in Files /\ Torn \in Files /\ Empty # Absent /\ Torn # Absent
  /\ \A k \in 0..MaxScans : Whole(k) \in Files /\ Whole(k) # Absent
BY StoreAssumption DEF StoreAssumption, Files, Absent, Empty, Torn, Whole

LEMMA IdleRecord ==
  Idle \in SaverRecords /\ Idle.pc = "idle" /\ Idle.earlier = {} /\ Idle.number = 0 /\ Idle.dir = "profiles"
BY Texts, StoreAssumption DEF StoreAssumption, Idle, SaverRecords, Dirs, Numbers

(* Numbers and their subsets are finite; an initial segment of them counts *)
(* what it should.                                                         *)
LEMMA FiniteNumbers ==
  ASSUME NEW T \in SUBSET Numbers
  PROVE  /\ IsFiniteSet(T) /\ Cardinality(T) \in Nat
         /\ \A n \in Numbers : (\A m \in Numbers : m < n => m \in T) => n <= Cardinality(T)
<1>1. MaxScans \in Nat
  BY StoreAssumption DEF StoreAssumption
<1>2. IsFiniteSet(Numbers)
  BY <1>1, FS_Interval DEF Numbers
<1>3. IsFiniteSet(T) /\ Cardinality(T) \in Nat
  BY <1>2, FS_Subset, FS_CardinalityType
<1>4. ASSUME NEW n \in Numbers, \A m \in Numbers : m < n => m \in T PROVE n <= Cardinality(T)
  <2>1. n \in Nat /\ n - 1 \in Int /\ 0..(n - 1) \subseteq Numbers
    BY <1>1 DEF Numbers
  <2>2. 0..(n - 1) \subseteq T
    BY <1>4, <2>1
  <2>3. Cardinality(0..(n - 1)) <= Cardinality(T)
    BY <1>3, <2>2, FS_Subset
  <2>4. Cardinality(0..(n - 1)) = IF 0 > n - 1 THEN 0 ELSE (n - 1) - 0 + 1
    BY <2>1, FS_Interval
  <2> QED
    BY <2>1, <2>3, <2>4
<1> QED
  BY <1>3, <1>4

(* How the sum of the taken numbers and the pending invocations moves.     *)
LEMMA Sums ==
  ASSUME NEW T \in SUBSET Numbers, NEW P, IsFiniteSet(P), NEW k \in Nat, Cardinality(T) + Cardinality(P) <= k
  PROVE  /\ \A Q \in SUBSET P : IsFiniteSet(Q) /\ Cardinality(T) + Cardinality(Q) <= k
         /\ \A x : IsFiniteSet(P \cup {x}) /\ Cardinality(T) + Cardinality(P \cup {x}) <= k + 1
         /\ \A x \in P, n \in Numbers :
              IsFiniteSet(P \ {x}) /\ Cardinality(T \cup {n}) + Cardinality(P \ {x}) <= k
<1>1. IsFiniteSet(T) /\ Cardinality(T) \in Nat /\ Cardinality(P) \in Nat
  BY FiniteNumbers, FS_CardinalityType
<1>2. ASSUME NEW Q \in SUBSET P PROVE IsFiniteSet(Q) /\ Cardinality(T) + Cardinality(Q) <= k
  <2>1. IsFiniteSet(Q) /\ Cardinality(Q) <= Cardinality(P)
    BY FS_Subset
  <2> QED
    BY <1>1, <2>1, FS_CardinalityType
<1>3. ASSUME NEW x PROVE IsFiniteSet(P \cup {x}) /\ Cardinality(T) + Cardinality(P \cup {x}) <= k + 1
  BY <1>1, FS_AddElement
<1>4. ASSUME NEW x \in P, NEW n \in Numbers
      PROVE  IsFiniteSet(P \ {x}) /\ Cardinality(T \cup {n}) + Cardinality(P \ {x}) <= k
  <2>1. IsFiniteSet(P \ {x}) /\ Cardinality(P \ {x}) = Cardinality(P) - 1
    BY FS_RemoveElement
  <2>2. Cardinality(T \cup {n}) = Cardinality(T) \/ Cardinality(T \cup {n}) = Cardinality(T) + 1
    BY <1>1, FS_AddElement
  <2> QED
    BY <1>1, <2>1, <2>2
<1> QED
  BY <1>2, <1>3, <1>4

LEMMA StoreInit == Init => StoreInv
<1> SUFFICES ASSUME Init PROVE StoreInv
  OBVIOUS
<1>1. TypeOK
  <2>1. files \in [Dirs -> [Numbers -> Files]]
    BY Texts DEF Init
  <2>2. saver \in [Savers -> SaverRecords] /\ disturbed \in BOOLEAN
    BY IdleRecord DEF Init
  <2>3. scans \in 0..MaxScans
    BY StoreAssumption DEF Init, StoreAssumption
  <2> QED
    BY <2>1, <2>2, <2>3 DEF TypeOK
<1>2. Carrying /\ Fresh /\ \A p \in Savers : Passing(p)
  BY IdleRecord DEF Init, Carrying, Fresh, Passing, At, Saving
<1>3. ASSUME NEW d \in Dirs PROVE Counted(d)
  <2>1. TakenIn(d) = {} /\ Pending(d) = {}
    BY <1>3, IdleRecord DEF Init, TakenIn, Pending, At, Saving
  <2> QED
    BY <2>1, FS_EmptySet DEF Counted, Init
<1> QED
  BY <1>1, <1>2, <1>3 DEF StoreInv, Counting

-----------------------------------------------------------------------------
(* Steps of one invocation.                                                *)

(* Only p's record changes.                                                *)
LEMMA OneMoved ==
  ASSUME TypeOK, NEW p \in Savers, NEW r \in SaverRecords, saver' = [saver EXCEPT ![p] = r]
  PROVE  saver' \in [Savers -> SaverRecords] /\ saver'[p] = r /\ \A q \in Savers \ {p} : saver'[q] = saver[q]
BY DEF TypeOK

(* A written or opened file is there, and no other one has changed.        *)
LEMMA PutAdds ==
  ASSUME TypeOK, NEW p \in Savers, NEW f \in Files, f # Absent, Put(p, f)
  PROVE  /\ files' \in [Dirs -> [Numbers -> Files]]
         /\ files'[saver[p].dir][saver[p].number] = f
         /\ \A d \in Dirs, n \in Numbers : d # saver[p].dir \/ n # saver[p].number => files'[d][n] = files[d][n]
         /\ \A d \in Dirs : TakenIn(d)' = IF d = saver[p].dir THEN TakenIn(d) \cup {saver[p].number} ELSE TakenIn(d)
<1>1. saver[p].dir \in Dirs /\ saver[p].number \in Numbers
  BY DEF TypeOK, SaverRecords
<1>2. files' \in [Dirs -> [Numbers -> Files]] /\ files'[saver[p].dir][saver[p].number] = f
  BY <1>1 DEF Put, TypeOK
<1>3. \A d \in Dirs, n \in Numbers : d # saver[p].dir \/ n # saver[p].number => files'[d][n] = files[d][n]
  BY <1>1 DEF Put, TypeOK
<1>4. ASSUME NEW d \in Dirs
      PROVE  TakenIn(d)' = IF d = saver[p].dir THEN TakenIn(d) \cup {saver[p].number} ELSE TakenIn(d)
  BY <1>1, <1>2, <1>3 DEF TakenIn
<1> QED
  BY <1>2, <1>3, <1>4

(* What p still has to write out of its record alone.                      *)
WillAdd(r, d) ==
  \/ r.pc = "parse"
  \/ r.dir = "profiles" /\ d = "raw-xml" /\ r.pc \in {"probe", "open", "write"}
  \/ r.dir = d /\ r.pc \in {"probe", "open"}

LEMMA PendingMoves ==
  ASSUME NEW p \in Savers, \A q \in Savers \ {p} : saver'[q] = saver[q], NEW d
  PROVE  /\ p \in Pending(d) <=> WillAdd(saver[p], d)
         /\ WillAdd(saver'[p], d) => Pending(d)' = Pending(d) \cup {p}
         /\ ~ WillAdd(saver'[p], d) => Pending(d)' = Pending(d) \ {p}
BY DEF Pending, WillAdd, At, Saving

(* What a step of p has to show: in each directory nothing is added and p  *)
(* is not newly pending, or a text is and p may be, or p adds its file and *)
(* is pending no more.                                                     *)
LEMMA StoreByStep ==
  ASSUME StoreInv, NEW p \in Savers, NEW r \in SaverRecords, saver' = [saver EXCEPT ![p] = r],
         files' \in [Dirs -> [Numbers -> Files]], scans' \in 0..MaxScans, disturbed' \in BOOLEAN,
         \A d \in Dirs : TakenIn(d) \subseteq TakenIn(d)',
         \A d \in Dirs :
           \/ TakenIn(d)' = TakenIn(d) /\ (WillAdd(r, d) => WillAdd(saver[p], d)) /\ scans' = scans
           \/ TakenIn(d)' = TakenIn(d) /\ scans' = scans + 1
           \/ /\ WillAdd(saver[p], d) /\ ~ WillAdd(r, d) /\ scans' = scans
              /\ TakenIn(d)' = TakenIn(d) \cup {saver[p].number},
         r.pc # "idle" => r.xml # Absent,
         r.pc = "parse" => r.number = 0 /\ r.dir = "profiles",
         r.pc \in {"probe", "open", "write"} => \A m \in Numbers : m < r.number => m \in TakenIn(r.dir)',
         r.pc = "write" => r.number \in TakenIn(r.dir)'
  PROVE  StoreInv'
<1>1. saver' \in [Savers -> SaverRecords] /\ saver'[p] = r /\ \A q \in Savers \ {p} : saver'[q] = saver[q]
  BY OneMoved DEF StoreInv
<1>2. TypeOK'
  BY <1>1 DEF TypeOK
<1>3. Carrying' /\ Fresh'
  BY <1>1 DEF StoreInv, Carrying, Fresh, At
<1>4. ASSUME NEW d \in Dirs PROVE Counted(d)'
  <2> DEFINE T == TakenIn(d)
             P == Pending(d)
  <2>1. /\ WillAdd(r, d) => Pending(d)' = P \cup {p}
        /\ ~ WillAdd(r, d) => Pending(d)' = P \ {p}
        /\ p \in P <=> WillAdd(saver[p], d)
    BY <1>1, PendingMoves
  <2>2. T \in SUBSET Numbers /\ IsFiniteSet(P) /\ Cardinality(T) + Cardinality(P) <= scans /\ scans \in Nat
    BY <1>4 DEF StoreInv, TypeOK, Counting, Counted, TakenIn
  <2>3. /\ \A Q \in SUBSET P : IsFiniteSet(Q) /\ Cardinality(T) + Cardinality(Q) <= scans
        /\ \A x : IsFiniteSet(P \cup {x}) /\ Cardinality(T) + Cardinality(P \cup {x}) <= scans + 1
        /\ \A x \in P, n \in Numbers :
             IsFiniteSet(P \ {x}) /\ Cardinality(T \cup {n}) + Cardinality(P \ {x}) <= scans
    BY <2>2, Sums
  <2>4. saver[p].number \in Numbers
    BY DEF StoreInv, TypeOK, SaverRecords
  <2>5. CASE TakenIn(d)' = T /\ (WillAdd(r, d) => WillAdd(saver[p], d)) /\ scans' = scans
    <3>1. Pending(d)' \in SUBSET P
      BY <2>1, <2>5
    <3> QED
      BY <2>3, <2>5, <3>1 DEF Counted
  <2>6. CASE TakenIn(d)' = T /\ scans' = scans + 1
    <3>1. CASE WillAdd(r, d)
      BY <2>1, <2>3, <2>6, <3>1 DEF Counted
    <3>2. CASE ~ WillAdd(r, d)
      <4>1. Pending(d)' \in SUBSET P
        BY <2>1, <3>2
      <4>2. IsFiniteSet(Pending(d)') /\ Cardinality(T) + Cardinality(Pending(d)') <= scans
        BY <2>3, <4>1
      <4>3. Cardinality(T) \in Nat /\ Cardinality(Pending(d)') \in Nat
        BY <2>2, <4>2, FiniteNumbers, FS_CardinalityType
      <4> QED
        BY <2>2, <2>6, <4>2, <4>3 DEF Counted
    <3> QED
      BY <3>1, <3>2
  <2>7. CASE /\ WillAdd(saver[p], d) /\ ~ WillAdd(r, d) /\ scans' = scans
             /\ TakenIn(d)' = T \cup {saver[p].number}
    BY <2>1, <2>3, <2>4, <2>7 DEF Counted
  <2> QED
    BY <2>5, <2>6, <2>7
<1>5. ASSUME NEW q \in Savers PROVE Passing(q)'
  <2>1. CASE q = p
    BY <1>1, <2>1 DEF Passing, Saving, At
  <2>2. CASE q # p
    <3>1. Passing(q) /\ saver[q].dir \in Dirs
      BY DEF StoreInv, TypeOK, SaverRecords
    <3> QED
      BY <1>1, <2>2, <3>1 DEF Passing, Saving, At
  <2> QED
    BY <2>1, <2>2
<1> QED
  BY <1>2, <1>3, <1>4, <1>5 DEF StoreInv, Counting

LEMMA StoreStep == StoreInv /\ [Next]_vars => StoreInv' /\ \A d \in Dirs : TakenIn(d) \subseteq TakenIn(d)'
<1> SUFFICES ASSUME StoreInv, [Next]_vars
             PROVE  StoreInv' /\ \A d \in Dirs : TakenIn(d) \subseteq TakenIn(d)'
  OBVIOUS
<1>n. MaxScans \in Nat /\ scans \in 0..MaxScans /\ disturbed \in BOOLEAN /\ files \in [Dirs -> [Numbers -> Files]]
  BY StoreAssumption DEF StoreAssumption, StoreInv, TypeOK
<1>r. \A p \in Savers : saver[p] \in SaverRecords /\ saver[p].dir \in Dirs /\ saver[p].number \in Numbers
  BY DEF StoreInv, TypeOK, SaverRecords
<1>0. ASSUME files' = files PROVE \A d \in Dirs : TakenIn(d)' = TakenIn(d)
  BY <1>0 DEF TakenIn
(* A step that ends p, whatever became of the files it opened.             *)
<1>i. ASSUME NEW p \in Savers, saver' = [saver EXCEPT ![p] = Idle], scans' = scans, disturbed' \in BOOLEAN,
             files' \in [Dirs -> [Numbers -> Files]], \A d \in Dirs : TakenIn(d)' = TakenIn(d)
      PROVE  StoreInv'
  <2>1. \A d : ~ WillAdd(Idle, d)
    BY IdleRecord DEF WillAdd
  <2> QED
    BY <1>i, <1>n, <2>1, IdleRecord, StoreByStep
(* Putting something where p has opened its file adds none.                *)
<1>w. ASSUME NEW p \in Savers, At(p, "write"), NEW f \in Files, f # Absent, Put(p, f)
      PROVE  files' \in [Dirs -> [Numbers -> Files]] /\ \A d \in Dirs : TakenIn(d)' = TakenIn(d)
  <2>1. saver[p].number \in TakenIn(saver[p].dir)
    BY <1>w DEF StoreInv, Passing
  <2>2. /\ files' \in [Dirs -> [Numbers -> Files]]
        /\ \A d \in Dirs : TakenIn(d)' = IF d = saver[p].dir THEN TakenIn(d) \cup {saver[p].number} ELSE TakenIn(d)
    BY <1>w, PutAdds DEF StoreInv
  <2> QED
    BY <2>1, <2>2
<1>1. ASSUME NEW p \in Savers, Read(p) PROVE StoreInv' /\ \A d \in Dirs : TakenIn(d) \subseteq TakenIn(d)'
  <2>1. files' = files /\ scans' = scans + 1 /\ scans' \in 0..MaxScans /\ disturbed' = disturbed
    BY <1>1, <1>n DEF Read
  <2>2. PICK text \in {Whole(scans + 1), Torn} \cup ({files["raw-xml"][n] : n \in Numbers} \ {Absent}) :
          saver' = [saver EXCEPT ![p] = [Idle EXCEPT !.pc = "parse", !.xml = text]]
    BY <1>1 DEF Read
  <2>3. text \in Files /\ text # Absent
    BY <1>n, <2>1, <2>2, Texts DEF Dirs
  <2> PICK r : r = [Idle EXCEPT !.pc = "parse", !.xml = text]
    OBVIOUS
  <2>4. r \in SaverRecords /\ r.pc = "parse" /\ r.xml = text /\ r.number = 0 /\ r.dir = "profiles"
    BY <2>3, IdleRecord DEF SaverRecords
  <2>5. saver' = [saver EXCEPT ![p] = r]
    BY <2>2
  <2> QED
    BY <1>0, <1>n, <2>1, <2>3, <2>4, <2>5, StoreByStep
<1>2. ASSUME NEW p \in Savers, Parse(p) PROVE StoreInv' /\ \A d \in Dirs : TakenIn(d) \subseteq TakenIn(d)'
  <2>1. files' = files /\ scans' = scans /\ disturbed' \in BOOLEAN /\ At(p, "parse")
    BY <1>2, <1>n DEF Parse
  <2>2. CASE ~ Parses(p)
    <3>1. saver' = [saver EXCEPT ![p] = Idle]
      BY <1>2, <2>2 DEF Parse
    <3> QED
      BY <1>0, <1>i, <1>n, <2>1, <3>1
  <2>3. CASE Parses(p)
    <3> PICK r : r = [saver[p] EXCEPT !.pc = "probe", !.earlier = {n \in Numbers : files["profiles"][n] # Absent}]
      OBVIOUS
    <3>1. saver' = [saver EXCEPT ![p] = r]
      BY <1>2, <2>3 DEF Parse
    <3>2. r \in SaverRecords /\ r.pc = "probe" /\ r.xml = saver[p].xml /\ r.dir = saver[p].dir /\ r.number = saver[p].number
      BY <1>r DEF SaverRecords
    <3>3. saver[p].xml # Absent /\ \A d : WillAdd(saver[p], d)
      BY <2>1 DEF StoreInv, Carrying, At, WillAdd
    <3>4. saver[p].number = 0
      BY <2>1 DEF StoreInv, Fresh
    <3>5. \A m \in Numbers : ~ (m < 0)
      BY <1>n DEF Numbers
    <3> QED
      BY <1>0, <1>n, <2>1, <3>1, <3>2, <3>3, <3>4, <3>5, StoreByStep
  <2> QED
    BY <2>2, <2>3
<1>3. ASSUME NEW p \in Savers, Probe(p) PROVE StoreInv' /\ \A d \in Dirs : TakenIn(d) \subseteq TakenIn(d)'
  <2>1. files' = files /\ scans' = scans /\ disturbed' = disturbed /\ saver[p].pc = "probe" /\ saver[p].xml # Absent
    BY <1>3 DEF Probe, At, StoreInv, Carrying
  <2> PICK d \in Dirs, k \in Numbers : d = saver[p].dir /\ k = saver[p].number
    BY <1>r
  <2>2. \A m \in Numbers : m < k => m \in TakenIn(d)
    BY <2>1 DEF StoreInv, Passing, Saving
  <2>3. CASE Taken(p)
    <3>1. k \in TakenIn(d) /\ k \in Nat
      BY <1>n, <1>r, <2>3 DEF Taken, File, TakenIn, Numbers
    <3>2. \A m \in Numbers : m < k + 1 => m \in TakenIn(d)
      BY <1>n, <2>2, <3>1 DEF Numbers
    <3>3. k + 1 \in Numbers
      <4>1. p \in Pending(d) /\ d \in Dirs
        BY <1>r, <2>1 DEF Pending
      <4>2. IsFiniteSet(Pending(d)) /\ Cardinality(TakenIn(d)) + Cardinality(Pending(d)) <= scans
        BY <4>1 DEF StoreInv, Counting, Counted
      <4>3. Cardinality(Pending(d)) \in Nat /\ Cardinality(Pending(d)) # 0
        BY <4>1, <4>2, FS_CardinalityType, FS_EmptySet
      <4>4. TakenIn(d) \in SUBSET Numbers
        BY DEF TakenIn
      <4>5. Cardinality(TakenIn(d)) \in Nat /\ k <= Cardinality(TakenIn(d))
        BY <1>r, <2>2, <4>4, FiniteNumbers
      <4>6. k # MaxScans
        BY <1>n, <3>1, <4>2, <4>3, <4>5
      <4> QED
        BY <1>n, <1>r, <4>6 DEF Numbers
    <3> PICK r : r = [saver[p] EXCEPT !.number = k + 1]
      OBVIOUS
    <3>4. saver' = [saver EXCEPT ![p] = r]
      BY <1>3, <2>3 DEF Probe, StoreInv, TypeOK
    <3>5. r \in SaverRecords /\ r.pc = saver[p].pc /\ r.xml = saver[p].xml /\ r.dir = d /\ r.number = k + 1
      BY <1>r, <3>3 DEF SaverRecords
    <3>6. \A e : WillAdd(r, e) => WillAdd(saver[p], e)
      BY <3>5 DEF WillAdd
    <3>7. \A e \in Dirs : TakenIn(e)' = TakenIn(e)
      BY <1>0, <2>1
    <3>8. \A m \in Numbers : m < r.number => m \in TakenIn(r.dir)'
      BY <3>2, <3>5, <3>7
    <3>9. StoreInv'
      BY <1>n, <2>1, <3>4, <3>5, <3>6, <3>7, <3>8, StoreByStep
    <3> QED
      BY <3>7, <3>9
  <2>4. CASE ~ Taken(p)
    <3> PICK r : r = [saver[p] EXCEPT !.pc = "open"]
      OBVIOUS
    <3>1. saver' = [saver EXCEPT ![p] = r]
      BY <1>3, <2>4 DEF Probe, StoreInv, TypeOK
    <3>2. r \in SaverRecords /\ r.pc = "open" /\ r.xml = saver[p].xml /\ r.dir = d /\ r.number = k
      BY <1>r DEF SaverRecords
    <3>3. \A e : WillAdd(r, e) => WillAdd(saver[p], e)
      BY <2>1, <3>2 DEF WillAdd
    <3>4. \A e \in Dirs : TakenIn(e)' = TakenIn(e)
      BY <1>0, <2>1
    <3>5. \A m \in Numbers : m < r.number => m \in TakenIn(r.dir)'
      BY <2>2, <3>2, <3>4
    <3>6. StoreInv'
      BY <1>n, <2>1, <3>1, <3>2, <3>3, <3>4, <3>5, StoreByStep
    <3> QED
      BY <3>4, <3>6
  <2> QED
    BY <2>3, <2>4
<1>4. ASSUME NEW p \in Savers, Open(p) PROVE StoreInv' /\ \A d \in Dirs : TakenIn(d) \subseteq TakenIn(d)'
  <2> PICK d \in Dirs, k \in Numbers : d = saver[p].dir /\ k = saver[p].number
    BY <1>r
  <2>1. Put(p, Empty) /\ scans' = scans /\ disturbed' = disturbed /\ saver[p].pc = "open" /\ saver[p].xml # Absent
    BY <1>4 DEF Open, At, StoreInv, Carrying
  <2>2. /\ files' \in [Dirs -> [Numbers -> Files]]
        /\ \A e \in Dirs : TakenIn(e)' = IF e = d THEN TakenIn(e) \cup {k} ELSE TakenIn(e)
    BY <2>1, Texts, PutAdds DEF StoreInv
  <2> PICK r : r = [saver[p] EXCEPT !.pc = "write"]
    OBVIOUS
  <2>3. saver' = [saver EXCEPT ![p] = r]
    BY <1>4 DEF Open, StoreInv, TypeOK
  <2>4. r \in SaverRecords /\ r.pc = "write" /\ r.xml = saver[p].xml /\ r.dir = d /\ r.number = k
    BY <1>r DEF SaverRecords
  <2>5. \A m \in Numbers : m < k => m \in TakenIn(d)
    BY <2>1 DEF StoreInv, Passing, Saving
  <2>6. /\ \A e \in Dirs : e # d /\ WillAdd(r, e) => WillAdd(saver[p], e)
        /\ WillAdd(saver[p], d) /\ ~ WillAdd(r, d)
    BY <1>r, <2>1, <2>4 DEF WillAdd, Dirs
  <2>7. \A e \in Dirs :
           \/ TakenIn(e)' = TakenIn(e) /\ (WillAdd(r, e) => WillAdd(saver[p], e)) /\ scans' = scans
           \/ /\ WillAdd(saver[p], e) /\ ~ WillAdd(r, e) /\ scans' = scans
              /\ TakenIn(e)' = TakenIn(e) \cup {saver[p].number}
    BY <2>1, <2>2, <2>6
  <2>8. \A e \in Dirs : TakenIn(e) \subseteq TakenIn(e)'
    BY <2>2
  <2>9. r.number \in TakenIn(r.dir)' /\ \A m \in Numbers : m < r.number => m \in TakenIn(r.dir)'
    BY <2>2, <2>4, <2>5
  <2>10. StoreInv'
    BY <1>n, <2>1, <2>2, <2>3, <2>4, <2>7, <2>8, <2>9, StoreByStep
  <2> QED
    BY <2>8, <2>10
<1>5. ASSUME NEW p \in Savers, Write(p) PROVE StoreInv' /\ \A d \in Dirs : TakenIn(d) \subseteq TakenIn(d)'
  <2>1. scans' = scans /\ disturbed' = disturbed /\ saver[p].pc = "write" /\ saver[p].xml # Absent /\ saver[p].xml \in Files
    BY <1>5, <1>r DEF Write, At, StoreInv, Carrying, SaverRecords
  <2>2. files' \in [Dirs -> [Numbers -> Files]] /\ \A d \in Dirs : TakenIn(d)' = TakenIn(d)
    BY <1>5, <1>w, <2>1, Texts DEF Write
  <2>3. CASE saver[p].dir = "profiles"
    <3> PICK r : r = [saver[p] EXCEPT !.pc = "probe", !.dir = "raw-xml", !.number = 0]
      OBVIOUS
    <3>1. saver' = [saver EXCEPT ![p] = r]
      BY <1>5, <2>3 DEF Write, SaveNext
    <3>2. r \in SaverRecords /\ r.pc = "probe" /\ r.xml = saver[p].xml /\ r.dir = "raw-xml" /\ r.number = 0
      <4>1. 0 \in Numbers /\ "raw-xml" \in Dirs
        BY <1>n DEF Numbers, Dirs
      <4> QED
        BY <1>r, <4>1 DEF SaverRecords
    <3>3. \A d : WillAdd(r, d) => WillAdd(saver[p], d)
      BY <2>1, <2>3, <3>2 DEF WillAdd
    <3>4. \A m \in Numbers : ~ (m < 0)
      BY <1>n DEF Numbers
    <3>5. \A m \in Numbers : m < r.number => m \in TakenIn(r.dir)'
      BY <3>2, <3>4
    <3>6. \A d \in Dirs : TakenIn(d) \subseteq TakenIn(d)'
      BY <2>2
    <3>7. StoreInv'
      BY <1>n, <2>1, <2>2, <3>1, <3>2, <3>3, <3>5, <3>6, StoreByStep
    <3> QED
      BY <3>6, <3>7
  <2>4. CASE saver[p].dir # "profiles"
    <3>1. saver' = [saver EXCEPT ![p] = Idle]
      BY <1>5, <2>4 DEF Write, SaveNext
    <3>2. StoreInv'
      BY <1>i, <1>n, <2>1, <2>2, <3>1
    <3> QED
      BY <2>2, <3>2
  <2> QED
    BY <2>3, <2>4
<1>6. ASSUME NEW p \in Savers, Fail(p) PROVE StoreInv' /\ \A d \in Dirs : TakenIn(d) \subseteq TakenIn(d)'
  BY <1>0, <1>6, <1>i, <1>n DEF Fail, HalfSaved, At, Saving
<1>7. ASSUME NEW p \in Savers, WriteCutShort(p) PROVE StoreInv' /\ \A d \in Dirs : TakenIn(d) \subseteq TakenIn(d)'
  <2>1. files' \in [Dirs -> [Numbers -> Files]] /\ \A d \in Dirs : TakenIn(d)' = TakenIn(d)
    BY <1>7, <1>w, Texts DEF WriteCutShort
  <2> QED
    BY <1>7, <1>i, <2>1 DEF WriteCutShort
<1>8. CASE UNCHANGED vars
  BY <1>8, <1>0 DEF vars, StoreInv, TypeOK, Carrying, Counting, Counted, Fresh, Passing, Pending, At, Saving, TakenIn, File
<1> QED
  BY <1>1, <1>2, <1>3, <1>4, <1>5, <1>6, <1>7, <1>8 DEF Next, Step

(* Any number of scans may overlap, be killed or fail to write: the        *)
(* counting loop never runs past the number of texts there have been, so   *)
(* every number it tries is one of Numbers (profile/store.py _unique_path).*)
THEOREM TypeCorrect == Spec => []TypeOK
<1>1. StoreInv => TypeOK
  BY DEF StoreInv
<1> QED
  BY <1>1, StoreInit, StoreStep, PTL DEF Spec

-----------------------------------------------------------------------------
(* The choice of a profile's name.  A profile that was there when a save   *)
(* began is still there, so the number that the counting loop stops at is  *)
(* no such one's.                                                          *)

Choice(p) ==
  /\ saver[p].earlier \subseteq TakenIn("profiles")
  /\ saver[p].pc \in {"open", "write"} /\ saver[p].dir = "profiles" => saver[p].number \notin saver[p].earlier

ChoiceInv == StoreInv /\ \A p \in Savers : Choice(p)

LEMMA ChoiceInit == Init => ChoiceInv
BY IdleRecord, StoreInit DEF Init, ChoiceInv, Choice

LEMMA ChoiceStep == ChoiceInv /\ [Next]_vars => ChoiceInv'
<1> SUFFICES ASSUME ChoiceInv, [Next]_vars PROVE ChoiceInv'
  OBVIOUS
<1>0. StoreInv /\ StoreInv' /\ TakenIn("profiles") \subseteq TakenIn("profiles")'
  BY StoreStep DEF ChoiceInv, Dirs
<1>1. \A p \in Savers : saver[p] \in SaverRecords /\ Choice(p)
  BY DEF ChoiceInv, StoreInv, TypeOK
(* The invocations that do not move keep their choices.                    *)
<1>2. ASSUME NEW p \in Savers, saver' = saver \/ (\E r : saver' = [saver EXCEPT ![p] = r] /\ Choice(p)')
      PROVE  ChoiceInv'
  <2>1. ASSUME NEW q \in Savers PROVE Choice(q)'
    <3>1. CASE saver'[q] = saver[q]
      BY <1>0, <1>1, <3>1 DEF Choice
    <3>2. CASE saver'[q] # saver[q]
      <4>1. q = p
        BY <1>0, <1>2, <3>2 DEF StoreInv, TypeOK
      <4> QED
        BY <1>2, <3>2, <4>1
    <3> QED
      BY <3>1, <3>2
  <2> QED
    BY <1>0, <2>1 DEF ChoiceInv
<1>3. ASSUME NEW p \in Savers, saver' = [saver EXCEPT ![p] = Idle] PROVE ChoiceInv'
  <2>1. saver'[p] = Idle
    BY <1>3 DEF ChoiceInv, StoreInv, TypeOK
  <2> QED
    BY <1>2, <1>3, <2>1, IdleRecord DEF Choice
<1>4. ASSUME NEW p \in Savers, Step(p) PROVE ChoiceInv'
  <2>0. saver \in [Savers -> SaverRecords]
    BY DEF ChoiceInv, StoreInv, TypeOK
  <2>1. CASE Read(p)
    <3>1. PICK text : saver' = [saver EXCEPT ![p] = [Idle EXCEPT !.pc = "parse", !.xml = text]]
      BY <2>1 DEF Read
    <3>2. saver'[p].earlier = {} /\ saver'[p].pc = "parse"
      BY <2>0, <3>1, IdleRecord DEF Idle
    <3> QED
      BY <1>2, <3>1, <3>2 DEF Choice
  <2>2. CASE Parse(p) /\ ~ Parses(p)
    BY <1>3, <2>2 DEF Parse
  <2>3. CASE Parse(p) /\ Parses(p)
    <3>1. saver' = [saver EXCEPT ![p] = [@ EXCEPT !.pc = "probe", !.earlier = TakenIn("profiles")]]
      BY <2>3 DEF Parse, TakenIn
    <3>2. saver'[p].earlier = TakenIn("profiles") /\ saver'[p].pc = "probe"
      BY <2>0, <3>1 DEF SaverRecords
    <3> QED
      BY <1>0, <1>2, <3>1, <3>2 DEF Choice
  <2>4. CASE Probe(p) /\ Taken(p)
    <3>1. saver' = [saver EXCEPT ![p] = [saver[p] EXCEPT !.number = saver[p].number + 1]]
      BY <2>0, <2>4 DEF Probe
    <3>2. saver[p].pc = "probe"
      BY <2>4 DEF Probe, At
    <3>3. saver'[p].earlier = saver[p].earlier /\ saver'[p].pc = "probe"
      BY <2>0, <3>1, <3>2 DEF SaverRecords
    <3> QED
      BY <1>0, <1>1, <1>2, <3>1, <3>3 DEF Choice
  <2>5. CASE Probe(p) /\ ~ Taken(p)
    <3>1. saver' = [saver EXCEPT ![p] = [@ EXCEPT !.pc = "open"]]
      BY <2>0, <2>5 DEF Probe
    <3>2. /\ saver'[p].earlier = saver[p].earlier
          /\ saver'[p].dir = saver[p].dir /\ saver'[p].number = saver[p].number
      BY <2>0, <3>1 DEF SaverRecords
    <3>3. saver[p].dir = "profiles" => saver[p].number \notin TakenIn("profiles")
      BY <2>5 DEF Taken, File, TakenIn
    <3> QED
      BY <1>0, <1>1, <1>2, <3>1, <3>2, <3>3 DEF Choice
  <2>6. CASE Open(p)
    <3>1. saver' = [saver EXCEPT ![p] = [@ EXCEPT !.pc = "write"]] /\ saver[p].pc = "open"
      BY <2>0, <2>6 DEF Open, At
    <3>2. /\ saver'[p].earlier = saver[p].earlier
          /\ saver'[p].dir = saver[p].dir /\ saver'[p].number = saver[p].number
      BY <2>0, <3>1 DEF SaverRecords
    <3> QED
      BY <1>0, <1>1, <1>2, <3>1, <3>2 DEF Choice
  <2>7. CASE Write(p) /\ saver[p].dir = "profiles"
    <3>1. saver' = [saver EXCEPT ![p] = [@ EXCEPT !.pc = "probe", !.dir = "raw-xml", !.number = 0]]
      BY <2>7 DEF Write, SaveNext
    <3>2. saver'[p].earlier = saver[p].earlier /\ saver'[p].pc = "probe"
      BY <2>0, <3>1 DEF SaverRecords
    <3> QED
      BY <1>0, <1>1, <1>2, <3>1, <3>2 DEF Choice
  <2>8. CASE Write(p) /\ saver[p].dir # "profiles"
    BY <1>3, <2>8 DEF Write, SaveNext
  <2>9. CASE Fail(p) \/ WriteCutShort(p)
    BY <1>3, <2>9 DEF Fail, WriteCutShort
  <2> QED
    BY <1>4, <2>1, <2>2, <2>3, <2>4, <2>5, <2>6, <2>7, <2>8, <2>9 DEF Step
<1>5. CASE UNCHANGED vars
  BY <1>0, <1>1, <1>5 DEF vars, ChoiceInv, Choice
<1> QED
  BY <1>4, <1>5 DEF Next

(* Any number of scans may overlap, be killed or fail to write: the name   *)
(* a scan picks for its profile is none that was taken when it began       *)
(* (profile/store.py:50-53).                                               *)
THEOREM EarlierProfilesKept == Spec => []EarlierKept
<1>1. ChoiceInv => EarlierKept
  BY DEF ChoiceInv, Choice, EarlierKept
<1> QED
  BY <1>1, ChoiceInit, ChoiceStep, PTL DEF Spec

-----------------------------------------------------------------------------
(* The two files of one save.  While saves do not interfere at most one is *)
(* under way, and every number it does not touch holds a pair.             *)

Matched(S) == \A n \in S :
  files["profiles"][n] = files["raw-xml"][n] /\ files["profiles"][n].state \in {"absent", "whole"}

SavingIn(r) == r.pc \in {"probe", "open", "write"}

InProfile(r) ==
  /\ r.pc \in {"probe", "open"} => Matched(Numbers)
  /\ r.pc = "open" => files["profiles"][r.number] = Absent
  /\ r.pc = "write" => /\ Matched(Numbers \ {r.number})
                       /\ files["profiles"][r.number] = Empty
                       /\ files["raw-xml"][r.number] = Absent

(* The profile was saved under m, below which every number is taken: the   *)
(* raw XML's own count stops at m as well.                                 *)
ProfileAt(r, m) ==
  /\ Matched(Numbers \ {m})
  /\ files["profiles"][m] = r.xml
  /\ files["raw-xml"][m] = IF r.pc = "write" THEN Empty ELSE Absent
  /\ \A k \in Numbers : k < m => k \in TakenIn("profiles")
  /\ IF r.pc = "probe" THEN r.number <= m ELSE r.number = m

Alone(r) ==
  /\ r.xml.state = "whole"
  /\ r.dir = "profiles" => InProfile(r)
  /\ r.dir = "raw-xml" => \E m \in Numbers : ProfileAt(r, m)

OneSaves == \E p \in Savers :
  Saving(p) /\ Alone(saver[p]) /\ \A q \in Savers \ {p} : ~ Saving(q)

NoneSaves == Matched(Numbers) /\ \A p \in Savers : ~ Saving(p)

Orderly == ~ disturbed => NoneSaves \/ OneSaves

OrderInv == StoreInv /\ Orderly

LEMMA OrderInit == Init => OrderInv
<1> SUFFICES ASSUME Init PROVE OrderInv
  OBVIOUS
<1>1. Matched(Numbers)
  BY DEF Init, Matched, Dirs, Absent
<1>2. \A p \in Savers : ~ Saving(p)
  BY IdleRecord DEF Init, Saving
<1> QED
  BY <1>1, <1>2, StoreInit DEF OrderInv, Orderly, NoneSaves

(* A step outside a save that touches no file leaves the saves in order.   *)
LEMMA OutsideStays ==
  ASSUME OrderInv, NEW p \in Savers, ~ Saving(p), ~ Saving(p)', files' = files, disturbed => disturbed',
         \A q \in Savers \ {p} : saver'[q] = saver[q]
  PROVE  Orderly'
<1> SUFFICES ASSUME ~ disturbed PROVE NoneSaves' \/ OneSaves'
  BY DEF Orderly
<1>1. Matched(Numbers)' <=> Matched(Numbers)
  BY DEF Matched
<1>2. \A q \in Savers : Saving(q)' <=> Saving(q)
  BY DEF Saving
<1>3. CASE NoneSaves
  BY <1>1, <1>2, <1>3 DEF NoneSaves
<1>4. CASE OneSaves
  <2>1. PICK q \in Savers : Saving(q) /\ Alone(saver[q]) /\ \A o \in Savers \ {q} : ~ Saving(o)
    BY <1>4 DEF OneSaves
  <2>2. saver'[q] = saver[q]
    BY <2>1
  <2>3. Alone(saver[q])'
    BY <2>1, <2>2 DEF Alone, InProfile, ProfileAt, Matched, TakenIn
  <2> QED
    BY <1>2, <2>1, <2>3 DEF OneSaves
<1> QED
  BY <1>3, <1>4 DEF OrderInv, Orderly

(* The one that saves, where nothing disturbs it.                          *)
LEMMA SaverIsAlone ==
  ASSUME OrderInv, NEW p \in Savers, Saving(p), ~ disturbed
  PROVE  Alone(saver[p]) /\ \A q \in Savers \ {p} : ~ Saving(q)
BY DEF OrderInv, Orderly, NoneSaves, OneSaves

(* It goes on with its save, or it ends it with every number a pair.       *)
LEMMA SaverMoves ==
  ASSUME OrderInv, NEW p \in Savers, NEW r \in SaverRecords, saver' = [saver EXCEPT ![p] = r],
         \A q \in Savers \ {p} : ~ Saving(q),
         \/ SavingIn(r) /\ Alone(r)'
         \/ ~ SavingIn(r) /\ Matched(Numbers)'
  PROVE  Orderly'
<1>1. saver'[p] = r /\ \A q \in Savers \ {p} : saver'[q] = saver[q]
  BY DEF OrderInv, StoreInv, TypeOK
<1>2. \A q \in Savers \ {p} : ~ Saving(q)'
  BY <1>1 DEF Saving
<1>3. Saving(p)' <=> SavingIn(r)
  BY <1>1 DEF Saving, SavingIn
<1>4. CASE SavingIn(r) /\ Alone(r)'
  <2>1. Alone(saver[p])'
    BY <1>1, <1>4 DEF Alone, InProfile, ProfileAt, Matched, TakenIn
  <2> QED
    BY <1>2, <1>3, <1>4, <2>1 DEF Orderly, OneSaves
<1>5. CASE ~ SavingIn(r) /\ Matched(Numbers)'
  BY <1>2, <1>3, <1>5 DEF Orderly, NoneSaves
<1> QED
  BY <1>4, <1>5

LEMMA OrderStep == OrderInv /\ [Next]_vars => OrderInv'
<1> SUFFICES ASSUME OrderInv, [Next]_vars PROVE OrderInv'
  OBVIOUS
<1>0. StoreInv /\ StoreInv' /\ TakenIn("profiles") \subseteq TakenIn("profiles")'
  BY StoreStep DEF OrderInv, Dirs
<1>1. saver \in [Savers -> SaverRecords] /\ files \in [Dirs -> [Numbers -> Files]]
  BY <1>0 DEF StoreInv, TypeOK
<1>2. \A p \in Savers : saver[p] \in SaverRecords /\ saver[p].dir \in Dirs /\ saver[p].number \in Numbers
  BY <1>1 DEF SaverRecords
<1>3. Idle \in SaverRecords /\ ~ SavingIn(Idle)
  BY IdleRecord DEF SavingIn
<1>4. ASSUME NEW p \in Savers, Step(p), ~ disturbed, ~ disturbed' PROVE Orderly'
  <2>1. ASSUME ~ Saving(p), NEW r, saver' = [saver EXCEPT ![p] = r], ~ SavingIn(r), files' = files PROVE Orderly'
    <3>1. saver'[p] = r /\ \A q \in Savers \ {p} : saver'[q] = saver[q]
      BY <1>1, <2>1
    <3>2. ~ Saving(p)'
      BY <2>1, <3>1 DEF Saving, SavingIn
    <3> QED
      BY <1>4, <2>1, <3>1, <3>2, OutsideStays
  <2>2. CASE Read(p)
    <3>1. PICK text : saver' = [saver EXCEPT ![p] = [Idle EXCEPT !.pc = "parse", !.xml = text]]
      BY <2>2 DEF Read
    <3>2. PICK r : r = [Idle EXCEPT !.pc = "parse", !.xml = text]
      OBVIOUS
    <3>3. ~ SavingIn(r) /\ ~ Saving(p) /\ files' = files
      BY <2>2, <3>2 DEF SavingIn, Saving, Read, At, Idle
    <3> QED
      BY <2>1, <3>1, <3>2, <3>3
  <2>3. CASE Parse(p) /\ ~ Parses(p)
    <3>1. ~ Saving(p) /\ files' = files /\ saver' = [saver EXCEPT ![p] = Idle]
      BY <2>3 DEF Parse, At, Saving
    <3> QED
      BY <1>3, <2>1, <3>1
  <2>4. CASE Parse(p) /\ Parses(p)
    <3>1. PICK r : r = [saver[p] EXCEPT !.pc = "probe", !.earlier = {n \in Numbers : files["profiles"][n] # Absent}]
      OBVIOUS
    <3>2. saver' = [saver EXCEPT ![p] = r] /\ files' = files /\ \A q \in Savers : ~ Saving(q)
      BY <1>4, <2>4, <3>1 DEF Parse
    <3>3. r \in SaverRecords /\ r.pc = "probe" /\ r.xml = saver[p].xml /\ r.dir = saver[p].dir
      BY <1>2, <3>1 DEF SaverRecords
    <3>4. r.xml.state = "whole" /\ r.dir = "profiles"
      BY <1>0, <2>4, <3>3 DEF Parse, Parses, StoreInv, Fresh
    <3>5. Matched(Numbers)'
      BY <1>4, <3>2 DEF OrderInv, Orderly, OneSaves, NoneSaves, Matched
    <3>6. SavingIn(r) /\ Alone(r)'
      BY <3>3, <3>4, <3>5 DEF SavingIn, Alone, InProfile
    <3> QED
      BY <3>2, <3>3, <3>6, SaverMoves
  <2>5. ASSUME Saving(p), NEW r \in SaverRecords, saver' = [saver EXCEPT ![p] = r], SavingIn(r) /\ Alone(r)'
        PROVE  Orderly'
    BY <1>4, <2>5, SaverIsAlone, SaverMoves
  <2>6. ASSUME Saving(p), saver' = [saver EXCEPT ![p] = Idle], Matched(Numbers)' PROVE Orderly'
    BY <1>3, <1>4, <2>6, SaverIsAlone, SaverMoves
  <2>7. ASSUME Saving(p) PROVE Alone(saver[p]) /\ saver[p].xml.state = "whole"
    BY <1>4, <2>7, SaverIsAlone DEF Alone
  <2>8. CASE Probe(p)
    <3>1. saver[p].pc = "probe" /\ files' = files /\ Saving(p)
      BY <2>8 DEF Probe, At, Saving
    <3>2. CASE saver[p].dir = "profiles"
      <4>1. Matched(Numbers)'
        BY <2>7, <3>1, <3>2 DEF Alone, InProfile, Matched
      <4>2. CASE Taken(p)
        <5>1. PICK r : r = [saver[p] EXCEPT !.number = saver[p].number + 1]
          OBVIOUS
        <5>2. saver' = [saver EXCEPT ![p] = r]
          BY <1>1, <2>8, <4>2, <5>1 DEF Probe
        <5>3. r.pc = "probe" /\ r.xml = saver[p].xml /\ r.dir = "profiles"
          BY <1>2, <3>1, <3>2, <5>1 DEF SaverRecords
        <5>4. r \in SaverRecords
          BY <1>0, <5>2 DEF StoreInv, TypeOK
        <5>5. SavingIn(r) /\ Alone(r)'
          BY <2>7, <3>1, <4>1, <5>3 DEF SavingIn, Alone, InProfile
        <5> QED
          BY <2>5, <3>1, <5>2, <5>4, <5>5
      <4>3. CASE ~ Taken(p)
        <5>1. PICK r : r = [saver[p] EXCEPT !.pc = "open"]
          OBVIOUS
        <5>2. saver' = [saver EXCEPT ![p] = r]
          BY <1>1, <2>8, <4>3, <5>1 DEF Probe
        <5>3. r \in SaverRecords /\ r.pc = "open" /\ r.xml = saver[p].xml /\ r.dir = "profiles" /\ r.number = saver[p].number
          BY <1>2, <3>2, <5>1 DEF SaverRecords
        <5>4. files'["profiles"][r.number] = Absent
          BY <3>1, <3>2, <4>3, <5>3 DEF Taken, File
        <5>5. SavingIn(r) /\ Alone(r)'
          BY <2>7, <3>1, <4>1, <5>3, <5>4 DEF SavingIn, Alone, InProfile
        <5> QED
          BY <2>5, <3>1, <5>2, <5>3, <5>5
      <4> QED
        BY <4>2, <4>3
    <3>3. CASE saver[p].dir = "raw-xml"
      <4>1. PICK m \in Numbers : ProfileAt(saver[p], m)
        BY <2>7, <3>1, <3>3 DEF Alone
      <4>2. /\ files["raw-xml"][m] = Absent /\ saver[p].number <= m
            /\ Matched(Numbers \ {m}) /\ \A k \in Numbers : k < m => k \in TakenIn("profiles")
        BY <3>1, <4>1 DEF ProfileAt
      <4>3. m \in Nat /\ saver[p].number \in Nat /\ saver[p].number \in Numbers
        BY <1>2, StoreAssumption DEF Numbers, StoreAssumption
      <4>4. CASE Taken(p)
        <5>1. PICK r : r = [saver[p] EXCEPT !.number = saver[p].number + 1]
          OBVIOUS
        <5>2. saver' = [saver EXCEPT ![p] = r]
          BY <1>1, <2>8, <4>4, <5>1 DEF Probe
        <5>3. r.pc = "probe" /\ r.xml = saver[p].xml /\ r.dir = "raw-xml" /\ r.number = saver[p].number + 1
          BY <1>2, <3>1, <3>3, <5>1 DEF SaverRecords
        <5>4. r \in SaverRecords
          BY <1>0, <5>2 DEF StoreInv, TypeOK
        <5>5. saver[p].number # m
          BY <3>3, <4>2, <4>4 DEF Taken, File
        <5>6. r.number <= m
          BY <4>2, <4>3, <5>3, <5>5
        <5>7. ProfileAt(r, m)'
          BY <3>1, <4>1, <5>3, <5>6 DEF ProfileAt, Matched, TakenIn
        <5>8. SavingIn(r) /\ Alone(r)'
          BY <2>7, <3>1, <5>3, <5>7 DEF SavingIn, Alone
        <5> QED
          BY <2>5, <3>1, <5>2, <5>4, <5>8
      <4>5. CASE ~ Taken(p)
        <5>1. PICK r : r = [saver[p] EXCEPT !.pc = "open"]
          OBVIOUS
        <5>2. saver' = [saver EXCEPT ![p] = r]
          BY <1>1, <2>8, <4>5, <5>1 DEF Probe
        <5>3. r \in SaverRecords /\ r.pc = "open" /\ r.xml = saver[p].xml /\ r.dir = "raw-xml" /\ r.number = saver[p].number
          BY <1>2, <3>3, <5>1 DEF SaverRecords
        <5>4. files["raw-xml"][saver[p].number] = Absent
          BY <3>3, <4>5 DEF Taken, File
        <5>5. saver[p].number = m
          <6>1. SUFFICES ASSUME saver[p].number < m PROVE FALSE
            BY <4>2, <4>3
          <6>2. files["profiles"][saver[p].number] # Absent
            BY <4>2, <4>3, <6>1 DEF TakenIn
          <6>3. saver[p].number \in Numbers \ {m}
            BY <4>3, <6>1
          <6> QED
            BY <4>2, <5>4, <6>2, <6>3 DEF Matched
        <5>6. ProfileAt(r, m)'
          BY <3>1, <4>1, <5>3, <5>5 DEF ProfileAt, Matched, TakenIn
        <5>7. SavingIn(r) /\ Alone(r)'
          BY <2>7, <3>1, <5>3, <5>6 DEF SavingIn, Alone
        <5> QED
          BY <2>5, <3>1, <5>2, <5>3, <5>7
      <4> QED
        BY <4>4, <4>5
    <3> QED
      BY <1>2, <3>2, <3>3 DEF Dirs
  <2>9. CASE Open(p)
    <3>1. saver[p].pc = "open" /\ Saving(p) /\ Put(p, Empty)
      BY <2>9 DEF Open, At, Saving
    <3>2. PICK n \in Numbers : n = saver[p].number
      BY <1>2
    <3>3. PICK r : r = [saver[p] EXCEPT !.pc = "write"]
      OBVIOUS
    <3>4. saver' = [saver EXCEPT ![p] = r]
      BY <1>1, <2>9, <3>3 DEF Open
    <3>5. r \in SaverRecords /\ r.pc = "write" /\ r.xml = saver[p].xml /\ r.dir = saver[p].dir /\ r.number = n
      BY <1>2, <3>2, <3>3 DEF SaverRecords
    <3>6. /\ files'[saver[p].dir][n] = Empty
          /\ \A d \in Dirs, k \in Numbers : d # saver[p].dir \/ k # n => files'[d][k] = files[d][k]
      BY <1>0, <3>1, <3>2, Texts, PutAdds DEF StoreInv
    <3>7. CASE saver[p].dir = "profiles"
      <4>1. Matched(Numbers) /\ files["profiles"][n] = Absent
        BY <2>7, <3>1, <3>2, <3>7 DEF Alone, InProfile
      <4>2. Matched(Numbers \ {n})'
        BY <3>6, <4>1 DEF Matched, Dirs
      <4>3. files'["raw-xml"][n] = Absent
        BY <3>6, <3>7, <4>1 DEF Matched, Dirs
      <4>4. SavingIn(r) /\ Alone(r)'
        BY <2>7, <3>1, <3>5, <3>6, <3>7, <4>2, <4>3 DEF SavingIn, Alone, InProfile
      <4> QED
        BY <2>5, <3>1, <3>4, <3>5, <4>4
    <3>8. CASE saver[p].dir = "raw-xml"
      <4>1. ProfileAt(saver[p], n)
        BY <2>7, <3>1, <3>2, <3>8 DEF Alone, ProfileAt
      <4>2. ProfileAt(r, n)'
        <5>1. Matched(Numbers \ {n})'
          BY <3>6, <4>1 DEF ProfileAt, Matched, Dirs
        <5>2. files'["profiles"][n] = r.xml /\ files'["raw-xml"][n] = Empty
          BY <3>5, <3>6, <3>8, <4>1 DEF ProfileAt, Dirs
        <5>3. \A k \in Numbers : k < n => k \in TakenIn("profiles")'
          BY <1>0, <4>1 DEF ProfileAt
        <5> QED
          BY <3>5, <5>1, <5>2, <5>3 DEF ProfileAt
      <4>3. SavingIn(r) /\ Alone(r)'
        BY <2>7, <3>1, <3>5, <3>8, <4>2 DEF SavingIn, Alone
      <4> QED
        BY <2>5, <3>1, <3>4, <3>5, <4>3
    <3> QED
      BY <1>2, <3>7, <3>8 DEF Dirs
  <2>10. CASE Write(p)
    <3>1. saver[p].pc = "write" /\ Saving(p) /\ Alone(saver[p]) /\ saver[p].xml.state = "whole"
      BY <2>7, <2>10 DEF Write, At, Saving
    <3>2. PICK n \in Numbers : n = saver[p].number
      BY <1>2
    <3>3. PICK x \in Files : x = saver[p].xml
      BY <1>2 DEF SaverRecords
    <3>4. ASSUME File(p) = Empty
          PROVE  /\ files'[saver[p].dir][n] = x
                 /\ \A d \in Dirs, k \in Numbers : d # saver[p].dir \/ k # n => files'[d][k] = files[d][k]
      <4>1. Put(p, x) /\ x # Absent
        BY <2>10, <3>1, <3>3, <3>4 DEF Write, Absent
      <4> QED
        BY <1>0, <3>2, <4>1, PutAdds DEF StoreInv
    <3>5. CASE saver[p].dir = "profiles"
      <4>1. /\ Matched(Numbers \ {n}) /\ File(p) = Empty /\ files["raw-xml"][n] = Absent
        BY <3>1, <3>2, <3>5 DEF Alone, InProfile, File
      <4>2. PICK r : r = [saver[p] EXCEPT !.pc = "probe", !.dir = "raw-xml", !.number = 0]
        OBVIOUS
      <4>3. saver' = [saver EXCEPT ![p] = r]
        BY <2>10, <3>5, <4>2 DEF Write, SaveNext
      <4>4. r.pc = "probe" /\ r.xml = x /\ r.dir = "raw-xml" /\ r.number = 0
        BY <1>2, <3>3, <4>2 DEF SaverRecords
      <4>5. r \in SaverRecords
        BY <1>0, <4>3 DEF StoreInv, TypeOK
      <4>6. ProfileAt(r, n)'
        <5>1. Matched(Numbers \ {n})'
          BY <3>4, <4>1 DEF Matched, Dirs
        <5>2. files'["profiles"][n] = r.xml /\ files'["raw-xml"][n] = Absent
          BY <3>4, <3>5, <4>1, <4>4 DEF Dirs
        <5>3. \A k \in Numbers : k < n => k \in TakenIn("profiles")'
          BY <1>0, <3>1, <3>2, <3>5 DEF StoreInv, Passing
        <5>4. r.number <= n
          BY <4>4, StoreAssumption DEF Numbers, StoreAssumption
        <5> QED
          BY <4>4, <5>1, <5>2, <5>3, <5>4 DEF ProfileAt
      <4>7. SavingIn(r) /\ Alone(r)'
        BY <3>1, <3>3, <4>4, <4>6 DEF SavingIn, Alone
      <4> QED
        BY <2>5, <3>1, <4>3, <4>5, <4>7
    <3>6. CASE saver[p].dir = "raw-xml"
      <4>1. ProfileAt(saver[p], n)
        BY <3>1, <3>2, <3>6 DEF Alone, ProfileAt
      <4>2. /\ Matched(Numbers \ {n}) /\ files["profiles"][n] = x /\ File(p) = Empty
        BY <3>1, <3>2, <3>3, <3>6, <4>1 DEF ProfileAt, File
      <4>3. Matched(Numbers)'
        BY <3>1, <3>3, <3>4, <3>6, <4>2 DEF Matched, Dirs
      <4>4. saver' = [saver EXCEPT ![p] = Idle]
        BY <2>10, <3>6 DEF Write, SaveNext
      <4> QED
        BY <2>6, <3>1, <4>3, <4>4
    <3> QED
      BY <1>2, <3>5, <3>6 DEF Dirs
  <2>11. CASE Fail(p)
    <3>1. saver' = [saver EXCEPT ![p] = Idle] /\ files' = files /\ ~ HalfSaved(p)
      BY <1>4, <2>11 DEF Fail
    <3>2. CASE ~ Saving(p)
      BY <1>3, <2>1, <3>1, <3>2
    <3>3. CASE Saving(p)
      <4>1. saver[p].dir = "profiles" /\ saver[p].pc \in {"probe", "open"}
        BY <1>2, <3>1, <3>3 DEF HalfSaved, At, Saving, Dirs
      <4>2. Matched(Numbers)'
        BY <2>7, <3>1, <3>3, <4>1 DEF Alone, InProfile, Matched
      <4> QED
        BY <2>6, <3>1, <3>3, <4>2
    <3> QED
      BY <3>2, <3>3
  <2>12. CASE WriteCutShort(p)
    BY <1>4, <2>12 DEF WriteCutShort
  <2> QED
    BY <1>4, <2>2, <2>3, <2>4, <2>8, <2>9, <2>10, <2>11, <2>12 DEF Step
<1>5. ASSUME NEW p \in Savers, Step(p) PROVE Orderly'
  <2>1. disturbed => disturbed'
    BY <1>5 DEF Step, Read, Parse, Probe, Open, Write, Fail, WriteCutShort
  <2> QED
    BY <1>4, <1>5, <2>1 DEF Orderly
<1>6. CASE UNCHANGED vars
  <2>1. files' = files /\ saver' = saver /\ disturbed' = disturbed
    BY <1>6 DEF vars
  <2>2. NoneSaves => NoneSaves'
    BY <2>1 DEF NoneSaves, Matched, Saving
  <2>3. ASSUME NEW p \in Savers PROVE Alone(saver[p]) => Alone(saver[p])'
    BY <2>1 DEF Alone, InProfile, ProfileAt, Matched, TakenIn
  <2>4. OneSaves => OneSaves'
    <3>1. \A p \in Savers : Saving(p)' <=> Saving(p)
      BY <2>1 DEF Saving
    <3> QED
      BY <2>3, <3>1 DEF OneSaves
  <2>5. (disturbed => disturbed') /\ Orderly
    BY <2>1 DEF OrderInv
  <2> QED
    BY <1>0, <2>2, <2>4, <2>5 DEF OrderInv, Orderly
<1> QED
  BY <1>0, <1>5, <1>6 DEF OrderInv, Next

(* For any number of invocations and texts: as long as no saves overlap    *)
(* and none fails between its two files, the profile and the raw XML of a  *)
(* number are of one scan or both absent, though each directory counts for *)
(* itself (profile/store.py:8-10).                                         *)
THEOREM ProfilesCorrelate == Spec => []Correlated
<1>1. OrderInv => Correlated
  BY DEF OrderInv, Orderly, NoneSaves, OneSaves, Matched, Correlated
<1> QED
  BY <1>1, OrderInit, OrderStep, PTL DEF Spec

=============================================================================
