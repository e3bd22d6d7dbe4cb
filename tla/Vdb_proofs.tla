------------------------------ MODULE Vdb_proofs ------------------------------
(***************************************************************************)
(* What is proved of vectordb: what is put is found again and every        *)
(* replica is open, through stops, restarts and crashes; an index whose    *)
(* file is whole has the key of every item; a search returns no key twice; *)
(* and no assertion fails while nothing is deleted, nothing crashes and    *)
(* every index has trees, but for the path of an index that is too long.   *)
(* Each rests on what the job at the head of the list of work has done.    *)
(***************************************************************************)
EXTENDS Vdb, FiniteSetTheorems, FunctionTheorems, SequenceTheorems, WellFoundedInduction,
        TLAPS

(* Maps from some of A to B.                                               *)
Maps(A, B) == UNION {[D -> B] : D \in SUBSET A}

-----------------------------------------------------------------------------
(* Maps and sets as sequences.                                             *)

LEMMA MapFacts ==
  ASSUME NEW A, NEW B, NEW f \in Maps(A, B)
  PROVE  DOMAIN f \subseteq A /\ \A x \in DOMAIN f : f[x] \in B
BY DEF Maps

LEMMA WithFacts ==
  ASSUME NEW f, NEW x, NEW v
  PROVE  /\ DOMAIN With(f, x, v) = DOMAIN f \cup {x}
         /\ With(f, x, v)[x] = v
         /\ \A y \in DOMAIN f : y # x => With(f, x, v)[y] = f[y]
BY DEF With

LEMMA WithType ==
  ASSUME NEW A, NEW B, NEW f \in Maps(A, B), NEW x \in A, NEW v \in B
  PROVE  With(f, x, v) \in Maps(A, B)
<1>1. DOMAIN f \subseteq A /\ \A y \in DOMAIN f : f[y] \in B BY MapFacts
<1>2. With(f, x, v) \in [DOMAIN f \cup {x} -> B] BY <1>1 DEF With
<1> QED BY <1>1, <1>2 DEF Maps

LEMMA NoFunctionType ==
  ASSUME NEW A, NEW B
  PROVE  NoFunction \in Maps(A, B) /\ DOMAIN NoFunction = {}
<1>1. NoFunction \in [{} -> B] BY DEF NoFunction
<1> QED BY <1>1 DEF Maps

LEMMA SetToSeqFacts ==
  ASSUME NEW S, IsFiniteSet(S)
  PROVE  /\ SetToSeq(S) \in Seq(S) /\ Len(SetToSeq(S)) = Cardinality(S)
         /\ \A x \in S : \E i \in 1..Len(SetToSeq(S)) : SetToSeq(S)[i] = x
         /\ S = {} <=> SetToSeq(S) = <<>>
<1>1. Cardinality(S) \in Nat BY FS_CardinalityType
<1>2. PICK n \in Nat : ExistsBijection(1..n, S) BY FS_NatBijection
<1>3. n = Cardinality(S) BY <1>2, FS_CountingElements
<1>4. PICK f : f \in Bijection(1..n, S) BY <1>2 DEF ExistsBijection
<1>5. f \in [1..n -> S] /\ IsInjective(f) BY <1>4 DEF Bijection, Injection
<1>6. SetToSeq(S) \in [1..n -> S] /\ IsInjective(SetToSeq(S)) BY <1>3, <1>5 DEF SetToSeq
<1>7. PICK g : g = SetToSeq(S) OBVIOUS
<1>8. g \in Injection(1..n, S) BY <1>6, <1>7 DEF Injection
<1>9. IsFiniteSet(1..n) /\ Cardinality(1..n) = n BY FS_Interval
<1>10. g \in Surjection(1..n, S) BY <1>3, <1>8, <1>9, FS_Injection
<1>11. \A x \in S : \E i \in 1..n : g[i] = x BY <1>10 DEF Surjection
<1>12. g \in Seq(S) /\ Len(g) = n BY <1>6, <1>7
<1>13. S = {} <=> g = <<>>
  <2>1. S = {} => n = 0 BY <1>3, FS_EmptySet
  <2>2. g = <<>> => n = 0 BY <1>12
  <2>3. n = 0 => g = <<>> BY <1>12, EmptySeq
  <2>4. n = 0 => S = {} BY <1>11
  <2> QED BY <2>1, <2>2, <2>3, <2>4
<1> QED BY <1>3, <1>7, <1>11, <1>12, <1>13

(* Every element of a finite set of numbers has its place in InOrder.      *)
LEMMA InOrderFacts ==
  ASSUME NEW S \in SUBSET Nat, IsFiniteSet(S)
  PROVE  InOrder(S) \in Seq(S) /\ Len(InOrder(S)) = Cardinality(S)
<1> DEFINE n == Cardinality(S)
           Below(x) == {y \in S : y < x}
           f == [x \in S |-> Cardinality(Below(x)) + 1]
<1>1. n \in Nat BY FS_CardinalityType
<1>2. ASSUME NEW x \in S
      PROVE  /\ IsFiniteSet(Below(x)) /\ Cardinality(Below(x)) \in Nat
             /\ Cardinality(Below(x)) < n
  <2>1. Below(x) \subseteq S /\ Below(x) # S OBVIOUS
  <2>2. IsFiniteSet(Below(x)) BY <2>1, FS_Subset
  <2> QED BY <2>1, <2>2, FS_Subset, FS_CardinalityType
<1>3. ASSUME NEW x \in S, NEW y \in S, x < y
      PROVE  Cardinality(Below(x)) < Cardinality(Below(y))
  <2>0. x \in Nat /\ y \in Nat /\ \A z \in S : z \in Nat OBVIOUS
  <2>1. \A z \in S : z < x => z < y BY <1>3, <2>0
  <2>2. Below(x) \subseteq Below(y) BY <2>1
  <2>3. x \in Below(y) /\ x \notin Below(x) BY <1>3, <2>0
  <2>4. IsFiniteSet(Below(y)) BY <1>2
  <2>5. Below(x) # Below(y) BY <2>3
  <2>6. Cardinality(Below(x)) \in Nat /\ Cardinality(Below(y)) \in Nat BY <1>2
  <2> HIDE DEF Below
  <2>7. /\ Cardinality(Below(x)) <= Cardinality(Below(y))
        /\ Cardinality(Below(x)) # Cardinality(Below(y))
    BY <2>2, <2>4, <2>5, FS_Subset
  <2> QED BY <2>6, <2>7
<1>4. f \in [S -> 1..n] BY <1>1, <1>2
<1>5. \A x, y \in S : f[x] = f[y] => x = y
  <2> SUFFICES ASSUME NEW x \in S, NEW y \in S, f[x] = f[y], x # y PROVE FALSE
    OBVIOUS
  <2>1. Cardinality(Below(x)) \in Nat /\ Cardinality(Below(y)) \in Nat BY <1>2
  <2>2. Cardinality(Below(x)) = Cardinality(Below(y)) BY <2>1
  <2>3. x < y \/ y < x OBVIOUS
  <2> QED BY <1>3, <2>1, <2>2, <2>3
<1>6. f \in Injection(S, 1..n) BY <1>4, <1>5, Fun_IsInj
<1>7. IsFiniteSet(1..n) /\ Cardinality(1..n) = n BY <1>1, FS_Interval
<1>8. f \in Surjection(S, 1..n) BY <1>6, <1>7, FS_Injection
<1>9. \A i \in 1..n : \E x \in S : f[x] = i BY <1>8 DEF Surjection
<1>10. ASSUME NEW i \in 1..n PROVE \E x \in S : Cardinality({y \in S : y < x}) = i - 1
  <2>1. PICK x \in S : f[x] = i BY <1>9
  <2>2. Cardinality(Below(x)) \in Nat /\ Cardinality(Below(x)) + 1 = i BY <1>2, <2>1
  <2>3. Cardinality(Below(x)) = i - 1 BY <2>2
  <2> QED BY <2>3
<1>11. InOrder(S) \in [1..n -> S] BY <1>10 DEF InOrder
<1> QED BY <1>1, <1>11

-----------------------------------------------------------------------------
(* Types, and how the parts of the process fit together.                   *)

Values == Vectors \cup {Nothing}
Stamps == 0..(MaxIndexes + 1)
Params == [ts : Stamps, dim : {0, Dim}, trees : BOOLEAN]
IndexDirs == [meta : BOOLEAN, param : Params, keyid : Maps(Nat, Keys),
              file : {"none", "begun", "complete"}, tree : Seq(Keys), trees : BOOLEAN]
Dirs == [there : BOOLEAN, dim : {0, Dim}, data : [Keys -> Values],
         index : Maps(Stamps, IndexDirs)]
Loads == [dir : Stamps, tree : Seq(Keys), sound : BOOLEAN]
Indexes == Maps(Stamps, Loads)
Uses == [index : Nat, treeless : Nat, delete : Nat, stop : Nat, crash : Nat]

OpenSteps == {"mkdir", "dim", "open"}
BuildSteps == {"keyids", "save", "end save"}
IndexSteps == {"param", "write param", "tree"} \cup BuildSteps
Jobs == [do : OpenSteps \cup {"index dir"} \cup IndexSteps, r : ReplicaNames, ts : Stamps,
         p : Params, id : Nat]

TablesOK(tbl) ==
  /\ DOMAIN tbl \subseteq TableNames
  /\ \A t \in DOMAIN tbl : \E p \in 1..MaxPartitions, n \in 1..MaxReplicas :
       tbl[t].partition_num = p /\ tbl[t].uid \in [Slots(p, n) -> Nat]

Among(r, tbl) == r[1] \in DOMAIN tbl /\ r[2] \in DOMAIN tbl[r[1]].uid

(* A job works on a replica of a table; one that builds or loads an index, *)
(* on a replica whose engine has been opened.  Only one that builds counts.*)
JobOK(j, tbl, man) ==
  /\ Among(j.r, tbl)
  /\ j.do \notin OpenSteps => j.r \in DOMAIN man
  /\ j.do \notin BuildSteps => j.id = 0

(* Only the first job has begun, and an index it works on has a directory. *)
Waiting(j) == j.do \in {"mkdir", "index dir"}
WorkOK(w, tbl, man, dsk) ==
  /\ w \in Seq(Jobs)
  /\ \A k \in 1..Len(w) : JobOK(w[k], tbl, man) /\ (k > 1 => Waiting(w[k]))
  /\ w # <<>> /\ w[1].do \in IndexSteps => w[1].ts \in DOMAIN dsk[w[1].r].index

(* What a running process has loaded, and what is left of one that stopped.*)
ProcessOK ==
  /\ status \in {"up", "down", "path", "load", "build", "knn"}
  /\ status = "up" => tables = saved
  /\ status = "down" => /\ work = <<>> /\ engines = NoFunction /\ managers = NoFunction
                        /\ results = {} /\ replica_uid = 0

MemoryOK ==
  /\ replica_uid \in Nat
  /\ engines \in Maps(Nat, ReplicaNames)
  /\ managers \in Maps(ReplicaNames, Indexes)
  /\ \A u \in DOMAIN engines : engines[u] \in DOMAIN managers
  /\ \A r \in DOMAIN managers : Among(r, tables)

Types ==
  /\ TablesOK(saved) /\ TablesOK(tables)
  /\ disk \in [ReplicaNames -> Dirs]
  /\ MemoryOK
  /\ WorkOK(work, tables, managers, disk)
  /\ ProcessOK
  /\ written \in [TableNames -> [Keys -> Values]]
  /\ used \in Uses

LEMMA Constants ==
  /\ Stamps \subseteq Nat /\ IsFiniteSet(Stamps) /\ 0 \in Stamps
  /\ Keys \subseteq Nat /\ IsFiniteSet(Keys)
  /\ IsFiniteSet(ReplicaNames)
  /\ NoParam \in Params /\ Nothing \in Values /\ \A v \in Vectors : v # Nothing
<1>1. MaxIndexes + 1 \in Nat /\ KeyNum \in Nat /\ MaxPartitions \in Nat /\ MaxReplicas \in Nat
  BY VdbAssumption
<1>2. Stamps \subseteq Nat /\ IsFiniteSet(Stamps) /\ 0 \in Stamps BY <1>1, FS_Interval DEF Stamps
<1>3. Keys \subseteq Nat /\ IsFiniteSet(Keys) BY <1>1, FS_Interval DEF Keys
<1>4. IsFiniteSet(Slots(MaxPartitions, MaxReplicas))
  <2>1. MaxPartitions - 1 \in Int /\ MaxReplicas - 1 \in Int BY <1>1
  <2>2. IsFiniteSet(0..(MaxPartitions - 1)) /\ IsFiniteSet(0..(MaxReplicas - 1))
    BY <2>1, FS_Interval
  <2> QED BY <2>2, FS_Product DEF Slots
<1>5. IsFiniteSet(ReplicaNames) BY <1>4, VdbAssumption, FS_Product DEF ReplicaNames
<1>6. NoParam \in Params BY <1>2 DEF NoParam, Params, Param
<1>7. Nothing \in Values /\ \A v \in Vectors : v # Nothing
  BY VdbAssumption DEF Nothing, Values
<1> QED BY <1>2, <1>3, <1>5, <1>6, <1>7

(* The replicas of a table are among those that may be named.              *)
LEMMA SlotFacts ==
  ASSUME NEW tbl, TablesOK(tbl), NEW t \in DOMAIN tbl
  PROVE  /\ ReplicasInTable(tbl, t) \subseteq ReplicaNames
         /\ IsFiniteSet(ReplicasInTable(tbl, t))
         /\ \A r \in ReplicasInTable(tbl, t) : r[1] = t /\ Among(r, tbl) /\ r = <<r[1], r[2]>>
         /\ \A r \in ReplicaNames : Among(r, tbl) /\ r[1] = t => r \in ReplicasInTable(tbl, t)
         /\ \A k \in Keys : /\ <<PartitionId(k, tbl[t].partition_num), 0>> \in DOMAIN tbl[t].uid
                            /\ <<t, <<PartitionId(k, tbl[t].partition_num), 0>>>> \in ReplicaNames
<1>1. PICK p \in 1..MaxPartitions, n \in 1..MaxReplicas :
        tbl[t].partition_num = p /\ tbl[t].uid \in [Slots(p, n) -> Nat]
  BY DEF TablesOK
<1>2. /\ p \in Nat \ {0} /\ n \in Nat \ {0} /\ MaxPartitions \in Nat /\ MaxReplicas \in Nat
      /\ p <= MaxPartitions /\ n <= MaxReplicas
  BY VdbAssumption
<1>3. DOMAIN tbl[t].uid = Slots(p, n) /\ t \in TableNames BY <1>1 DEF TablesOK
<1>4. Slots(p, n) \subseteq Slots(MaxPartitions, MaxReplicas) BY <1>2 DEF Slots
<1>5. ReplicasInTable(tbl, t) \subseteq ReplicaNames
  BY <1>3, <1>4 DEF ReplicasInTable, ReplicaNames
<1>6. IsFiniteSet(ReplicasInTable(tbl, t)) BY <1>5, Constants, FS_Subset
<1>7. \A r \in ReplicasInTable(tbl, t) : r[1] = t /\ Among(r, tbl) /\ r = <<r[1], r[2]>>
  BY DEF ReplicasInTable, Among
<1>8. \A r \in ReplicaNames : Among(r, tbl) /\ r[1] = t => r \in ReplicasInTable(tbl, t)
  BY DEF ReplicasInTable, Among, ReplicaNames
<1>9. ASSUME NEW k \in Keys
      PROVE  <<PartitionId(k, p), 0>> \in Slots(p, n)
  <2>1. k \in Nat BY Constants
  <2>2. k % p \in 0..(p - 1) BY <1>2, <2>1
  <2>3. 0 \in 0..(n - 1) BY <1>2
  <2> QED BY <2>2, <2>3 DEF PartitionId, Slots
<1>10. \A k \in Keys : <<t, <<PartitionId(k, p), 0>>>> \in ReplicaNames
  BY <1>3, <1>4, <1>9 DEF ReplicaNames
<1> QED BY <1>1, <1>3, <1>5, <1>6, <1>7, <1>8, <1>9, <1>10

-----------------------------------------------------------------------------
(* The list of work.                                                       *)

LEMMA HeadFacts ==
  ASSUME Types, work # <<>>
  PROVE  /\ job \in Jobs /\ job = work[1] /\ Len(work) \in Nat \ {0}
         /\ job.r \in ReplicaNames /\ job.ts \in Stamps /\ job.p \in Params /\ job.id \in Nat
         /\ dir = disk[job.r] /\ dir \in Dirs
         /\ JobOK(job, tables, managers)
         /\ job.do \in IndexSteps => job.ts \in DOMAIN dir.index
<1>1. work \in Seq(Jobs) BY DEF Types, WorkOK
<1>2. work[1] = Head(work) /\ Len(work) \in Nat \ {0} /\ 1 \in 1..Len(work) BY <1>1
<1>3. job \in Jobs BY <1>1, <1>2, ElementOfSeq DEF job
<1>4. job.r \in ReplicaNames /\ job.ts \in Stamps /\ job.p \in Params /\ job.id \in Nat
  BY <1>3 DEF Jobs
<1>5. dir \in Dirs BY <1>4 DEF Types, dir
<1>6. JobOK(job, tables, managers) BY <1>2 DEF Types, WorkOK, job
<1>7. job.do \in IndexSteps => job.ts \in DOMAIN dir.index
  BY <1>2 DEF Types, WorkOK, job, dir
<1> QED BY <1>2, <1>3, <1>4, <1>5, <1>6, <1>7 DEF dir, job

LEMMA GoneOn ==
  ASSUME NEW w \in Seq(Jobs), w # <<>>, NEW j \in Jobs
  PROVE  /\ <<j>> \o Tail(w) \in Seq(Jobs) /\ <<j>> \o Tail(w) # <<>>
         /\ Len(<<j>> \o Tail(w)) = Len(w) /\ (<<j>> \o Tail(w))[1] = j
         /\ \A k \in 2..Len(w) : (<<j>> \o Tail(w))[k] = w[k]
<1>1. Tail(w) \in Seq(Jobs) /\ Len(Tail(w)) = Len(w) - 1 /\ Len(w) \in Nat \ {0}
      /\ \A k \in 1..(Len(w) - 1) : Tail(w)[k] = w[k + 1]
  OBVIOUS
<1>2. PICK t : t = Tail(w) OBVIOUS
<1>3. <<j>> \in Seq(Jobs) /\ Len(<<j>>) = 1 /\ <<j>>[1] = j OBVIOUS
<1>4. /\ <<j>> \o t \in Seq(Jobs) /\ Len(<<j>> \o t) = 1 + Len(t)
      /\ \A k \in 1..(1 + Len(t)) :
            (<<j>> \o t)[k] = IF k <= 1 THEN <<j>>[k] ELSE t[k - 1]
  BY <1>1, <1>2, <1>3, ConcatProperties
<1>5. Len(t) = Len(w) - 1 /\ 1 + Len(t) = Len(w) BY <1>1, <1>2
<1>6. ASSUME NEW k \in 2..Len(w) PROVE (<<j>> \o t)[k] = w[k]
  <2>1. k \in 1..(1 + Len(t)) /\ ~(k <= 1) /\ k - 1 \in 1..(Len(w) - 1) /\ (k - 1) + 1 = k
    BY <1>1, <1>5
  <2>2. (<<j>> \o t)[k] = t[k - 1] BY <1>4, <2>1
  <2>3. t[k - 1] = w[(k - 1) + 1] BY <1>1, <1>2, <2>1
  <2> QED BY <2>1, <2>2, <2>3
<1>7. (<<j>> \o t)[1] = j BY <1>1, <1>3, <1>4, <1>5
<1> QED BY <1>1, <1>2, <1>4, <1>5, <1>6, <1>7

LEMMA Done ==
  ASSUME NEW w \in Seq(Jobs), w # <<>>
  PROVE  /\ Tail(w) \in Seq(Jobs) /\ Len(Tail(w)) = Len(w) - 1 /\ Len(w) \in Nat \ {0}
         /\ \A k \in 1..Len(Tail(w)) : k + 1 \in 1..Len(w) /\ k + 1 > 1 /\ Tail(w)[k] = w[k + 1]
OBVIOUS

(* The first job goes on.                                                  *)
LEMMA GoOnWork ==
  ASSUME NEW w, NEW tbl, NEW man, NEW dsk, NEW dsk2, WorkOK(w, tbl, man, dsk), w # <<>>,
         NEW j \in Jobs, JobOK(j, tbl, man),
         j.do \in IndexSteps => j.ts \in DOMAIN dsk2[j.r].index
  PROVE  WorkOK(<<j>> \o Tail(w), tbl, man, dsk2)
<1>1. w \in Seq(Jobs) /\ Len(w) \in Nat BY DEF WorkOK
<1>2. PICK v : v = <<j>> \o Tail(w) OBVIOUS
<1>3. /\ v \in Seq(Jobs) /\ v # <<>> /\ Len(v) = Len(w) /\ v[1] = j
      /\ \A k \in 2..Len(w) : v[k] = w[k]
  BY <1>1, <1>2, GoneOn
<1>4. ASSUME NEW k \in 1..Len(v)
      PROVE  JobOK(v[k], tbl, man) /\ (k > 1 => Waiting(v[k]))
  <2>1. CASE k = 1 BY <1>3, <2>1
  <2>2. CASE k # 1
    <3>1. k \in 2..Len(w) /\ k \in 1..Len(w) BY <1>1, <1>3, <2>2
    <3> QED BY <1>3, <3>1 DEF WorkOK
  <2> QED BY <2>1, <2>2
<1> QED BY <1>2, <1>3, <1>4 DEF WorkOK

(* The first job is done.                                                  *)
LEMMA DoneWork ==
  ASSUME NEW w, NEW tbl, NEW man, NEW dsk, NEW man2, NEW dsk2, WorkOK(w, tbl, man, dsk), w # <<>>,
         DOMAIN man \subseteq DOMAIN man2
  PROVE  /\ WorkOK(Tail(w), tbl, man2, dsk2)
         /\ \A k \in 1..Len(Tail(w)) : Waiting(Tail(w)[k])
<1>1. w \in Seq(Jobs) BY DEF WorkOK
<1>2. PICK v : v = Tail(w) OBVIOUS
<1>3. /\ v \in Seq(Jobs) /\ Len(v) \in Nat
      /\ \A k \in 1..Len(v) : k + 1 \in 1..Len(w) /\ k + 1 > 1 /\ v[k] = w[k + 1]
  BY <1>1, <1>2, Done
<1>4. \A k \in 1..Len(v) : JobOK(v[k], tbl, man) /\ Waiting(v[k]) BY <1>3 DEF WorkOK
<1>5. \A k \in 1..Len(v) : JobOK(v[k], tbl, man2) BY <1>4 DEF JobOK
<1>6. v # <<>> => v[1].do \notin IndexSteps
  <2>1. v # <<>> => 1 \in 1..Len(v) BY <1>3
  <2> QED BY <1>4, <2>1 DEF Waiting, IndexSteps, BuildSteps
<1> QED BY <1>2, <1>3, <1>4, <1>5, <1>6 DEF WorkOK

-----------------------------------------------------------------------------
(* What the steps of a job do: the first job goes on, is done, or stops    *)
(* the process; d is its directory afterwards.                             *)

GoesOn(d, j) ==
  /\ status = "up" /\ work # <<>>
  /\ d \in Dirs /\ d.data = dir.data /\ disk' = [disk EXCEPT ![job.r] = d]
  /\ j \in Jobs /\ j.r = job.r /\ j.ts = job.ts /\ work' = <<j>> \o Tail(work)
  /\ j.do \in OpenSteps <=> job.do \in OpenSteps
  /\ j.do \notin BuildSteps => j.id = 0
  /\ UNCHANGED <<saved, memory, status, results, written, used>>

Finishes(d, tree, sound) ==
  /\ status = "up" /\ work # <<>>
  /\ d \in Dirs /\ d.data = dir.data /\ disk' = [disk EXCEPT ![job.r] = d]
  /\ tree \in Seq(Keys) /\ sound \in BOOLEAN /\ AddToManager(tree, sound) /\ work' = Tail(work)
  /\ UNCHANGED <<saved, tables, replica_uid, engines, status, results, written, used>>

Aborts ==
  /\ status = "up" /\ status' \in {"path", "load", "build", "knn"}
  /\ UNCHANGED <<saved, disk, memory, work, results, written, used>>

KeysIn(data) == InOrder({k \in Keys : data[k] # Nothing})

LEMMA KeysInFacts ==
  ASSUME NEW data
  PROVE  /\ KeysIn(data) \in Seq(Keys) /\ Len(KeysIn(data)) \in Nat
         /\ \A i \in 1..Len(KeysIn(data)) : KeysIn(data)[i] \in Keys /\ data[KeysIn(data)[i]] # Nothing
<1> DEFINE S == {k \in Keys : data[k] # Nothing}
<1>1. S \subseteq Keys /\ S \in SUBSET Nat /\ IsFiniteSet(S) BY Constants, FS_Subset
<1>2. KeysIn(data) \in Seq(S) BY <1>1, InOrderFacts DEF KeysIn
<1>3. Len(KeysIn(data)) \in Nat /\ \A i \in 1..Len(KeysIn(data)) : KeysIn(data)[i] \in S
  BY <1>2, ElementOfSeq
<1>4. KeysIn(data) \in Seq(Keys) BY <1>1, <1>2
<1> QED BY <1>3, <1>4

LEMMA SameDir ==
  ASSUME Types, work # <<>>
  PROVE  disk = [disk EXCEPT ![job.r] = dir]
<1>1. disk \in [ReplicaNames -> Dirs] /\ dir = disk[job.r] BY DEF Types, dir
<1> QED BY <1>1

(* An index directory is replaced.                                         *)
LEMMA SetIndexDir ==
  ASSUME Types, work # <<>>, NEW i \in IndexDirs, SetIndex(i)
  PROVE  \E d : /\ d \in Dirs /\ d.data = dir.data /\ d.there = dir.there /\ d.dim = dir.dim
                /\ d.index = With(dir.index, job.ts, i) /\ disk' = [disk EXCEPT ![job.r] = d]
<1>1. dir \in Dirs /\ job.ts \in Stamps BY HeadFacts
<1>2. PICK x : x = With(dir.index, job.ts, i) OBVIOUS
<1>3. dir.index \in Maps(Stamps, IndexDirs) BY <1>1 DEF Dirs
<1>4. x \in Maps(Stamps, IndexDirs) BY <1>1, <1>2, <1>3, WithType
<1>5. PICK d : d = [dir EXCEPT !.index = x] OBVIOUS
<1>6. d \in Dirs /\ d.data = dir.data /\ d.there = dir.there /\ d.dim = dir.dim /\ d.index = x
  BY <1>1, <1>4, <1>5 DEF Dirs
<1>7. disk' = [disk EXCEPT ![job.r] = d] BY <1>2, <1>5 DEF SetIndex, SetDir
<1> QED BY <1>2, <1>6, <1>7

LEMMA IndexType ==
  ASSUME Types, work # <<>>, job.do \in IndexSteps
  PROVE  index \in IndexDirs /\ index = dir.index[job.ts] /\ job.ts \in DOMAIN dir.index
<1>1. dir \in Dirs /\ job.ts \in DOMAIN dir.index BY HeadFacts
<1>2. dir.index \in Maps(Stamps, IndexDirs) BY <1>1 DEF Dirs
<1> QED BY <1>1, <1>2, MapFacts DEF index

LEMMA OpeningStep ==
  ASSUME Types, MkDir \/ SetDim
  PROVE  \E d, j : /\ GoesOn(d, j) /\ d.index = dir.index
                   /\ job.do \in OpenSteps /\ j.do \in OpenSteps
<1>1. status = "up" /\ work # <<>> /\ job.do \in OpenSteps
  BY DEF MkDir, SetDim, Doing, job, OpenSteps
<1>2. job \in Jobs /\ dir \in Dirs BY <1>1, HeadFacts
<1>3. ASSUME NEW d \in Dirs, d.data = dir.data, d.index = dir.index,
             disk' = [disk EXCEPT ![job.r] = d], NEW do \in OpenSteps, GoOn(do),
             UNCHANGED <<saved, memory, status, results, written, used>>
      PROVE  \E e, j : /\ GoesOn(e, j) /\ e.index = dir.index
                       /\ job.do \in OpenSteps /\ j.do \in OpenSteps
  <2>1. PICK j : j = [job EXCEPT !.do = do] OBVIOUS
  <2>2. j \in Jobs /\ j.r = job.r /\ j.ts = job.ts /\ j.do = do /\ j.id = job.id
    BY <1>2, <2>1 DEF Jobs
  <2>3. work' = <<j>> \o Tail(work) BY <1>3, <2>1 DEF GoOn
  <2>4. j.id = 0 BY <1>1, <2>2, HeadFacts DEF JobOK, OpenSteps, BuildSteps
  <2>5. GoesOn(d, j) BY <1>1, <1>3, <2>2, <2>3, <2>4 DEF GoesOn
  <2> QED BY <1>1, <1>3, <2>2, <2>5
<1>4. "open" \in OpenSteps /\ "dim" \in OpenSteps BY DEF OpenSteps
<1>5. CASE MkDir
  <2>1. UNCHANGED <<saved, memory, status, results, written, used>> BY <1>5 DEF MkDir
  <2>2. CASE GoOn("open") /\ UNCHANGED disk
    BY <1>1, <1>2, <1>3, <1>4, <2>1, <2>2, SameDir
  <2>3. CASE GoOn("dim") /\ SetDir([dir EXCEPT !.there = TRUE])
    <3>1. PICK d : d = [dir EXCEPT !.there = TRUE] OBVIOUS
    <3>2. d \in Dirs /\ d.data = dir.data /\ d.index = dir.index BY <1>2, <3>1 DEF Dirs
    <3>3. disk' = [disk EXCEPT ![job.r] = d] BY <2>3, <3>1 DEF SetDir
    <3> QED BY <1>3, <1>4, <2>1, <2>3, <3>2, <3>3
  <2> QED BY <1>5, <2>2, <2>3 DEF MkDir
<1>6. CASE SetDim
  <2>1. UNCHANGED <<saved, memory, status, results, written, used>> /\ GoOn("open")
    BY <1>6 DEF SetDim
  <2>2. PICK d : d = [dir EXCEPT !.dim = Dim] OBVIOUS
  <2>3. d \in Dirs /\ d.data = dir.data /\ d.index = dir.index BY <1>2, <2>2 DEF Dirs
  <2>4. disk' = [disk EXCEPT ![job.r] = d] BY <1>6, <2>2 DEF SetDir, SetDim
  <2> QED BY <1>3, <1>4, <2>1, <2>3, <2>4
<1> QED BY <1>5, <1>6

-----------------------------------------------------------------------------
(* Indexes under construction.                                             *)

Known == job.ts \in DOMAIN dir.index

(* The first n entries of s are under their numbers.                       *)
UpTo(keyid, s, n) == \A i \in 1..n : i \in DOMAIN keyid /\ keyid[i] = s[i]

(* A file that is complete has the keys of all its items.                  *)
EntryOK(x) == x.file = "complete" => UpTo(x.keyid, x.tree, Len(x.tree))

(* What holds of an index while a job builds it: a job that numbers the    *)
(* keys has numbered those up to its count, over whatever an earlier       *)
(* attempt has left there.                                                 *)
Stage(j, x, data) ==
  /\ j.do \in {"keyids", "save"} => x.file = "none"
  /\ j.do = "end save" => x.file = "begun"
  /\ j.do = "keyids" => UpTo(x.keyid, KeysIn(data), j.id)
  /\ j.do \in {"save", "end save"} => UpTo(x.keyid, KeysIn(data), Len(KeysIn(data)))

HeadStage == (work # <<>> /\ job.do \in IndexSteps) => Stage(job, index, dir.data)

GoodParam(ts) == Param(ts, Dim, TRUE)
Good(x, ts) ==
  x.meta /\ x.param = GoodParam(ts) /\ x.file = "complete" /\ x.trees = TRUE

(* The same when no process has crashed inside a call and every index was  *)
(* asked for with trees: one that is there is complete and has them, any   *)
(* other has its parameters from AddIndex.                                 *)
CleanStage(j, x) ==
  /\ j.do = "param" => \/ Good(x, j.ts)
                       \/ ~x.meta /\ x.file = "none" /\ j.p = GoodParam(j.ts)
  /\ j.do = "write param" => x.meta /\ x.file = "none" /\ j.p = GoodParam(j.ts)
  /\ j.do \in {"tree"} \cup BuildSteps =>
       x.meta /\ x.param = GoodParam(j.ts) /\ j.p = GoodParam(j.ts)
  /\ j.do = "tree" => x.file # "begun" /\ (x.file = "complete" => x.trees = TRUE)

CleanHead ==
  /\ job.do \in IndexSteps => CleanStage(job, index)
  /\ job.do = "index dir" => IF Known THEN Good(index, job.ts) ELSE job.p = GoodParam(job.ts)

(* The first job goes on as j and leaves x of its index; or it is done and *)
(* the index is loaded with the given tree, which is that of the file if   *)
(* the index is sound.                                                     *)
IndexStep(j, x) ==
  /\ x \in IndexDirs
  /\ \E d : GoesOn(d, j) /\ d.index = With(dir.index, job.ts, x)

SameFile(x, y) ==
  /\ y.tree = x.tree
  /\ y.file = "complete" <=> x.file = "complete"
  /\ x.file = "complete" => y.keyid = x.keyid

Advances(j, x) ==
  /\ IndexStep(j, x)
  /\ job.do \in {"index dir"} \cup IndexSteps /\ j.do \in IndexSteps
  /\ Known => SameFile(index, x)
  /\ ~Known => x = NewIndexDir
  /\ Stage(j, x, dir.data)
  /\ CleanHead => CleanStage(j, x)

Completes(x, tree, sound) ==
  /\ x \in IndexDirs
  /\ \E d : Finishes(d, tree, sound) /\ d.index = With(dir.index, job.ts, x)
  /\ job.do \in IndexSteps /\ Known
  /\ index.file = "complete" => x = index
  /\ EntryOK(index) => EntryOK(x)
  /\ sound = TRUE => x.file = "complete" /\ x.tree = tree
  /\ x = index \/ x.tree = KeysIn(dir.data)
  /\ CleanHead => Good(x, job.ts) /\ job.p = GoodParam(job.ts) /\ sound = TRUE

LEMMA WithSame ==
  ASSUME NEW A, NEW B, NEW f \in Maps(A, B), NEW x \in DOMAIN f
  PROVE  With(f, x, f[x]) = f
<1>1. PICK D : f \in [D -> B] BY DEF Maps
<1>2. DOMAIN f = D /\ D \cup {x} = D BY <1>1
<1>3. With(f, x, f[x]) = [y \in D |-> f[y]] BY <1>2 DEF With
<1> QED BY <1>1, <1>3

(* The directory of a step that leaves or replaces its index.              *)
LEMMA IndexChange ==
  ASSUME Types, work # <<>>, NEW x \in IndexDirs,
         SetIndex(x) \/ (UNCHANGED disk /\ Known /\ x = index)
  PROVE  \E d : /\ d \in Dirs /\ d.data = dir.data /\ disk' = [disk EXCEPT ![job.r] = d]
                /\ d.index = With(dir.index, job.ts, x)
<1>1. CASE SetIndex(x) BY <1>1, SetIndexDir
<1>2. CASE UNCHANGED disk /\ Known /\ x = index
  <2>1. dir \in Dirs BY HeadFacts
  <2>2. dir.index \in Maps(Stamps, IndexDirs) BY <2>1 DEF Dirs
  <2>3. With(dir.index, job.ts, x) = dir.index
    BY <1>2, <2>2, WithSame DEF Known, index
  <2>4. disk' = [disk EXCEPT ![job.r] = dir] BY <1>2, SameDir
  <2> QED BY <2>1, <2>3, <2>4
<1> QED BY <1>1, <1>2

LEMMA IndexGoesOn ==
  ASSUME Types, status = "up", work # <<>>, NEW x \in IndexDirs,
         SetIndex(x) \/ (UNCHANGED disk /\ Known /\ x = index),
         NEW j \in Jobs, j.r = job.r, j.ts = job.ts, work' = <<j>> \o Tail(work),
         job.do \notin OpenSteps, j.do \in IndexSteps, j.do \notin BuildSteps => j.id = 0,
         UNCHANGED <<saved, memory, status, results, written, used>>
  PROVE  IndexStep(j, x)
<1>1. PICK d : /\ d \in Dirs /\ d.data = dir.data /\ disk' = [disk EXCEPT ![job.r] = d]
               /\ d.index = With(dir.index, job.ts, x)
  BY IndexChange
<1>2. j.do \notin OpenSteps BY DEF IndexSteps, BuildSteps, OpenSteps
<1>3. GoesOn(d, j) BY <1>1, <1>2 DEF GoesOn
<1> QED BY <1>1, <1>3 DEF IndexStep

LEMMA IndexFinishes ==
  ASSUME Types, status = "up", work # <<>>, NEW x \in IndexDirs,
         SetIndex(x) \/ (UNCHANGED disk /\ Known /\ x = index),
         NEW tree \in Seq(Keys), NEW sound \in BOOLEAN, AddToManager(tree, sound), work' = Tail(work),
         UNCHANGED <<saved, tables, replica_uid, engines, status, results, written, used>>
  PROVE  \E d : Finishes(d, tree, sound) /\ d.index = With(dir.index, job.ts, x)
<1>1. PICK d : /\ d \in Dirs /\ d.data = dir.data /\ disk' = [disk EXCEPT ![job.r] = d]
               /\ d.index = With(dir.index, job.ts, x)
  BY IndexChange
<1>2. Finishes(d, tree, sound) BY <1>1 DEF Finishes
<1> QED BY <1>1, <1>2

(* The first job as it goes on.                                            *)
LEMMA GoOnStep ==
  ASSUME Types, work # <<>>, NEW do \in IndexSteps, GoOn(do)
  PROVE  \E j \in Jobs : /\ work' = <<j>> \o Tail(work)
                         /\ j.do = do /\ j.r = job.r /\ j.ts = job.ts /\ j.p = job.p /\ j.id = job.id
<1>1. job \in Jobs BY HeadFacts
<1>2. PICK j : j = [job EXCEPT !.do = do] OBVIOUS
<1>3. /\ j \in Jobs
      /\ j.do = do /\ j.r = job.r /\ j.ts = job.ts /\ j.p = job.p /\ j.id = job.id
  BY <1>1, <1>2 DEF Jobs
<1> QED BY <1>2, <1>3 DEF GoOn

LEMMA AfterFacts ==
  /\ After("keyids") => GoOn("save") /\ UNCHANGED managers
  /\ After("save") => GoOn("end save") /\ UNCHANGED managers
  /\ After("end save") => work' = Tail(work) /\ AddToManager(DataKeys, RootsFound(DataKeys, job.p.trees))
<1>1. /\ BuildOrder[1] = "keyids" /\ BuildOrder[2] = "save" /\ BuildOrder[3] = "end save"
      /\ Last(BuildOrder) = "end save"
  BY DEF BuildOrder, Last
<1>2. ASSUME NEW do \in {"keyids", "save"}, After(do)
      PROVE  UNCHANGED managers /\ \E i \in 1..2 : BuildOrder[i] = do /\ GoOn(BuildOrder[i + 1])
  <2>1. do # Last(BuildOrder) BY <1>1
  <2> QED BY <1>2, <2>1 DEF After
<1>3. ASSUME After("keyids") PROVE GoOn("save") /\ UNCHANGED managers
  <2>1. PICK i \in 1..2 : BuildOrder[i] = "keyids" /\ GoOn(BuildOrder[i + 1]) BY <1>2, <1>3
  <2>2. i = 1 /\ i + 1 = 2
    <3>1. BuildOrder[i] = "keyids" BY <2>1
    <3>2. i = 1 \/ i = 2 OBVIOUS
    <3>3. i # 2 BY <1>1, <3>1
    <3> QED BY <3>2, <3>3
  <2>3. BuildOrder[i + 1] = "save" BY <1>1, <2>2
  <2> QED BY <1>2, <1>3, <2>1, <2>3 DEF GoOn
<1>4. ASSUME After("save") PROVE GoOn("end save") /\ UNCHANGED managers
  <2>1. PICK i \in 1..2 : BuildOrder[i] = "save" /\ GoOn(BuildOrder[i + 1]) BY <1>2, <1>4
  <2>2. i = 2 /\ i + 1 = 3
    <3>1. BuildOrder[i] = "save" BY <2>1
    <3>2. i = 1 \/ i = 2 OBVIOUS
    <3>3. i # 1 BY <1>1, <3>1
    <3> QED BY <3>2, <3>3
  <2>3. BuildOrder[i + 1] = "end save" BY <1>1, <2>2
  <2> QED BY <1>2, <1>4, <2>1, <2>3 DEF GoOn
<1>5. After("end save") =>
        work' = Tail(work) /\ AddToManager(DataKeys, RootsFound(DataKeys, job.p.trees))
  BY <1>1 DEF After
<1> QED BY <1>3, <1>4, <1>5

LEMMA KnownIndex ==
  ASSUME Types, work # <<>>
  PROVE  /\ Known => index \in IndexDirs
         /\ job.do \in IndexSteps => Known
         /\ NewIndexDir \in IndexDirs
<1>1. dir \in Dirs /\ (job.do \in IndexSteps => Known) BY HeadFacts DEF Known
<1>2. dir.index \in Maps(Stamps, IndexDirs) BY <1>1 DEF Dirs
<1>3. Known => index \in IndexDirs BY <1>2, MapFacts DEF index, Known
<1>4. NoFunction \in Maps(Nat, Keys) /\ <<>> \in Seq(Keys) /\ NoParam \in Params
  BY NoFunctionType, Constants
<1>5. NewIndexDir \in IndexDirs BY <1>4 DEF NewIndexDir, IndexDirs
<1> QED BY <1>1, <1>3, <1>5

LEMMA StageNames ==
  /\ \A do \in IndexSteps : do \notin OpenSteps /\ do # "index dir"
  /\ \A do \in {"param", "write param", "tree"} :
        do \in IndexSteps /\ do \notin BuildSteps /\ do \notin {"keyids", "save", "end save"}
  /\ \A do \in BuildSteps : do \in IndexSteps /\ do \notin {"param", "write param", "tree"}
  /\ "keyids" \in BuildSteps /\ "save" \in BuildSteps /\ "end save" \in BuildSteps
  /\ "index dir" \notin OpenSteps /\ "index dir" \notin IndexSteps
BY DEF IndexSteps, BuildSteps, OpenSteps

LEMMA IndexMkDirGoesOn ==
  ASSUME Types, IndexMkDir, GoOn("param"), UNCHANGED status, Known \/ job.r[1] \notin LongNames
  PROVE  \E j, x : Advances(j, x)
<1>1. /\ status = "up" /\ work # <<>> /\ job.do = "index dir" /\ GoOn("param")
      /\ UNCHANGED <<saved, memory, status, results, written, used>>
  BY DEF IndexMkDir, Doing, job
<1>2. PICK j \in Jobs : /\ work' = <<j>> \o Tail(work) /\ j.do = "param"
                        /\ j.r = job.r /\ j.ts = job.ts /\ j.p = job.p /\ j.id = job.id
  BY <1>1, GoOnStep, StageNames
<1>3. j.id = 0 BY <1>1, <1>2, HeadFacts, StageNames DEF JobOK
<1>4. PICK x : x = IF Known THEN index ELSE NewIndexDir OBVIOUS
<1>5. x \in IndexDirs BY <1>1, <1>4, KnownIndex
<1>6. SetIndex(x) \/ (UNCHANGED disk /\ Known /\ x = index) BY <1>4 DEF IndexMkDir, Known
<1>7. IndexStep(j, x) BY <1>1, <1>2, <1>3, <1>5, <1>6, IndexGoesOn, StageNames
<1>8. Known => SameFile(index, x) BY <1>4 DEF SameFile
<1>9. Stage(j, x, dir.data) BY <1>2 DEF Stage
<1>10. ASSUME CleanHead PROVE CleanStage(j, x)
  <2>1. CASE Known BY <1>1, <1>2, <1>4, <1>10, <2>1, StageNames DEF CleanHead, CleanStage
  <2>2. CASE ~Known
    <3>1. ~x.meta /\ x.file = "none" BY <1>4, <2>2 DEF NewIndexDir
    <3>2. j.p = GoodParam(j.ts) BY <1>1, <1>2, <1>10, <2>2 DEF CleanHead
    <3> QED BY <1>2, <3>1, <3>2, StageNames DEF CleanStage
  <2> QED BY <2>1, <2>2
<1>11. job.do \in {"index dir"} \cup IndexSteps /\ j.do \in IndexSteps BY <1>1, <1>2, StageNames
<1>12. ~Known => x = NewIndexDir BY <1>4
<1> QED BY <1>7, <1>8, <1>9, <1>10, <1>11, <1>12 DEF Advances

LEMMA IndexMkDirAdvances ==
  ASSUME Types, IndexMkDir
  PROVE  (\E j, x : Advances(j, x)) \/ (Aborts /\ work # <<>> /\ status' = "path")
<1>1. /\ status = "up" /\ work # <<>> /\ job.do = "index dir"
      /\ UNCHANGED <<saved, memory, results, written, used>>
  BY DEF IndexMkDir, Doing, job
<1>2. CASE ~Known /\ job.r[1] \in LongNames
  <2>1. status' = "path" /\ UNCHANGED <<disk, work>> BY <1>2 DEF IndexMkDir, Abort, Known
  <2> QED BY <1>1, <2>1 DEF Aborts
<1>3. CASE ~(~Known /\ job.r[1] \in LongNames)
  <2>1. GoOn("param") /\ UNCHANGED status BY <1>3 DEF IndexMkDir, Known
  <2> QED BY <1>3, <2>1, IndexMkDirGoesOn
<1> QED BY <1>2, <1>3

LEMMA OpenParamAdvances ==
  ASSUME Types, OpenParam
  PROVE  \E j, x : Advances(j, x)
<1>1. /\ status = "up" /\ work # <<>> /\ job.do = "param"
      /\ UNCHANGED <<saved, memory, status, results, written, used>>
  BY DEF OpenParam, Doing, job
<1>2. job.do \in IndexSteps /\ Known /\ index \in IndexDirs /\ job.do \notin OpenSteps
  BY <1>1, KnownIndex, StageNames
<1>3. job.id = 0 /\ job \in Jobs BY <1>1, HeadFacts, StageNames DEF JobOK
<1>4. CASE index.meta
  <2>1. PICK p \in IF index.param = NoParam THEN Unwritten ELSE {index.param} :
           GoOnWith("tree", p)
    BY <1>4 DEF OpenParam
  <2>2. UNCHANGED disk BY <1>4 DEF OpenParam
  <2>3. p \in Params
    <3>1. index.param \in Params BY <1>2 DEF IndexDirs
    <3>2. 0 \in Stamps /\ MaxIndexes + 1 \in Stamps BY VdbAssumption DEF Stamps
    <3>3. ASSUME NEW ts \in {0, MaxIndexes + 1}, NEW d \in {0, Dim}, NEW b \in BOOLEAN
          PROVE  Param(ts, d, b) \in Params
      BY <3>2 DEF Param, Params
    <3>4. p \in Unwritten => p \in Params BY <3>3 DEF Unwritten
    <3> QED BY <2>1, <3>1, <3>4
  <2>4. PICK j : j = [job EXCEPT !.do = "tree", !.p = p] OBVIOUS
  <2>5. "tree" \in OpenSteps \cup {"index dir"} \cup IndexSteps BY StageNames
  <2>6. j \in Jobs /\ j.do = "tree" /\ j.r = job.r /\ j.ts = job.ts /\ j.p = p /\ j.id = 0
    BY <1>3, <2>3, <2>4, <2>5 DEF Jobs
  <2>7. work' = <<j>> \o Tail(work) BY <2>1, <2>4 DEF GoOnWith
  <2>8. IndexStep(j, index) BY <1>1, <1>2, <2>2, <2>6, <2>7, IndexGoesOn, StageNames
  <2>9. Stage(j, index, dir.data) BY <2>6 DEF Stage
  <2>10. ASSUME CleanHead PROVE CleanStage(j, index)
    <3>1. Good(index, job.ts) BY <1>1, <1>2, <1>4, <2>10 DEF CleanHead, CleanStage
    <3>2. GoodParam(job.ts) # NoParam BY DEF GoodParam, NoParam, Param, Dim
    <3>3. p = GoodParam(job.ts) BY <2>1, <3>1, <3>2 DEF Good
    <3> QED BY <2>6, <3>1, <3>3 DEF CleanStage, Good
  <2> QED BY <1>2, <2>6, <2>8, <2>9, <2>10, StageNames DEF Advances, SameFile
<1>5. CASE ~index.meta
  <2>1. PICK x : x = [index EXCEPT !.meta = TRUE] OBVIOUS
  <2>2. /\ x \in IndexDirs /\ x.meta /\ x.param = index.param /\ x.keyid = index.keyid
        /\ x.file = index.file /\ x.tree = index.tree
    BY <1>2, <2>1 DEF IndexDirs
  <2>3. GoOn("write param") /\ SetIndex(x) BY <1>5, <2>1 DEF OpenParam
  <2>4. PICK j \in Jobs : /\ work' = <<j>> \o Tail(work) /\ j.do = "write param"
                          /\ j.r = job.r /\ j.ts = job.ts /\ j.p = job.p /\ j.id = job.id
    BY <1>1, <2>3, GoOnStep, StageNames
  <2>5. IndexStep(j, x) BY <1>1, <1>2, <1>3, <2>2, <2>3, <2>4, IndexGoesOn, StageNames
  <2>6. Stage(j, x, dir.data) BY <2>4 DEF Stage
  <2>7. ASSUME CleanHead PROVE CleanStage(j, x)
    <3>1. index.file = "none" /\ job.p = GoodParam(job.ts)
      BY <1>1, <1>2, <1>5, <2>7 DEF CleanHead, CleanStage, Good
    <3> QED BY <2>2, <2>4, <3>1, StageNames DEF CleanStage
  <2> QED BY <1>2, <2>2, <2>4, <2>5, <2>6, <2>7, StageNames DEF Advances, SameFile
<1> QED BY <1>4, <1>5

LEMMA WriteParamAdvances ==
  ASSUME Types, WriteParam
  PROVE  \E j, x : Advances(j, x)
<1>1. /\ status = "up" /\ work # <<>> /\ job.do = "write param" /\ GoOn("tree")
      /\ UNCHANGED <<saved, memory, status, results, written, used>>
  BY DEF WriteParam, Doing, job
<1>2. job.do \in IndexSteps /\ Known /\ index \in IndexDirs /\ job.do \notin OpenSteps
  BY <1>1, KnownIndex, StageNames
<1>3. job.id = 0 /\ job.p \in Params BY <1>1, HeadFacts, StageNames DEF JobOK
<1>4. PICK x : x = [index EXCEPT !.param = job.p] OBVIOUS
<1>5. /\ x \in IndexDirs /\ x.meta = index.meta /\ x.param = job.p /\ x.keyid = index.keyid
      /\ x.file = index.file /\ x.tree = index.tree
  BY <1>2, <1>3, <1>4 DEF IndexDirs
<1>6. PICK j \in Jobs : /\ work' = <<j>> \o Tail(work) /\ j.do = "tree"
                        /\ j.r = job.r /\ j.ts = job.ts /\ j.p = job.p /\ j.id = job.id
  BY <1>1, GoOnStep, StageNames
<1>7. SetIndex(x) BY <1>4 DEF WriteParam
<1>8. IndexStep(j, x) BY <1>1, <1>2, <1>3, <1>5, <1>6, <1>7, IndexGoesOn, StageNames
<1>9. Stage(j, x, dir.data) BY <1>6 DEF Stage
<1>10. ASSUME CleanHead PROVE CleanStage(j, x)
  <2>1. index.meta /\ index.file = "none" /\ job.p = GoodParam(job.ts)
    BY <1>1, <1>2, <1>10 DEF CleanHead, CleanStage
  <2> QED BY <1>5, <1>6, <2>1 DEF CleanStage
<1> QED BY <1>2, <1>5, <1>6, <1>8, <1>9, <1>10, StageNames DEF Advances, SameFile

LEMMA BuildAdvances ==
  ASSUME Types, Build
  PROVE  (\E j, x : Advances(j, x)) \/ (Aborts /\ work # <<>> /\ ~CleanHead)
<1>1. /\ status = "up" /\ work # <<>> /\ job.do = "tree" /\ index.file = "none"
      /\ UNCHANGED <<saved, disk, memory, results, written, used>>
  BY DEF Build, Doing, job
<1>2. job.do \in IndexSteps /\ Known /\ index \in IndexDirs /\ job.do \notin OpenSteps
  BY <1>1, KnownIndex, StageNames
<1>3. job.id = 0 BY <1>1, HeadFacts, StageNames DEF JobOK
<1>4. CASE DataKeys # <<>> /\ job.p.dim # Dim
  <2>1. Aborts BY <1>1, <1>4 DEF Build, Abort, Aborts
  <2>2. CleanHead => job.p.dim = Dim
    BY <1>1, <1>2 DEF CleanHead, CleanStage, GoodParam, Param
  <2> QED BY <1>1, <1>4, <2>1, <2>2
<1>5. CASE ~(DataKeys # <<>> /\ job.p.dim # Dim)
  <2>1. GoOn("keyids") /\ UNCHANGED status BY <1>5 DEF Build, BuildOrder
  <2>2. PICK j \in Jobs : /\ work' = <<j>> \o Tail(work) /\ j.do = "keyids"
                          /\ j.r = job.r /\ j.ts = job.ts /\ j.p = job.p /\ j.id = job.id
    BY <1>1, <2>1, GoOnStep, StageNames
  <2>3. IndexStep(j, index) BY <1>1, <1>2, <1>3, <2>1, <2>2, IndexGoesOn, StageNames
  <2>4. UpTo(index.keyid, KeysIn(dir.data), 0) BY DEF UpTo
  <2>5. Stage(j, index, dir.data) BY <1>1, <1>3, <2>2, <2>4 DEF Stage
  <2>6. ASSUME CleanHead PROVE CleanStage(j, index)
    BY <1>1, <1>2, <2>2, <2>6, StageNames DEF CleanStage, CleanHead
  <2> QED BY <1>2, <2>2, <2>3, <2>5, <2>6, StageNames DEF Advances, SameFile
<1> QED BY <1>4, <1>5

LEMMA PutKeyidAdvances ==
  ASSUME Types, HeadStage, PutKeyid
  PROVE  \E j, x : Advances(j, x)
<1>1. /\ status = "up" /\ work # <<>> /\ job.do = "keyids"
      /\ UNCHANGED <<saved, memory, status, results, written, used>>
  BY DEF PutKeyid, Doing, job
<1>2. job.do \in IndexSteps /\ Known /\ index \in IndexDirs /\ job.do \notin OpenSteps
  BY <1>1, KnownIndex, StageNames
<1>3. job \in Jobs /\ job.id \in Nat /\ job = work[1] /\ work \in Seq(Jobs)
  BY <1>1, HeadFacts DEF Types, WorkOK
<1>4. PICK K : K = KeysIn(dir.data) OBVIOUS
<1>5. DataKeys = K BY <1>4 DEF DataKeys, KeysIn
<1>6. K \in Seq(Keys) /\ Len(K) \in Nat /\ \A i \in 1..Len(K) : K[i] \in Keys BY <1>4, KeysInFacts
<1>7. PICK m : m = job.id OBVIOUS
<1>8. PICK n : n = m + 1 OBVIOUS
<1>9. n \in 1..Len(K) /\ n \in Nat /\ m = n - 1 /\ K[n] \in Keys
  <2>1. m \in Nat /\ m < Len(K) BY <1>3, <1>5, <1>7 DEF PutKeyid
  <2>2. n \in 1..Len(K) /\ n \in Nat /\ m = n - 1 BY <1>6, <1>8, <2>1
  <2> QED BY <1>6, <2>2
<1>10. PICK f : f = With(index.keyid, n, K[n]) OBVIOUS
<1>11. index.keyid \in Maps(Nat, Keys) BY <1>2 DEF IndexDirs
<1>12. f \in Maps(Nat, Keys) BY <1>9, <1>10, <1>11, WithType
<1>13. PICK x : x = [index EXCEPT !.keyid = f] OBVIOUS
<1>14. /\ x \in IndexDirs /\ x.meta = index.meta /\ x.param = index.param /\ x.keyid = f
       /\ x.file = index.file /\ x.tree = index.tree
  BY <1>2, <1>12, <1>13 DEF IndexDirs
<1>15. SetIndex(x) BY <1>5, <1>7, <1>8, <1>10, <1>13 DEF PutKeyid, annoy_index_id
<1>16. PICK j : j = [job EXCEPT !.id = n] OBVIOUS
<1>17. /\ j \in Jobs /\ j.do = "keyids" /\ j.r = job.r /\ j.ts = job.ts /\ j.p = job.p
       /\ j.id = n
  BY <1>1, <1>3, <1>9, <1>16 DEF Jobs
<1>18. work' = <<j>> \o Tail(work)
  <2>1. work' = [work EXCEPT ![1] = j] BY <1>3, <1>7, <1>8, <1>16 DEF PutKeyid
  <2>2. PICK w : w = <<j>> \o Tail(work) OBVIOUS
  <2>3. /\ w \in Seq(Jobs) /\ Len(w) = Len(work) /\ w[1] = j
        /\ \A k \in 2..Len(work) : w[k] = work[k]
    BY <1>1, <1>3, <1>17, <2>2, GoneOn
  <2>4. Len(work) \in Nat /\ DOMAIN work = 1..Len(work) /\ DOMAIN w = 1..Len(work)
    BY <1>3, <2>3
  <2>5. \A k \in 1..Len(work) : w[k] = [work EXCEPT ![1] = j][k] BY <1>3, <2>3, <2>4
  <2>6. w = [work EXCEPT ![1] = j]
    <3>1. w = [k \in 1..Len(work) |-> w[k]] BY <2>3, <2>4
    <3>2. [work EXCEPT ![1] = j] = [k \in 1..Len(work) |-> [work EXCEPT ![1] = j][k]]
      BY <2>4
    <3> QED BY <2>5, <3>1, <3>2
  <2> QED BY <2>1, <2>2, <2>6
<1>19. IndexStep(j, x)
  <2>1. j.do \in BuildSteps /\ j.do \in IndexSteps BY <1>17, StageNames
  <2> QED BY <1>1, <1>2, <1>14, <1>15, <1>17, <1>18, <2>1, IndexGoesOn
<1>20. index.file = "none" /\ UpTo(index.keyid, K, n - 1)
  BY <1>1, <1>2, <1>4, <1>7, <1>9 DEF HeadStage, Stage
<1>21. UpTo(f, K, n)
  <2> SUFFICES ASSUME NEW i \in 1..n PROVE i \in DOMAIN f /\ f[i] = K[i]
    BY DEF UpTo
  <2>0. /\ DOMAIN f = DOMAIN index.keyid \cup {n} /\ f[n] = K[n]
        /\ \A y \in DOMAIN index.keyid : y # n => f[y] = index.keyid[y]
    BY <1>10 DEF With
  <2>1. CASE i = n BY <2>0, <2>1
  <2>2. CASE i # n
    <3>1. i \in 1..(n - 1) BY <1>9, <2>2
    <3>2. i \in DOMAIN index.keyid /\ index.keyid[i] = K[i] BY <1>20, <3>1 DEF UpTo
    <3> QED BY <2>0, <2>2, <3>2
  <2> QED BY <2>1, <2>2
<1>22. Stage(j, x, dir.data) BY <1>4, <1>14, <1>17, <1>20, <1>21 DEF Stage
<1>23. ASSUME CleanHead PROVE CleanStage(j, x)
  <2>1. index.meta /\ index.param = GoodParam(job.ts) /\ job.p = GoodParam(job.ts)
    BY <1>1, <1>2, <1>23, StageNames DEF CleanHead, CleanStage
  <2> QED BY <1>14, <1>17, <2>1 DEF CleanStage
<1>24. SameFile(index, x) BY <1>14, <1>20 DEF SameFile
<1> QED BY <1>2, <1>17, <1>19, <1>22, <1>23, <1>24, StageNames DEF Advances

LEMMA AllPutAdvances ==
  ASSUME Types, HeadStage, AllPut
  PROVE  \E j, x : Advances(j, x)
<1>1. /\ status = "up" /\ work # <<>> /\ job.do = "keyids" /\ GoOn("save")
      /\ UNCHANGED <<saved, disk, tables, replica_uid, engines, managers, status, results, written, used>>
  BY AfterFacts DEF AllPut, Doing, job
<1>2. job.do \in IndexSteps /\ Known /\ index \in IndexDirs /\ job.do \notin OpenSteps
  BY <1>1, KnownIndex, StageNames
<1>3. job.id = Len(KeysIn(dir.data)) BY DEF AllPut, DataKeys, KeysIn
<1>4. PICK j \in Jobs : /\ work' = <<j>> \o Tail(work) /\ j.do = "save"
                        /\ j.r = job.r /\ j.ts = job.ts /\ j.p = job.p /\ j.id = job.id
  BY <1>1, GoOnStep, StageNames
<1>5. IndexStep(j, index)
  <2>1. UNCHANGED <<saved, memory, status, results, written, used>> /\ UNCHANGED disk
    BY <1>1 DEF memory
  <2>2. j.do \in BuildSteps /\ j.do \in IndexSteps BY <1>4, StageNames
  <2> QED BY <1>1, <1>2, <1>4, <2>1, <2>2, IndexGoesOn
<1>6. Stage(j, index, dir.data) BY <1>1, <1>2, <1>3, <1>4 DEF HeadStage, Stage
<1>7. ASSUME CleanHead PROVE CleanStage(j, index)
  <2>1. index.meta /\ index.param = GoodParam(job.ts) /\ job.p = GoodParam(job.ts)
    BY <1>1, <1>2, <1>7, StageNames DEF CleanHead, CleanStage
  <2> QED BY <1>4, <2>1 DEF CleanStage
<1> QED BY <1>2, <1>4, <1>5, <1>6, <1>7, StageNames DEF Advances, SameFile

LEMMA SaveAdvances ==
  ASSUME Types, HeadStage, Save
  PROVE  \E j, x : Advances(j, x)
<1>1. /\ status = "up" /\ work # <<>> /\ job.do = "save" /\ GoOn("end save")
      /\ UNCHANGED <<saved, tables, replica_uid, engines, managers, status, results, written, used>>
  BY AfterFacts DEF Save, Doing, job
<1>2. job.do \in IndexSteps /\ Known /\ index \in IndexDirs /\ job.do \notin OpenSteps
  BY <1>1, KnownIndex, StageNames
<1>3. PICK x : x = [index EXCEPT !.file = "begun"] OBVIOUS
<1>4. /\ x \in IndexDirs /\ x.meta = index.meta /\ x.param = index.param /\ x.keyid = index.keyid
      /\ x.file = "begun" /\ x.tree = index.tree
  BY <1>2, <1>3 DEF IndexDirs
<1>5. PICK j \in Jobs : /\ work' = <<j>> \o Tail(work) /\ j.do = "end save"
                        /\ j.r = job.r /\ j.ts = job.ts /\ j.p = job.p /\ j.id = job.id
  BY <1>1, GoOnStep, StageNames
<1>6. IndexStep(j, x)
  <2>1. UNCHANGED <<saved, memory, status, results, written, used>> BY <1>1 DEF memory
  <2>2. j.do \in BuildSteps /\ j.do \in IndexSteps BY <1>5, StageNames
  <2>3. SetIndex(x) BY <1>3 DEF Save
  <2> QED BY <1>1, <1>2, <1>4, <1>5, <2>1, <2>2, <2>3, IndexGoesOn
<1>7. index.file = "none" /\ UpTo(index.keyid, KeysIn(dir.data), Len(KeysIn(dir.data)))
  BY <1>1, <1>2 DEF HeadStage, Stage
<1>8. Stage(j, x, dir.data) BY <1>4, <1>5, <1>7 DEF Stage
<1>9. ASSUME CleanHead PROVE CleanStage(j, x)
  <2>1. index.meta /\ index.param = GoodParam(job.ts) /\ job.p = GoodParam(job.ts)
    BY <1>1, <1>2, <1>9, StageNames DEF CleanHead, CleanStage
  <2> QED BY <1>4, <1>5, <2>1 DEF CleanStage
<1>10. SameFile(index, x) BY <1>4, <1>7 DEF SameFile
<1> QED BY <1>2, <1>5, <1>6, <1>8, <1>9, <1>10, StageNames DEF Advances

LEMMA EndSaveCompletes ==
  ASSUME Types, HeadStage, EndSave
  PROVE  \E x, tree, sound : Completes(x, tree, sound)
<1>1. /\ status = "up" /\ work # <<>> /\ job.do = "end save"
      /\ work' = Tail(work) /\ AddToManager(DataKeys, RootsFound(DataKeys, job.p.trees))
      /\ UNCHANGED <<saved, tables, replica_uid, engines, status, results, written, used>>
  BY AfterFacts DEF EndSave, Doing, job
<1>2. job.do \in IndexSteps /\ Known /\ index \in IndexDirs BY <1>1, KnownIndex, StageNames
<1>3. PICK K : K = KeysIn(dir.data) OBVIOUS
<1>4. DataKeys = K /\ K \in Seq(Keys) BY <1>3, KeysInFacts DEF DataKeys, KeysIn
<1>5. PICK trees : trees = job.p.trees OBVIOUS
<1>6. trees \in BOOLEAN BY <1>1, <1>5, HeadFacts DEF Params
<1>7. PICK sound : sound = RootsFound(K, trees) OBVIOUS
<1>8. sound \in BOOLEAN /\ (trees = TRUE => sound = TRUE) BY <1>6, <1>7 DEF RootsFound
<1>9. AddToManager(K, sound) BY <1>1, <1>4, <1>5, <1>7
<1>10. PICK x : x = [index EXCEPT !.file = "complete", !.tree = K, !.trees = trees] OBVIOUS
<1>11. /\ x \in IndexDirs /\ x.meta = index.meta /\ x.param = index.param /\ x.keyid = index.keyid
       /\ x.file = "complete" /\ x.tree = K /\ x.trees = trees
  BY <1>2, <1>4, <1>6, <1>10 DEF IndexDirs
<1>12. SetIndex(x) BY <1>4, <1>5, <1>10 DEF EndSave
<1>13. \E d : Finishes(d, K, sound) /\ d.index = With(dir.index, job.ts, x)
  BY <1>1, <1>4, <1>8, <1>9, <1>11, <1>12, IndexFinishes
<1>14. index.file = "begun" /\ UpTo(index.keyid, K, Len(K)) BY <1>1, <1>2, <1>3 DEF HeadStage, Stage
<1>15. EntryOK(x) BY <1>11, <1>14 DEF EntryOK
<1>16. ASSUME CleanHead PROVE Good(x, job.ts) /\ job.p = GoodParam(job.ts) /\ sound = TRUE
  <2>1. index.meta /\ index.param = GoodParam(job.ts) /\ job.p = GoodParam(job.ts)
    BY <1>1, <1>2, <1>16, StageNames DEF CleanHead, CleanStage
  <2>2. trees = TRUE BY <1>5, <2>1 DEF GoodParam, Param
  <2> QED BY <1>8, <1>11, <2>1, <2>2 DEF Good
<1>17. Completes(x, K, sound)
  BY <1>2, <1>3, <1>11, <1>13, <1>14, <1>15, <1>16 DEF Completes
<1> QED BY <1>17

LEMMA LoadTreeCompletes ==
  ASSUME Types, LoadTree
  PROVE  (\E x, tree, sound : Completes(x, tree, sound)) \/ (Aborts /\ work # <<>> /\ ~CleanHead)
<1>1. /\ status = "up" /\ work # <<>> /\ job.do = "tree" /\ index.file # "none"
      /\ UNCHANGED <<saved, disk, tables, replica_uid, engines, results, written, used>>
  BY DEF LoadTree, Doing, job
<1>2. job.do \in IndexSteps /\ Known /\ index \in IndexDirs BY <1>1, KnownIndex, StageNames
<1>3. index.trees \in BOOLEAN /\ index.tree \in Seq(Keys) BY <1>2 DEF IndexDirs
<1>4. CleanHead => index.file = "complete" /\ index.trees = TRUE
  BY <1>1, <1>2 DEF CleanHead, CleanStage, IndexDirs
<1>5. CASE /\ index.file = "begun" \/ (index.file = "complete" /\ index.tree = <<>> /\ ~index.trees)
           /\ Abort("load") /\ UNCHANGED <<managers, work>>
  <2>1. Aborts BY <1>1, <1>5 DEF Abort, Aborts, memory
  <2> QED BY <1>1, <1>4, <1>5, <2>1
<1>6. ASSUME NEW tree \in Seq(Keys), NEW sound \in BOOLEAN,
             AddToManager(tree, sound), work' = Tail(work), UNCHANGED status,
             sound = TRUE => index.file = "complete" /\ index.tree = tree,
             CleanHead => sound = TRUE
      PROVE  Completes(index, tree, sound)
  <2>1. UNCHANGED <<saved, tables, replica_uid, engines, status, results, written, used>>
        /\ UNCHANGED disk
    BY <1>1, <1>6
  <2>2. \E d : Finishes(d, tree, sound) /\ d.index = With(dir.index, job.ts, index)
    BY <1>1, <1>2, <1>6, <2>1, IndexFinishes
  <2>3. ASSUME CleanHead PROVE Good(index, job.ts) /\ job.p = GoodParam(job.ts)
    BY <1>1, <1>2, <1>4, <2>3 DEF CleanHead, CleanStage, Good
  <2> QED BY <1>2, <1>6, <2>2, <2>3 DEF Completes
<1>7. CASE /\ index.file = "begun"
           /\ AddToManager(<<>>, FALSE) /\ work' = Tail(work) /\ UNCHANGED status
  <2>1. PICK sound : sound = FALSE OBVIOUS
  <2>2. sound \in BOOLEAN /\ sound # TRUE BY <2>1
  <2>3. PICK tree : tree = <<>> OBVIOUS
  <2>4. tree \in Seq(Keys) BY <2>3
  <2>5. AddToManager(tree, sound) BY <1>7, <2>1, <2>3 DEF AddToManager
  <2>6. ~CleanHead BY <1>4, <1>7
  <2>7. Completes(index, tree, sound) BY <1>6, <1>7, <2>2, <2>4, <2>5, <2>6
  <2> QED BY <2>7
<1>8. CASE /\ index.file = "complete" /\ ~(index.tree = <<>> /\ ~index.trees)
           /\ AddToManager(index.tree, RootsFound(index.tree, index.trees))
           /\ work' = Tail(work) /\ UNCHANGED status
  <2>1. PICK sound : sound = RootsFound(index.tree, index.trees) OBVIOUS
  <2>2. sound \in BOOLEAN /\ (index.trees = TRUE => sound = TRUE) BY <1>3, <2>1 DEF RootsFound
  <2>3. AddToManager(index.tree, sound) BY <1>8, <2>1
  <2>4. Completes(index, index.tree, sound) BY <1>3, <1>4, <1>6, <1>8, <2>2, <2>3
  <2> QED BY <2>4
<1>9. \/ /\ index.file = "begun" \/ (index.file = "complete" /\ index.tree = <<>> /\ ~index.trees)
         /\ Abort("load") /\ UNCHANGED <<managers, work>>
      \/ /\ index.file = "begun"
         /\ AddToManager(<<>>, FALSE) /\ work' = Tail(work) /\ UNCHANGED status
      \/ /\ index.file = "complete" /\ ~(index.tree = <<>> /\ ~index.trees)
         /\ AddToManager(index.tree, RootsFound(index.tree, index.trees))
         /\ work' = Tail(work) /\ UNCHANGED status
  BY DEF LoadTree
<1> QED BY <1>5, <1>7, <1>8, <1>9

-----------------------------------------------------------------------------
(* Every step keeps the types.                                             *)

LEMMA ToSetOf ==
  ASSUME NEW S, NEW w \in Seq(S)
  PROVE  ToSet(w) = {w[k] : k \in 1..Len(w)}
<1>1. DOMAIN w = 1..Len(w) OBVIOUS
<1> QED BY <1>1 DEF ToSet

LEMMA WorkSets ==
  ASSUME NEW w, NEW tbl, NEW man, NEW dsk, WorkOK(w, tbl, man, dsk), w # <<>>
  PROVE  /\ w \in Seq(Jobs) /\ Tail(w) \in Seq(Jobs)
         /\ ToSet(w) = {w[1]} \cup ToSet(Tail(w))
         /\ \A j \in ToSet(Tail(w)) : j \in Jobs /\ JobOK(j, tbl, man) /\ Waiting(j)
<1>1. w \in Seq(Jobs) BY DEF WorkOK
<1>2. /\ Tail(w) \in Seq(Jobs) /\ Len(Tail(w)) = Len(w) - 1 /\ Len(w) \in Nat \ {0}
      /\ \A k \in 1..Len(Tail(w)) : k + 1 \in 1..Len(w) /\ k + 1 > 1 /\ Tail(w)[k] = w[k + 1]
  BY <1>1, Done
<1>3. PICK v : v = Tail(w) OBVIOUS
<1>4. ToSet(w) = {w[k] : k \in 1..Len(w)} /\ ToSet(v) = {v[k] : k \in 1..Len(v)}
  <2>1. v \in Seq(Jobs) BY <1>2, <1>3
  <2>2. ToSet(v) = {v[k] : k \in 1..Len(v)} BY <2>1, ToSetOf
  <2>3. ToSet(w) = {w[k] : k \in 1..Len(w)} BY <1>1, ToSetOf
  <2> QED BY <2>2, <2>3
<1>5. ASSUME NEW k \in 1..Len(w), k # 1 PROVE w[k] \in ToSet(v)
  <2>1. k - 1 \in 1..Len(v) /\ (k - 1) + 1 = k BY <1>2, <1>3, <1>5
  <2>2. v[k - 1] = w[k] BY <1>2, <1>3, <2>1
  <2> QED BY <1>4, <2>1, <2>2
<1>6. 1 \in 1..Len(w) /\ w[1] \in ToSet(w) BY <1>2, <1>4
<1>7. ToSet(w) \subseteq {w[1]} \cup ToSet(v) BY <1>4, <1>5
<1>8. ToSet(v) \subseteq ToSet(w) BY <1>2, <1>3, <1>4
<1>9. \A j \in ToSet(v) : \E k \in 1..Len(w) : k > 1 /\ j = w[k] BY <1>2, <1>3, <1>4
<1>10. \A j \in ToSet(v) : JobOK(j, tbl, man) /\ Waiting(j) BY <1>9 DEF WorkOK
<1>11. \A j \in ToSet(v) : j \in Jobs BY <1>1, <1>9, ElementOfSeq
<1> QED BY <1>1, <1>2, <1>3, <1>6, <1>7, <1>8, <1>10, <1>11

LEMMA AllWaiting ==
  ASSUME NEW v \in Seq(Jobs), NEW tbl, NEW man, NEW dsk,
         \A j \in ToSet(v) : JobOK(j, tbl, man) /\ Waiting(j)
  PROVE  WorkOK(v, tbl, man, dsk)
<1>1. Len(v) \in Nat /\ \A k \in 1..Len(v) : v[k] \in ToSet(v) BY DEF ToSet
<1>2. v # <<>> => v[1].do \notin IndexSteps
  <2>1. v # <<>> => 1 \in 1..Len(v) BY <1>1
  <2> QED BY <1>1, <2>1 DEF Waiting, IndexSteps, BuildSteps
<1> QED BY <1>1, <1>2 DEF WorkOK

LEMMA ConcatSets ==
  ASSUME NEW u \in Seq(Jobs), NEW v \in Seq(Jobs)
  PROVE  u \o v \in Seq(Jobs) /\ ToSet(u \o v) = ToSet(u) \cup ToSet(v)
<1>1. /\ u \o v \in Seq(Jobs) /\ Len(u \o v) = Len(u) + Len(v)
      /\ \A k \in 1..(Len(u) + Len(v)) : (u \o v)[k] = IF k <= Len(u) THEN u[k] ELSE v[k - Len(u)]
  BY ConcatProperties
<1>2. PICK w : w = u \o v OBVIOUS
<1>3. PICK m \in Nat, n \in Nat : m = Len(u) /\ n = Len(v) OBVIOUS
<1>4. /\ ToSet(w) = {w[k] : k \in 1..(m + n)} /\ ToSet(u) = {u[k] : k \in 1..m}
      /\ ToSet(v) = {v[k] : k \in 1..n}
  <2>1. w \in Seq(Jobs) /\ Len(w) = m + n BY <1>1, <1>2, <1>3
  <2> QED BY <1>3, <2>1, ToSetOf
<1>5. \A k \in 1..(m + n) : w[k] = IF k <= m THEN u[k] ELSE v[k - m] BY <1>1, <1>2, <1>3
<1>6. ASSUME NEW k \in 1..(m + n) PROVE w[k] \in ToSet(u) \cup ToSet(v)
  <2>1. CASE k <= m
    <3>1. k \in 1..m BY <1>3, <2>1
    <3> QED BY <1>4, <1>5, <2>1, <3>1
  <2>2. CASE ~(k <= m)
    <3>1. k - m \in 1..n BY <1>3, <2>2
    <3> QED BY <1>4, <1>5, <2>2, <3>1
  <2> QED BY <2>1, <2>2
<1>7. ASSUME NEW k \in 1..m PROVE u[k] \in ToSet(w)
  <2>1. k \in 1..(m + n) /\ k <= m BY <1>3
  <2> QED BY <1>4, <1>5, <2>1
<1>8. ASSUME NEW k \in 1..n PROVE v[k] \in ToSet(w)
  <2>1. m + k \in 1..(m + n) /\ ~(m + k <= m) /\ (m + k) - m = k BY <1>3
  <2>2. w[m + k] = v[k] BY <1>5, <2>1
  <2> QED BY <1>4, <2>1, <2>2
<1>9. ToSet(w) \subseteq ToSet(u) \cup ToSet(v) BY <1>4, <1>6
<1>10. ToSet(u) \cup ToSet(v) \subseteq ToSet(w) BY <1>4, <1>7, <1>8
<1> QED BY <1>1, <1>2, <1>9, <1>10

LEMMA ExceptType ==
  ASSUME NEW A, NEW B, NEW f \in Maps(A, B), NEW x \in DOMAIN f, NEW v \in B
  PROVE  /\ [f EXCEPT ![x] = v] \in Maps(A, B) /\ DOMAIN [f EXCEPT ![x] = v] = DOMAIN f
         /\ [f EXCEPT ![x] = v][x] = v
         /\ \A y \in DOMAIN f : y # x => [f EXCEPT ![x] = v][y] = f[y]
<1>1. PICK D \in SUBSET A : f \in [D -> B] BY DEF Maps
<1>2. [f EXCEPT ![x] = v] \in [D -> B] BY <1>1
<1> QED BY <1>1, <1>2 DEF Maps

LEMMA GoesOnTypes ==
  ASSUME Types, NEW d, NEW j, GoesOn(d, j), j.do \in IndexSteps => j.ts \in DOMAIN d.index
  PROVE  Types'
<1>1. /\ job.r \in ReplicaNames /\ disk \in [ReplicaNames -> Dirs] /\ work # <<>>
      /\ JobOK(job, tables, managers)
  BY HeadFacts DEF Types, GoesOn
<1>2. disk' \in [ReplicaNames -> Dirs] /\ disk'[job.r] = d BY <1>1 DEF GoesOn
<1>3. JobOK(j, tables, managers) BY <1>1 DEF GoesOn, JobOK
<1>4. WorkOK(<<j>> \o Tail(work), tables, managers, disk')
  BY <1>1, <1>2, <1>3, GoOnWork DEF Types, GoesOn
<1>5. WorkOK(work, tables, managers, disk)' BY <1>4 DEF GoesOn, memory
<1>6. MemoryOK' BY DEF Types, MemoryOK, GoesOn, memory
<1>7. ProcessOK' BY DEF Types, ProcessOK, GoesOn, memory
<1>8. (TablesOK(saved) /\ TablesOK(tables))' BY DEF Types, GoesOn, memory, TablesOK
<1> QED BY <1>2, <1>5, <1>6, <1>7, <1>8 DEF Types, GoesOn

(* What the manager of the replica has afterwards.                         *)
LEMMA Managed ==
  ASSUME Types, NEW d, NEW tree, NEW sound, Finishes(d, tree, sound), job.do \notin OpenSteps
  PROVE  /\ managers' \in Maps(ReplicaNames, Indexes) /\ DOMAIN managers' = DOMAIN managers
         /\ managers'[job.r] = With(managers[job.r], job.p.ts, [dir |-> job.ts, tree |-> tree, sound |-> sound])
         /\ \A r \in DOMAIN managers : r # job.r => managers'[r] = managers[r]
         /\ job.r \in DOMAIN managers
<1>1. /\ job.r \in ReplicaNames /\ job.ts \in Stamps /\ job.p \in Params
      /\ JobOK(job, tables, managers)
  BY HeadFacts DEF Types, Finishes
<1>2. job.r \in DOMAIN managers /\ managers \in Maps(ReplicaNames, Indexes)
  BY <1>1 DEF JobOK, Types, MemoryOK
<1>3. managers[job.r] \in Indexes BY <1>2, MapFacts
<1>4. PICK m : m = [dir |-> job.ts, tree |-> tree, sound |-> sound] OBVIOUS
<1>5. m \in Loads /\ job.p.ts \in Stamps
  BY <1>1, <1>4 DEF Finishes, Params, Loads
<1>6. PICK x : x = With(managers[job.r], job.p.ts, m) OBVIOUS
<1>7. x \in Indexes BY <1>3, <1>5, <1>6, WithType DEF Indexes
<1>8. managers' = [managers EXCEPT ![job.r] = x] BY <1>4, <1>6 DEF Finishes, AddToManager
<1>9. /\ managers' \in Maps(ReplicaNames, Indexes) /\ DOMAIN managers' = DOMAIN managers
      /\ managers'[job.r] = x
      /\ \A r \in DOMAIN managers : r # job.r => managers'[r] = managers[r]
  BY <1>2, <1>7, <1>8, ExceptType
<1> QED BY <1>2, <1>4, <1>6, <1>9

LEMMA FinishesTypes ==
  ASSUME Types, NEW d, NEW tree, NEW sound, Finishes(d, tree, sound), job.do \notin OpenSteps
  PROVE  Types'
<1>1. /\ job.r \in ReplicaNames /\ disk \in [ReplicaNames -> Dirs] /\ work # <<>>
  BY HeadFacts DEF Types, Finishes
<1>2. disk' \in [ReplicaNames -> Dirs] BY <1>1 DEF Finishes
<1>3. managers' \in Maps(ReplicaNames, Indexes) /\ DOMAIN managers' = DOMAIN managers BY Managed
<1>4. WorkOK(Tail(work), tables, managers', disk')
  <2>1. DOMAIN managers \subseteq DOMAIN managers' BY <1>3
  <2> QED BY <1>1, <2>1, DoneWork DEF Types
<1>5. WorkOK(work, tables, managers, disk)' BY <1>4 DEF Finishes
<1>6. MemoryOK' BY <1>3 DEF Types, MemoryOK, Finishes
<1>7. ProcessOK' BY DEF Types, ProcessOK, Finishes
<1>8. (TablesOK(saved) /\ TablesOK(tables))' BY DEF Types, Finishes, TablesOK
<1> QED BY <1>2, <1>5, <1>6, <1>7, <1>8 DEF Types, Finishes

LEMMA AbortsTypes ==
  ASSUME Types, Aborts
  PROVE  Types'
<1>1. ProcessOK' BY DEF Types, ProcessOK, Aborts
<1>2. MemoryOK' BY DEF Types, MemoryOK, Aborts, memory
<1>3. WorkOK(work, tables, managers, disk)' BY DEF Types, Aborts, memory
<1>4. (TablesOK(saved) /\ TablesOK(tables))' BY DEF Types, Aborts, memory, TablesOK
<1> QED BY <1>1, <1>2, <1>3, <1>4 DEF Types, Aborts

LEMMA AdvancesTypes ==
  ASSUME Types, NEW j, NEW x, Advances(j, x)
  PROVE  Types'
<1>1. PICK d : GoesOn(d, j) /\ d.index = With(dir.index, job.ts, x) BY DEF Advances, IndexStep
<1>2. job.ts \in DOMAIN d.index BY <1>1 DEF With
<1>3. j.ts = job.ts BY <1>1 DEF GoesOn
<1> QED BY <1>1, <1>2, <1>3, GoesOnTypes

LEMMA CompletesTypes ==
  ASSUME Types, NEW x, NEW tree, NEW sound, Completes(x, tree, sound)
  PROVE  Types'
<1>1. PICK d : Finishes(d, tree, sound) BY DEF Completes
<1>2. job.do \notin OpenSteps BY StageNames DEF Completes
<1> QED BY <1>1, <1>2, FinishesTypes

LEMMA OpeningTypes ==
  ASSUME Types, MkDir \/ SetDim
  PROVE  Types'
<1>1. PICK d, j : GoesOn(d, j) /\ j.do \in OpenSteps BY OpeningStep
<1>2. j.do \notin IndexSteps BY <1>1, StageNames
<1> QED BY <1>1, <1>2, GoesOnTypes

LEMMA SetToSeqSet ==
  ASSUME NEW S, IsFiniteSet(S)
  PROVE  SetToSeq(S) \in Seq(S) /\ ToSet(SetToSeq(S)) = S
<1>1. PICK v : v = SetToSeq(S) OBVIOUS
<1>2. v \in Seq(S) /\ \A x \in S : \E i \in 1..Len(v) : v[i] = x BY <1>1, SetToSeqFacts
<1>3. ToSet(v) = {v[k] : k \in 1..Len(v)} BY <1>2, ToSetOf
<1>4. \A k \in 1..Len(v) : v[k] \in S BY <1>2, ElementOfSeq
<1> QED BY <1>1, <1>2, <1>3, <1>4

LEMMA Image ==
  ASSUME NEW S, S \subseteq ReplicaNames, NEW f, DOMAIN f = S, NEW T,
         \A r \in S : f[r] \in T, \A j \in T : \E r \in S : j = f[r], f \in [S -> T]
  PROVE  IsFiniteSet(T)
<1>1. IsFiniteSet(S) BY Constants, FS_Subset
<1>2. f \in Surjection(S, T) BY DEF Surjection
<1> QED BY <1>1, <1>2, FS_Surjection

(* Jobs that have not begun.                                               *)
LEMMA NewJobs ==
  ASSUME NEW T, IsFiniteSet(T), T \subseteq Jobs, NEW tbl, NEW man, NEW dsk,
         \A j \in T : JobOK(j, tbl, man) /\ Waiting(j)
  PROVE  /\ WorkOK(SetToSeq(T), tbl, man, dsk) /\ ToSet(SetToSeq(T)) = T
         /\ SetToSeq(T) \in Seq(Jobs)
<1>5. PICK v : v = SetToSeq(T) OBVIOUS
<1>6. v \in Seq(T) /\ ToSet(v) = T BY <1>5, SetToSeqSet
<1>7. v \in Seq(Jobs) BY <1>6
<1>8. WorkOK(v, tbl, man, dsk) BY <1>6, <1>7, AllWaiting
<1> QED BY <1>5, <1>6, <1>7, <1>8

LEMMA NewEngines ==
  ASSUME NEW S, S \subseteq ReplicaNames, NEW tbl, NEW man, NEW dsk, \A r \in S : Among(r, tbl)
  PROVE  /\ WorkOK(CreateVEngines(S), tbl, man, dsk)
         /\ ToSet(CreateVEngines(S)) = {CreateVEngine(r) : r \in S}
         /\ \A r \in S : CreateVEngine(r) \in Jobs /\ CreateVEngine(r).do = "mkdir"
                         /\ CreateVEngine(r).r = r
<1>1. ASSUME NEW r \in S
      PROVE  /\ CreateVEngine(r) \in Jobs /\ CreateVEngine(r).do = "mkdir"
             /\ CreateVEngine(r).r = r /\ CreateVEngine(r).id = 0
  BY Constants DEF CreateVEngine, Job, Jobs, OpenSteps
<1>2. \A r \in S : JobOK(CreateVEngine(r), tbl, man) /\ Waiting(CreateVEngine(r))
  BY <1>1 DEF JobOK, Waiting, OpenSteps
<1>3. PICK T : T = {CreateVEngine(r) : r \in S} OBVIOUS
<1>4. T \subseteq Jobs /\ \A j \in T : JobOK(j, tbl, man) /\ Waiting(j) BY <1>1, <1>2, <1>3
<1>5. IsFiniteSet(T)
  <2>1. PICK f : f = [r \in S |-> CreateVEngine(r)] OBVIOUS
  <2>2. DOMAIN f = S /\ f \in [S -> T] /\ \A r \in S : f[r] \in T BY <1>3, <2>1
  <2>3. \A j \in T : \E r \in S : j = f[r] BY <1>3, <2>1
  <2> QED BY <2>2, <2>3, Image
<1>6. WorkOK(SetToSeq(T), tbl, man, dsk) /\ ToSet(SetToSeq(T)) = T BY <1>4, <1>5, NewJobs
<1>7. CreateVEngines(S) = SetToSeq(T) BY <1>3 DEF CreateVEngines
<1> QED BY <1>1, <1>3, <1>6, <1>7

LEMMA InitTypes == Init => Types
<1> SUFFICES ASSUME Init PROVE Types
  OBVIOUS
<1>1. TablesOK(NoFunction) BY NoFunctionType DEF TablesOK
<1>2. NoDir \in Dirs
  <2>1. NoFunction \in Maps(Stamps, IndexDirs) BY NoFunctionType
  <2>2. [k \in Keys |-> Nothing] \in [Keys -> Values] BY Constants
  <2> QED BY <2>1, <2>2 DEF NoDir, Dirs
<1>3. disk \in [ReplicaNames -> Dirs] BY <1>2 DEF Init
<1>4. MemoryOK BY NoFunctionType DEF Init, MemoryOK
<1>5. WorkOK(<<>>, tables, managers, disk) BY DEF WorkOK
<1>6. ProcessOK BY DEF ProcessOK, Init
<1>7. written \in [TableNames -> [Keys -> Values]] BY Constants DEF Init
<1>8. used \in Uses BY DEF Init, Uses
<1> QED BY <1>1, <1>3, <1>4, <1>5, <1>6, <1>7, <1>8 DEF Init, Types

LEMMA NewTable ==
  ASSUME NEW tbl, TablesOK(tbl), NEW t \in TableNames \ DOMAIN tbl, replica_uid \in Nat,
         NEW p \in 1..MaxPartitions, NEW n \in 1..MaxReplicas
  PROVE  \E b : /\ b = With(tbl, t, CreateTable(p, n))
                /\ TablesOK(b) /\ replica_uid + p * n \in Nat
                /\ DOMAIN b = DOMAIN tbl \cup {t} /\ \A u \in DOMAIN tbl : b[u] = tbl[u]
                /\ \A r : Among(r, tbl) => Among(r, b)
<1>1. p \in Nat /\ n \in Nat /\ p - 1 \in Int /\ n - 1 \in Int BY VdbAssumption
<1>2. p * n \in Nat /\ replica_uid + p * n \in Nat
  <2>1. p * n \in Nat BY <1>1
  <2> QED BY <2>1
<1>3. ASSUME NEW s \in Slots(p, n) PROVE replica_uid + s[1] * n + s[2] \in Nat
  <2>1. PICK a \in 0..(p - 1), b \in 0..(n - 1) : s = <<a, b>> BY DEF Slots
  <2>2. a \in Nat /\ b \in Nat /\ s[1] = a /\ s[2] = b BY <1>1, <2>1
  <2>3. a * n \in Nat BY <1>1, <2>2
  <2>4. PICK m \in Nat : m = a * n BY <2>3
  <2>5. replica_uid + m + b \in Nat BY <2>2
  <2> QED BY <2>2, <2>4, <2>5
<1>4. PICK x : x = CreateTable(p, n) OBVIOUS
<1>5. x.partition_num = p /\ x.uid \in [Slots(p, n) -> Nat] BY <1>3, <1>4 DEF CreateTable
<1>6. PICK b : b = With(tbl, t, x) OBVIOUS
<1>7. DOMAIN b = DOMAIN tbl \cup {t} /\ b[t] = x /\ \A u \in DOMAIN tbl : b[u] = tbl[u]
  BY <1>6 DEF With
<1>8. TablesOK(b)
  <2>1. DOMAIN b \subseteq TableNames BY <1>7 DEF TablesOK
  <2>2. ASSUME NEW u \in DOMAIN b
        PROVE  \E pp \in 1..MaxPartitions, nn \in 1..MaxReplicas :
                 b[u].partition_num = pp /\ b[u].uid \in [Slots(pp, nn) -> Nat]
    <3>1. CASE u = t BY <1>5, <1>7, <3>1
    <3>2. CASE u # t BY <1>7, <3>2 DEF TablesOK
    <3> QED BY <3>1, <3>2
  <2> QED BY <2>1, <2>2 DEF TablesOK
<1>9. \A r : Among(r, tbl) => Among(r, b) BY <1>7 DEF Among
<1> QED BY <1>2, <1>4, <1>6, <1>7, <1>8, <1>9

LEMMA AddTableTypes ==
  ASSUME Types, NEW t \in TableNames, NEW p \in 1..MaxPartitions, NEW n \in 1..MaxReplicas,
         AddTable(t, p, n)
  PROVE  /\ Types' /\ tables' = saved' /\ status = "up" /\ work = <<>>
         /\ DOMAIN saved' = DOMAIN saved \cup {t} /\ t \notin DOMAIN saved
         /\ \A u \in DOMAIN saved : saved'[u] = saved[u]
         /\ \A r : Among(r, saved) => Among(r, saved')
         /\ ToSet(work') = {CreateVEngine(r) : r \in ReplicasInTable(saved', t)}
         /\ UNCHANGED <<disk, engines, managers, status, results, written, used>>
<1>1. /\ status = "up" /\ work = <<>> /\ t \notin DOMAIN tables
      /\ tables' = With(tables, t, CreateTable(p, n)) /\ saved' = tables'
      /\ replica_uid' = replica_uid + p * n
      /\ work' = CreateVEngines(ReplicasInTable(tables', t))
      /\ UNCHANGED <<disk, engines, managers, status, results, written, used>>
  BY DEF AddTable, Idle, Persist
<1>2. TablesOK(tables) /\ tables = saved /\ MemoryOK /\ replica_uid \in Nat
  BY <1>1 DEF Types, ProcessOK, MemoryOK
<1>3. /\ TablesOK(tables') /\ replica_uid' \in Nat
      /\ DOMAIN tables' = DOMAIN tables \cup {t} /\ \A u \in DOMAIN tables : tables'[u] = tables[u]
      /\ \A r : Among(r, tables) => Among(r, tables')
  <2>1. t \in TableNames \ DOMAIN tables BY <1>1
  <2>2. PICK b : /\ b = With(tables, t, CreateTable(p, n))
                 /\ TablesOK(b) /\ replica_uid + p * n \in Nat
                 /\ DOMAIN b = DOMAIN tables \cup {t} /\ \A u \in DOMAIN tables : b[u] = tables[u]
                 /\ \A r : Among(r, tables) => Among(r, b)
    BY <1>2, <2>1, NewTable
  <2> QED BY <1>1, <2>2
<1>4. /\ ReplicasInTable(tables', t) \subseteq ReplicaNames
      /\ \A r \in ReplicasInTable(tables', t) : Among(r, tables')
  BY <1>3, SlotFacts
<1>5. /\ WorkOK(work', tables', managers', disk')
      /\ ToSet(work') = {CreateVEngine(r) : r \in ReplicasInTable(tables', t)}
  BY <1>1, <1>4, NewEngines
<1>6. MemoryOK' BY <1>1, <1>2, <1>3 DEF MemoryOK
<1>7. ProcessOK' BY <1>1 DEF Types, ProcessOK
<1>8. Types' BY <1>1, <1>3, <1>5, <1>6, <1>7 DEF Types
<1> QED BY <1>1, <1>2, <1>3, <1>5, <1>8

LEMMA OpenTypes ==
  ASSUME Types, Open
  PROVE  /\ Types' /\ status = "up" /\ work # <<>> /\ job.do = "open"
         /\ \E v \in Seq(Jobs) :
              /\ work' = v \o Tail(work) /\ ToSet(work') = ToSet(v) \cup ToSet(Tail(work))
              /\ \A j \in ToSet(v) : /\ j \in Jobs /\ j.r = job.r /\ j.do = "index dir"
                                     /\ j.ts \in DOMAIN dir.index
         /\ \A j \in ToSet(work') : Waiting(j)
         /\ engines' = With(engines, UidOf(job.r), job.r)
         /\ managers' = With(managers, job.r, NoFunction)
         /\ UNCHANGED <<saved, disk, tables, replica_uid, status, results, written, used>>
<1>1. /\ status = "up" /\ work # <<>> /\ job.do = "open"
      /\ engines' = With(engines, UidOf(job.r), job.r)
      /\ managers' = With(managers, job.r, NoFunction)
      /\ UNCHANGED <<saved, disk, tables, replica_uid, status, results, written, used>>
  BY DEF Open, Doing, job
<1>2. /\ job \in Jobs /\ job.r \in ReplicaNames /\ dir \in Dirs /\ Among(job.r, tables)
  BY <1>1, HeadFacts DEF JobOK
<1>3. dir.index \in Maps(Stamps, IndexDirs) /\ dir.dim \in {0, Dim} BY <1>2 DEF Dirs
<1>4. PICK D : D = DOMAIN dir.index OBVIOUS
<1>5. D \subseteq Stamps /\ IsFiniteSet(D) BY <1>3, <1>4, MapFacts, Constants, FS_Subset
<1>6. PICK s : s = SetToSeq(D) OBVIOUS
<1>7. s \in Seq(D) /\ DOMAIN s = 1..Len(s) BY <1>5, <1>6, SetToSeqSet
<1>8. \A i \in 1..Len(s) : s[i] \in D BY <1>7, ElementOfSeq
<1>9. PICK v : v = [i \in DOMAIN s |-> VindexAnnoy(job.r, s[i], Param(0, dir.dim, FALSE))]
  OBVIOUS
<1>10. work' = v \o Tail(work) BY <1>4, <1>6, <1>9 DEF Open
<1>11. ASSUME NEW x \in D
       PROVE  LET j == VindexAnnoy(job.r, x, Param(0, dir.dim, FALSE))
              IN  /\ j \in Jobs /\ j.do = "index dir" /\ j.r = job.r /\ j.ts = x /\ j.id = 0
  <2>1. x \in Stamps /\ 0 \in Stamps BY <1>5, Constants
  <2> QED BY <1>2, <1>3, <2>1 DEF VindexAnnoy, Job, Jobs, Param, Params
<1>12. v \in Seq(Jobs) /\ Len(v) = Len(s) /\ Len(s) \in Nat
  <2>1. \A i \in 1..Len(s) : v[i] \in Jobs BY <1>7, <1>8, <1>9, <1>11
  <2>2. v \in [1..Len(s) -> Jobs] BY <1>7, <1>9, <2>1
  <2>3. Len(s) \in Nat BY <1>7
  <2> QED BY <2>2, <2>3
<1>13. ASSUME NEW j \in ToSet(v)
       PROVE  /\ j \in Jobs /\ j.do = "index dir" /\ j.r = job.r /\ j.ts \in D /\ j.id = 0
  <2>1. PICK i \in 1..Len(s) : j = v[i] BY <1>12, ToSetOf
  <2>2. j = VindexAnnoy(job.r, s[i], Param(0, dir.dim, FALSE)) BY <1>7, <1>9, <2>1
  <2> QED BY <1>8, <1>11, <2>1, <2>2
<1>14. managers' \in Maps(ReplicaNames, Indexes) /\ DOMAIN managers' = DOMAIN managers \cup {job.r}
  <2>1. managers \in Maps(ReplicaNames, Indexes) BY DEF Types, MemoryOK
  <2>2. NoFunction \in Indexes BY NoFunctionType DEF Indexes
  <2>3. managers' \in Maps(ReplicaNames, Indexes) BY <1>1, <1>2, <2>1, <2>2, WithType
  <2>4. DOMAIN managers' = DOMAIN managers \cup {job.r} BY <1>1 DEF With
  <2> QED BY <2>3, <2>4
<1>15. /\ Tail(work) \in Seq(Jobs)
       /\ \A j \in ToSet(Tail(work)) : j \in Jobs /\ JobOK(j, tables, managers) /\ Waiting(j)
  BY <1>1, WorkSets DEF Types
<1>16. v \o Tail(work) \in Seq(Jobs) /\ ToSet(v \o Tail(work)) = ToSet(v) \cup ToSet(Tail(work))
  BY <1>12, <1>15, ConcatSets
<1>17. ASSUME NEW j \in ToSet(work') PROVE JobOK(j, tables, managers') /\ Waiting(j)
  <2>1. CASE j \in ToSet(v)
    <3>1. /\ j \in Jobs /\ j.do = "index dir" /\ j.r = job.r /\ j.id = 0 BY <1>13, <2>1
    <3> QED BY <1>2, <1>14, <3>1 DEF JobOK, Waiting
  <2>2. CASE j \in ToSet(Tail(work)) BY <1>14, <1>15, <2>2 DEF JobOK
  <2> QED BY <1>10, <1>16, <2>1, <2>2
<1>18. WorkOK(work, tables, managers, disk)'
  <2>1. WorkOK(work', tables, managers', disk') BY <1>10, <1>16, <1>17, AllWaiting
  <2> QED BY <1>1, <2>1
<1>19. MemoryOK'
  <2>1. /\ engines \in Maps(Nat, ReplicaNames)
        /\ \A u \in DOMAIN engines : engines[u] \in DOMAIN managers
        /\ \A r \in DOMAIN managers : Among(r, tables) /\ replica_uid \in Nat
    BY DEF Types, MemoryOK
  <2>2. UidOf(job.r) \in Nat
    <3>1. job.r[1] \in DOMAIN tables /\ job.r[2] \in DOMAIN tables[job.r[1]].uid
      BY <1>2 DEF Among
    <3>2. \E p \in 1..MaxPartitions, n \in 1..MaxReplicas :
            tables[job.r[1]].uid \in [Slots(p, n) -> Nat]
      BY <3>1 DEF Types, TablesOK
    <3> QED BY <3>1, <3>2 DEF UidOf
  <2>3. PICK u : u = UidOf(job.r) OBVIOUS
  <2>4. engines' \in Maps(Nat, ReplicaNames) BY <1>1, <1>2, <2>1, <2>2, WithType
  <2>5. \A w \in DOMAIN engines' : engines'[w] \in DOMAIN managers'
    <3>1. DOMAIN engines' = DOMAIN engines \cup {u} /\ engines'[u] = job.r
          /\ \A w \in DOMAIN engines : w # u => engines'[w] = engines[w]
      BY <1>1, <2>3 DEF With
    <3> QED BY <1>14, <2>1, <3>1
  <2>6. \A r \in DOMAIN managers' : Among(r, tables) BY <1>2, <1>14, <2>1
  <2>7. replica_uid' \in Nat /\ \A r \in DOMAIN managers' : Among(r, tables')
    BY <1>1, <2>6 DEF Types, MemoryOK
  <2> QED BY <1>14, <2>4, <2>5, <2>7 DEF MemoryOK
<1>20. ProcessOK' BY <1>1 DEF Types, ProcessOK
<1>21. Types' BY <1>1, <1>18, <1>19, <1>20 DEF Types
<1>22. \A j \in ToSet(v) : j \in Jobs /\ j.r = job.r /\ j.do = "index dir" /\ j.ts \in DOMAIN dir.index
  BY <1>4, <1>13
<1> QED BY <1>1, <1>10, <1>12, <1>16, <1>17, <1>21, <1>22

(* A call that writes one value of one engine.                             *)
DataWritten(t, key, v) ==
  /\ Idle /\ HasEngine(t, key) /\ VEngineOf(t, key) \in ReplicaNames
  /\ disk' \in [ReplicaNames -> Dirs]
  /\ \A r \in ReplicaNames :
       /\ disk'[r].index = disk[r].index
       /\ \A k \in Keys : disk'[r].data[k] = IF r = VEngineOf(t, key) /\ k = key
                                               THEN v ELSE disk[r].data[k]
  /\ written' = [written EXCEPT ![t][key] = v]
  /\ UNCHANGED <<saved, memory, work, status, results>>

LEMMA Writing ==
  ASSUME Types, NEW t \in TableNames, NEW key \in Keys, NEW v \in Values, Idle, HasEngine(t, key),
         NEW d, d = [disk[VEngineOf(t, key)] EXCEPT !.data[key] = v],
         disk' = [disk EXCEPT ![VEngineOf(t, key)] = d],
         written' = [written EXCEPT ![t][key] = v], UNCHANGED <<saved, memory, work, status, results>>
  PROVE  DataWritten(t, key, v)
<1>1. PICK e : e = VEngineOf(t, key) OBVIOUS
<1>2. e \in ReplicaNames
  <2>1. engines \in Maps(Nat, ReplicaNames) BY DEF Types, MemoryOK
  <2> QED BY <1>1, <2>1, MapFacts DEF HasEngine, VEngineOf
<1>3. disk \in [ReplicaNames -> Dirs] /\ disk[e] \in Dirs BY <1>2 DEF Types
<1>4. disk[e].data \in [Keys -> Values] BY <1>3 DEF Dirs
<1>5. PICK a : a = [disk[e].data EXCEPT ![key] = v] OBVIOUS
<1>6. a \in [Keys -> Values] /\ \A k \in Keys : a[k] = IF k = key THEN v ELSE disk[e].data[k]
  BY <1>4, <1>5
<1>7. d = [disk[e] EXCEPT !.data = a] BY <1>1, <1>5
<1>8. d \in Dirs /\ d.data = a /\ d.index = disk[e].index BY <1>3, <1>6, <1>7 DEF Dirs
<1>9. disk' \in [ReplicaNames -> Dirs] /\ disk'[e] = d
      /\ \A r \in ReplicaNames : r # e => disk'[r] = disk[r]
  BY <1>1, <1>2, <1>3, <1>8
<1>10. ASSUME NEW r \in ReplicaNames
       PROVE  /\ disk'[r].index = disk[r].index
              /\ \A k \in Keys : disk'[r].data[k] = IF r = e /\ k = key THEN v ELSE disk[r].data[k]
  <2>1. CASE r = e
    <3>1. disk'[r].data = a /\ disk'[r].index = disk[r].index BY <1>8, <1>9, <2>1
    <3>2. \A k \in Keys : a[k] = IF r = e /\ k = key THEN v ELSE disk[r].data[k]
      BY <1>6, <2>1
    <3> QED BY <3>1, <3>2
  <2>2. CASE r # e
    <3>1. disk'[r] = disk[r] BY <1>9, <2>2
    <3>2. disk'[r].data = disk[r].data /\ disk'[r].index = disk[r].index BY <3>1
    <3>3. \A k \in Keys : ~(r = e /\ k = key) BY <2>2
    <3> QED BY <3>2, <3>3
  <2> QED BY <2>1, <2>2
<1> QED BY <1>1, <1>2, <1>9, <1>10 DEF DataWritten

LEMMA PutWrites ==
  ASSUME Types, NEW t \in TableNames, NEW key \in Keys, NEW v \in Vectors, Put(t, key, v)
  PROVE  DataWritten(t, key, v) /\ v \in Values /\ v # Nothing /\ UNCHANGED used
<1>1. v \in Values /\ v # Nothing BY Constants DEF Values
<1>2. PICK d : d = [disk[VEngineOf(t, key)] EXCEPT !.data[key] = v] OBVIOUS
<1>3. disk \in [ReplicaNames -> Dirs] BY DEF Types
<1>4. disk' = [disk EXCEPT ![VEngineOf(t, key)] = d] BY <1>2, <1>3 DEF Put, PutTargets
<1>5. DataWritten(t, key, v) BY <1>1, <1>2, <1>4, Writing DEF Put
<1> QED BY <1>1, <1>5 DEF Put

LEMMA DeleteWrites ==
  ASSUME Types, NEW t \in TableNames, NEW key \in Keys, Delete(t, key)
  PROVE  DataWritten(t, key, Nothing) /\ Used("delete")
<1>1. PICK d : d = [disk[VEngineOf(t, key)] EXCEPT !.data[key] = Nothing] OBVIOUS
<1>2. disk' = [disk EXCEPT ![VEngineOf(t, key)] = d] BY <1>1 DEF Delete
<1>3. DataWritten(t, key, Nothing) BY <1>1, <1>2, Constants, Writing DEF Delete
<1> QED BY <1>3 DEF Delete

LEMMA UsedTypes ==
  ASSUME Types, NEW what \in {"delete", "stop", "crash"}, Used(what)
  PROVE  /\ used' \in Uses /\ used'[what] = used[what] + 1 /\ used[what] \in Nat
         /\ \A x \in {"index", "treeless", "delete", "stop", "crash"} : x # what => used'[x] = used[x]
BY DEF Types, Uses, Used

LEMMA WritingTypes ==
  ASSUME Types, NEW t \in TableNames, NEW key \in Keys, NEW v \in Values, DataWritten(t, key, v),
         used' \in Uses
  PROVE  Types'
<1>1. written' \in [TableNames -> [Keys -> Values]] BY DEF Types, DataWritten
<1>2. MemoryOK' BY DEF Types, MemoryOK, DataWritten, memory
<1>3. ProcessOK' BY DEF Types, ProcessOK, DataWritten, memory
<1>4. WorkOK(work, tables, managers, disk)' BY DEF DataWritten, Idle, memory, WorkOK
<1>5. (TablesOK(saved) /\ TablesOK(tables))' BY DEF Types, DataWritten, memory, TablesOK
<1>6. disk' \in [ReplicaNames -> Dirs] BY DEF DataWritten
<1> QED BY <1>1, <1>2, <1>3, <1>4, <1>5, <1>6 DEF Types

LEMMA AddIndexTypes ==
  ASSUME Types, NEW t \in TableNames, NEW trees \in BOOLEAN, AddIndex(t, trees)
  PROVE  /\ Types' /\ work' \in Seq(Jobs) /\ status = "up" /\ work = <<>>
         /\ \A j \in ToSet(work') :
               j.do = "index dir" /\ j.p = Param(j.ts, Dim, trees) /\ j.r \in ReplicaNames
         /\ used'.delete = used.delete /\ used'.crash = used.crash
         /\ used'.treeless = (IF trees THEN used.treeless ELSE used.treeless + 1)
         /\ UNCHANGED <<saved, disk, memory, status, results, written>>
<1>1. /\ status = "up" /\ work = <<>> /\ t \in DOMAIN tables /\ used.index < MaxIndexes
      /\ UNCHANGED <<saved, disk, memory, status, results, written>>
  BY DEF AddIndex, Idle
<1>2. PICK Q : Q = {q \in ReplicasInTable(tables, t) : UidOf(q) \in DOMAIN engines} OBVIOUS
<1>3. PICK S : S = {engines[UidOf(r)] : r \in Q} OBVIOUS
<1>4. PICK ts : ts = used.index + 1 OBVIOUS
<1>5. /\ ts \in Stamps /\ used' \in Uses /\ used'.delete = used.delete /\ used'.crash = used.crash
      /\ used'.treeless = (IF trees THEN used.treeless ELSE used.treeless + 1)
  <2>1. used.index \in Nat /\ used.treeless \in Nat /\ used \in Uses BY DEF Types, Uses
  <2>2. ts \in Stamps BY <1>1, <1>4, <2>1, VdbAssumption DEF Stamps
  <2>3. PICK m : m = IF trees THEN used.treeless ELSE used.treeless + 1 OBVIOUS
  <2>4. ts \in Nat /\ m \in Nat BY <1>4, <2>1, <2>3
  <2>5. used' = [used EXCEPT !.index = ts, !.treeless = m] BY <1>4, <2>3 DEF AddIndex
  <2>6. used' \in Uses /\ used'.delete = used.delete /\ used'.crash = used.crash /\ used'.treeless = m
    BY <2>1, <2>4, <2>5 DEF Uses
  <2> QED BY <2>2, <2>3, <2>6
<1>6. /\ MemoryOK /\ engines \in Maps(Nat, ReplicaNames)
      /\ \A u \in DOMAIN engines : engines[u] \in DOMAIN managers
      /\ \A r \in DOMAIN managers : Among(r, tables)
  BY DEF Types, MemoryOK
<1>7. S \subseteq ReplicaNames /\ \A r \in S : r \in DOMAIN managers /\ Among(r, tables)
  BY <1>2, <1>3, <1>6, MapFacts
<1>8. PICK p : p = Param(ts, Dim, trees) OBVIOUS
<1>9. p \in Params BY <1>5, <1>8 DEF Param, Params
<1>10. PICK T : T = {VindexAnnoy(r, ts, p) : r \in S} OBVIOUS
<1>11. ASSUME NEW r \in S
       PROVE  \E j \in Jobs : /\ j = VindexAnnoy(r, ts, p) /\ j.do = "index dir" /\ j.p = p
                              /\ j.ts = ts /\ j.id = 0 /\ j.r = r
  <2>1. PICK j : j = VindexAnnoy(r, ts, p) OBVIOUS
  <2>2. j.do = "index dir" /\ j.p = p /\ j.ts = ts /\ j.id = 0 /\ j.r = r
    BY <2>1 DEF VindexAnnoy, Job
  <2>3. r \in ReplicaNames BY <1>7
  <2>4. "index dir" \in OpenSteps \cup {"index dir"} \cup IndexSteps /\ ts \in Stamps BY <1>5
  <2>5. j \in Jobs
    <3>1. j = [do |-> "index dir", r |-> r, ts |-> ts, p |-> p, id |-> 0]
      BY <2>1 DEF VindexAnnoy, Job
    <3>2. p \in Params /\ 0 \in Nat BY <1>9
    <3> QED BY <2>3, <2>4, <3>1, <3>2 DEF Jobs
  <2> QED BY <2>1, <2>2, <2>5
<1>12. ASSUME NEW j \in T
       PROVE  /\ j \in Jobs /\ j.do = "index dir" /\ j.p = p /\ j.ts = ts /\ j.id = 0
              /\ j.r \in S
  <2>1. PICK r \in S : j = VindexAnnoy(r, ts, p) BY <1>10
  <2> QED BY <1>11, <2>1
<1>13. T \subseteq Jobs /\ \A j \in T : JobOK(j, tables, managers) /\ Waiting(j)
  BY <1>7, <1>12 DEF JobOK, Waiting
<1>14. IsFiniteSet(T)
  <2>1. PICK f : f = [r \in S |-> VindexAnnoy(r, ts, p)] OBVIOUS
  <2>2. DOMAIN f = S /\ f \in [S -> T] /\ \A r \in S : f[r] \in T BY <1>10, <2>1
  <2>3. \A j \in T : \E r \in S : j = f[r] BY <1>10, <2>1
  <2> QED BY <1>7, <2>2, <2>3, Image
<1>16. work' = SetToSeq(T) BY <1>2, <1>3, <1>4, <1>8, <1>10 DEF AddIndex
<1>17. /\ WorkOK(SetToSeq(T), tables, managers, disk) /\ ToSet(SetToSeq(T)) = T
       /\ SetToSeq(T) \in Seq(Jobs)
  BY <1>13, <1>14, NewJobs
<1>18. WorkOK(work, tables, managers, disk)' BY <1>1, <1>16, <1>17 DEF memory
<1>19. MemoryOK' BY <1>1, <1>6 DEF MemoryOK, memory
<1>20. ProcessOK' BY <1>1 DEF Types, ProcessOK, memory
<1>21. (TablesOK(saved) /\ TablesOK(tables))' BY <1>1 DEF Types, memory, TablesOK
<1>22. Types' BY <1>1, <1>5, <1>18, <1>19, <1>20, <1>21 DEF Types
<1>23. \A j \in T : j.do = "index dir" /\ j.p = Param(j.ts, Dim, trees) /\ j.r \in ReplicaNames
  BY <1>7, <1>8, <1>12
<1> QED BY <1>1, <1>5, <1>16, <1>17, <1>22, <1>23

LEMMA UnchangedTypes ==
  ASSUME Types, UNCHANGED <<saved, disk, memory, work, status, written, used>>,
         status = "up" \/ UNCHANGED results
  PROVE  Types'
<1>1. MemoryOK' BY DEF Types, MemoryOK, memory
<1>2. ProcessOK' BY DEF Types, ProcessOK, memory
<1>3. WorkOK(work, tables, managers, disk)' BY DEF Types, memory
<1>4. (TablesOK(saved) /\ TablesOK(tables))' BY DEF Types, memory, TablesOK
<1> QED BY <1>1, <1>2, <1>3, <1>4 DEF Types

LEMMA GetKNNTypes ==
  ASSUME Types, NEW t \in TableNames, NEW limit \in 1..KeyNum, GetKNN(t, limit)
  PROVE  Types'
<1>1. status = "up" /\ UNCHANGED <<saved, disk, memory, work, written, used>>
  BY DEF GetKNN, Idle
<1>2. (status' = "knn" /\ UNCHANGED results) \/ UNCHANGED status
  BY DEF GetKNN, Abort
<1>3. CASE status' = "knn" /\ UNCHANGED results BY <1>1, <1>3, AbortsTypes DEF Aborts
<1>4. CASE UNCHANGED status BY <1>1, <1>4, UnchangedTypes
<1> QED BY <1>2, <1>3, <1>4

LEMMA DownTypes ==
  ASSUME Types, Down, used' \in Uses
  PROVE  Types'
<1>1. MemoryOK' BY NoFunctionType DEF Down, MemoryOK
<1>2. ProcessOK' BY DEF Down, ProcessOK
<1>3. WorkOK(work, tables, managers, disk)' BY DEF Down, WorkOK
<1>4. TablesOK(NoFunction) BY NoFunctionType DEF TablesOK
<1>5. TablesOK(saved)' /\ TablesOK(tables)' BY <1>4 DEF Types, Down
<1> QED BY <1>1, <1>2, <1>3, <1>5 DEF Types, Down

LEMMA StartTypes ==
  ASSUME Types, Start
  PROVE  /\ Types' /\ tables' = saved /\ status = "down" /\ status' = "up"
         /\ ToSet(work') = {CreateVEngine(r) : r \in {q \in ReplicaNames : Among(q, saved)}}
         /\ UNCHANGED <<saved, disk, replica_uid, engines, managers, results, written, used>>
<1>1. /\ status = "down" /\ status' = "up" /\ tables' = saved
      /\ work' = CreateVEngines(UNION {ReplicasInTable(saved, t) : t \in DOMAIN saved})
      /\ UNCHANGED <<saved, disk, replica_uid, engines, managers, results, written, used>>
  BY DEF Start
<1>2. engines = NoFunction /\ managers = NoFunction /\ TablesOK(saved)
  BY <1>1 DEF Types, ProcessOK
<1>3. PICK S : S = UNION {ReplicasInTable(saved, t) : t \in DOMAIN saved} OBVIOUS
<1>4. S \subseteq ReplicaNames /\ \A r \in S : Among(r, saved) BY <1>2, <1>3, SlotFacts
<1>5. ASSUME NEW q \in ReplicaNames, Among(q, saved) PROVE q \in S
  <2>1. q[1] \in DOMAIN saved BY <1>5 DEF Among
  <2>2. q \in ReplicasInTable(saved, q[1]) BY <1>2, <1>5, <2>1, SlotFacts
  <2> QED BY <1>3, <2>1, <2>2
<1>6. S = {q \in ReplicaNames : Among(q, saved)} BY <1>4, <1>5
<1>7. /\ WorkOK(CreateVEngines(S), saved, managers, disk)
      /\ ToSet(CreateVEngines(S)) = {CreateVEngine(r) : r \in S}
  BY <1>4, NewEngines
<1>8. WorkOK(work, tables, managers, disk)' BY <1>1, <1>3, <1>7
<1>9. MemoryOK' BY <1>1, <1>2, NoFunctionType DEF Types, MemoryOK
<1>10. ProcessOK' BY <1>1 DEF Types, ProcessOK
<1>11. Types' BY <1>1, <1>2, <1>8, <1>9, <1>10 DEF Types
<1> QED BY <1>1, <1>3, <1>6, <1>7, <1>11

-----------------------------------------------------------------------------
(* An index has the key of every item: what the manager has loaded is a    *)
(* complete file, if it is sound, and a complete file has its keys.        *)

EntriesOK == \A r \in ReplicaNames : \A ts \in DOMAIN disk[r].index : EntryOK(disk[r].index[ts])

LoadedFrom(x, m) == m.sound = TRUE => x.file = "complete" /\ x.tree = m.tree
Loaded(r, m) == m.dir \in DOMAIN disk[r].index /\ LoadedFrom(disk[r].index[m.dir], m)

ManagersOK == \A r \in DOMAIN managers : \A ts \in DOMAIN managers[r] : Loaded(r, managers[r][ts])

KeysInv == HeadStage /\ EntriesOK /\ ManagersOK

(* What a step is, seen from the work that is under way.                   *)
Kind ==
  \/ \E t \in TableNames :
       \/ \E p \in 1..MaxPartitions, n \in 1..MaxReplicas : AddTable(t, p, n)
       \/ \E k \in Keys : Delete(t, k) \/ \E v \in Vectors : Put(t, k, v)
       \/ \E trees \in BOOLEAN : AddIndex(t, trees)
       \/ \E limit \in 1..KeyNum : GetKNN(t, limit)
  \/ MkDir \/ SetDim
  \/ Open
  \/ \E j, x : Advances(j, x)
  \/ \E x, tree, sound : Completes(x, tree, sound)
  \/ Aborts /\ work # <<>> /\ (~CleanHead \/ status' = "path")
  \/ Stop \/ Crash
  \/ Start

LEMMA StepKind ==
  ASSUME Types, HeadStage, Next
  PROVE  Kind
<1>1. CASE IndexMkDir BY <1>1, IndexMkDirAdvances DEF Kind
<1>2. CASE OpenParam BY <1>2, OpenParamAdvances DEF Kind
<1>3. CASE WriteParam BY <1>3, WriteParamAdvances DEF Kind
<1>4. CASE LoadTree BY <1>4, LoadTreeCompletes DEF Kind
<1>5. CASE Build BY <1>5, BuildAdvances DEF Kind
<1>6. CASE PutKeyid BY <1>6, PutKeyidAdvances DEF Kind
<1>7. CASE AllPut BY <1>7, AllPutAdvances DEF Kind
<1>8. CASE Save BY <1>8, SaveAdvances DEF Kind
<1>9. CASE EndSave BY <1>9, EndSaveCompletes DEF Kind
<1> QED BY <1>1, <1>2, <1>3, <1>4, <1>5, <1>6, <1>7, <1>8, <1>9 DEF Next, Kind

LEMMA WaitingHead ==
  ASSUME NEW w \in Seq(Jobs), \A j \in ToSet(w) : Waiting(j), w # <<>>
  PROVE  Head(w).do \notin IndexSteps /\ Head(w) \in ToSet(w) /\ Waiting(Head(w))
<1>1. 1 \in 1..Len(w) /\ Head(w) = w[1] OBVIOUS
<1>2. w[1] \in ToSet(w) BY <1>1, ToSetOf
<1> QED BY <1>1, <1>2 DEF Waiting, IndexSteps, BuildSteps

(* The first job of new work has not begun.                                *)
LEMMA NewHead ==
  ASSUME work' \in Seq(Jobs), \A j \in ToSet(work') : Waiting(j)
  PROVE  HeadStage'
<1>1. work' # <<>> => Head(work').do \notin IndexSteps BY WaitingHead
<1> QED BY <1>1 DEF HeadStage, job

LEMMA KeysKept ==
  ASSUME Types, KeysInv, \A r \in ReplicaNames : disk'[r].index = disk[r].index,
         UNCHANGED managers \/ managers' = NoFunction, HeadStage'
  PROVE  KeysInv'
<1>1. EntriesOK' BY DEF KeysInv, EntriesOK
<1>2. ManagersOK'
  <2>1. CASE managers' = NoFunction BY <2>1, NoFunctionType DEF ManagersOK
  <2>2. CASE UNCHANGED managers
    <3> SUFFICES ASSUME NEW r \in DOMAIN managers, NEW ts \in DOMAIN managers[r]
                 PROVE  Loaded(r, managers[r][ts])'
      BY <2>2 DEF ManagersOK
    <3>1. r \in ReplicaNames BY MapFacts DEF Types, MemoryOK
    <3>2. Loaded(r, managers[r][ts]) BY DEF KeysInv, ManagersOK
    <3> QED BY <2>2, <3>1, <3>2 DEF Loaded
  <2> QED BY <2>1, <2>2
<1> QED BY <1>1, <1>2 DEF KeysInv

(* What is at the head of the work after a step of a job.                  *)
LEMMA HeadNext ==
  ASSUME Types, NEW d, NEW j, GoesOn(d, j)
  PROVE  /\ work' # <<>> /\ job' = j /\ dir' = d /\ dir'.data = dir.data /\ job.r \in ReplicaNames
         /\ disk'[job.r] = d /\ \A r \in ReplicaNames : r # job.r => disk'[r] = disk[r]
         /\ work \in Seq(Jobs) /\ Tail(work) \in Seq(Jobs)
         /\ ToSet(work) = {job} \cup ToSet(Tail(work)) /\ ToSet(work') = {j} \cup ToSet(Tail(work))
<1>1. work \in Seq(Jobs) /\ work # <<>> /\ j \in Jobs /\ job.r \in ReplicaNames /\ j.r = job.r
  BY HeadFacts DEF Types, WorkOK, GoesOn
<1>2. work' = <<j>> \o Tail(work) BY DEF GoesOn
<1>3. work' \in Seq(Jobs) /\ work' # <<>> /\ work'[1] = j BY <1>1, <1>2, GoneOn
<1>4. Head(work') = j BY <1>3
<1>5. job' = j BY <1>4 DEF job
<1>6. disk'[job.r] = d /\ \A r \in ReplicaNames : r # job.r => disk'[r] = disk[r]
  BY <1>1 DEF Types, GoesOn
<1>7. dir' = d BY <1>1, <1>5, <1>6 DEF dir
<1>8. d.data = dir.data BY DEF GoesOn
<1>9. /\ Tail(work) \in Seq(Jobs) /\ ToSet(work) = {work[1]} \cup ToSet(Tail(work))
  BY <1>1, WorkSets DEF Types
<1>10. work[1] = job BY <1>1, HeadFacts
<1>11. ToSet(work') = {j} \cup ToSet(Tail(work))
  <2>1. <<j>> \in Seq(Jobs) /\ Len(<<j>>) = 1 /\ <<j>>[1] = j BY <1>1
  <2>2. ToSet(<<j>>) = {j}
    <3>1. ToSet(<<j>>) = {<<j>>[k] : k \in 1..1} BY <2>1, ToSetOf
    <3> QED BY <2>1, <3>1
  <2> QED BY <1>2, <1>9, <2>1, <2>2, ConcatSets
<1> QED BY <1>1, <1>3, <1>5, <1>6, <1>7, <1>8, <1>9, <1>10, <1>11

LEMMA KeysAdvance ==
  ASSUME Types, KeysInv, NEW j, NEW x, Advances(j, x)
  PROVE  KeysInv'
<1>1. PICK d : GoesOn(d, j) /\ d.index = With(dir.index, job.ts, x) BY DEF Advances, IndexStep
<1>2. /\ work' # <<>> /\ job' = j /\ dir' = d /\ dir'.data = dir.data /\ job.r \in ReplicaNames
      /\ disk'[job.r] = d /\ \A r \in ReplicaNames : r # job.r => disk'[r] = disk[r]
  BY <1>1, HeadNext
<1>3. /\ DOMAIN d.index = DOMAIN dir.index \cup {job.ts} /\ d.index[job.ts] = x
      /\ \A ts \in DOMAIN dir.index : ts # job.ts => d.index[ts] = dir.index[ts]
  BY <1>1 DEF With
<1>4. index' = x
  <2>1. j.ts = job.ts BY <1>1 DEF GoesOn
  <2> QED BY <1>2, <1>3, <2>1 DEF index
<1>5. HeadStage' BY <1>2, <1>4 DEF HeadStage, Advances
<1>6. Known => EntryOK(index) BY <1>2 DEF KeysInv, EntriesOK, Known, index, dir
<1>7. EntryOK(x)
  <2>1. CASE Known
    <3>1. SameFile(index, x) BY <2>1 DEF Advances
    <3>2. ASSUME x.file = "complete" PROVE UpTo(x.keyid, x.tree, Len(x.tree))
      <4>1. index.file = "complete" BY <3>1, <3>2 DEF SameFile
      <4>2. x.tree = index.tree /\ x.keyid = index.keyid BY <3>1, <4>1 DEF SameFile
      <4> QED BY <1>6, <2>1, <4>1, <4>2 DEF EntryOK
    <3> QED BY <3>2 DEF EntryOK
  <2>2. CASE ~Known
    <3>1. x = NewIndexDir BY <2>2 DEF Advances
    <3>2. x.file = "none" BY <3>1 DEF NewIndexDir
    <3> QED BY <3>2 DEF EntryOK
  <2> QED BY <2>1, <2>2
<1>8. EntriesOK'
  <2> SUFFICES ASSUME NEW r \in ReplicaNames, NEW ts \in DOMAIN disk'[r].index
               PROVE  EntryOK(disk'[r].index[ts])
    BY DEF EntriesOK
  <2>1. CASE r # job.r BY <1>2, <2>1 DEF KeysInv, EntriesOK
  <2>2. CASE r = job.r /\ ts = job.ts BY <1>2, <1>3, <1>7, <2>2
  <2>3. CASE r = job.r /\ ts # job.ts
    <3>1. ts \in DOMAIN dir.index /\ disk'[r].index[ts] = dir.index[ts] BY <1>2, <1>3, <2>3
    <3> QED BY <2>3, <3>1 DEF KeysInv, EntriesOK, dir
  <2> QED BY <2>1, <2>2, <2>3
<1>9. ManagersOK'
  <2>1. managers' = managers BY <1>1 DEF GoesOn, memory
  <2> SUFFICES ASSUME NEW r \in DOMAIN managers, NEW ts \in DOMAIN managers[r]
               PROVE  Loaded(r, managers[r][ts])'
    BY <2>1 DEF ManagersOK
  <2>2. r \in ReplicaNames BY MapFacts DEF Types, MemoryOK
  <2>3. PICK m : m = managers[r][ts] OBVIOUS
  <2>4. m.dir \in DOMAIN disk[r].index /\ LoadedFrom(disk[r].index[m.dir], m)
    BY <2>3 DEF KeysInv, ManagersOK, Loaded
  <2>5. m.dir \in DOMAIN disk'[r].index /\ LoadedFrom(disk'[r].index[m.dir], m)
    <3>1. CASE r # job.r BY <1>2, <2>2, <2>4, <3>1
    <3>2. CASE r = job.r /\ m.dir # job.ts
      <4>1. m.dir \in DOMAIN dir.index /\ dir.index[m.dir] = disk[r].index[m.dir]
        BY <2>4, <3>2 DEF dir
      <4> QED BY <1>2, <1>3, <2>4, <3>2, <4>1
    <3>3. CASE r = job.r /\ m.dir = job.ts
      <4>1. Known /\ LoadedFrom(index, m) BY <2>4, <3>3 DEF Known, index, dir
      <4>2. LoadedFrom(x, m) BY <4>1 DEF Advances, SameFile, LoadedFrom
      <4> QED BY <1>2, <1>3, <3>3, <4>2
    <3> QED BY <3>1, <3>2, <3>3
  <2> QED BY <2>1, <2>3, <2>5 DEF Loaded
<1> QED BY <1>5, <1>8, <1>9 DEF KeysInv

(* What a finished job leaves.                                             *)
LEMMA WorkNext ==
  ASSUME Types, NEW d, NEW tree, NEW sound, Finishes(d, tree, sound)
  PROVE  /\ job.r \in ReplicaNames /\ disk'[job.r] = d
         /\ \A r \in ReplicaNames : r # job.r => disk'[r] = disk[r]
         /\ work' \in Seq(Jobs) /\ ToSet(work) = {job} \cup ToSet(work')
         /\ \A j \in ToSet(work') : Waiting(j)
<1>1. work # <<>> /\ job.r \in ReplicaNames /\ work[1] = job BY HeadFacts DEF Finishes
<1>2. disk'[job.r] = d /\ \A r \in ReplicaNames : r # job.r => disk'[r] = disk[r]
  BY <1>1 DEF Types, Finishes
<1>3. /\ Tail(work) \in Seq(Jobs) /\ ToSet(work) = {work[1]} \cup ToSet(Tail(work))
      /\ \A j \in ToSet(Tail(work)) : Waiting(j)
  BY <1>1, WorkSets DEF Types
<1>4. work' = Tail(work) BY DEF Finishes
<1> QED BY <1>1, <1>2, <1>3, <1>4

LEMMA KeysComplete ==
  ASSUME Types, KeysInv, NEW x, NEW tree, NEW sound, Completes(x, tree, sound)
  PROVE  KeysInv'
<1>1. PICK d : Finishes(d, tree, sound) /\ d.index = With(dir.index, job.ts, x) BY DEF Completes
<1>2. /\ job.r \in ReplicaNames
      /\ disk'[job.r] = d /\ \A r \in ReplicaNames : r # job.r => disk'[r] = disk[r]
      /\ work' \in Seq(Jobs) /\ \A j \in ToSet(work') : Waiting(j)
  BY <1>1, WorkNext
<1>3. /\ DOMAIN d.index = DOMAIN dir.index \cup {job.ts} /\ d.index[job.ts] = x
      /\ \A ts \in DOMAIN dir.index : ts # job.ts => d.index[ts] = dir.index[ts]
  BY <1>1 DEF With
<1>4. HeadStage' BY <1>2, NewHead
<1>5. Known /\ EntryOK(index) /\ EntryOK(x) /\ job.do \notin OpenSteps
  <2>1. EntryOK(index) BY <1>2 DEF KeysInv, EntriesOK, Known, index, dir, Completes
  <2> QED BY <2>1, StageNames DEF Completes
<1>6. EntriesOK'
  <2> SUFFICES ASSUME NEW r \in ReplicaNames, NEW ts \in DOMAIN disk'[r].index
               PROVE  EntryOK(disk'[r].index[ts])
    BY DEF EntriesOK
  <2>1. CASE r # job.r BY <1>2, <2>1 DEF KeysInv, EntriesOK
  <2>2. CASE r = job.r /\ ts = job.ts BY <1>2, <1>3, <1>5, <2>2
  <2>3. CASE r = job.r /\ ts # job.ts
    <3>1. ts \in DOMAIN dir.index /\ disk'[r].index[ts] = dir.index[ts] BY <1>2, <1>3, <2>3
    <3> QED BY <2>3, <3>1 DEF KeysInv, EntriesOK, dir
  <2> QED BY <2>1, <2>2, <2>3
<1>7. ASSUME NEW r \in ReplicaNames, NEW m, m.dir \in DOMAIN disk[r].index,
             LoadedFrom(disk[r].index[m.dir], m)
      PROVE  m.dir \in DOMAIN disk'[r].index /\ LoadedFrom(disk'[r].index[m.dir], m)
  <2>1. CASE r # job.r BY <1>2, <1>7, <2>1
  <2>2. CASE r = job.r /\ m.dir # job.ts
    <3>1. m.dir \in DOMAIN dir.index /\ dir.index[m.dir] = disk[r].index[m.dir]
      BY <1>7, <2>2 DEF dir
    <3> QED BY <1>2, <1>3, <1>7, <2>2, <3>1
  <2>3. CASE r = job.r /\ m.dir = job.ts
    <3>1. LoadedFrom(index, m) BY <1>7, <2>3 DEF index, dir
    <3>2. index.file = "complete" => x = index BY DEF Completes
    <3>3. LoadedFrom(x, m) BY <3>1, <3>2 DEF LoadedFrom
    <3> QED BY <1>2, <1>3, <2>3, <3>3
  <2> QED BY <2>1, <2>2, <2>3
<1>8. /\ DOMAIN managers' = DOMAIN managers /\ job.r \in DOMAIN managers
      /\ managers'[job.r] = With(managers[job.r], job.p.ts, [dir |-> job.ts, tree |-> tree, sound |-> sound])
      /\ \A r \in DOMAIN managers : r # job.r => managers'[r] = managers[r]
  BY <1>1, <1>5, Managed
<1>9. ManagersOK'
  <2> SUFFICES ASSUME NEW r \in DOMAIN managers, NEW ts \in DOMAIN managers'[r]
               PROVE  Loaded(r, managers[r][ts])'
    BY <1>8 DEF ManagersOK
  <2>1. r \in ReplicaNames BY MapFacts DEF Types, MemoryOK
  <2>2. PICK m : m = managers'[r][ts] OBVIOUS
  <2>3. \/ ts \in DOMAIN managers[r] /\ m = managers[r][ts]
        \/ r = job.r /\ m = [dir |-> job.ts, tree |-> tree, sound |-> sound]
    <3>1. CASE r # job.r BY <1>8, <2>2, <3>1
    <3>2. CASE r = job.r
      <4>1. PICK a, f : a = [dir |-> job.ts, tree |-> tree, sound |-> sound] /\ f = managers[job.r] OBVIOUS
      <4>2. managers'[r] = With(f, job.p.ts, a) BY <1>8, <3>2, <4>1
      <4>3. ts = job.p.ts => m = a BY <2>2, <4>2 DEF With
      <4>4. ts # job.p.ts => ts \in DOMAIN f /\ m = f[ts] BY <2>2, <4>2 DEF With
      <4> QED BY <3>2, <4>1, <4>3, <4>4
    <3> QED BY <3>1, <3>2
  <2>4. m.dir \in DOMAIN disk'[r].index /\ LoadedFrom(disk'[r].index[m.dir], m)
    <3>1. CASE ts \in DOMAIN managers[r] /\ m = managers[r][ts]
      <4>1. m.dir \in DOMAIN disk[r].index /\ LoadedFrom(disk[r].index[m.dir], m)
        BY <3>1 DEF KeysInv, ManagersOK, Loaded
      <4> QED BY <1>7, <2>1, <4>1
    <3>2. CASE r = job.r /\ m = [dir |-> job.ts, tree |-> tree, sound |-> sound]
      <4>1. m.dir = job.ts /\ m.tree = tree /\ m.sound = sound BY <3>2
      <4>2. LoadedFrom(x, m) BY <4>1 DEF Completes, LoadedFrom
      <4> QED BY <1>2, <1>3, <3>2, <4>1, <4>2
    <3> QED BY <2>3, <3>1, <3>2
  <2> QED BY <2>2, <2>4 DEF Loaded
<1> QED BY <1>4, <1>6, <1>9 DEF KeysInv

LEMMA KeysInit == Init => KeysInv
<1> SUFFICES ASSUME Init PROVE KeysInv
  OBVIOUS
<1>1. HeadStage BY DEF Init, HeadStage
<1>2. EntriesOK BY NoFunctionType DEF Init, EntriesOK, NoDir
<1>3. ManagersOK BY NoFunctionType DEF Init, ManagersOK
<1> QED BY <1>1, <1>2, <1>3 DEF KeysInv

LEMMA KeysOpen ==
  ASSUME Types, KeysInv, Open
  PROVE  KeysInv'
<1>1. /\ Types' /\ work # <<>> /\ \A j \in ToSet(work') : Waiting(j)
      /\ managers' = With(managers, job.r, NoFunction) /\ disk' = disk
  BY OpenTypes
<1>2. HeadStage' BY <1>1, NewHead DEF Types, WorkOK
<1>3. EntriesOK' BY <1>1 DEF KeysInv, EntriesOK
<1>4. ManagersOK'
  <2>1. /\ DOMAIN managers' = DOMAIN managers \cup {job.r} /\ managers'[job.r] = NoFunction
        /\ \A r \in DOMAIN managers : r # job.r => managers'[r] = managers[r]
    BY <1>1 DEF With
  <2> SUFFICES ASSUME NEW r \in DOMAIN managers', NEW ts \in DOMAIN managers'[r]
               PROVE  Loaded(r, managers[r][ts])'
    BY DEF ManagersOK
  <2>2. r # job.r BY <2>1, NoFunctionType
  <2>3. r \in DOMAIN managers /\ managers'[r] = managers[r] BY <2>1, <2>2
  <2>4. Loaded(r, managers[r][ts]) BY <2>3 DEF KeysInv, ManagersOK
  <2> QED BY <1>1, <2>3, <2>4 DEF Loaded
<1> QED BY <1>2, <1>3, <1>4 DEF KeysInv

LEMMA KeysSame ==
  ASSUME Types, KeysInv, UNCHANGED <<disk, memory, work>>
  PROVE  KeysInv'
<1>1. HeadStage' BY DEF KeysInv, HeadStage, job, dir, index
<1>2. UNCHANGED managers BY DEF memory
<1> QED BY <1>1, <1>2, KeysKept

(* Down leaves no job.                                                     *)
LEMMA StopOrCrash ==
  ASSUME Types, Stop \/ Crash
  PROVE  /\ Down /\ Types' /\ status = "up"
         /\ used'.delete = used.delete /\ used'.treeless = used.treeless
         /\ used.crash \in Nat /\ used'.crash \in Nat
         /\ Stop => work = <<>> /\ used'.crash = used.crash
         /\ Crash => used'.crash = used.crash + 1
<1>1. CASE Stop
  <2>1. Used("stop") /\ Down /\ status = "up" /\ work = <<>> BY <1>1 DEF Stop, Idle
  <2>2. used' \in Uses /\ used' = [used EXCEPT !.stop = @ + 1] /\ used \in Uses
    BY <2>1, UsedTypes DEF Types, Used
  <2>3. /\ used'.delete = used.delete /\ used'.crash = used.crash /\ used.crash \in Nat
        /\ used'.treeless = used.treeless
    BY <2>2 DEF Uses
  <2>4. ~Crash BY <2>1 DEF Crash
  <2> QED BY <1>1, <2>1, <2>2, <2>3, <2>4, DownTypes
<1>2. CASE Crash
  <2>1. Used("crash") /\ Down /\ status = "up" /\ work # <<>> BY <1>2 DEF Crash
  <2>2. used' \in Uses /\ used' = [used EXCEPT !.crash = @ + 1] /\ used \in Uses
    BY <2>1, UsedTypes DEF Types, Used
  <2>3. /\ used'.delete = used.delete /\ used'.crash = used.crash + 1 /\ used.crash \in Nat
        /\ used'.crash \in Nat /\ used'.treeless = used.treeless
    BY <2>2 DEF Uses
  <2>4. ~Stop BY <2>1 DEF Stop, Idle
  <2> QED BY <1>2, <2>1, <2>2, <2>3, <2>4, DownTypes
<1> QED BY <1>1, <1>2

LEMMA TypesNext ==
  ASSUME Types, Kind
  PROVE  Types'
<1>1. ASSUME NEW t \in TableNames, NEW p \in 1..MaxPartitions, NEW n \in 1..MaxReplicas, AddTable(t, p, n)
      PROVE  Types'
  BY <1>1, AddTableTypes
<1>2. ASSUME NEW t \in TableNames, NEW k \in Keys, Delete(t, k) PROVE Types'
  <2>1. DataWritten(t, k, Nothing) /\ Used("delete") BY <1>2, DeleteWrites
  <2>2. used' \in Uses BY <2>1, UsedTypes
  <2> QED BY <2>1, <2>2, WritingTypes, Constants
<1>3. ASSUME NEW t \in TableNames, NEW k \in Keys, NEW v \in Vectors, Put(t, k, v) PROVE Types'
  <2>1. DataWritten(t, k, v) /\ v \in Values /\ UNCHANGED used BY <1>3, PutWrites
  <2>2. used' \in Uses BY <2>1 DEF Types
  <2> QED BY <2>1, <2>2, WritingTypes
<1>4. ASSUME NEW t \in TableNames, NEW trees \in BOOLEAN, AddIndex(t, trees) PROVE Types' BY <1>4, AddIndexTypes
<1>5. ASSUME NEW t \in TableNames, NEW limit \in 1..KeyNum, GetKNN(t, limit) PROVE Types'
  BY <1>5, GetKNNTypes
<1>6. CASE MkDir \/ SetDim BY <1>6, OpeningTypes
<1>7. CASE Open BY <1>7, OpenTypes
<1>8. ASSUME NEW j, NEW x, Advances(j, x) PROVE Types' BY <1>8, AdvancesTypes
<1>9. ASSUME NEW x, NEW tree, NEW sound, Completes(x, tree, sound) PROVE Types' BY <1>9, CompletesTypes
<1>10. CASE Aborts BY <1>10, AbortsTypes
<1>11. CASE Stop \/ Crash BY <1>11, StopOrCrash
<1>12. CASE Start BY <1>12, StartTypes
<1> QED BY <1>1, <1>2, <1>3, <1>4, <1>5, <1>6, <1>7, <1>8, <1>9, <1>10, <1>11, <1>12 DEF Kind

LEMMA KeysNext ==
  ASSUME Types, KeysInv, Kind
  PROVE  KeysInv'
<1>0. /\ Types' /\ work' \in Seq(Jobs)
  BY TypesNext DEF Types, WorkOK
<1>1. ASSUME NEW t \in TableNames, NEW p \in 1..MaxPartitions, NEW n \in 1..MaxReplicas, AddTable(t, p, n)
      PROVE  KeysInv'
  <2>1. /\ disk' = disk /\ managers' = managers
        /\ ToSet(work') = {CreateVEngine(r) : r \in ReplicasInTable(saved', t)}
    BY <1>1, AddTableTypes
  <2>2. \A j \in ToSet(work') : Waiting(j)
    <3>1. \A r : CreateVEngine(r).do = "mkdir" BY DEF CreateVEngine, Job
    <3> QED BY <2>1, <3>1 DEF Waiting
  <2>3. HeadStage' BY <1>0, <2>2, NewHead
  <2> QED BY <2>1, <2>3, KeysKept
<1>2. ASSUME NEW t \in TableNames, NEW k \in Keys, NEW v \in Values, DataWritten(t, k, v) PROVE KeysInv'
  <2>1. \A r \in ReplicaNames : disk'[r].index = disk[r].index BY <1>2 DEF DataWritten
  <2>2. UNCHANGED managers /\ work' = <<>> BY <1>2 DEF DataWritten, memory, Idle
  <2>3. HeadStage' BY <2>2 DEF HeadStage
  <2> QED BY <2>1, <2>2, <2>3, KeysKept
<1>3. ASSUME NEW t \in TableNames, NEW trees \in BOOLEAN, AddIndex(t, trees) PROVE KeysInv'
  <2>1. UNCHANGED <<disk, memory>> /\ \A j \in ToSet(work') : j.do = "index dir" BY <1>3, AddIndexTypes
  <2>2. \A j \in ToSet(work') : Waiting(j) BY <2>1 DEF Waiting
  <2>3. HeadStage' BY <1>0, <2>2, NewHead
  <2>4. disk' = disk /\ managers' = managers BY <2>1 DEF memory
  <2> QED BY <2>3, <2>4, KeysKept
<1>4. ASSUME NEW t \in TableNames, NEW limit \in 1..KeyNum, GetKNN(t, limit) PROVE KeysInv'
  BY <1>4, KeysSame DEF GetKNN
<1>5. CASE MkDir \/ SetDim
  <2>1. PICK d, j : GoesOn(d, j) /\ d.index = dir.index /\ j.do \in OpenSteps BY <1>5, OpeningStep
  <2>2. /\ job' = j /\ disk'[job.r] = d
        /\ \A r \in ReplicaNames : r # job.r => disk'[r] = disk[r]
    BY <2>1, HeadNext
  <2>3. \A r \in ReplicaNames : disk'[r].index = disk[r].index BY <2>1, <2>2 DEF dir
  <2>4. HeadStage' BY <2>1, <2>2, StageNames DEF HeadStage
  <2>5. UNCHANGED managers BY <2>1 DEF GoesOn, memory
  <2> QED BY <2>3, <2>4, <2>5, KeysKept
<1>6. CASE Open BY <1>6, KeysOpen
<1>7. ASSUME NEW j, NEW x, Advances(j, x) PROVE KeysInv' BY <1>7, KeysAdvance
<1>8. ASSUME NEW x, NEW tree, NEW sound, Completes(x, tree, sound) PROVE KeysInv' BY <1>8, KeysComplete
<1>9. CASE Aborts BY <1>9, KeysSame DEF Aborts
<1>10. CASE Stop \/ Crash
  <2>1. Down BY <1>10, StopOrCrash
  <2>2. disk' = disk /\ managers' = NoFunction /\ work' = <<>> BY <2>1 DEF Down
  <2>3. HeadStage' BY <2>2 DEF HeadStage
  <2> QED BY <2>2, <2>3, KeysKept
<1>11. CASE Start
  <2>1. /\ disk' = disk /\ managers' = managers
        /\ ToSet(work') = {CreateVEngine(r) : r \in {q \in ReplicaNames : Among(q, saved)}}
    BY <1>11, StartTypes
  <2>2. \A j \in ToSet(work') : Waiting(j)
    <3>1. \A r : CreateVEngine(r).do = "mkdir" BY DEF CreateVEngine, Job
    <3> QED BY <2>1, <3>1 DEF Waiting
  <2>3. HeadStage' BY <1>0, <2>2, NewHead
  <2> QED BY <2>1, <2>3, KeysKept
<1>12. ASSUME NEW t \in TableNames, NEW k \in Keys, Delete(t, k) PROVE KeysInv'
  BY <1>2, <1>12, DeleteWrites, Constants
<1>13. ASSUME NEW t \in TableNames, NEW k \in Keys, NEW v \in Vectors, Put(t, k, v) PROVE KeysInv'
  BY <1>2, <1>13, PutWrites
<1> QED BY <1>1, <1>3, <1>4, <1>5, <1>6, <1>7, <1>8, <1>9, <1>10, <1>11, <1>12, <1>13 DEF Kind

LEMMA ItemsFollow ==
  ASSUME Types, KeysInv
  PROVE  ItemsHaveKeys
<1> SUFFICES ASSUME NEW r \in DOMAIN managers, NEW ts \in DOMAIN managers[r],
                    NEW i, i = managers[r][ts], i.sound, NEW id \in DOMAIN i.tree
             PROVE  /\ id \in DOMAIN disk[r].index[i.dir].keyid
                    /\ disk[r].index[i.dir].keyid[id] = i.tree[id]
  BY DEF ItemsHaveKeys
<1>1. managers \in Maps(ReplicaNames, Indexes) BY DEF Types, MemoryOK
<1>2. r \in ReplicaNames /\ managers[r] \in Indexes BY <1>1, MapFacts
<1>3. i \in Loads
  <2>1. managers[r] \in Maps(Stamps, Loads) BY <1>2 DEF Indexes
  <2> QED BY <2>1, MapFacts
<1>4. i.tree \in Seq(Keys) /\ id \in 1..Len(i.tree) /\ i.sound = TRUE BY <1>3 DEF Loads
<1>5. PICK x : x = disk[r].index[i.dir] OBVIOUS
<1>6. i.dir \in DOMAIN disk[r].index /\ x.file = "complete" /\ x.tree = i.tree
  <2>1. Loaded(r, i) BY DEF KeysInv, ManagersOK
  <2> QED BY <1>4, <1>5, <2>1 DEF Loaded, LoadedFrom
<1>7. EntryOK(x) BY <1>2, <1>5, <1>6 DEF KeysInv, EntriesOK
<1>8. UpTo(x.keyid, i.tree, Len(i.tree)) BY <1>6, <1>7 DEF EntryOK
<1> QED BY <1>4, <1>5, <1>8 DEF UpTo

-----------------------------------------------------------------------------
(* The store.  As long as the uids are distinct, a value is where its key  *)
(* is looked for and nowhere else, and a replica that has no engine yet    *)
(* has a job that will open one.                                           *)

UidIn(tbl, r) == tbl[r[1]].uid[r[2]]
LeaderIn(tbl, t, k) == <<t, <<PartitionId(k, tbl[t].partition_num), 0>>>>

DistinctIn(tbl) ==
  \A q, r \in ReplicaNames : (Among(q, tbl) /\ Among(r, tbl) /\ q # r) => UidIn(tbl, q) # UidIn(tbl, r)

Home(tbl, r, k) == Among(r, tbl) /\ r = LeaderIn(tbl, r[1], k)

PlacedOK ==
  \A r \in ReplicaNames, k \in Keys :
     /\ Home(saved, r, k) => disk[r].data[k] = written[r[1]][k]
     /\ ~Home(saved, r, k) => disk[r].data[k] = Nothing

Registered(r) == UidIn(saved, r) \in DOMAIN engines /\ engines[UidIn(saved, r)] = r
Pending(r) == \E j \in ToSet(work) : j.r = r /\ j.do \in OpenSteps
AllOpen ==
  status = "up" => \A r \in ReplicaNames : Among(r, saved) => Registered(r) \/ Pending(r)

NoneWritten == \A t \in TableNames \ DOMAIN saved : \A k \in Keys : written[t][k] = Nothing

StoreInv == NoneWritten /\ (DistinctIn(saved) => PlacedOK /\ AllOpen)

LEMMA StoreKept ==
  ASSUME StoreInv, UNCHANGED <<saved, written>>, \A r \in ReplicaNames : disk'[r].data = disk[r].data,
         (DistinctIn(saved) /\ AllOpen) => AllOpen'
  PROVE  StoreInv'
<1>1. NoneWritten' BY DEF StoreInv, NoneWritten
<1>2. DistinctIn(saved)' => DistinctIn(saved) OBVIOUS
<1>3. ASSUME DistinctIn(saved) PROVE PlacedOK' /\ AllOpen'
  <2>1. PlacedOK /\ AllOpen BY <1>3 DEF StoreInv
  <2>2. PlacedOK' BY <2>1 DEF PlacedOK
  <2> QED BY <1>3, <2>1, <2>2
<1> QED BY <1>1, <1>2, <1>3 DEF StoreInv

LEMMA EmptyWork == ToSet(<<>>) = {}
BY DEF ToSet

LEMMA IdleRegistered ==
  ASSUME Types, StoreInv, Idle, DistinctIn(saved), NEW r \in ReplicaNames, Among(r, saved)
  PROVE  Registered(r)
<1>1. status = "up" /\ work = <<>> BY DEF Idle
<1>2. ~Pending(r) BY <1>1, EmptyWork DEF Pending
<1> QED BY <1>1, <1>2 DEF StoreInv, AllOpen

LEMMA StoreAddTable ==
  ASSUME Types, StoreInv, NEW t \in TableNames, NEW p \in 1..MaxPartitions, NEW n \in 1..MaxReplicas,
         AddTable(t, p, n)
  PROVE  StoreInv' /\ (UidsDistinct' => UidsDistinct)
<1>1. /\ Types' /\ tables' = saved' /\ status = "up" /\ work = <<>>
      /\ DOMAIN saved' = DOMAIN saved \cup {t} /\ t \notin DOMAIN saved
      /\ \A u \in DOMAIN saved : saved'[u] = saved[u]
      /\ \A r : Among(r, saved) => Among(r, saved')
      /\ ToSet(work') = {CreateVEngine(r) : r \in ReplicasInTable(saved', t)}
      /\ UNCHANGED <<disk, engines, managers, status, results, written, used>>
  BY AddTableTypes
<1>2. ASSUME NEW r, r[1] # t
      PROVE  /\ Among(r, saved') <=> Among(r, saved)
             /\ Among(r, saved) => UidIn(saved', r) = UidIn(saved, r)
             /\ \A k \in Keys : Home(saved', r, k) <=> Home(saved, r, k)
  <2>1. r[1] \in DOMAIN saved' <=> r[1] \in DOMAIN saved BY <1>1, <1>2
  <2>2. r[1] \in DOMAIN saved => saved'[r[1]] = saved[r[1]] BY <1>1
  <2>3. Among(r, saved') <=> Among(r, saved) BY <2>1, <2>2 DEF Among
  <2>4. Among(r, saved) => UidIn(saved', r) = UidIn(saved, r) BY <2>2 DEF Among, UidIn
  <2>5. Among(r, saved) => \A k \in Keys : LeaderIn(saved', r[1], k) = LeaderIn(saved, r[1], k)
    BY <2>2 DEF Among, LeaderIn
  <2> QED BY <2>3, <2>4, <2>5 DEF Home
<1>3. \A r : Among(r, saved) => r[1] # t BY <1>1 DEF Among
<1>4. ASSUME DistinctIn(saved') PROVE DistinctIn(saved)
  <2> SUFFICES ASSUME NEW q \in ReplicaNames, NEW r \in ReplicaNames, Among(q, saved), Among(r, saved), q # r
               PROVE  UidIn(saved, q) # UidIn(saved, r)
    BY DEF DistinctIn
  <2>1. Among(q, saved') /\ Among(r, saved') BY <1>1
  <2>2. UidIn(saved', q) = UidIn(saved, q) /\ UidIn(saved', r) = UidIn(saved, r) BY <1>2, <1>3
  <2>3. UidIn(saved', q) # UidIn(saved', r) BY <1>4, <2>1 DEF DistinctIn
  <2> QED BY <2>2, <2>3
<1>5. NoneWritten' BY <1>1 DEF StoreInv, NoneWritten
<1>6. ASSUME DistinctIn(saved') PROVE PlacedOK'
  <2>1. PlacedOK BY <1>4, <1>6 DEF StoreInv
  <2> SUFFICES ASSUME NEW r \in ReplicaNames, NEW k \in Keys
               PROVE  /\ Home(saved', r, k) => disk[r].data[k] = written[r[1]][k]
                      /\ ~Home(saved', r, k) => disk[r].data[k] = Nothing
    BY <1>1 DEF PlacedOK
  <2>2. /\ Home(saved, r, k) => disk[r].data[k] = written[r[1]][k]
        /\ ~Home(saved, r, k) => disk[r].data[k] = Nothing
    BY <2>1 DEF PlacedOK
  <2>3. CASE r[1] # t BY <1>2, <2>2, <2>3
  <2>4. CASE r[1] = t
    <3>1. written[t][k] = Nothing BY <1>1 DEF StoreInv, NoneWritten
    <3>2. ~Home(saved, r, k) BY <1>3, <2>4 DEF Home
    <3> QED BY <2>2, <2>4, <3>1, <3>2
  <2> QED BY <2>3, <2>4
<1>7. ASSUME DistinctIn(saved') PROVE AllOpen'
  <2> SUFFICES ASSUME NEW r \in ReplicaNames, Among(r, saved') PROVE Registered(r)' \/ Pending(r)'
    BY DEF AllOpen
  <2>1. CASE r[1] # t
    <3>1. Among(r, saved) /\ UidIn(saved', r) = UidIn(saved, r) BY <1>2, <2>1
    <3>2. Idle /\ DistinctIn(saved) BY <1>1, <1>4, <1>7 DEF Idle
    <3>3. Registered(r) BY <3>1, <3>2, IdleRegistered
    <3>4. Registered(r)' BY <1>1, <3>1, <3>3 DEF Registered
    <3> QED BY <3>4
  <2>2. CASE r[1] = t
    <3>1. TablesOK(saved') /\ t \in DOMAIN saved' BY <1>1 DEF Types
    <3>2. r \in ReplicasInTable(saved', t) BY <2>2, <3>1, SlotFacts
    <3>3. CreateVEngine(r) \in ToSet(work') BY <1>1, <3>2
    <3>4. CreateVEngine(r).r = r /\ CreateVEngine(r).do \in OpenSteps
      BY DEF CreateVEngine, Job, OpenSteps
    <3> QED BY <3>3, <3>4 DEF Pending
  <2> QED BY <2>1, <2>2
<1>8. tables = saved BY <1>1 DEF Types, ProcessOK
<1>9. (UidsDistinct' <=> DistinctIn(tables')) /\ (UidsDistinct <=> DistinctIn(tables))
  BY DEF UidsDistinct, DistinctIn, IsReplica, Among, UidOf, UidIn
<1> QED BY <1>1, <1>4, <1>5, <1>6, <1>7, <1>8, <1>9 DEF StoreInv

LEMMA StoreWriting ==
  ASSUME Types, StoreInv, NEW t \in TableNames, NEW key \in Keys, NEW v \in Values, DataWritten(t, key, v)
  PROVE  StoreInv'
<1>1. /\ Idle /\ HasEngine(t, key) /\ UNCHANGED <<saved, memory, work, status>>
      /\ written' = [written EXCEPT ![t][key] = v]
  BY DEF DataWritten
<1>2. tables = saved /\ t \in DOMAIN saved /\ TablesOK(saved)
  BY <1>1 DEF Types, ProcessOK, Idle, HasEngine
<1>3. /\ written \in [TableNames -> [Keys -> Values]]
      /\ \A u \in TableNames, k \in Keys : written'[u][k] = IF u = t /\ k = key THEN v ELSE written[u][k]
  BY <1>1 DEF Types
<1>4. NoneWritten' BY <1>1, <1>2, <1>3 DEF StoreInv, NoneWritten
<1>5. ASSUME DistinctIn(saved)' PROVE PlacedOK' /\ AllOpen'
  <2>1. DistinctIn(saved) /\ PlacedOK /\ AllOpen BY <1>1, <1>5 DEF StoreInv
  <2>2. PICK h : h = LeaderIn(saved, t, key) OBVIOUS
  <2>3. h \in ReplicaNames /\ Among(h, saved) /\ h[1] = t /\ Home(saved, h, key)
    <3>1. /\ <<PartitionId(key, saved[t].partition_num), 0>> \in DOMAIN saved[t].uid
          /\ h \in ReplicaNames
      BY <1>2, <2>2, SlotFacts DEF LeaderIn
    <3>2. h[1] = t /\ h[2] = <<PartitionId(key, saved[t].partition_num), 0>> BY <2>2 DEF LeaderIn
    <3>3. Among(h, saved) BY <1>2, <3>1, <3>2 DEF Among
    <3> QED BY <2>2, <3>1, <3>2, <3>3 DEF Home
  <2>4. VEngineOf(t, key) = h
    <3>1. Registered(h) BY <1>1, <2>1, <2>3, IdleRegistered
    <3>2. Leader(t, key) = h BY <1>2, <2>2 DEF Leader, LeaderIn
    <3>3. VEngineOf(t, key) = engines[UidIn(saved, h)] BY <1>2, <3>2 DEF VEngineOf, UidOf, UidIn
    <3> QED BY <3>1, <3>3 DEF Registered
  <2>5. ASSUME NEW r \in ReplicaNames, NEW k \in Keys
        PROVE  /\ Home(saved, r, k) => disk'[r].data[k] = written'[r[1]][k]
               /\ ~Home(saved, r, k) => disk'[r].data[k] = Nothing
    <3>1. /\ Home(saved, r, k) => disk[r].data[k] = written[r[1]][k]
          /\ ~Home(saved, r, k) => disk[r].data[k] = Nothing
      BY <2>1 DEF PlacedOK
    <3>2. disk'[r].data[k] = IF r = h /\ k = key THEN v ELSE disk[r].data[k]
      BY <2>4 DEF DataWritten
    <3>3. r[1] \in TableNames BY DEF ReplicaNames
    <3>4. written'[r[1]][k] = IF r[1] = t /\ k = key THEN v ELSE written[r[1]][k] BY <1>3, <3>3
    <3>5. CASE r = h /\ k = key BY <2>3, <3>2, <3>4, <3>5
    <3>6. CASE ~(r = h /\ k = key)
      <4>1. disk'[r].data[k] = disk[r].data[k] BY <3>2, <3>6
      <4>2. ASSUME Home(saved, r, k) PROVE ~(r[1] = t /\ k = key)
        BY <2>2, <3>6, <4>2 DEF Home
      <4> QED BY <3>1, <3>4, <4>1, <4>2
    <3> QED BY <3>5, <3>6
  <2>6. PlacedOK' BY <1>1, <2>5 DEF PlacedOK
  <2>7. AllOpen' BY <1>1, <2>1 DEF AllOpen, Registered, Pending, memory
  <2> QED BY <2>6, <2>7
<1> QED BY <1>4, <1>5 DEF StoreInv

(* A job that goes on stays a job for the same replica, of the same sort.  *)
LEMMA StoreGoesOn ==
  ASSUME Types, StoreInv, NEW d, NEW j, GoesOn(d, j)
  PROVE  StoreInv'
<1>1. /\ job.r \in ReplicaNames /\ disk'[job.r] = d
      /\ \A r \in ReplicaNames : r # job.r => disk'[r] = disk[r]
      /\ ToSet(work) = {job} \cup ToSet(Tail(work)) /\ ToSet(work') = {j} \cup ToSet(Tail(work))
  BY HeadNext
<1>2. /\ d.data = dir.data /\ j.r = job.r /\ (j.do \in OpenSteps <=> job.do \in OpenSteps)
      /\ UNCHANGED <<saved, memory, status, results, written, used>>
  BY DEF GoesOn
<1>3. \A r \in ReplicaNames : disk'[r].data = disk[r].data BY <1>1, <1>2 DEF dir
<1>4. \A r : Pending(r) => Pending(r)' BY <1>1, <1>2 DEF Pending
<1>5. \A r : Registered(r) => Registered(r)' BY <1>2 DEF Registered, memory
<1>6. AllOpen => AllOpen' BY <1>2, <1>4, <1>5 DEF AllOpen
<1> QED BY <1>2, <1>3, <1>6, StoreKept

LEMMA StoreFinishes ==
  ASSUME Types, StoreInv, NEW d, NEW tree, NEW sound, Finishes(d, tree, sound), job.do \notin OpenSteps
  PROVE  StoreInv'
<1>1. /\ job.r \in ReplicaNames /\ disk'[job.r] = d
      /\ \A r \in ReplicaNames : r # job.r => disk'[r] = disk[r]
      /\ ToSet(work) = {job} \cup ToSet(work')
  BY WorkNext
<1>2. /\ d.data = dir.data
      /\ UNCHANGED <<saved, tables, replica_uid, engines, status, results, written, used>>
  BY DEF Finishes
<1>3. \A r \in ReplicaNames : disk'[r].data = disk[r].data BY <1>1, <1>2 DEF dir
<1>4. \A r : Pending(r) => Pending(r)' BY <1>1 DEF Pending
<1>5. \A r : Registered(r) => Registered(r)' BY <1>2 DEF Registered
<1>6. AllOpen => AllOpen' BY <1>2, <1>4, <1>5 DEF AllOpen
<1> QED BY <1>2, <1>3, <1>6, StoreKept

(* An engine is entered under a uid that no other replica has.             *)
LEMMA StoreOpen ==
  ASSUME Types, StoreInv, Open
  PROVE  StoreInv'
<1>1. /\ status = "up" /\ work # <<>> /\ engines' = With(engines, UidOf(job.r), job.r)
      /\ UNCHANGED <<saved, disk, tables, replica_uid, status, results, written, used>>
      /\ ToSet(Tail(work)) \subseteq ToSet(work')
  BY OpenTypes
<1>2. job.r \in ReplicaNames /\ Among(job.r, tables) /\ work[1] = job BY <1>1, HeadFacts DEF JobOK
<1>3. tables = saved BY <1>1 DEF Types, ProcessOK
<1>4. ToSet(work) = {job} \cup ToSet(Tail(work)) BY <1>1, <1>2, WorkSets DEF Types
<1>5. PICK u : u = UidIn(saved, job.r) OBVIOUS
<1>6. /\ DOMAIN engines' = DOMAIN engines \cup {u} /\ engines'[u] = job.r
      /\ \A w \in DOMAIN engines : w # u => engines'[w] = engines[w]
  <2>1. engines' = With(engines, u, job.r) BY <1>1, <1>3, <1>5 DEF UidOf, UidIn
  <2> QED BY <2>1 DEF With
<1>7. ASSUME DistinctIn(saved), AllOpen PROVE AllOpen'
  <2> SUFFICES ASSUME NEW r \in ReplicaNames, Among(r, saved) PROVE Registered(r)' \/ Pending(r)'
    BY <1>1 DEF AllOpen
  <2>1. CASE r = job.r BY <1>1, <1>5, <1>6, <2>1 DEF Registered
  <2>2. CASE r # job.r
    <3>1. UidIn(saved, r) # u BY <1>2, <1>3, <1>5, <1>7, <2>2 DEF DistinctIn
    <3>2. CASE Registered(r) BY <1>1, <1>6, <3>1, <3>2 DEF Registered
    <3>3. CASE Pending(r) BY <1>1, <1>4, <2>2, <3>3 DEF Pending
    <3> QED BY <1>1, <1>7, <3>2, <3>3 DEF AllOpen
  <2> QED BY <2>1, <2>2
<1> QED BY <1>1, <1>7, StoreKept

LEMMA StoreStart ==
  ASSUME Types, StoreInv, Start
  PROVE  StoreInv'
<1>1. /\ ToSet(work') = {CreateVEngine(r) : r \in {q \in ReplicaNames : Among(q, saved)}}
      /\ UNCHANGED <<saved, disk, written>>
  BY StartTypes
<1>2. ASSUME NEW r \in ReplicaNames, Among(r, saved) PROVE Pending(r)'
  <2>1. CreateVEngine(r) \in ToSet(work') BY <1>1, <1>2
  <2>2. CreateVEngine(r).r = r /\ CreateVEngine(r).do \in OpenSteps
    BY DEF CreateVEngine, Job, OpenSteps
  <2> QED BY <2>1, <2>2 DEF Pending
<1>3. AllOpen' BY <1>1, <1>2 DEF AllOpen
<1> QED BY <1>1, <1>3, StoreKept

(* Nothing is opened or written.                                           *)
LEMMA StoreSame ==
  ASSUME Types, StoreInv, UNCHANGED <<saved, disk, engines, written>>,
         status' # "up" \/ (UNCHANGED status /\ (UNCHANGED work \/ work = <<>>))
  PROVE  StoreInv'
<1>1. ASSUME AllOpen PROVE AllOpen'
  <2>1. CASE status' # "up" BY <2>1 DEF AllOpen
  <2>2. CASE UNCHANGED <<status, work>> BY <1>1, <2>2 DEF AllOpen, Registered, Pending
  <2>3. CASE UNCHANGED status /\ work = <<>>
    <3>1. \A r : ~Pending(r) BY <2>3, EmptyWork DEF Pending
    <3> QED BY <1>1, <2>3, <3>1 DEF AllOpen, Registered
  <2> QED BY <2>1, <2>2, <2>3
<1> QED BY <1>1, StoreKept

LEMMA StoreInit == Init => StoreInv
<1> SUFFICES ASSUME Init PROVE StoreInv
  OBVIOUS
<1>1. \A r : ~Among(r, saved) BY NoFunctionType DEF Init, Among
<1>2. NoneWritten BY DEF Init, NoneWritten
<1>3. PlacedOK BY <1>1 DEF Init, PlacedOK, Home, NoDir
<1>4. AllOpen BY <1>1 DEF AllOpen
<1> QED BY <1>2, <1>3, <1>4 DEF StoreInv

LEMMA StoreNext ==
  ASSUME Types, StoreInv, Kind
  PROVE  StoreInv'
<1>1. ASSUME NEW t \in TableNames, NEW p \in 1..MaxPartitions, NEW n \in 1..MaxReplicas, AddTable(t, p, n)
      PROVE  StoreInv'
  BY <1>1, StoreAddTable
<1>2. ASSUME NEW t \in TableNames, NEW k \in Keys, Delete(t, k) PROVE StoreInv'
  BY <1>2, DeleteWrites, StoreWriting, Constants
<1>3. ASSUME NEW t \in TableNames, NEW k \in Keys, NEW v \in Vectors, Put(t, k, v) PROVE StoreInv'
  BY <1>3, PutWrites, StoreWriting
<1>4. ASSUME NEW t \in TableNames, NEW trees \in BOOLEAN, AddIndex(t, trees) PROVE StoreInv'
  BY <1>4, StoreSame DEF AddIndex, Idle, memory
<1>5. ASSUME NEW t \in TableNames, NEW limit \in 1..KeyNum, GetKNN(t, limit) PROVE StoreInv'
  <2>1. UNCHANGED <<saved, disk, memory, work, written, used>> BY <1>5 DEF GetKNN
  <2>2. status' = "knn" \/ UNCHANGED status BY <1>5 DEF GetKNN, Abort
  <2> QED BY <2>1, <2>2, StoreSame DEF memory
<1>6. CASE MkDir \/ SetDim
  <2>1. PICK d, j : GoesOn(d, j) BY <1>6, OpeningStep
  <2> QED BY <2>1, StoreGoesOn
<1>7. CASE Open BY <1>7, StoreOpen
<1>8. ASSUME NEW j, NEW x, Advances(j, x) PROVE StoreInv'
  <2>1. PICK d : GoesOn(d, j) BY <1>8 DEF Advances, IndexStep
  <2> QED BY <2>1, StoreGoesOn
<1>9. ASSUME NEW x, NEW tree, NEW sound, Completes(x, tree, sound) PROVE StoreInv'
  <2>1. PICK d : Finishes(d, tree, sound) BY <1>9 DEF Completes
  <2>2. job.do \notin OpenSteps BY <1>9, StageNames DEF Completes
  <2> QED BY <2>1, <2>2, StoreFinishes
<1>10. CASE Aborts
  <2>1. status' # "up" /\ UNCHANGED <<saved, disk, engines, written>> BY <1>10 DEF Aborts, memory
  <2> QED BY <2>1, StoreSame
<1>11. CASE Stop \/ Crash
  <2>1. Down BY <1>11, StopOrCrash
  <2>2. status' # "up" /\ UNCHANGED <<saved, disk, written>> BY <2>1 DEF Down
  <2>3. AllOpen' BY <2>2 DEF AllOpen
  <2> QED BY <2>2, <2>3, StoreKept
<1>12. CASE Start BY <1>12, StoreStart
<1> QED BY <1>1, <1>2, <1>3, <1>4, <1>5, <1>6, <1>7, <1>8, <1>9, <1>10, <1>11, <1>12 DEF Kind

(* The process between calls, in the words of the tables in memory.        *)
LEMMA SameTables ==
  ASSUME Types, status = "up"
  PROVE  /\ tables = saved /\ TablesOK(saved) /\ (UidsDistinct <=> DistinctIn(saved))
         /\ \A r : (IsReplica(r) <=> Among(r, saved)) /\ UidOf(r) = UidIn(saved, r)
         /\ \A t, k : Leader(t, k) = LeaderIn(saved, t, k)
<1>1. tables = saved /\ TablesOK(saved) BY DEF Types, ProcessOK
<1> QED BY <1>1 DEF UidsDistinct, DistinctIn, IsReplica, Among, UidOf, UidIn, Leader, LeaderIn

LEMMA LeaderFacts ==
  ASSUME TablesOK(saved), NEW t \in DOMAIN saved, NEW k \in Keys, NEW h, h = LeaderIn(saved, t, k)
  PROVE  h \in ReplicaNames /\ Among(h, saved) /\ h[1] = t /\ Home(saved, h, k)
<1>1. /\ <<PartitionId(k, saved[t].partition_num), 0>> \in DOMAIN saved[t].uid
      /\ h \in ReplicaNames
  BY SlotFacts DEF LeaderIn
<1>2. h[1] = t /\ h[2] = <<PartitionId(k, saved[t].partition_num), 0>> BY DEF LeaderIn
<1>3. Among(h, saved) BY <1>1, <1>2 DEF Among
<1> QED BY <1>1, <1>2, <1>3 DEF Home

LEMMA StoreIsIntact ==
  ASSUME Types, StoreInv
  PROVE  StoreIntact
<1>1. ASSUME Idle, UidsDistinct, NEW r \in ReplicaNames, IsReplica(r)
      PROVE  UidOf(r) \in DOMAIN engines /\ engines[UidOf(r)] = r
  <2>1. status = "up" BY <1>1 DEF Idle
  <2>2. DistinctIn(saved) /\ Among(r, saved) /\ UidOf(r) = UidIn(saved, r) BY <1>1, <2>1, SameTables
  <2>3. Registered(r) BY <1>1, <2>2, IdleRegistered
  <2> QED BY <2>2, <2>3 DEF Registered
<1>2. ASSUME Idle, UidsDistinct, NEW t \in TableNames, NEW k \in Keys
      PROVE  Get(t, k) = written[t][k]
  <2>1. status = "up" BY <1>2 DEF Idle
  <2>2. tables = saved /\ TablesOK(saved) /\ DistinctIn(saved) BY <1>2, <2>1, SameTables
  <2>3. CASE t \notin DOMAIN tables
    <3>1. written[t][k] = Nothing BY <2>2, <2>3 DEF StoreInv, NoneWritten
    <3> QED BY <2>3, <3>1 DEF Get, HasEngine
  <2>4. CASE t \in DOMAIN tables
    <3>1. PICK h : h = Leader(t, k) OBVIOUS
    <3>2. h = LeaderIn(saved, t, k) BY <2>1, <3>1, SameTables
    <3>3. h \in ReplicaNames /\ Among(h, saved) /\ h[1] = t /\ Home(saved, h, k)
      BY <2>2, <2>4, <3>2, LeaderFacts
    <3>4. IsReplica(h) BY <2>1, <3>3, SameTables
    <3>5. UidOf(h) \in DOMAIN engines /\ engines[UidOf(h)] = h BY <1>1, <1>2, <3>3, <3>4
    <3>6. HasEngine(t, k) /\ VEngineOf(t, k) = h BY <2>4, <3>1, <3>5 DEF HasEngine, VEngineOf
    <3>7. disk[h].data[k] = written[h[1]][k] BY <2>2, <3>3 DEF StoreInv, PlacedOK
    <3> QED BY <3>3, <3>6, <3>7 DEF Get
  <2> QED BY <2>3, <2>4
<1> QED BY <1>1, <1>2 DEF StoreIntact, PutsSurvive, EveryReplicaOpen

-----------------------------------------------------------------------------
(* Searches.                                                               *)

LEMMA SearchStep ==
  ASSUME NEW t \in TableNames, NEW limit \in 1..KeyNum, GetKNN(t, limit)
  PROVE  \E found \in Searches(t) :
           /\ \A r \in Searched(t) : found[r] \subseteq Findable(r)
           /\ \/ /\ \E r \in Searched(t) : \E id \in found[r] : ~Stored(r, id)
                 /\ status' = "knn" /\ UNCHANGED results
              \/ /\ \A r \in Searched(t) : \A id \in found[r] : Stored(r, id)
                 /\ \A y \in results' : \E r \in Searched(t) : \E id \in found[r] :
                       y = <<r, KeyidOf(r)[id]>>
                 /\ UNCHANGED status
<1>1. PICK found \in Searches(t) :
       /\ \A r \in Searched(t) : /\ found[r] \subseteq Findable(r)
                                 /\ Cardinality(found[r]) <= limit
       /\ IF \E r \in Searched(t) : \E id \in found[r] : ~Stored(r, id)
            THEN Abort("knn") /\ UNCHANGED results
            ELSE LET all == UNION {{<<r, KeyidOf(r)[id]>> : id \in found[r]} : r \in Searched(t)}
                 IN  /\ results' \in kSubset(Min({limit, Cardinality(all)}), all)
                     /\ UNCHANGED status
  BY DEF GetKNN
<1>2. CASE \E r \in Searched(t) : \E id \in found[r] : ~Stored(r, id)
  BY <1>1, <1>2 DEF Abort
<1>3. CASE ~\E r \in Searched(t) : \E id \in found[r] : ~Stored(r, id)
  <2>1. PICK all : all = UNION {{<<r, KeyidOf(r)[id]>> : id \in found[r]} : r \in Searched(t)}
    OBVIOUS
  <2>2. results' \in kSubset(Min({limit, Cardinality(all)}), all) /\ UNCHANGED status
    BY <1>1, <1>3, <2>1
  <2>3. results' \subseteq all BY <2>2 DEF kSubset
  <2>4. \A y \in all : \E r \in Searched(t) : \E id \in found[r] : y = <<r, KeyidOf(r)[id]>>
    BY <2>1
  <2> QED BY <1>1, <1>3, <2>2, <2>3, <2>4
<1> QED BY <1>2, <1>3

(* What is searched is open.                                               *)
LEMMA SearchedFacts ==
  ASSUME Types, NEW t \in DOMAIN tables, NEW r \in Searched(t)
  PROVE  /\ r \in DOMAIN managers /\ DOMAIN managers[r] # {} /\ r \in ReplicaNames
         /\ \E q \in ReplicasInTable(tables, t) : UidOf(q) \in DOMAIN engines /\ r = engines[UidOf(q)]
<1>1. /\ \E q \in ReplicasInTable(tables, t) : UidOf(q) \in DOMAIN engines /\ r = engines[UidOf(q)]
      /\ DOMAIN managers[r] # {}
  BY DEF Searched
<1>2. r \in DOMAIN managers BY <1>1 DEF Types, MemoryOK
<1>3. r \in ReplicaNames BY <1>2, MapFacts DEF Types, MemoryOK
<1> QED BY <1>1, <1>2, <1>3

LEMMA NoKeyTwiceSearch ==
  ASSUME Types, StoreInv, NoKeyTwice, NEW t \in TableNames, NEW limit \in 1..KeyNum, GetKNN(t, limit),
         \A r \in Searched(t) : \A id \in DOMAIN KeyidOf(r) : KeyidOf(r)[id] \in Keys
  PROVE  NoKeyTwice'
<1>1. PICK found \in Searches(t) :
           /\ \A r \in Searched(t) : found[r] \subseteq Findable(r)
           /\ \/ /\ \E r \in Searched(t) : \E id \in found[r] : ~Stored(r, id)
                 /\ status' = "knn" /\ UNCHANGED results
              \/ /\ \A r \in Searched(t) : \A id \in found[r] : Stored(r, id)
                 /\ \A y \in results' : \E r \in Searched(t) : \E id \in found[r] :
                       y = <<r, KeyidOf(r)[id]>>
                 /\ UNCHANGED status
  BY SearchStep
<1>2. /\ Idle /\ status = "up" /\ t \in DOMAIN tables
      /\ UNCHANGED <<saved, disk, memory, work, written, used>>
  BY DEF GetKNN, Idle
<1>3. UidsDistinct' <=> UidsDistinct BY <1>2 DEF UidsDistinct, IsReplica, UidOf, memory
<1>4. CASE UNCHANGED results BY <1>3, <1>4 DEF NoKeyTwice
<1>5. CASE /\ \A r \in Searched(t) : \A id \in found[r] : Stored(r, id)
           /\ \A y \in results' : \E r \in Searched(t) : \E id \in found[r] :
                 y = <<r, KeyidOf(r)[id]>>
  <2> SUFFICES ASSUME UidsDistinct, NEW x \in results', NEW y \in results', x[2] = y[2]
               PROVE  x = y
    BY <1>3 DEF NoKeyTwice
  <2>1. tables = saved /\ TablesOK(saved) /\ DistinctIn(saved) BY <1>2, SameTables
  <2>2. ASSUME NEW z \in results'
        PROVE  z[2] \in Keys /\ z[1] = LeaderIn(saved, t, z[2]) /\ z = <<z[1], z[2]>>
    <3>0. PICK r \in Searched(t) : \E id \in found[r] : z = <<r, KeyidOf(r)[id]>> BY <1>5
    <3>1. PICK id \in found[r] : z = <<r, KeyidOf(r)[id]>> BY <3>0
    <3>2. PICK k : k = KeyidOf(r)[id] OBVIOUS
    <3>3. id \in DOMAIN KeyidOf(r) /\ disk[r].data[k] # Nothing BY <1>5, <3>2 DEF Stored
    <3>4. k \in Keys BY <3>2, <3>3
    <3>5. PICK q \in ReplicasInTable(tables, t) : UidOf(q) \in DOMAIN engines /\ r = engines[UidOf(q)]
      BY <1>2, SearchedFacts
    <3>6. q \in ReplicaNames /\ Among(q, saved) /\ q[1] = t BY <1>2, <2>1, <3>5, SlotFacts
    <3>7. Registered(q) BY <1>2, <2>1, <3>6, IdleRegistered
    <3>8. r = q BY <1>2, <3>5, <3>7, SameTables DEF Registered
    <3>9. Home(saved, q, k) BY <2>1, <3>3, <3>4, <3>6, <3>8 DEF StoreInv, PlacedOK
    <3>10. q = LeaderIn(saved, t, k) BY <3>6, <3>9 DEF Home
    <3>11. z[1] = q /\ z[2] = k /\ z = <<q, k>> BY <3>1, <3>2, <3>8
    <3> QED BY <3>4, <3>10, <3>11
  <2>3. x[1] = LeaderIn(saved, t, x[2]) /\ x = <<x[1], x[2]>> BY <2>2
  <2>4. y[1] = LeaderIn(saved, t, y[2]) /\ y = <<y[1], y[2]>> BY <2>2
  <2> QED BY <2>3, <2>4
<1> QED BY <1>1, <1>4, <1>5

LEMMA MaxOf ==
  ASSUME NEW n \in Nat, NEW S, S \subseteq 0..n, S # {}
  PROVE  Max(S) \in S
<1> DEFINE T == {n - x : x \in S}
<1>0. \A x \in S : x \in Nat /\ x <= n OBVIOUS
<1>1. T \subseteq Nat /\ T # {}
  <2>1. \A x \in S : n - x \in Nat BY <1>0
  <2> QED BY <2>1
<1>2. PICK t \in T : \A u \in T : ~(<<u, t>> \in OpToRel(<, Nat))
  BY <1>1, NatLessThanWellFounded, WFMin
<1>3. PICK x \in S : t = n - x BY <1>2
<1>4. \A y \in S : x >= y
  <2> SUFFICES ASSUME NEW y \in S, ~(x >= y) PROVE FALSE
    OBVIOUS
  <2>1. n - y \in T /\ n - y \in Nat /\ n - x \in Nat BY <1>0
  <2>2. n - y < n - x BY <1>0
  <2>3. <<n - y, n - x>> \in OpToRel(<, Nat) BY <2>1, <2>2 DEF OpToRel
  <2> QED BY <1>2, <1>3, <2>1, <2>3
<1> QED BY <1>3, <1>4 DEF Max

(* The newest index of a replica that has one is loaded.                   *)
LEMMA NewestFacts ==
  ASSUME Types, KeysInv, NEW r \in DOMAIN managers, DOMAIN managers[r] # {}
  PROVE  /\ r \in ReplicaNames /\ Newest(r).tree \in Seq(Keys)
         /\ \E ts \in DOMAIN managers[r] : Newest(r) = managers[r][ts]
         /\ Newest(r).dir \in DOMAIN disk[r].index
         /\ disk[r].index[Newest(r).dir] \in IndexDirs
         /\ Newest(r).sound = TRUE =>
               /\ disk[r].index[Newest(r).dir].tree = Newest(r).tree
               /\ UpTo(KeyidOf(r), Newest(r).tree, Len(Newest(r).tree))
         /\ \A id \in DOMAIN KeyidOf(r) : KeyidOf(r)[id] \in Keys
<1>1. PICK B : B = Loads OBVIOUS
<1>2. managers \in Maps(ReplicaNames, Indexes) BY DEF Types, MemoryOK
<1>3. r \in ReplicaNames /\ managers[r] \in Indexes BY <1>2, MapFacts
<1>4. managers[r] \in Maps(Stamps, B) BY <1>1, <1>3 DEF Indexes
<1>5. DOMAIN managers[r] \subseteq Stamps /\ \A ts \in DOMAIN managers[r] : managers[r][ts] \in B
  BY <1>4, MapFacts
<1>6. Max(DOMAIN managers[r]) \in DOMAIN managers[r]
  <2>1. PICK S : S = DOMAIN managers[r] OBVIOUS
  <2>2. S \subseteq 0..(MaxIndexes + 1) /\ S # {} BY <1>5, <2>1 DEF Stamps
  <2>3. MaxIndexes + 1 \in Nat BY VdbAssumption
  <2>4. Max(S) \in S BY <2>2, <2>3, MaxOf
  <2> QED BY <2>1, <2>4
<1>7. PICK m : m = Newest(r) OBVIOUS
<1>8. m \in B /\ Loaded(r, m)
  BY <1>5, <1>6, <1>7 DEF Newest, KeysInv, ManagersOK
<1>9. m.tree \in Seq(Keys) BY <1>1, <1>8 DEF Loads
<1>10. PICK x : x = disk[r].index[m.dir] OBVIOUS
<1>11. m.dir \in DOMAIN disk[r].index /\ LoadedFrom(x, m) BY <1>8, <1>10 DEF Loaded
<1>12. m.sound = TRUE => x.tree = m.tree /\ UpTo(x.keyid, m.tree, Len(m.tree))
  <2>1. EntryOK(x) BY <1>3, <1>10, <1>11 DEF KeysInv, EntriesOK
  <2> QED BY <1>11, <2>1 DEF EntryOK, LoadedFrom
<1>13. x \in IndexDirs
  <2>1. disk[r] \in Dirs BY <1>3 DEF Types
  <2>2. disk[r].index \in Maps(Stamps, IndexDirs) BY <2>1 DEF Dirs
  <2> QED BY <1>10, <1>11, <2>2, MapFacts
<1>14. \A id \in DOMAIN x.keyid : x.keyid[id] \in Keys
  <2>1. x.keyid \in Maps(Nat, Keys) BY <1>13 DEF IndexDirs
  <2> QED BY <2>1, MapFacts
<1>15. KeyidOf(r) = x.keyid BY <1>7, <1>10 DEF KeyidOf
<1>16. \E ts \in DOMAIN managers[r] : m = managers[r][ts] BY <1>6, <1>7 DEF Newest
<1> QED BY <1>3, <1>7, <1>9, <1>10, <1>11, <1>12, <1>13, <1>14, <1>15, <1>16

(* The results change in a search only, or are gone.                       *)
LEMMA NoKeyTwiceNext ==
  ASSUME Types, KeysInv, StoreInv, NoKeyTwice, Kind
  PROVE  NoKeyTwice'
<1>1. ASSUME NEW t \in TableNames, NEW p \in 1..MaxPartitions, NEW n \in 1..MaxReplicas, AddTable(t, p, n)
      PROVE  NoKeyTwice'
  <2>1. UNCHANGED results BY <1>1 DEF AddTable
  <2>2. UidsDistinct' => UidsDistinct BY <1>1, StoreAddTable
  <2> QED BY <2>1, <2>2 DEF NoKeyTwice
<1>2. ASSUME UNCHANGED results, UNCHANGED tables PROVE NoKeyTwice'
  <2>1. UidsDistinct' <=> UidsDistinct BY <1>2 DEF UidsDistinct, IsReplica, UidOf
  <2> QED BY <1>2, <2>1 DEF NoKeyTwice
<1>3. ASSUME NEW t \in TableNames, NEW k \in Keys, NEW v \in Values, DataWritten(t, k, v) PROVE NoKeyTwice'
  BY <1>2, <1>3 DEF DataWritten, memory
<1>4. ASSUME NEW t \in TableNames, NEW k \in Keys, Delete(t, k) PROVE NoKeyTwice'
  BY <1>3, <1>4, DeleteWrites, Constants
<1>5. ASSUME NEW t \in TableNames, NEW k \in Keys, NEW v \in Vectors, Put(t, k, v) PROVE NoKeyTwice'
  BY <1>3, <1>5, PutWrites
<1>6. ASSUME NEW t \in TableNames, NEW trees \in BOOLEAN, AddIndex(t, trees) PROVE NoKeyTwice'
  BY <1>2, <1>6 DEF AddIndex, memory
<1>7. ASSUME NEW t \in TableNames, NEW limit \in 1..KeyNum, GetKNN(t, limit) PROVE NoKeyTwice'
  <2>1. t \in DOMAIN tables BY <1>7 DEF GetKNN
  <2>2. \A r \in Searched(t) : \A id \in DOMAIN KeyidOf(r) : KeyidOf(r)[id] \in Keys
    BY <2>1, SearchedFacts, NewestFacts
  <2> QED BY <1>7, <2>2, NoKeyTwiceSearch
<1>8. CASE MkDir \/ SetDim
  <2>1. PICK d, j : GoesOn(d, j) BY <1>8, OpeningStep
  <2> QED BY <1>2, <2>1 DEF GoesOn, memory
<1>9. CASE Open BY <1>2, <1>9 DEF Open
<1>10. ASSUME NEW j, NEW x, Advances(j, x) PROVE NoKeyTwice'
  <2>1. PICK d : GoesOn(d, j) BY <1>10 DEF Advances, IndexStep
  <2> QED BY <1>2, <2>1 DEF GoesOn, memory
<1>11. ASSUME NEW x, NEW tree, NEW sound, Completes(x, tree, sound) PROVE NoKeyTwice'
  <2>1. PICK d : Finishes(d, tree, sound) BY <1>11 DEF Completes
  <2> QED BY <1>2, <2>1 DEF Finishes
<1>12. CASE Aborts BY <1>2, <1>12 DEF Aborts, memory
<1>13. CASE Stop \/ Crash
  <2>1. results' = {} BY <1>13, StopOrCrash DEF Down
  <2> QED BY <2>1 DEF NoKeyTwice
<1>14. CASE Start
  <2>1. results' = {} BY <1>14 DEF Start, Types, ProcessOK
  <2> QED BY <2>1 DEF NoKeyTwice
<1> QED BY <1>1, <1>4, <1>5, <1>6, <1>7, <1>8, <1>9, <1>10, <1>11, <1>12, <1>13, <1>14 DEF Kind

-----------------------------------------------------------------------------
(* The assertions, while nothing is deleted, no call is cut short and      *)
(* every index is made with trees.                                         *)

Clean == used.delete = 0 /\ used.crash = 0 /\ used.treeless = 0

UnderWork(r, ts) == work # <<>> /\ job.do \in IndexSteps /\ job.r = r /\ job.ts = ts

TreeStored(x, data) == \A i \in 1..Len(x.tree) : data[x.tree[i]] # Nothing

CleanDirs ==
  \A r \in ReplicaNames : \A ts \in DOMAIN disk[r].index :
     /\ TreeStored(disk[r].index[ts], disk[r].data)
     /\ Good(disk[r].index[ts], ts) \/ UnderWork(r, ts)

GoodDirs ==
  \A r \in ReplicaNames : \A ts \in DOMAIN disk[r].index :
     TreeStored(disk[r].index[ts], disk[r].data) /\ Good(disk[r].index[ts], ts)

CleanWork ==
  \A j \in ToSet(work) :
     j.do = "index dir" => (j.ts \in DOMAIN disk[j.r].index \/ j.p = GoodParam(j.ts))

HeadClean == (work # <<>> /\ job.do \in IndexSteps) => CleanStage(job, index)

AllSound == \A r \in DOMAIN managers : \A ts \in DOMAIN managers[r] : managers[r][ts].sound = TRUE

AssertInv ==
  Clean => /\ status \in {"up", "down", "path"}
           /\ CleanDirs /\ CleanWork /\ HeadClean /\ AllSound

LEMMA CleanHeadHolds ==
  ASSUME Types, AssertInv, Clean, work # <<>>
  PROVE  CleanHead
<1>1. CleanDirs /\ CleanWork /\ HeadClean BY DEF AssertInv
<1>2. job.r \in ReplicaNames /\ dir = disk[job.r] /\ job = work[1] BY HeadFacts
<1>3. job \in ToSet(work) BY <1>2, WorkSets DEF Types
<1>4. ASSUME job.do = "index dir"
      PROVE  IF Known THEN Good(index, job.ts) ELSE job.p = GoodParam(job.ts)
  <2>1. ~UnderWork(job.r, job.ts) BY <1>4, StageNames DEF UnderWork
  <2>2. CASE Known BY <1>1, <1>2, <2>1, <2>2 DEF CleanDirs, Known, index
  <2>3. CASE ~Known BY <1>1, <1>2, <1>3, <1>4, <2>3 DEF CleanWork, Known
  <2> QED BY <2>2, <2>3
<1> QED BY <1>1, <1>4 DEF CleanHead, HeadClean

LEMMA NoIndexWork ==
  ASSUME AssertInv, Clean, work = <<>> \/ job.do \notin IndexSteps
  PROVE  GoodDirs
BY DEF AssertInv, CleanDirs, GoodDirs, UnderWork

LEMMA SoundKept ==
  ASSUME AllSound,
         \/ UNCHANGED managers \/ managers' = NoFunction
         \/ managers' = With(managers, job.r, NoFunction)
  PROVE  AllSound'
<1>1. CASE UNCHANGED managers BY <1>1 DEF AllSound
<1>2. CASE managers' = NoFunction BY <1>2, NoFunctionType DEF AllSound
<1>3. CASE managers' = With(managers, job.r, NoFunction)
  <2>1. /\ DOMAIN managers' = DOMAIN managers \cup {job.r} /\ managers'[job.r] = NoFunction
        /\ \A r \in DOMAIN managers : r # job.r => managers'[r] = managers[r]
    BY <1>3 DEF With
  <2> QED BY <2>1, NoFunctionType DEF AllSound
<1> QED BY <1>1, <1>2, <1>3

LEMMA CleanFrom ==
  ASSUME status' \in {"up", "down"}, GoodDirs', work' \in Seq(Jobs),
         work' = <<>> \/ Head(work').do \notin IndexSteps, CleanWork', AllSound'
  PROVE  AssertInv'
<1>1. CleanDirs' BY DEF CleanDirs, GoodDirs
<1>2. HeadClean' BY DEF HeadClean, job
<1> QED BY <1>1, <1>2 DEF AssertInv

LEMMA AssertPut ==
  ASSUME Types, AssertInv, Clean, NEW t \in TableNames, NEW key \in Keys, NEW v \in Values, v # Nothing,
         DataWritten(t, key, v)
  PROVE  AssertInv'
<1>1. status = "up" /\ work = <<>> /\ UNCHANGED <<work, status>> /\ UNCHANGED managers
  BY DEF DataWritten, Idle, memory
<1>2. GoodDirs BY <1>1, NoIndexWork
<1>3. GoodDirs'
  <2> SUFFICES ASSUME NEW r \in ReplicaNames, NEW ts \in DOMAIN disk'[r].index
               PROVE  TreeStored(disk'[r].index[ts], disk'[r].data) /\ Good(disk'[r].index[ts], ts)
    BY DEF GoodDirs
  <2>1. disk'[r].index = disk[r].index /\ ts \in DOMAIN disk[r].index BY DEF DataWritten
  <2>2. PICK x : x = disk[r].index[ts] OBVIOUS
  <2>3. TreeStored(x, disk[r].data) /\ Good(x, ts) BY <1>2, <2>1, <2>2 DEF GoodDirs
  <2>4. x \in IndexDirs
    <3>1. disk[r] \in Dirs BY DEF Types
    <3>2. disk[r].index \in Maps(Stamps, IndexDirs) BY <3>1 DEF Dirs
    <3> QED BY <2>1, <2>2, <3>2, MapFacts
  <2>5. x.tree \in Seq(Keys) BY <2>4 DEF IndexDirs
  <2>6. ASSUME NEW i \in 1..Len(x.tree) PROVE disk'[r].data[x.tree[i]] # Nothing
    <3>1. x.tree[i] \in Keys BY <2>5, ElementOfSeq
    <3>2. disk[r].data[x.tree[i]] # Nothing BY <2>3 DEF TreeStored
    <3> QED BY <3>1, <3>2 DEF DataWritten
  <2> QED BY <2>1, <2>2, <2>3, <2>6 DEF TreeStored
<1>4. CleanWork' BY <1>1, EmptyWork DEF CleanWork
<1>5. AllSound' BY <1>1, SoundKept DEF AssertInv
<1> QED BY <1>1, <1>3, <1>4, <1>5, CleanFrom

(* No search finds an item without a key, or a key that is not stored.     *)
LEMMA AssertSearch ==
  ASSUME Types, KeysInv, AssertInv, Clean, NEW t \in TableNames, NEW limit \in 1..KeyNum, GetKNN(t, limit)
  PROVE  AssertInv'
<1>1. /\ status = "up" /\ work = <<>> /\ t \in DOMAIN tables
      /\ UNCHANGED <<saved, disk, memory, work, written, used>>
  BY DEF GetKNN, Idle
<1>2. GoodDirs BY <1>1, NoIndexWork
<1>3. PICK found \in Searches(t) :
           /\ \A r \in Searched(t) : found[r] \subseteq Findable(r)
           /\ \/ \E r \in Searched(t) : \E id \in found[r] : ~Stored(r, id)
              \/ UNCHANGED status
  BY SearchStep
<1>4. ASSUME NEW r \in Searched(t), NEW id \in found[r] PROVE Stored(r, id)
  <2>1. r \in DOMAIN managers /\ DOMAIN managers[r] # {} BY <1>1, SearchedFacts
  <2>2. PICK m, x : m = Newest(r) /\ x = disk[r].index[m.dir] OBVIOUS
  <2>3. /\ r \in ReplicaNames /\ m.tree \in Seq(Keys) /\ m.dir \in DOMAIN disk[r].index
        /\ m.sound = TRUE => x.tree = m.tree /\ UpTo(KeyidOf(r), m.tree, Len(m.tree))
        /\ \E ts \in DOMAIN managers[r] : m = managers[r][ts]
    BY <2>1, <2>2, NewestFacts
  <2>4. m.sound = TRUE BY <2>1, <2>3 DEF AssertInv, AllSound
  <2>5. id \in DOMAIN m.tree BY <1>3, <2>2, <2>4 DEF Findable
  <2>6. id \in 1..Len(m.tree) BY <2>3, <2>5
  <2>7. id \in DOMAIN KeyidOf(r) /\ KeyidOf(r)[id] = m.tree[id] BY <2>3, <2>6, <2>4 DEF UpTo
  <2>8. TreeStored(x, disk[r].data) BY <1>2, <2>2, <2>3 DEF GoodDirs
  <2>9. disk[r].data[m.tree[id]] # Nothing BY <2>3, <2>6, <2>8, <2>4 DEF TreeStored
  <2> QED BY <2>7, <2>9 DEF Stored
<1>5. UNCHANGED status BY <1>3, <1>4
<1>6. GoodDirs' BY <1>1, <1>2 DEF GoodDirs
<1>7. CleanWork' BY <1>1, EmptyWork DEF CleanWork
<1>8. AllSound' BY <1>1, SoundKept DEF AssertInv, memory
<1> QED BY <1>1, <1>5, <1>6, <1>7, <1>8, CleanFrom

LEMMA AssertAdvance ==
  ASSUME Types, AssertInv, Clean, NEW j, NEW x, Advances(j, x)
  PROVE  AssertInv'
<1>1. PICK d : GoesOn(d, j) /\ d.index = With(dir.index, job.ts, x) BY DEF Advances, IndexStep
<1>2. /\ work' # <<>> /\ job' = j /\ dir' = d /\ dir'.data = dir.data /\ job.r \in ReplicaNames
      /\ disk'[job.r] = d /\ \A r \in ReplicaNames : r # job.r => disk'[r] = disk[r]
      /\ ToSet(work) = {job} \cup ToSet(Tail(work)) /\ ToSet(work') = {j} \cup ToSet(Tail(work))
  BY <1>1, HeadNext
<1>3. /\ DOMAIN d.index = DOMAIN dir.index \cup {job.ts} /\ d.index[job.ts] = x
      /\ \A ts \in DOMAIN dir.index : ts # job.ts => d.index[ts] = dir.index[ts]
  BY <1>1 DEF With
<1>4. j.ts = job.ts /\ j.r = job.r /\ status' = status /\ status = "up" /\ d.data = dir.data /\ work # <<>>
  BY <1>1 DEF GoesOn
<1>5. index' = x BY <1>2, <1>3, <1>4 DEF index
<1>6. CleanHead BY <1>4, CleanHeadHolds
<1>7. HeadClean' BY <1>2, <1>5, <1>6 DEF HeadClean, Advances
<1>8. CleanDirs /\ CleanWork BY DEF AssertInv
<1>9. TreeStored(x, dir.data)
  <2>1. CASE Known
    <3>1. TreeStored(index, dir.data) BY <1>2, <1>8, <2>1 DEF CleanDirs, Known, index, dir
    <3>2. x.tree = index.tree BY <2>1 DEF Advances, SameFile
    <3> QED BY <3>1, <3>2 DEF TreeStored
  <2>2. CASE ~Known
    <3>1. x = NewIndexDir BY <2>2 DEF Advances
    <3>2. x.tree = <<>> BY <3>1 DEF NewIndexDir
    <3>3. Len(x.tree) = 0 BY <3>2
    <3> QED BY <3>3 DEF TreeStored
  <2> QED BY <2>1, <2>2
<1>10. CleanDirs'
  <2> SUFFICES ASSUME NEW r \in ReplicaNames, NEW ts \in DOMAIN disk'[r].index
               PROVE  /\ TreeStored(disk'[r].index[ts], disk'[r].data)
                      /\ Good(disk'[r].index[ts], ts) \/ UnderWork(r, ts)'
    BY DEF CleanDirs
  <2>1. CASE r # job.r
    <3>1. ~UnderWork(r, ts) BY <2>1 DEF UnderWork
    <3> QED BY <1>2, <1>8, <2>1, <3>1 DEF CleanDirs
  <2>2. CASE r = job.r /\ ts = job.ts
    <3>1. UnderWork(r, ts)' BY <1>2, <1>4, <2>2 DEF UnderWork, Advances
    <3> QED BY <1>2, <1>3, <1>4, <1>9, <2>2, <3>1
  <2>3. CASE r = job.r /\ ts # job.ts
    <3>1. ts \in DOMAIN dir.index /\ disk'[r].index[ts] = dir.index[ts] /\ disk'[r].data = dir.data
      BY <1>2, <1>3, <1>4, <2>3
    <3>2. ~UnderWork(r, ts) BY <2>3 DEF UnderWork
    <3>3. TreeStored(dir.index[ts], dir.data) /\ Good(dir.index[ts], ts)
      BY <1>2, <1>8, <2>3, <3>1, <3>2 DEF CleanDirs, dir
    <3> QED BY <3>1, <3>3
  <2> QED BY <2>1, <2>2, <2>3
<1>11. CleanWork'
  <2> SUFFICES ASSUME NEW w \in ToSet(work'), w.do = "index dir"
               PROVE  w.ts \in DOMAIN disk'[w.r].index \/ w.p = GoodParam(w.ts)
    BY DEF CleanWork
  <2>1. w # j BY StageNames DEF Advances
  <2>2. w \in ToSet(Tail(work)) /\ w \in ToSet(work) BY <1>2, <2>1
  <2>3. w.r \in ReplicaNames
    <3>1. w \in Jobs BY <1>4, <2>2, WorkSets DEF Types
    <3> QED BY <3>1 DEF Jobs
  <2>4. w.ts \in DOMAIN disk[w.r].index \/ w.p = GoodParam(w.ts) BY <1>8, <2>2 DEF CleanWork
  <2>5. DOMAIN disk[w.r].index \subseteq DOMAIN disk'[w.r].index BY <1>2, <1>3, <2>3 DEF dir
  <2> QED BY <2>4, <2>5
<1>12. AllSound'
  <2>1. UNCHANGED managers BY <1>1 DEF GoesOn, memory
  <2> QED BY <2>1, SoundKept DEF AssertInv
<1> QED BY <1>4, <1>7, <1>10, <1>11, <1>12 DEF AssertInv

LEMMA AssertComplete ==
  ASSUME Types, AssertInv, Clean, NEW x, NEW tree, NEW sound, Completes(x, tree, sound)
  PROVE  AssertInv'
<1>1. PICK d : Finishes(d, tree, sound) /\ d.index = With(dir.index, job.ts, x) BY DEF Completes
<1>2. /\ job.r \in ReplicaNames /\ disk'[job.r] = d
      /\ \A r \in ReplicaNames : r # job.r => disk'[r] = disk[r]
      /\ work' \in Seq(Jobs) /\ ToSet(work) = {job} \cup ToSet(work')
      /\ \A j \in ToSet(work') : Waiting(j)
  BY <1>1, WorkNext
<1>3. /\ DOMAIN d.index = DOMAIN dir.index \cup {job.ts} /\ d.index[job.ts] = x
      /\ \A ts \in DOMAIN dir.index : ts # job.ts => d.index[ts] = dir.index[ts]
  BY <1>1 DEF With
<1>4. status' = status /\ status = "up" /\ d.data = dir.data /\ work # <<>> /\ work' = Tail(work)
  BY <1>1 DEF Finishes
<1>5. CleanHead BY <1>4, CleanHeadHolds
<1>6. Good(x, job.ts) /\ sound = TRUE BY <1>5 DEF Completes
<1>7. CleanDirs /\ CleanWork /\ AllSound BY DEF AssertInv
<1>8. TreeStored(x, dir.data)
  <2>1. CASE x = index
    <3>1. Known BY DEF Completes
    <3> QED BY <1>2, <1>7, <2>1, <3>1 DEF CleanDirs, Known, index, dir
  <2>2. CASE x.tree = KeysIn(dir.data)
    <3>1. x.tree = KeysIn(dir.data) BY <2>2
    <3>2. \A i \in 1..Len(KeysIn(dir.data)) : dir.data[KeysIn(dir.data)[i]] # Nothing BY KeysInFacts
    <3> QED BY <3>1, <3>2 DEF TreeStored
  <2> QED BY <2>1, <2>2 DEF Completes
<1>9. GoodDirs'
  <2> SUFFICES ASSUME NEW r \in ReplicaNames, NEW ts \in DOMAIN disk'[r].index
               PROVE  TreeStored(disk'[r].index[ts], disk'[r].data) /\ Good(disk'[r].index[ts], ts)
    BY DEF GoodDirs
  <2>1. CASE r # job.r
    <3>1. ~UnderWork(r, ts) BY <2>1 DEF UnderWork
    <3> QED BY <1>2, <1>7, <2>1, <3>1 DEF CleanDirs
  <2>2. CASE r = job.r /\ ts = job.ts BY <1>2, <1>3, <1>4, <1>6, <1>8, <2>2
  <2>3. CASE r = job.r /\ ts # job.ts
    <3>1. ts \in DOMAIN dir.index /\ disk'[r].index[ts] = dir.index[ts] /\ disk'[r].data = dir.data
      BY <1>2, <1>3, <1>4, <2>3
    <3>2. ~UnderWork(r, ts) BY <2>3 DEF UnderWork
    <3>3. TreeStored(dir.index[ts], dir.data) /\ Good(dir.index[ts], ts)
      BY <1>2, <1>7, <2>3, <3>1, <3>2 DEF CleanDirs, dir
    <3> QED BY <3>1, <3>3
  <2> QED BY <2>1, <2>2, <2>3
<1>10. CleanWork'
  <2> SUFFICES ASSUME NEW w \in ToSet(work'), w.do = "index dir"
               PROVE  w.ts \in DOMAIN disk'[w.r].index \/ w.p = GoodParam(w.ts)
    BY DEF CleanWork
  <2>1. w \in ToSet(work) BY <1>2
  <2>2. w.r \in ReplicaNames
    <3>1. w \in Jobs BY <1>4, WorkSets DEF Types
    <3> QED BY <3>1 DEF Jobs
  <2>3. w.ts \in DOMAIN disk[w.r].index \/ w.p = GoodParam(w.ts) BY <1>7, <2>1 DEF CleanWork
  <2>4. DOMAIN disk[w.r].index \subseteq DOMAIN disk'[w.r].index BY <1>2, <1>3, <2>2 DEF dir
  <2> QED BY <2>3, <2>4
<1>11. work' = <<>> \/ Head(work').do \notin IndexSteps BY <1>2, WaitingHead
<1>12. AllSound'
  <2>0. job.do \notin OpenSteps BY StageNames DEF Completes
  <2>1. PICK a : a = [dir |-> job.ts, tree |-> tree, sound |-> sound] OBVIOUS
  <2>2. /\ DOMAIN managers' = DOMAIN managers
        /\ managers'[job.r] = With(managers[job.r], job.p.ts, a)
        /\ \A r \in DOMAIN managers : r # job.r => managers'[r] = managers[r]
        /\ job.r \in DOMAIN managers
    BY <1>1, <2>0, <2>1, Managed
  <2>3. a.sound = TRUE BY <1>6, <2>1
  <2>4. ASSUME NEW r \in DOMAIN managers, NEW ts \in DOMAIN managers'[r]
        PROVE  managers'[r][ts].sound = TRUE
    <3>1. CASE r # job.r BY <1>7, <2>2, <3>1 DEF AllSound
    <3>2. CASE r = job.r
      <4>1. PICK g : g = managers[job.r] OBVIOUS
      <4>2. managers'[r] = With(g, job.p.ts, a) BY <2>2, <3>2, <4>1
      <4>3. ts = job.p.ts => managers'[r][ts] = a BY <4>2 DEF With
      <4>4. ts # job.p.ts => ts \in DOMAIN g /\ managers'[r][ts] = g[ts] BY <4>2 DEF With
      <4>5. \A u \in DOMAIN g : g[u].sound = TRUE BY <1>7, <2>2, <4>1 DEF AllSound
      <4> QED BY <2>3, <4>3, <4>4, <4>5
    <3> QED BY <3>1, <3>2
  <2> QED BY <2>2, <2>4 DEF AllSound
<1> QED BY <1>2, <1>4, <1>9, <1>10, <1>11, <1>12, CleanFrom

(* Work that has not begun, and no directory has changed.                  *)
LEMMA AssertNew ==
  ASSUME Types, AssertInv, Clean, work = <<>> \/ job.do \notin IndexSteps,
         \A r \in ReplicaNames : disk'[r].index = disk[r].index /\ disk'[r].data = disk[r].data,
         status' \in {"up", "down"}, work' \in Seq(Jobs),
         work' = <<>> \/ Head(work').do \notin IndexSteps,
         \/ UNCHANGED managers \/ managers' = NoFunction
         \/ managers' = With(managers, job.r, NoFunction),
         \A j \in ToSet(work') :
            j.r \in ReplicaNames /\ (\/ j.do # "index dir" \/ j \in ToSet(work)
                                     \/ j.ts \in DOMAIN disk[j.r].index \/ j.p = GoodParam(j.ts))
  PROVE  AssertInv'
<1>1. GoodDirs BY NoIndexWork
<1>2. GoodDirs' BY <1>1 DEF GoodDirs
<1>3. CleanWork BY DEF AssertInv
<1>4. CleanWork'
  <2> SUFFICES ASSUME NEW w \in ToSet(work'), w.do = "index dir"
               PROVE  w.ts \in DOMAIN disk'[w.r].index \/ w.p = GoodParam(w.ts)
    BY DEF CleanWork
  <2>1. w.r \in ReplicaNames /\ disk'[w.r].index = disk[w.r].index OBVIOUS
  <2>2. w.ts \in DOMAIN disk[w.r].index \/ w.p = GoodParam(w.ts) BY <1>3 DEF CleanWork
  <2> QED BY <2>1, <2>2
<1>5. AllSound' BY SoundKept DEF AssertInv
<1> QED BY <1>2, <1>4, <1>5, CleanFrom

LEMMA AssertOpening ==
  ASSUME Types, AssertInv, Clean, MkDir \/ SetDim
  PROVE  AssertInv'
<1>1. PICK d, j : GoesOn(d, j) /\ d.index = dir.index /\ job.do \in OpenSteps /\ j.do \in OpenSteps
  BY OpeningStep
<1>2. /\ work' # <<>> /\ job' = j /\ dir'.data = dir.data /\ dir' = d /\ job.r \in ReplicaNames
      /\ disk'[job.r] = d /\ \A r \in ReplicaNames : r # job.r => disk'[r] = disk[r]
      /\ ToSet(work) = {job} \cup ToSet(Tail(work)) /\ ToSet(work') = {j} \cup ToSet(Tail(work))
  BY <1>1, HeadNext
<1>3. \A r \in ReplicaNames : disk'[r].index = disk[r].index /\ disk'[r].data = disk[r].data
  BY <1>1, <1>2 DEF dir
<1>4. status' = "up" /\ j.r = job.r /\ work # <<>> /\ UNCHANGED managers BY <1>1 DEF GoesOn, memory
<1>5. work' \in Seq(Jobs) BY OpeningTypes DEF Types, WorkOK
<1>6. job.do \notin IndexSteps /\ j.do \notin IndexSteps /\ j.do # "index dir"
  BY <1>1 DEF OpenSteps, IndexSteps, BuildSteps
<1>7. Head(work').do \notin IndexSteps BY <1>2, <1>6 DEF job
<1>8. ASSUME NEW w \in ToSet(work')
      PROVE  w.r \in ReplicaNames /\ (w.do # "index dir" \/ w \in ToSet(work))
  <2>1. CASE w = j BY <1>2, <1>4, <1>6, <2>1
  <2>2. CASE w \in ToSet(Tail(work))
    <3>1. w \in Jobs BY <1>4, <2>2, WorkSets DEF Types
    <3>2. w.r \in ReplicaNames BY <3>1 DEF Jobs
    <3> QED BY <1>2, <2>2, <3>2
  <2> QED BY <1>2, <2>1, <2>2
<1> QED BY <1>3, <1>4, <1>5, <1>6, <1>7, <1>8, AssertNew

LEMMA AssertOpen ==
  ASSUME Types, AssertInv, Clean, Open
  PROVE  AssertInv'
<1>1. /\ Types' /\ status = "up" /\ work # <<>> /\ job.do = "open" /\ disk' = disk /\ status' = status
      /\ managers' = With(managers, job.r, NoFunction)
      /\ \A j \in ToSet(work') : Waiting(j)
  BY OpenTypes
<1>2. PICK v \in Seq(Jobs) :
        /\ ToSet(work') = ToSet(v) \cup ToSet(Tail(work))
        /\ \A j \in ToSet(v) : j \in Jobs /\ j.r = job.r /\ j.ts \in DOMAIN dir.index
  BY OpenTypes
<1>3. job.r \in ReplicaNames /\ dir = disk[job.r] /\ job.do \notin IndexSteps
  BY <1>1, HeadFacts DEF IndexSteps, BuildSteps
<1>4. work' \in Seq(Jobs) BY <1>1 DEF Types, WorkOK
<1>5. work' = <<>> \/ Head(work').do \notin IndexSteps BY <1>1, <1>4, WaitingHead
<1>6. ASSUME NEW w \in ToSet(work')
      PROVE  w.r \in ReplicaNames /\ (w \in ToSet(work) \/ w.ts \in DOMAIN disk[w.r].index)
  <2>1. CASE w \in ToSet(v) BY <1>2, <1>3, <2>1
  <2>2. CASE w \in ToSet(Tail(work))
    <3>1. w \in Jobs /\ w \in ToSet(work) BY <1>1, <2>2, WorkSets DEF Types
    <3> QED BY <3>1 DEF Jobs
  <2> QED BY <1>2, <2>1, <2>2
<1> QED BY <1>1, <1>3, <1>4, <1>5, <1>6, AssertNew

(* Work that only opens engines.                                           *)
LEMMA AssertEngines ==
  ASSUME Types, AssertInv, Clean, work = <<>>, disk' = disk, managers' = managers,
         status' \in {"up", "down"},
         work' \in Seq(Jobs), NEW S, S \subseteq ReplicaNames,
         ToSet(work') = {CreateVEngine(r) : r \in S}
  PROVE  AssertInv'
<1>1. \A r \in S : CreateVEngine(r).do = "mkdir" /\ CreateVEngine(r).r = r BY DEF CreateVEngine, Job
<1>2. \A j \in ToSet(work') : j.do = "mkdir" /\ j.r \in ReplicaNames BY <1>1
<1>3. \A j \in ToSet(work') : Waiting(j) BY <1>2 DEF Waiting
<1>4. work' = <<>> \/ Head(work').do \notin IndexSteps BY <1>3, WaitingHead
<1> QED BY <1>2, <1>4, AssertNew

(* A run that is clean has been so all along.                              *)
LEMMA CleanBefore ==
  ASSUME Types, Kind, Clean'
  PROVE  /\ Clean /\ ~Crash /\ \A t \in TableNames, k \in Keys : ~Delete(t, k)
         /\ \A t \in TableNames, trees \in BOOLEAN : AddIndex(t, trees) => trees = TRUE
<1>0. used.delete \in Nat /\ used.crash \in Nat /\ used.treeless \in Nat BY DEF Types, Uses
<1>1. ASSUME NEW t \in TableNames, NEW k \in Keys, Delete(t, k) PROVE FALSE
  <2>1. Used("delete") BY <1>1, DeleteWrites
  <2>2. used'["delete"] = used["delete"] + 1 /\ used["delete"] \in Nat BY <2>1, UsedTypes
  <2>3. used'.delete = used.delete + 1 BY <2>2
  <2> QED BY <1>0, <2>3 DEF Clean
<1>2. ASSUME Crash PROVE FALSE
  <2>1. used'.crash = used.crash + 1 BY <1>2, StopOrCrash
  <2> QED BY <1>0, <2>1 DEF Clean
<1>3. ASSUME used'.delete = used.delete, used'.crash = used.crash, used'.treeless = used.treeless
      PROVE  Clean
  BY <1>3 DEF Clean
<1>4. ASSUME UNCHANGED used PROVE Clean BY <1>4 DEF Clean
<1>5. ASSUME NEW t \in TableNames, NEW p \in 1..MaxPartitions, NEW n \in 1..MaxReplicas, AddTable(t, p, n)
      PROVE  Clean
  BY <1>4, <1>5 DEF AddTable
<1>6. ASSUME NEW t \in TableNames, NEW k \in Keys, NEW v \in Vectors, Put(t, k, v) PROVE Clean
  BY <1>4, <1>6 DEF Put
<1>7. ASSUME NEW t \in TableNames, NEW trees \in BOOLEAN, AddIndex(t, trees)
      PROVE  Clean /\ trees = TRUE
  <2>1. /\ used'.delete = used.delete /\ used'.crash = used.crash
        /\ used'.treeless = (IF trees THEN used.treeless ELSE used.treeless + 1)
    BY <1>7, AddIndexTypes
  <2>2. trees = TRUE
    <3>1. CASE trees = FALSE
      <4>1. used'.treeless = used.treeless + 1 BY <2>1, <3>1
      <4> QED BY <1>0, <4>1 DEF Clean
    <3> QED BY <3>1
  <2>3. used'.treeless = used.treeless BY <2>1, <2>2
  <2> QED BY <1>3, <2>1, <2>2, <2>3
<1>8. ASSUME NEW t \in TableNames, NEW limit \in 1..KeyNum, GetKNN(t, limit) PROVE Clean
  BY <1>4, <1>8 DEF GetKNN
<1>9. ASSUME MkDir \/ SetDim PROVE Clean BY <1>4, <1>9 DEF MkDir, SetDim
<1>10. ASSUME Open PROVE Clean BY <1>4, <1>10 DEF Open
<1>11. ASSUME NEW j, NEW x, Advances(j, x) PROVE Clean
  BY <1>4, <1>11 DEF Advances, IndexStep, GoesOn
<1>12. ASSUME NEW x, NEW tree, NEW sound, Completes(x, tree, sound) PROVE Clean
  BY <1>4, <1>12 DEF Completes, Finishes
<1>13. ASSUME Aborts PROVE Clean BY <1>4, <1>13 DEF Aborts
<1>14. ASSUME Stop PROVE Clean BY <1>3, <1>14, StopOrCrash
<1>15. ASSUME Start PROVE Clean BY <1>4, <1>15 DEF Start
<1>16. Clean
  BY <1>1, <1>2, <1>5, <1>6, <1>7, <1>8, <1>9, <1>10, <1>11, <1>12, <1>13, <1>14, <1>15 DEF Kind
<1> QED BY <1>1, <1>2, <1>7, <1>16

LEMMA CleanSame ==
  ASSUME CleanDirs, CleanWork, HeadClean, AllSound,
         UNCHANGED disk, UNCHANGED work, UNCHANGED managers
  PROVE  (CleanDirs /\ CleanWork /\ HeadClean /\ AllSound)'
<1>1. CleanDirs' BY DEF CleanDirs, UnderWork, job
<1>2. CleanWork' BY DEF CleanWork
<1>3. HeadClean' BY DEF HeadClean, job, index, dir
<1>4. AllSound' BY DEF AllSound
<1> QED BY <1>1, <1>2, <1>3, <1>4

LEMMA AssertNext ==
  ASSUME Types, KeysInv, AssertInv, Kind
  PROVE  AssertInv'
<1> SUFFICES ASSUME Clean' PROVE AssertInv'
  BY DEF AssertInv
<1>0. /\ Clean /\ ~Crash /\ (\A t \in TableNames, k \in Keys : ~Delete(t, k))
      /\ \A t \in TableNames, trees \in BOOLEAN : AddIndex(t, trees) => trees = TRUE
  BY CleanBefore
<1>1. Types' /\ work' \in Seq(Jobs) BY TypesNext DEF Types, WorkOK
<1>2. ASSUME NEW t \in TableNames, NEW p \in 1..MaxPartitions, NEW n \in 1..MaxReplicas, AddTable(t, p, n)
      PROVE  AssertInv'
  <2>1. /\ work = <<>> /\ disk' = disk /\ managers' = managers /\ status' = "up" /\ tables' = saved' /\ t \in DOMAIN saved'
        /\ ToSet(work') = {CreateVEngine(r) : r \in ReplicasInTable(saved', t)}
    BY <1>2, AddTableTypes
  <2>2. ReplicasInTable(saved', t) \subseteq ReplicaNames BY <1>1, <2>1, SlotFacts DEF Types
  <2> QED BY <1>0, <1>1, <2>1, <2>2, AssertEngines
<1>3. ASSUME NEW t \in TableNames, NEW k \in Keys, NEW v \in Vectors, Put(t, k, v) PROVE AssertInv'
  <2>1. DataWritten(t, k, v) /\ v \in Values /\ v # Nothing BY <1>3, PutWrites
  <2> QED BY <1>0, <2>1, AssertPut
<1>4. ASSUME NEW t \in TableNames, NEW trees \in BOOLEAN, AddIndex(t, trees) PROVE AssertInv'
  <2>1. trees = TRUE BY <1>0, <1>4
  <2>2. /\ work = <<>> /\ status' = "up" /\ disk' = disk /\ UNCHANGED memory
        /\ \A j \in ToSet(work') :
              j.do = "index dir" /\ j.p = Param(j.ts, Dim, trees) /\ j.r \in ReplicaNames
    BY <1>4, AddIndexTypes
  <2>3. \A j \in ToSet(work') : j.p = GoodParam(j.ts) BY <2>1, <2>2 DEF GoodParam
  <2>4. managers' = managers BY <2>2 DEF memory
  <2>5. \A j \in ToSet(work') : Waiting(j) BY <2>2 DEF Waiting
  <2>6. work' = <<>> \/ Head(work').do \notin IndexSteps BY <1>1, <2>5, WaitingHead
  <2> QED BY <1>0, <1>1, <2>2, <2>3, <2>4, <2>6, AssertNew
<1>5. ASSUME NEW t \in TableNames, NEW limit \in 1..KeyNum, GetKNN(t, limit) PROVE AssertInv'
  BY <1>0, <1>5, AssertSearch
<1>6. CASE MkDir \/ SetDim BY <1>0, <1>6, AssertOpening
<1>7. CASE Open BY <1>0, <1>7, AssertOpen
<1>8. ASSUME NEW j, NEW x, Advances(j, x) PROVE AssertInv' BY <1>0, <1>8, AssertAdvance
<1>9. ASSUME NEW x, NEW tree, NEW sound, Completes(x, tree, sound) PROVE AssertInv' BY <1>0, <1>9, AssertComplete
<1>10. ASSUME Aborts, work # <<>>, ~CleanHead \/ status' = "path" PROVE AssertInv'
  <2>1. status' = "path" BY <1>0, <1>10, CleanHeadHolds
  <2>2. UNCHANGED disk /\ UNCHANGED work /\ UNCHANGED managers BY <1>10 DEF Aborts, memory
  <2>3. CleanDirs /\ CleanWork /\ HeadClean /\ AllSound BY <1>0 DEF AssertInv
  <2> QED BY <2>1, <2>2, <2>3, CleanSame DEF AssertInv
<1>11. CASE Stop
  <2>1. Down /\ work = <<>> BY <1>11, StopOrCrash
  <2>2. disk' = disk /\ status' = "down" /\ work' = <<>> /\ managers' = NoFunction BY <2>1 DEF Down
  <2>3. ToSet(work') = {} BY <2>2, EmptyWork
  <2> QED BY <1>0, <1>1, <2>1, <2>2, <2>3, AssertNew
<1>12. CASE Start
  <2>1. /\ status = "down" /\ status' = "up" /\ disk' = disk /\ managers' = managers
        /\ ToSet(work') = {CreateVEngine(r) : r \in {q \in ReplicaNames : Among(q, saved)}}
    BY <1>12, StartTypes
  <2>2. work = <<>> BY <2>1 DEF Types, ProcessOK
  <2>3. PICK S : S = {q \in ReplicaNames : Among(q, saved)} OBVIOUS
  <2>4. S \subseteq ReplicaNames /\ ToSet(work') = {CreateVEngine(r) : r \in S} BY <2>1, <2>3
  <2> QED BY <1>0, <1>1, <2>1, <2>2, <2>4, AssertEngines
<1> QED BY <1>0, <1>2, <1>3, <1>4, <1>5, <1>6, <1>7, <1>8, <1>9, <1>10, <1>11, <1>12 DEF Kind

LEMMA AssertInit == Init => AssertInv
<1> SUFFICES ASSUME Init PROVE AssertInv
  OBVIOUS
<1>1. CleanDirs BY NoFunctionType DEF Init, CleanDirs, NoDir
<1>2. CleanWork BY EmptyWork DEF Init, CleanWork
<1>3. HeadClean BY DEF Init, HeadClean
<1>4. AllSound BY NoFunctionType DEF Init, AllSound
<1> QED BY <1>1, <1>2, <1>3, <1>4 DEF Init, AssertInv

LEMMA AssertSame ==
  ASSUME AssertInv, UNCHANGED <<disk, managers, work, status, used>>
  PROVE  AssertInv'
<1>1. UNCHANGED disk /\ UNCHANGED work /\ UNCHANGED managers /\ UNCHANGED status /\ UNCHANGED used
  OBVIOUS
<1>2. CASE ~Clean BY <1>1, <1>2 DEF AssertInv, Clean
<1>3. CASE Clean
  <2>1. CleanDirs /\ CleanWork /\ HeadClean /\ AllSound BY <1>3 DEF AssertInv
  <2>2. (CleanDirs /\ CleanWork /\ HeadClean /\ AllSound)' BY <1>1, <2>1, CleanSame
  <2> QED BY <1>1, <1>3, <2>2 DEF AssertInv
<1> QED BY <1>2, <1>3

-----------------------------------------------------------------------------
(* The invariant of the process, and what it is for.                       *)

VdbInv == Types /\ KeysInv /\ StoreInv /\ NoKeyTwice /\ AssertInv

LEMMA Invariant == Spec => []VdbInv
<1>1. Init => VdbInv
  <2>1. Init => NoKeyTwice BY DEF Init, NoKeyTwice
  <2> QED BY <2>1, InitTypes, KeysInit, StoreInit, AssertInit DEF VdbInv
<1>2. ASSUME VdbInv, [Next]_vars PROVE VdbInv'
  <2>0. Types /\ KeysInv /\ StoreInv /\ NoKeyTwice /\ AssertInv BY <1>2 DEF VdbInv
  <2>1. CASE Next
    <3>1. Kind BY <2>0, <2>1, StepKind DEF KeysInv
    <3>2. Types' /\ KeysInv' BY <2>0, <3>1, TypesNext, KeysNext
    <3>3. StoreInv' BY <2>0, <3>1, StoreNext
    <3>4. NoKeyTwice' BY <2>0, <3>1, NoKeyTwiceNext
    <3>5. AssertInv' BY <2>0, <3>1, AssertNext
    <3> QED BY <3>2, <3>3, <3>4, <3>5 DEF VdbInv
  <2>2. CASE UNCHANGED vars
    <3>1. UNCHANGED <<saved, disk, memory, work, status, results, written, used>>
      BY <2>2 DEF vars, memory
    <3>2. Types' /\ KeysInv' BY <2>0, <3>1, UnchangedTypes, KeysSame
    <3>3. StoreInv'
      <4>1. UNCHANGED <<saved, disk, engines, written>> /\ UNCHANGED <<status, work>>
        BY <3>1 DEF memory
      <4>2. status' # "up" \/ (UNCHANGED status /\ (UNCHANGED work \/ work = <<>>)) BY <4>1
      <4> QED BY <2>0, <4>1, <4>2, StoreSame
    <3>4. NoKeyTwice'
      <4>1. UNCHANGED tables BY <3>1 DEF memory
      <4>2. UidsDistinct' <=> UidsDistinct BY <4>1 DEF UidsDistinct, IsReplica, UidOf
      <4> QED BY <2>0, <3>1, <4>2 DEF NoKeyTwice
    <3>5. AssertInv'
      <4>1. UNCHANGED <<disk, managers, work, status, used>> BY <3>1 DEF memory
      <4> QED BY <2>0, <4>1, AssertSame
    <3> QED BY <3>2, <3>3, <3>4, <3>5 DEF VdbInv
  <2> QED BY <1>2, <2>1, <2>2
<1> QED BY <1>1, <1>2, PTL DEF Spec

(* As long as the uids of the replicas are distinct, Get returns what Put  *)
(* and Delete have acknowledged and every replica has its own engine, for  *)
(* any tables and through any stops, restarts and crashes.                 *)
THEOREM StoreSurvives == Spec => []StoreIntact
<1>1. VdbInv => StoreIntact BY StoreIsIntact DEF VdbInv
<1> QED BY <1>1, Invariant, PTL

(* For any tables, partitions, replicas, keys and bounds: an index that    *)
(* answers queries has the key of every item of its tree, after crashes    *)
(* too, unless its file was cut or its roots are not those of trees.       *)
THEOREM EveryItemHasKey == Spec => []ItemsHaveKeys
<1>1. VdbInv => ItemsHaveKeys BY ItemsFollow DEF VdbInv
<1> QED BY <1>1, Invariant, PTL

(* As long as the uids are distinct, GetKNN returns no key twice, however  *)
(* many partitions and replicas it asks.                                   *)
THEOREM KeysOnce == Spec => []NoKeyTwice
<1>1. VdbInv => NoKeyTwice BY DEF VdbInv
<1> QED BY <1>1, Invariant, PTL

(* While nothing is deleted, no call is cut short by a crash and every     *)
(* index is made with trees, no assertion of vectordb stops the process,   *)
(* but the one that an index path too long for MkDir meets in AddIndex.    *)
THEOREM NoAssertFails == Spec => []AssertsHold
<1>1. VdbInv => AssertsHold BY DEF VdbInv, AssertInv, Clean, AssertsHold
<1> QED BY <1>1, Invariant, PTL
=============================================================================
