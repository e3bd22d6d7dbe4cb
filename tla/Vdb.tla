--------------------------------- MODULE Vdb ---------------------------------
(***************************************************************************)
(* VdbEngine: the tables of one vectordb process, from the metadata to the *)
(* engine of each replica and the indexes of each engine, and what of it   *)
(* is on disk when the process stops or crashes between two writes.        *)
(*                                                                         *)
(* Calls come from one thread (the console, the Python module).  A call    *)
(* that writes in several places is a list of jobs in `work`: a crash may  *)
(* fall between any two of its steps.  Crashes of the process lose nothing *)
(* that leveldb or the file system was given.                              *)
(*                                                                         *)
(* A vector has the dimension of its table or is refused: only dimensions  *)
(* 0 (not set) and Dim occur.  Which neighbours Annoy finds is a choice.   *)
(* A process that an assertion has stopped is not started again.           *)
(***************************************************************************)
EXTENDS Naturals, Sequences, FiniteSets, FiniteSetsExt, SequencesExt

CONSTANTS TableNames,     \* names a table may be given
          LongNames,      \* those whose index paths do not fit MkDir's command
          MaxPartitions,  \* bound on the partitions of a table
          MaxReplicas,    \* bound on the replicas of a partition
          KeyNum,         \* keys 1..KeyNum, in leveldb's order
          Vectors,        \* what may be stored under a key
          MaxIndexes,     \* bound on calls of AddIndex
          MaxDeletes,     \* bound on calls of Delete
          MaxStops,       \* bound on clean stops of the process
          MaxCrashes      \* bound on crashes while a call is under way

ASSUME VdbAssumption ==
  /\ IsFiniteSet(TableNames) /\ LongNames \subseteq TableNames
  /\ MaxPartitions \in Nat /\ MaxReplicas \in Nat /\ KeyNum \in Nat
  /\ "nothing" \notin Vectors
  /\ MaxIndexes \in Nat /\ MaxDeletes \in Nat /\ MaxStops \in Nat /\ MaxCrashes \in Nat

VARIABLES
  saved,         \* disk: the tables of the metadata database
  disk,          \* disk: the directory of each replica
  tables,        \* Metadata::tables_: name -> partitions, slot -> uid of the replica
  replica_uid,   \* the static counter Replica::replica_uid
  engines,       \* VdbEngine::engines_: uid -> replica it was opened for
  managers,      \* VEngine::index_manager_ by replica: timestamp -> index
  work,          \* what the call under way still has to do
  status,        \* "up", "down" or the assertion that stopped the process
  results,       \* keys of the last GetKNN, with the replica they are from
  written,       \* what Put and Delete have acknowledged
  used           \* calls and failures so far, for the bounds

vars == <<saved, disk, tables, replica_uid, engines, managers, work, status,
          results, written, used>>

memory == <<tables, replica_uid, engines, managers>>

-----------------------------------------------------------------------------

Keys == 1..KeyNum
Dim == 1
Nothing == "nothing"

(* A replica is named by its table and its slot: partition and replica id. *)
Slots(p, n) == (0..(p - 1)) \X (0..(n - 1))
ReplicaNames == TableNames \X Slots(MaxPartitions, MaxReplicas)

NoFunction == [x \in {} |-> x]

(* The map f with v under x.                                               *)
With(f, x, v) == [y \in DOMAIN f \cup {x} |-> IF y = x THEN v ELSE f[y]]

(* The elements of a set of numbers in their order.                        *)
InOrder(S) == [i \in 1..Cardinality(S) |->
                 CHOOSE x \in S : Cardinality({y \in S : y < x}) = i - 1]

Param(ts, dim, trees) == [ts |-> ts, dim |-> dim, trees |-> trees]

(* No parameters have been written.                                        *)
NoParam == Param(0, 0, FALSE)

(* A directory that is not there, an index directory with nothing in it.   *)
(* EngineMeta::Init writes the dimension 0 where it finds none.            *)
NoDir == [there |-> FALSE, dim |-> 0,
          data |-> [k \in Keys |-> Nothing], index |-> NoFunction]
NewIndexDir == [meta |-> FALSE, param |-> NoParam, keyid |-> NoFunction,
                file |-> "none", tree |-> <<>>, trees |-> FALSE]

PartitionId(key, partition_num) == key % partition_num

UidOf(r) == tables[r[1]].uid[r[2]]

\* Mutant: only the replicas of the first partition
ReplicasInTableFirst(tbl, t) == {r \in {t} \X DOMAIN tbl[t].uid : r[2][1] = 0}

ReplicasInTable(tbl, t) == {t} \X DOMAIN tbl[t].uid

(* GetVEngine: the engine registered for replica 0 of the key's partition. *)
Leader(t, key) == <<t, <<PartitionId(key, tables[t].partition_num), 0>>>>

HasEngine(t, key) == t \in DOMAIN tables /\ UidOf(Leader(t, key)) \in DOMAIN engines

VEngineOf(t, key) == engines[UidOf(Leader(t, key))]

Get(t, key) == IF HasEngine(t, key) THEN disk[VEngineOf(t, key)].data[key] ELSE Nothing

-----------------------------------------------------------------------------
(* Jobs: what CreateVEngine and the constructor of VindexAnnoy do, in the  *)
(* order in which they do it.                                              *)

Job(do, r, ts, p) == [do |-> do, r |-> r, ts |-> ts, p |-> p, id |-> 0]

CreateVEngine(r) == Job("mkdir", r, 0, NoParam)
VindexAnnoy(r, ts, p) == Job("index dir", r, ts, p)

CreateVEngines(rs) == SetToSeq({CreateVEngine(r) : r \in rs})

Doing(do) == status = "up" /\ work # <<>> /\ Head(work).do = do

job == Head(work)
dir == disk[job.r]
index == dir.index[job.ts]

GoOn(do) == work' = <<[job EXCEPT !.do = do]>> \o Tail(work)
GoOnWith(do, p) == work' = <<[job EXCEPT !.do = do, !.p = p]>> \o Tail(work)

SetDir(d) == disk' = [disk EXCEPT ![job.r] = d]
SetIndex(i) == SetDir([dir EXCEPT !.index = With(@, job.ts, i)])

Abort(where) == status' = where

Idle == status = "up" /\ work = <<>>

Used(what) == used' = [used EXCEPT ![what] = @ + 1]

-----------------------------------------------------------------------------

Init ==
  /\ saved = NoFunction
  /\ disk = [r \in ReplicaNames |-> NoDir]
  /\ tables = NoFunction /\ replica_uid = 0
  /\ engines = NoFunction /\ managers = NoFunction
  /\ work = <<>> /\ status = "up" /\ results = {}
  /\ written = [t \in TableNames |-> [k \in Keys |-> Nothing]]
  /\ used = [index |-> 0, treeless |-> 0, delete |-> 0, stop |-> 0, crash |-> 0]

(* CreateTable gives every replica of every partition the next uid.        *)
CreateTable(p, n) ==
  [partition_num |-> p, uid |-> [s \in Slots(p, n) |-> replica_uid + s[1] * n + s[2]]]

\* Mutant: Persist before the table is entered in tables_
PersistBefore(new) == saved' = tables

(* The whole of the metadata in one synchronous batch.                     *)
Persist(new) == saved' = new

(* VdbEngine::AddTable for a new name.  The metadata is written before any *)
(* of the engines exists.                                                  *)
AddTable(t, p, n) ==
  /\ Idle
  /\ t \notin DOMAIN tables
  /\ tables' = With(tables, t, CreateTable(p, n))
  /\ replica_uid' = replica_uid + p * n
  /\ Persist(tables')
  /\ work' = CreateVEngines(ReplicasInTable(tables', t))
  /\ UNCHANGED <<disk, engines, managers, status, results, written, used>>

(* The constructor of VEngine: the directory, then the dimension in it; a  *)
(* directory that is there is taken to have both.                          *)
MkDir ==
  /\ Doing("mkdir")
  /\ IF dir.there
       THEN GoOn("open") /\ UNCHANGED disk
       ELSE GoOn("dim") /\ SetDir([dir EXCEPT !.there = TRUE])
  /\ UNCHANGED <<saved, memory, status, results, written, used>>

SetDim ==
  /\ Doing("dim")
  /\ SetDir([dir EXCEPT !.dim = Dim])
  /\ GoOn("open")
  /\ UNCHANGED <<saved, memory, status, results, written, used>>

(* VEngine::Init, the entry in engines_ under the uid of the replica, and  *)
(* LoadIndex for every index directory.                                    *)
Open ==
  /\ Doing("open")
  /\ LET stamps == SetToSeq(DOMAIN dir.index)
     IN  work' = [i \in DOMAIN stamps |->
                    VindexAnnoy(job.r, stamps[i], Param(0, dir.dim, FALSE))] \o Tail(work)
  /\ engines' = With(engines, UidOf(job.r), job.r)
  /\ managers' = With(managers, job.r, NoFunction)
  /\ UNCHANGED <<saved, disk, tables, replica_uid, status, results, written, used>>

-----------------------------------------------------------------------------

\* Mutant: every replica is given the vector
PutTargetsAll(t, key) ==
  {r \in ReplicasInTable(tables, t) : r[2][1] = Leader(t, key)[2][1]}

PutTargets(t, key) == {VEngineOf(t, key)}

Put(t, key, v) ==
  /\ Idle
  /\ HasEngine(t, key)
  /\ disk[VEngineOf(t, key)].dim = Dim
  /\ disk' = [r \in ReplicaNames |->
                IF r \in PutTargets(t, key) THEN [disk[r] EXCEPT !.data[key] = v] ELSE disk[r]]
  /\ written' = [written EXCEPT ![t][key] = v]
  /\ UNCHANGED <<saved, memory, work, status, results, used>>

Delete(t, key) ==
  /\ Idle
  /\ HasEngine(t, key)
  /\ used.delete < MaxDeletes
  /\ disk' = [disk EXCEPT ![VEngineOf(t, key)].data[key] = Nothing]
  /\ written' = [written EXCEPT ![t][key] = Nothing]
  /\ Used("delete")
  /\ UNCHANGED <<saved, memory, work, status, results>>

(* VdbEngine::AddIndex: one index with the same timestamp in every engine  *)
(* of the table.  The console passes 0 for annoy_tree_num unless the       *)
(* option is given.                                                        *)
AddIndex(t, trees) ==
  /\ Idle
  /\ t \in DOMAIN tables
  /\ used.index < MaxIndexes
  /\ LET rs == {engines[UidOf(r)] : r \in {q \in ReplicasInTable(tables, t) : UidOf(q) \in DOMAIN engines}}
         ts == used.index + 1
     IN  work' = SetToSeq({VindexAnnoy(r, ts, Param(ts, Dim, trees)) : r \in rs})
  /\ used' = [used EXCEPT !.index = @ + 1, !.treeless = IF trees THEN @ ELSE @ + 1]
  /\ UNCHANGED <<saved, disk, memory, status, results, written>>

-----------------------------------------------------------------------------
(* The constructor of VindexAnnoy.                                         *)

(* MkDir cuts its command to 127 bytes: where the path does not fit, it is *)
(* not made, and VindexMeta::CreateDB finds no directory to open.          *)
IndexMkDir ==
  /\ Doing("index dir")
  /\ \/ /\ job.ts \in DOMAIN dir.index
        /\ GoOn("param") /\ UNCHANGED <<disk, status>>
     \/ /\ job.ts \notin DOMAIN dir.index /\ job.r[1] \notin LongNames
        /\ SetIndex(NewIndexDir) /\ GoOn("param") /\ UNCHANGED status
     \/ /\ job.ts \notin DOMAIN dir.index /\ job.r[1] \in LongNames
        /\ Abort("path") /\ UNCHANGED <<disk, work>>
  /\ UNCHANGED <<saved, memory, results, written, used>>

(* What VindexMeta may read where its parameters were never written: bytes *)
(* past the end of an empty string.                                        *)
Unwritten == {Param(ts, d, b) : ts \in {0, MaxIndexes + 1}, d \in {0, Dim}, b \in BOOLEAN}

(* The constructor of VindexMeta: a new database is given the parameters,  *)
(* from one that is there they are read.  FromString misreads what follows *)
(* a path of 128 bytes or more, but a path that long has no directory: see *)
(* IndexMkDir.                                                             *)
OpenParam ==
  /\ Doing("param")
  /\ IF index.meta
       THEN /\ UNCHANGED disk
            /\ \E p \in IF index.param = NoParam THEN Unwritten ELSE {index.param} :
                 GoOnWith("tree", p)
       ELSE GoOn("write param") /\ SetIndex([index EXCEPT !.meta = TRUE])
  /\ UNCHANGED <<saved, memory, status, results, written, used>>

WriteParam ==
  /\ Doing("write param")
  /\ SetIndex([index EXCEPT !.param = job.p])
  /\ GoOn("tree")
  /\ UNCHANGED <<saved, memory, status, results, written, used>>

AddToManager(tree, sound) ==
  managers' = [managers EXCEPT ![job.r] =
                 With(@, job.p.ts, [dir |-> job.ts, tree |-> tree, sound |-> sound])]

(* Annoy takes the last nodes of a file for the roots of its trees.  With  *)
(* no trees these are the items themselves, and a search that starts at    *)
(* the second one takes the bytes of its norm for the number of an item.   *)
RootsFound(tree, trees) == trees \/ Len(tree) < 2

(* The file is there: load it.  Annoy refuses an empty file, which is also *)
(* what is saved with neither items nor trees, and one that ends inside a  *)
(* node; a file cut between two nodes is loaded.                           *)
LoadTree ==
  /\ Doing("tree")
  /\ \/ /\ index.file = "begun" \/ (index.file = "complete" /\ index.tree = <<>> /\ ~index.trees)
        /\ Abort("load") /\ UNCHANGED <<managers, work>>
     \/ /\ index.file = "begun"
        /\ AddToManager(<<>>, FALSE) /\ work' = Tail(work) /\ UNCHANGED status
     \/ /\ index.file = "complete" /\ ~(index.tree = <<>> /\ ~index.trees)
        /\ AddToManager(index.tree, RootsFound(index.tree, index.trees))
        /\ work' = Tail(work) /\ UNCHANGED status
  /\ UNCHANGED <<saved, disk, tables, replica_uid, engines, results, written, used>>

\* Mutant: the tree is saved first
BuildOrderSaveFirst == <<"save", "end save", "keyids">>

BuildOrder == <<"keyids", "save", "end save">>

DataKeys == InOrder({k \in Keys : dir.data[k] # Nothing})

(* Build, where there is no file.                                          *)
Build ==
  /\ Doing("tree")
  /\ index.file = "none"
  /\ IF DataKeys # <<>> /\ job.p.dim # Dim
       THEN Abort("build") /\ UNCHANGED work
       ELSE GoOn(BuildOrder[1]) /\ UNCHANGED status
  /\ UNCHANGED <<saved, disk, memory, results, written, used>>

After(do) == IF do = Last(BuildOrder)
               THEN work' = Tail(work) /\ AddToManager(DataKeys, RootsFound(DataKeys, job.p.trees))
               ELSE /\ \E i \in 1..2 : BuildOrder[i] = do /\ GoOn(BuildOrder[i + 1])
                    /\ UNCHANGED managers

\* Mutant: counted up before it is stored
AnnoyIndexIdNext == job.id + 2

annoy_index_id == job.id + 1

(* KeyidMeta, one item: its key under its number, its number under its key.*)
PutKeyid ==
  /\ Doing("keyids")
  /\ job.id < Len(DataKeys)
  /\ SetIndex([index EXCEPT !.keyid = With(@, annoy_index_id, DataKeys[job.id + 1])])
  /\ work' = [work EXCEPT ![1].id = @ + 1]
  /\ UNCHANGED <<saved, memory, status, results, written, used>>

AllPut ==
  /\ Doing("keyids")
  /\ job.id = Len(DataKeys)
  /\ After("keyids")
  /\ UNCHANGED <<saved, disk, tables, replica_uid, engines, status, results, written, used>>

(* AnnoyIndex::save: the file is created, then written and loaded again.   *)
Save ==
  /\ Doing("save")
  /\ SetIndex([index EXCEPT !.file = "begun"])
  /\ After("save")
  /\ UNCHANGED <<saved, tables, replica_uid, engines, status, results, written, used>>

EndSave ==
  /\ Doing("end save")
  /\ SetIndex([index EXCEPT !.file = "complete", !.tree = DataKeys, !.trees = job.p.trees])
  /\ After("end save")
  /\ UNCHANGED <<saved, tables, replica_uid, engines, status, results, written, used>>

-----------------------------------------------------------------------------

Newest(r) == managers[r][Max(DOMAIN managers[r])]

Searched(t) ==
  {r \in {engines[UidOf(q)] : q \in {q \in ReplicasInTable(tables, t) : UidOf(q) \in DOMAIN engines}} :
     DOMAIN managers[r] # {}}

KeyidOf(r) == disk[r].index[Newest(r).dir].keyid

Stored(r, id) == id \in DOMAIN KeyidOf(r) /\ disk[r].data[KeyidOf(r)[id]] # Nothing

(* What a search may find: items of the tree, or anything where the roots  *)
(* are not those of its trees.                                             *)
Findable(r) == IF Newest(r).sound THEN DOMAIN Newest(r).tree ELSE 1..(KeyNum + 1)

Searches(t) == [Searched(t) -> SUBSET UNION {Findable(r) : r \in Searched(t)}]

(* GetKNN on every replica, sorted and cut to the limit.  PrepareResults   *)
(* asserts that every item has a key and that every key is still stored.   *)
GetKNN(t, limit) ==
  /\ Idle
  /\ t \in DOMAIN tables
  /\ \E found \in Searches(t) :
       /\ \A r \in Searched(t) : /\ found[r] \subseteq Findable(r)
                                 /\ Cardinality(found[r]) <= limit
       /\ IF \E r \in Searched(t) : \E id \in found[r] : ~Stored(r, id)
            THEN Abort("knn") /\ UNCHANGED results
            ELSE LET all == UNION {{<<r, KeyidOf(r)[id]>> : id \in found[r]} : r \in Searched(t)}
                 IN  /\ results' \in kSubset(Min({limit, Cardinality(all)}), all)
                     /\ UNCHANGED status
  /\ UNCHANGED <<saved, disk, memory, work, written, used>>

-----------------------------------------------------------------------------

Down ==
  /\ status' = "down"
  /\ tables' = NoFunction /\ replica_uid' = 0
  /\ engines' = NoFunction /\ managers' = NoFunction
  /\ work' = <<>> /\ results' = {}
  /\ UNCHANGED <<saved, disk, written>>

Stop == Idle /\ used.stop < MaxStops /\ Used("stop") /\ Down

Crash == /\ status = "up" /\ work # <<>>
         /\ used.crash < MaxCrashes
         /\ Used("crash")
         /\ Down

(* VdbEngine::Init in a new process: the counters start at 0, the tables   *)
(* come from the metadata, every replica gets its engine.                  *)
Start ==
  /\ status = "down"
  /\ status' = "up"
  /\ tables' = saved
  /\ work' = CreateVEngines(UNION {ReplicasInTable(saved, t) : t \in DOMAIN saved})
  /\ UNCHANGED <<saved, disk, replica_uid, engines, managers, results, written, used>>

Next ==
  \/ \E t \in TableNames :
       \/ \E p \in 1..MaxPartitions, n \in 1..MaxReplicas : AddTable(t, p, n)
       \/ \E k \in Keys : Delete(t, k) \/ \E v \in Vectors : Put(t, k, v)
       \/ \E trees \in BOOLEAN : AddIndex(t, trees)
       \/ \E limit \in 1..KeyNum : GetKNN(t, limit)
  \/ MkDir \/ SetDim \/ Open
  \/ IndexMkDir \/ OpenParam \/ WriteParam \/ LoadTree
  \/ Build \/ PutKeyid \/ AllPut \/ Save \/ EndSave
  \/ Stop \/ Crash \/ Start

Spec == Init /\ [][Next]_vars

-----------------------------------------------------------------------------

(* The replica in a slot of a table.                                       *)
IsReplica(r) == r[1] \in DOMAIN tables /\ r[2] \in DOMAIN tables[r[1]].uid

(* No two replicas have the same uid, which is the key of engines_.        *)
UidsDistinct ==
  \A q, r \in ReplicaNames : (IsReplica(q) /\ IsReplica(r) /\ q # r) => UidOf(q) # UidOf(r)

(* Get returns what Put last stored, and nothing after a Delete, through   *)
(* stops, restarts and crashes in the middle of AddTable and AddIndex, as  *)
(* long as the uids of the replicas are distinct (a table added after a    *)
(* restart gets uids that are in use, and its engines replace older ones). *)
PutsSurvive ==
  (Idle /\ UidsDistinct) =>
     \A t \in TableNames, k \in Keys : Get(t, k) = written[t][k]

(* Between calls every replica of every table has its own engine open, the *)
(* ones too whose table was added by a call that a crash cut short.        *)
EveryReplicaOpen ==
  (Idle /\ UidsDistinct) =>
     \A r \in ReplicaNames : IsReplica(r) =>
        UidOf(r) \in DOMAIN engines /\ engines[UidOf(r)] = r

(* Both, as one property of the store.                                     *)
StoreIntact == PutsSurvive /\ EveryReplicaOpen

(* An index that answers queries has the key of every item it can find,    *)
(* also when its construction was cut short and repeated at the next start;*)
(* but not one whose file a crash has cut between two nodes (Annoy loads   *)
(* it), nor one of several items that was made without trees.              *)
ItemsHaveKeys ==
  \A r \in DOMAIN managers : \A ts \in DOMAIN managers[r] :
     LET i == managers[r][ts]
     IN  i.sound => \A id \in DOMAIN i.tree :
                       /\ id \in DOMAIN disk[r].index[i.dir].keyid
                       /\ disk[r].index[i.dir].keyid[id] = i.tree[id]

(* GetKNN asks every replica of every partition and still returns no key   *)
(* twice, as long as the uids are distinct: a key is stored in one of them.*)
NoKeyTwice == UidsDistinct => \A x, y \in results : x[2] = y[2] => x = y

(* No assertion of vectordb fails, through stops and restarts, as long as  *)
(* no key is deleted (a query may then find it in the index), the process  *)
(* does not crash inside a call (an index file may then be cut), and every *)
(* index is made with trees; but for AddIndex itself, for a table whose    *)
(* index paths are too long for MkDir.                                     *)
AssertsHold ==
  (used.delete = 0 /\ used.crash = 0 /\ used.treeless = 0) =>
     status \in {"up", "down", "path"}
==============================================================================
