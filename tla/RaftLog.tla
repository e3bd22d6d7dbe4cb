------------------------------- MODULE RaftLog -------------------------------
(***************************************************************************)
(* RaftLog: the log of one server in two leveldb databases.                *)
(*                                                                         *)
(* db holds under key 0 the index to append at when the log is empty, and  *)
(* for the entry with index i its meta value under key 2i - 1 and its data *)
(* under key 2i.  config_db holds the first configuration under key 0 and  *)
(* a second copy of both keys of every configuration entry.  first_,       *)
(* last_, append_, last_checksum_ and config_indices_ mirror the two in    *)
(* memory.                                                                 *)
(*                                                                         *)
(* A batch is atomic in its database, but an operation writes the two      *)
(* databases one after the other, and only appends are synced: the process *)
(* may die between two writes, and a power failure takes each database     *)
(* back to a state it has had since its last synced write.                 *)
(*                                                                         *)
(* A checksum is abstracted to the history it covers: Crc32 of a checksum  *)
(* and an entry is the checksum's sequence with the entry appended, so two *)
(* checksums agree exactly when what they cover agrees.                    *)
(***************************************************************************)
EXTENDS Naturals, Sequences, FiniteSets, FiniteSetsExt

CONSTANTS Entries,     \* [term, type, value] records that may be appended
          FirstConfig, \* the configuration given on the command line
          MaxIndex     \* bound on the index of an entry

ASSUME LogAssumption ==
  /\ \A e \in Entries : e = [term |-> e.term, type |-> e.type, value |-> e.value]
  /\ MaxIndex \in Nat

VARIABLES
  db, config_db,               \* contents, as the process sees them
  dbSaved, configSaved,        \* contents a power failure may bring back
  first, last, append, last_checksum, config_indices,
  up,                          \* the process runs and has called Init
  op,                          \* the operation that has yet to write config_db
  torn                         \* history: a failure separated the two databases

disk   == <<db, config_db, dbSaved, configSaved>>
memory == <<first, last, append, last_checksum, config_indices>>
vars   == <<disk, memory, up, op, torn>>

-----------------------------------------------------------------------------
(* Keys and values.                                                        *)

ZeroKey == 0
LogIndexToMetaIndex(i) == 2 * i - 1
LogIndexToDataIndex(i) == 2 * i
MetaIndexToLogIndex(k) == (k + 1) \div 2
DataIndexToLogIndex(k) == k \div 2

KeyToLogIndex(k) ==
  IF k = 0 THEN 0
  ELSE IF k % 2 = 0 THEN DataIndexToLogIndex(k) ELSE MetaIndexToLogIndex(k)

Keys(S) == {LogIndexToMetaIndex(i) : i \in S} \cup {LogIndexToDataIndex(i) : i \in S}

EmptyDb == [k \in {} |-> <<>>]
NoChecksum == <<>>

(* An operation that has written db and not yet config_db.                 *)
Pending(step, from, checksum) == [step |-> step, from |-> from, checksum |-> checksum]
Done == Pending("none", 0, NoChecksum)

Put(contents, batch) ==
  [k \in DOMAIN contents \cup DOMAIN batch |->
     IF k \in DOMAIN batch THEN batch[k] ELSE contents[k]]

Delete(contents, keys) == [k \in DOMAIN contents \ keys |-> contents[k]]

ZeroBatch(a, checksum) == [k \in {ZeroKey} |-> [append |-> a, checksum |-> checksum]]

(* CheckThis covers the index, term, type and value, CheckAll the          *)
(* checksum so far and that.                                               *)
CheckThis(i, e) == <<i, e>>
CheckAll(pre, this) == Append(pre, this)

\* Mutant: the checksum of the entry before is not kept
MetaValueUnchained(i, e, pre) ==
  [term |-> e.term, type |-> e.type, pre_chk_all |-> NoChecksum,
   chk_ths |-> CheckThis(i, e), chk_all |-> CheckAll(pre, CheckThis(i, e))]

MetaValue(i, e, pre) ==
  [term |-> e.term, type |-> e.type, pre_chk_all |-> pre,
   chk_ths |-> CheckThis(i, e), chk_all |-> CheckAll(pre, CheckThis(i, e))]

EntryBatch(i, e, pre) ==
  [k \in Keys({i}) |-> IF k = LogIndexToMetaIndex(i) THEN MetaValue(i, e, pre) ELSE e.value]

GetMeta(i) == db[LogIndexToMetaIndex(i)]

(* Get: the entry with index i as the two keys give it.                    *)
Get(contents, i) ==
  LET meta == contents[LogIndexToMetaIndex(i)]
  IN  [term |-> meta.term, type |-> meta.type,
       value |-> contents[LogIndexToDataIndex(i)]]

Indices(contents) == {KeyToLogIndex(k) : k \in DOMAIN contents \ {ZeroKey}}

(* What Init finds: the largest key tells whether there are entries and    *)
(* which one is last, the key after key 0 which one is first.              *)
Recovered(contents) ==
  LET lastKey == Max(DOMAIN contents)
      secondKey == Min(DOMAIN contents \ {ZeroKey})
      lastIndex == DataIndexToLogIndex(lastKey)
  IN  IF lastKey = ZeroKey
        THEN [first |-> 0, last |-> 0, append |-> contents[ZeroKey].append,
              checksum |-> contents[ZeroKey].checksum]
        ELSE [first |-> MetaIndexToLogIndex(secondKey), last |-> lastIndex,
              append |-> lastIndex + 1,
              checksum |-> contents[LogIndexToMetaIndex(lastIndex)].chk_all]

(* LastConfig: the value under the largest key of config_db, and the log   *)
(* index it belongs to (0 for the first configuration).                    *)
LastConfig ==
  LET k == Max(DOMAIN config_db)
  IN  [index |-> KeyToLogIndex(k), value |-> config_db[k]]

-----------------------------------------------------------------------------

\* Mutant: no write is synced
WriteDbUnsynced(contents, sync) ==
  /\ db' = contents
  /\ dbSaved' = dbSaved \cup {contents}

WriteDb(contents, sync) ==
  /\ db' = contents
  /\ dbSaved' = IF sync THEN {contents} ELSE dbSaved \cup {contents}

WriteConfigDb(contents, sync) ==
  /\ config_db' = contents
  /\ configSaved' = IF sync THEN {contents} ELSE configSaved \cup {contents}

SetMemory(f, l, a, checksum) ==
  /\ first' = f
  /\ last' = l
  /\ append' = a
  /\ last_checksum' = checksum

Init ==
  /\ db = EmptyDb /\ config_db = EmptyDb
  /\ dbSaved = {EmptyDb} /\ configSaved = {EmptyDb}
  /\ first = 0 /\ last = 0 /\ append = 0 /\ last_checksum = NoChecksum
  /\ config_indices = {}
  /\ up = FALSE
  /\ op = Done
  /\ torn = FALSE

(* RaftLog::Init: open both databases, write key 0 if there is nothing,    *)
(* and read back the mirror.  Raft::InitConfig then appends the first      *)
(* configuration when there is none.                                       *)
Open ==
  /\ ~up
  /\ LET contents == IF db = EmptyDb THEN ZeroBatch(1, NoChecksum) ELSE db
         r == Recovered(contents)
     IN  /\ IF db = EmptyDb THEN WriteDb(contents, TRUE) ELSE UNCHANGED <<db, dbSaved>>
         /\ SetMemory(r.first, r.last, r.append, r.checksum)
  /\ config_indices' = {KeyToLogIndex(k) : k \in DOMAIN config_db}
  /\ up' = TRUE
  /\ op' = IF config_db = EmptyDb THEN Pending("first", 0, NoChecksum) ELSE Done
  /\ UNCHANGED <<config_db, configSaved, torn>>

AppendFirstConfig ==
  /\ up /\ op.step = "first"
  /\ WriteConfigDb(Put(config_db, [k \in {ZeroKey} |-> FirstConfig]), TRUE)
  /\ config_indices' = config_indices \cup {0}
  /\ op' = Done
  /\ UNCHANGED <<db, dbSaved, first, last, append, last_checksum, up, torn>>

\* Mutant: the first index moves with every append
GrowFirst(meta) ==
  SetMemory(append,
            IF first = 0 THEN append ELSE last + 1,
            IF first = 0 THEN append + 1 ELSE last + 2,
            meta.chk_all)

(* The mirror after the entry at append_ has been added.                   *)
Grow(meta) ==
  SetMemory(IF first = 0 THEN append ELSE first,
            IF first = 0 THEN append ELSE last + 1,
            IF first = 0 THEN append + 1 ELSE last + 2,
            meta.chk_all)

(* AppendOne, as far as the synced write of db.  A configuration entry has *)
(* its copy in config_db yet to come, the others are done.                 *)
AppendOne(e) ==
  /\ up /\ op = Done
  /\ append <= MaxIndex
  /\ LET i == IF first = 0 THEN append ELSE last + 1
         batch == EntryBatch(i, e, last_checksum)
     IN  /\ WriteDb(Put(db, batch), TRUE)
         /\ IF e.type = "kConfig"
              THEN op' = Pending("append", i, NoChecksum) /\ UNCHANGED memory
              ELSE /\ Grow(batch[LogIndexToMetaIndex(i)])
                   /\ UNCHANGED <<config_indices, op>>
  /\ UNCHANGED <<config_db, configSaved, up, torn>>

AppendConfig ==
  /\ up /\ op.step = "append"
  /\ LET i == op.from
     IN  /\ WriteConfigDb(Put(config_db, [k \in Keys({i}) |-> db[k]]), TRUE)
         /\ config_indices' = config_indices \cup {i}
         /\ Grow(GetMeta(i))
  /\ op' = Done
  /\ UNCHANGED <<db, dbSaved, up, torn>>

(* DeleteFrom(i), as far as the write of db: nothing for an empty log or   *)
(* an index past the end, the whole log for an index before its start.     *)
(* Neither write is synced.                                                *)
DeleteFrom(i) ==
  /\ up /\ op = Done
  /\ first # 0
  /\ i <= last
  /\ LET from == IF i < first THEN first ELSE i
         rest == Delete(db, Keys(from..last))
     IN  /\ WriteDb(IF from = first
                      THEN Put(rest, ZeroBatch(from, GetMeta(from).pre_chk_all))
                      ELSE rest, FALSE)
         /\ op' = Pending("delete", from, GetMeta(from).pre_chk_all)
  /\ UNCHANGED <<config_db, configSaved, memory, up, torn>>

\* Mutant: the configuration at the index itself stays
ConfigsAfter(i) == config_indices \cap ((i + 1)..last)

ConfigsFrom(i) == config_indices \cap (i..last)

DeleteConfigs ==
  /\ up /\ op.step = "delete"
  /\ LET gone == ConfigsFrom(op.from)
     IN  /\ WriteConfigDb(Delete(config_db, Keys(gone)), FALSE)
         /\ config_indices' = config_indices \ gone
  /\ IF op.from = first
       THEN SetMemory(0, 0, op.from, op.checksum)
       ELSE SetMemory(first, op.from - 1, op.from, op.checksum)
  /\ op' = Done
  /\ UNCHANGED <<db, dbSaved, up, torn>>

(* DeleteUtil(i): config_db is left alone.                                 *)
DeleteUtil(i) ==
  /\ up /\ op = Done
  /\ first # 0
  /\ i >= first
  /\ LET to == IF i > last THEN last ELSE i
         rest == Delete(db, Keys(first..to))
         checksum == IF to < last THEN last_checksum ELSE GetMeta(to).chk_all
     IN  /\ WriteDb(IF to = last THEN Put(rest, ZeroBatch(last + 1, checksum)) ELSE rest,
                    FALSE)
         /\ IF to = last THEN SetMemory(0, 0, last + 1, checksum)
                         ELSE SetMemory(to + 1, last, last + 1, checksum)
  /\ UNCHANGED <<config_db, configSaved, config_indices, up, op, torn>>

-----------------------------------------------------------------------------
(* Failures.                                                               *)

LoseMemory ==
  /\ first' = 0 /\ last' = 0 /\ append' = 0 /\ last_checksum' = NoChecksum
  /\ config_indices' = {}
  /\ up' = FALSE
  /\ op' = Done

(* The process dies; what it has written stays with the operating system.  *)
Crash ==
  /\ up
  /\ torn' = (torn \/ op.step \in {"append", "delete"})
  /\ LoseMemory
  /\ UNCHANGED disk

PowerFailure ==
  /\ torn' = TRUE
  /\ db' \in dbSaved /\ dbSaved' = {db'}
  /\ config_db' \in configSaved /\ configSaved' = {config_db'}
  /\ LoseMemory

Next ==
  \/ Open
  \/ AppendFirstConfig
  \/ \E e \in Entries : AppendOne(e)
  \/ AppendConfig
  \/ \E i \in 0..MaxIndex : DeleteFrom(i)
  \/ DeleteConfigs
  \/ \E i \in 0..MaxIndex : DeleteUtil(i)
  \/ Crash
  \/ PowerFailure

Spec == Init /\ [][Next]_vars

-----------------------------------------------------------------------------

(* Between operations the mirror in memory says what RaftLog::Init would   *)
(* read from the databases: no operation leaves a first, last or append    *)
(* index, a checksum or a configuration index that a restart would change. *)
MemoryMatchesDisk ==
  (up /\ op = Done) =>
     LET r == Recovered(db)
     IN  /\ <<first, last, append, last_checksum>> = <<r.first, r.last, r.append, r.checksum>>
         /\ config_indices = {KeyToLogIndex(k) : k \in DOMAIN config_db}

(* At every moment, during operations and after any failure, db holds both *)
(* keys of a run of consecutive entries, and every entry's checksum covers *)
(* it and goes on from the entry before.                                   *)
ChainUnbroken ==
  LET I == Indices(db)
  IN  /\ \A i \in I : /\ Keys({i}) \subseteq DOMAIN db
                      /\ GetMeta(i).chk_ths = CheckThis(i, Get(db, i))
                      /\ GetMeta(i).chk_all = CheckAll(GetMeta(i).pre_chk_all, GetMeta(i).chk_ths)
      /\ \A i, j \in I : i..j \subseteq I
      /\ \A i \in I : i + 1 \in I => GetMeta(i + 1).pre_chk_all = GetMeta(i).chk_all

(* "use config in log" (Raft::InitConfig): between operations LastConfig   *)
(* is the last configuration entry of the log or, when the log has none,   *)
(* one that was there before the log's first entry, as long as the process *)
(* has died between operations only and the power has not failed.          *)
ConfigInLog ==
  (up /\ op = Done /\ ~torn) =>
     LET configs == {i \in Indices(db) : Get(db, i).type = "kConfig"}
     IN  IF configs = {} THEN LastConfig.index < append /\ LastConfig.index \notin Indices(db)
         ELSE /\ LastConfig.index = Max(configs)
              /\ LastConfig.value = Get(db, Max(configs)).value

(* The two databases together are a log as LogSpec asks for it: appends    *)
(* are durable when they return, and no failure leaves a log that never    *)
(* was.                                                                    *)
LogOf(contents) == [i \in Indices(contents) |-> Get(contents, i)]

NextOf(contents) == IF contents = EmptyDb THEN 1 ELSE Recovered(contents).append

Abstract == INSTANCE LogSpec WITH
  log <- LogOf(db),
  next <- NextOf(db),
  recover <- {<<LogOf(c), NextOf(c)>> : c \in dbSaved}

ImplementsLogSpec == Abstract!Spec
==============================================================================
