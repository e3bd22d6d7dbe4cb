# vraft in TLA+

A verification development for [vraft](https://github.com/vectordb-io/vraft): models of its
components, TLC instances that check them, and TLAPS proofs of what matters most.  Paths
below are relative to the repository; the Raft implementation is in `src/raft`.

1. [The system](#1-the-system) · 2. [The modules](#2-the-modules) ·
3. [The models](#3-the-models) · 4. [Properties](#4-properties) · 5. [Runs](#5-runs) ·
6. [Proofs](#6-proofs) · 7. [Findings](#7-findings) · 8. [Not modelled](#8-not-modelled) ·
9. [Plan](#9-plan)

## 1. The system

vraft is a C++ implementation of Raft on an event-driven (SEDA) runtime, with an emulator
(Remu) that runs a cluster in one process, a replicated key-value store (vstore) and a
single-node vector database (vectordb).

| Component | State | Operations | Interacts with |
|---|---|---|---|
| **Raft** (`raft.cc`, `raft_core.cc`, `raft_request_vote.cc`, `raft_append_entries.cc`, `raft_client_request.cc`, `raft_timeout_now.cc`) | `state_`, `leader_`, `commit_`, `last_apply_`, `last_heartbeat_timestamp_`, `pre_voting_`, `leader_transfer_`, `transfer_max_term_`, `started_` | one handler per message, one callback per timer, `Propose`, `LeaderTransfer`, `Start`, `Stop`, `AddServer`, `RemoveServer` | owns all the managers below; sends through a function RaftServer installs |
| **SolidData** | term and vote in a leveldb | `SetTerm`, `SetVote`, `IncrTerm` | written by StepDown, DoRequestVote, OnRequestVote |
| **RaftLog** | entries and configurations in two leveldbs, `first_`, `append_`, `last_checksum_` | `AppendOne`, `DeleteFrom`, `DeleteUtil`, `Get`, `LastConfig` | written by Propose, BecomeLeader, OnAppendEntries |
| **VoteManager** | per peer: grant, logok, interval_ok, done | `GetVote`, `LogOK`, `IntervalOK`, `Majority`, `MajorityPreVoteOK`, `Clear`, `Reset` | vote replies |
| **IndexManager** | per peer: next, match | `SetNext`, `SetMatch`, `DecrNext`, `MajorityMax`, `ResetNext`, `ResetMatch` | append replies, MaybeCommit |
| **TimerManager** | election timer; per peer: ping, request-vote and heartbeat timer | start, stop, again | Elect, RequestVoteRpc, HeartBeat run on the loop |
| **SnapshotManager** | per peer: reader and offset; a writer | `SendInstallSnapshot`, `OnInstallSnapshot`, `OnInstallSnapshotReply` | used when a follower needs an entry below `log_.First()` |
| **ConfigManager** | current and previous configuration | `SetCurrent`, `Rollback` | AddServer, RemoveServer, OnAppendEntries |
| **StateMachine** (interface), **vstore** | last applied index, application data, on disk | `Restore`, `Apply`, `LastIndex`, `LastTerm` | StateMachineApply |
| **RaftServer** | one Raft, a TCP server, one client per peer | framing and dispatch of messages, client requests | seda |
| **seda: event loop** (`eventloop.cc`, `async_queue.cc`, `async_stop.cc`, `loop_thread.cc`, `timer.cc`) | `tid_`, functor queue and stop handle, timers, start latch | `RunFunctor`, `Stop`, `WaitStarted`, `Close` | runs every callback of a Raft on one thread |
| **seda: work threads** (`work_thread.cc`) | a bounded queue, mutex and two condition variables per thread | `Push`, `Run`, `Stop`, `Join` | a pool that keeps one id on one thread |
| **seda: TCP** (`server_thread.cc`, `tcp_server.cc`, `acceptor.cc`, `tcp_connection.cc`, `buffer.h`, `tcp_client.cc`, `connector.cc`) | handles, connections by peer, buffers, pending replies and writes | accept, read, write, close, `ServerThread::Stop` | RaftServer, vectordb, vstore |
| **encoding** (`util/coding.cc`, every message and record class) | none | `MaxBytes`, `ToString`, `FromString` | the network and leveldb |
| **Remu**, **checker**, **tracer**, **logger** | several RaftServers in one process; traces | test harness, logging | asserts one leader per term |
| **vectordb** (`vdb_engine.cc`, `metadata.cc`, `vengine.cc`, `vindex_annoy.cc`) | metadata, one engine per replica in its own directory, indexes with their trees and key tables | `AddTable`, `Put`, `Get`, `Delete`, `AddIndex`, `GetKNN`, restart | does not use Raft yet; its server uses seda |

*What is hard here.*  A Raft object is single-threaded, so the difficulty in `src/raft` is not
shared memory but sequences: replies that answer an earlier round of the same term (pre-vote
does not raise the term, so two rounds can share one); a server that restarts within a term
with its vote but without its role; messages delivered late, twice or never; the truncation
of conflicting logs and, with them, of configurations; the commit rule; a state machine that
has its own, possibly later, idea of what was applied; role changes with timers armed.  On
disk it is the writes that belong together and are made one after the other, some synced and
some not.  In seda it is threads: notifications, queues at their limit, libuv callbacks that
coalesce, handles that are closed by several parties, and the moments before a loop has
started and after it was told to stop.  Many handlers state what they believe about this as
assertions, which stay enabled in the build and abort the process.  `PROJECT.json` lists each
hazard at its line, with the properties that cover it.

*What makes each part correct.*  Elections: at most one leader per term; votes durable;
pre-vote never disturbs a term without the consent of half of the cluster.  Replication:
logs agree; committed entries stay and reach every later leader; match indices are true.
Apply: each committed entry once and in order, on every server the same.  Timers: exactly
those of the role.  Storage: after any failure the log is one it has been, and memory says
what is on disk.  Membership: configuration and managers follow the log through truncation;
one change at a time.  Snapshots: what counts as matched is installed.  seda: every functor
accepted runs once, in order, and shutdown ends and leaves nothing open.  Framing: what a
handler gets is what was sent.  Encoding: what is read is what was written, within the
buffer.  vectordb: what was put is found again after a restart or a crash.

## 2. The modules

| Module | Content |
|---|---|
| `VRaft` | the consensus core as a state machine |
| `VRaftProperties` | its type invariant, safety invariants and action properties |
| `RaftLog` | the log in its two databases, with recovery and failures |
| `LogSpec` | abstract: what Raft asks of a log on disk; `RaftLog` implements it |
| `VoteStore` | term and vote, every Put a step, with failures between them |
| `Snapshot` | snapshot transfer between a leader and a follower |
| `Membership` | membership change as one server sees it, in an honest cluster |
| `WorkThread`, `EventLoop` | the two ways seda carries out functors |
| `Executor` | abstract: what both promise; both implement it |
| `Codec` | the layout of every message and record class |
| `Stream` | framing of messages on a connection, and the buffer they are read into |
| `TcpServer` | the life of the handles of a server thread |
| `Vdb` | vectordb's tables, engines and indexes, in memory and on disk |
| `MCVRaft`, `MCStorage`, `MCMembership`, `MCSeda`, `MCNet`, `MCVdb` | TLC instances, with the `.cfg` files |
| `VRaftElection_proofs` | proofs: types, votes and elections, pre-vote, the leader cache |
| `VRaftLog_proofs`, `VRaftCommit_proofs` | proofs: logs, what can be committed, what is committed and applied |
| `Seda_proofs` | proofs: work threads and event loop |
| `Storage_proofs` | proofs: the vote and the log on disk, snapshot transfer |
| `Membership_proofs` | proofs: the configuration of a member and of a joining server |
| `Net_proofs` | proofs: framing on a connection, the handles of a server |
| `Vdb_proofs` | proofs: the store and the indexes of vectordb |

Beside some operators stands a variant with a plausible error, marked *Mutant*, which no
specification uses: it is there to show that a property notices that error.

*How they are put together.*  VRaft takes a handler as one step, the log as a sequence, and
the network as a set of messages.  The other modules are about what it takes for granted:
RaftLog and VoteStore about the writes a handler is made of, Membership and Snapshot about
the two parts of the protocol VRaft leaves out, Codec, Stream and TcpServer about how a
message gets from one server to another, EventLoop and WorkThread about how a callback gets
a thread of its own.  The MC modules combine components of one layer.  Those components share
no state, so a behaviour of `MCStorage`, `MCNet`, `MCSeda` starts one of them and leaves the
others alone (`part`, or a component that is `Unused`): every interleaving of one
component is explored, and none is missed by not interleaving two.  `MCMembership` combines two
instances of one module in the same way, a member and a joining server.  `MCVdb` has one instance and
two kinds of behaviour with bounds of their own (`part`): tables that are written, deleted and
crashed, and one table that is searched.

## 3. The models

### 3.1 `VRaft`: the consensus core

**State.**  One function over `Server` per field of the C++ object:

| Variables | Code |
|---|---|
| `term`, `vote` | `SolidData` (persistent) |
| `log` | `RaftLog`, as a sequence of (term, value) from index 1 (persistent) |
| `sm` | the state machine's disk: `last` is `LastIndex()`, `applied[k]` the list of entries handed to `Apply` for index `k`, so a repetition shows |
| `started`, `state`, `leader`, `commit`, `lastApply`, `preVoting`, `leaderTransfer`, `transferMaxTerm` | the fields of `Raft` with those names |
| `lastHeartbeat` | `last_heartbeat_timestamp_`, reduced to what OnRequestVote distinguishes: 0, `INT64_MAX` (a leader), a clock reading |
| `grant`, `logOk`, `intervalOk` | `VoteManager`: the peers whose flag is set |
| `next`, `match` | `IndexManager` |
| `electionTimer`, `requestVoteTimers`, `heartbeatTimers` | `TimerManager`: armed or not, per peer |
| `messages`, `delivered` | every message sent, and those a handler has run for |
| `elected` | history: (term, server) for every BecomeLeader |
| `used` | how many events of each bounded kind have happened |

**Actions.**  One per callback, handler or call, with every state change it makes:
`Elect`, `RequestVoteRpc`, `HeartBeat` (timers); `OnRequestVote`, `OnRequestVoteReply`,
`OnAppendEntries`, `OnAppendEntriesReply`, `OnTimeoutNow` (messages); `Propose`,
`LeaderTransfer` (clients); `Start`, `Stop`, `Crash`.  `StepDown`, `BecomeLeader` (with its
noop), `BecomeCandidate`, `DoRequestVote`, `DoPreVote`, `MaybeCommit`, `StateMachineApply`
are operators the actions share, as they are methods the handlers share.

One callback is one action because RaftServer runs every callback of a Raft on its event
loop (`AssertInLoopThread`).

**Network.**  `messages` only grows.  A message is delivered at any time after it was sent,
or never: that covers loss, delay, reordering and broken connections.  A message is handled
again only within `MaxDuplicates`; a second delivery stands for a retransmission by a
timer, which builds the same request again (only `uid` and `send_ts` differ).  It allows
more than TCP does, so every safety property carries over.

**Time.**  Durations are left out: an armed timer may fire at any moment, and the outcome of
the interval check on a clock reading is a free choice, since the code compares wall-clock
readings that may jump.

**Assertions.**  Where the code asserts and a property states that the assertion holds
(`LeaderCacheSound`, `CommittedNotOverwritten`, `IndicesWithinLog`), the assertion is a
guard.  Where the assertion can fail (`assert(state_ == STATE_LEADER)` in
OnAppendEntriesReply) the action `AbortNotLeader` lets the process die.

**Initial states.**  `Init` is a cluster of fresh servers: term 1, no vote, empty log (the
first configuration is kept beside the log, not in it).  `RivalSpec` of
`MCVRaft` starts from two states that a longer behaviour reaches and TLC would need many
steps for: two servers led terms 2 and 3, appended their noop (and, in the second, a
proposal each), replicated nothing and restarted.

**Abstractions.**  An AppendEntries carries at most one entry, as in the code.  TimeoutNow's
log fields and `force` decide only whether the receiver's election timer fires at once, and
an armed timer may fire anyway.  LeaderTransfer goes to peers.  Entry values are model
values; checksums, `uid`, timestamps, tracing and JSON are left out.

### 3.2 `RaftLog`, `LogSpec`

`db` and `config_db` are functions from keys to values with the code's key layout (0 for
the empty log, 2i - 1 and 2i for the meta value and the data of entry i); `first`, `last`,
`append`, `last_checksum` and `config_indices` are the mirror in memory.  `Open` is
`RaftLog::Init` with `Raft::InitConfig`'s first configuration; `AppendOne`, `DeleteFrom` and
`DeleteUtil` are the operations, and one that writes both databases is two actions, with
`op` saying what is still to be written.  `Crash` falls between any two writes.
`PowerFailure` takes each database back to any state it has had since its last synced write
(appends are synced, deletes are not).  A checksum is the history it covers, so that two
agree exactly when that agrees.  `LogSpec` has only a run of entries, the next index and
the set of states a failure may leave: an append is durable when it returns, a cut may be
undone.  The refinement mapping reads the log off `db` and the states of a failure off what
is saved.

### 3.3 `VoteStore`

`OnRequestVote`, StepDown for any other message, and `DoRequestVote` with each `Put` of
SolidData an action, against candidates whose log is good enough or not.  `granted` records
the votes answered, `faults` which kinds of failure have occurred: `crash` between handlers,
`torn` inside one, `power`.

### 3.4 `Snapshot`

A leader with a reader, a follower with a writer, chunks and replies in order on a connection
that loses messages, restarts of both sides, a leader that goes on compacting and a follower
that goes on applying.  Reader and writer are the user's; here they count chunks, from
`FirstOffset`: the base class starts a reader's offset at 0 (`snapshot.h:18`), and the first chunk
then fails `assert(msg.offset > writer->stored())`, so a reader that can be used starts at 1.  The
model has both; the run has 1.  The swap of the state machine is two renames, and `CrashInSwap` is
the death of the follower between them, which leaves none at `sm_path_`.  The two assertions that can
fail set `failed` and end the behaviour.

### 3.5 `Membership`

One server in full (its log, ConfigManager's current and previous configuration, the
managers' peers, VoteManager's items, `changing_index_`, `standby_`); the rest of the
cluster is an environment that keeps Raft's promises: the log of the current leader, how
much of it is chosen, and leaders that change one server at a time.  `AddServer`,
`RemoveServer`, `Elect`, `OnRequestVoteReply`, `OnAppendEntries` (with DeleteFrom's
ConfigRollback for every configuration it removes and AppendOne's ConfigChange),
`StateMachineApply` and `Restart` are the actions of the server.  The managers are kept apart
(`timers`, `indices`, `snapshots`, `votes`), because a late message treats them differently:
`OnAppendEntriesReply` of any server this leader has sent to in its term, removed meanwhile or not,
makes an item in IndexManager and perhaps in SnapshotManager, or, if it refuses, ends the process at
an assertion (modelled as a restart); `OnInstallSnapshot` makes one for its sender, and
`OnRequestVoteReply` one in VoteManager.  A joining server sees other changes than its own, before
and behind it; `overtaken` records that a second one reached it before it had applied the first.

### 3.6 `WorkThread`, `EventLoop`, `Executor`

In WorkThread a step is a critical section, a notification, or the begin or end of a
functor; sleeping processes wake by notification or spuriously.  Producers push under ids,
some functors push another one, and a further thread stops the pool at any time.  In
EventLoop a step is a phase of `uv_run` (timers, functor callback, stop callback, closing
callbacks), a functor, or one of the two halves of a call (push and `uv_async_send`; the
test of `tid_` and what follows it).  A functor may add a timer or call Stop, and so may the
callback of a timer call Stop, in the loop thread; the functors behind it in the batch are still
called.  Close closes the timers there are when it is called (`closed`, the code's `timers2`), and
one that a functor adds later stays (`added_late`).  `wait_first` says whether the threads call
WaitStarted first, as vectordb and the tests do.  `Executor` says what both promise: functors of
one id are carried out once each, in the order accepted, one at a time.

### 3.7 `Codec`, `Stream`, `TcpServer`

`Codec` has for every class the fields in the order of ToString, in the order of
FromString, and what MaxBytes reserves; a behaviour writes a message field by field and
reads it back.  Fixed widths, varint lengths and the number of bytes each decoder says it
took are the code's.  In `Stream` a byte is its position in the stream; reads of any size
arrive in a buffer with the code's indices and its move to the front, and `TakeMessage`,
`BodyIncomplete` and `NoHeader` are the turns of the framing loop, for raft (`while`) and
vectordb (`if`).  The connection is closed for every read that is no data (`last_read`): the buffer
has no room (ENOBUFS), the stream has ended (EOF), or libuv, which reads again after a read that
filled the buffer, finds nothing and reports 0 bytes (EAGAIN).  That libuv stops after 32 reads in a
row is left out.  `TcpServer` has every `uv_tcp_t` from accept to its close callback, the map
of connections, replies that hold a connection, queued, completed and failed writes, libuv's
list of handles to call back, and `ServerThread::Stop` in another thread.

### 3.8 `Vdb`

The metadata database, the directory of each replica (dimension, data, indexes with their
parameters, key table and tree file), and the process: tables, uids, engines by uid, index
managers.  A call that writes in several places is a list of jobs, and a crash may fall
between any two.  Which neighbours Annoy finds is a free choice.  An index has trees or not (the
console passes 0 for `annoy_tree_num` when the option is absent).  `LoadTree` follows Annoy's `load`:
it refuses an empty file and one that ends inside a node, and loads one that was cut between two
nodes.  An index is `sound` when the roots it starts a search from are those of its trees; a search
in another may return any number.  The paths of `LongNames` do not fit the 128 bytes of MkDir's
command: their directory is not made, and opening the database in it fails an assertion (`status`
is then "path").  For the same reason no parameters with a path of 128 bytes or more, which
`VIndexParam::FromString` would misread, are ever read back.

## 4. Properties

Consensus core (`VRaftProperties`):

| Property | Says | A bug it finds (its mutant) |
|---|---|---|
| `ElectionSafety` | one server per term ever becomes leader | StepDown clears the vote within a term |
| `ElectionInv` | ballots are truthful, unique and counted in their own round; each leader is backed by the votes Majority asks for | a vote is given twice |
| `VoteStable` | terms never decrease, a vote lasts for its term | a vote is given twice |
| `TimersMatchRole` | exactly the timers of the role are armed | Stop forgets the request-vote timers |
| `LeaderCacheSound` | `assert(leader_ == msg.src)` never fails | StepDown keeps the old term's leader |
| `PreVoteBeforeElection` | a term is raised only with half of the cluster having said, in this very term's pre-vote, that the log is up to date and that no leader was heard | the interval flag is not counted |
| `LogMatching` | same term at an index: same log up to it | `pre_log_term` is not compared |
| `LeaderCompleteness` | a leader holds what was committed up to its term | an old term's entry is committed by counting |
| `CommittedNotOverwritten` | `assert(commit_ < index)` never fails | a vote for any log |
| `MatchIndexSound` | match indices are true | a conflicting entry is kept |
| `StateMachineSafety` | no two state machines differ at an index | `pre_log_term` is not compared |
| `AppliedMatchesLog` | the state machine's disk is the log's data entries, each once | the log is replayed from 0 |
| `IndicesWithinLog` | `pre_index <= last_index` and `commit_ <= LastIndex()` | a heartbeat's reply counts as an entry |
| `TypeOK` | types; `next` is never 0 | `DecrNext` without its lower bound |
| `ReplyFindsLeader` | `assert(state_ == STATE_LEADER)` in OnAppendEntriesReply; violated | |


The others.  *Except* names what the code does not guarantee; the property is stated
for everything else, and section 7 describes the exception.

| Property | Says | Except |
|---|---|---|
| `LogRecoverable` (`MemoryMatchesDisk`, `ChainUnbroken`) | the mirror in memory is what a restart would read; at any moment, after any failure, entries are consecutive and each checksum covers its entry and the one before | |
| `ImplementsLogSpec` | RaftLog refines LogSpec | |
| `ConfigInLog` | LastConfig is the last configuration the log has | after a power failure or a crash between the writes of one operation |
| `VotesSound` (`VoteOnce`, `VotesNeedLogOk`, `WrittenThrough`) | the vote of a term goes to one server; its log was good enough; the database holds what the server answers from | the first after a power failure; the second also after a crash inside a handler |
| `SnapshotSound` (`MatchInstalled`, `NeverGoesBack`) | what counts as matched is installed; the follower's state machine never goes back | for the first, snapshots of one chunk (of two, with offsets from 0); for the second, a crash between the two renames of a swap |
| `MemberFollowsLog` (`CurrentIsLastLogged`, `ManagersMatchConfig`) | the current configuration is the log's last, me the server's own address; heartbeat timers run for exactly its peers, and the other managers miss none of them, whatever is answered late | after a restart with a configuration in the log |
| `MemberAssertsHold` | no assertion of ConfigChange or ConfigRollback fails on a member | after such a restart |
| `MemberOneChange` (`OneChangeAtATime`, `ChangingIndexKnown`) | a leader has at most one configuration that is not chosen, and `changing_index_` knows it | after such a restart |
| `JoinerStandbyClears` | a server that joined, and has applied that, is no longer standby | when another change reached it before it had applied its own; after such a restart, or once an assertion has failed |
| `SedaImplementsExecutor` | WorkThread and EventLoop refine Executor | |
| `StopDrains` | a worker that has ended has carried out what was accepted before its stop | |
| `PoolProgress` (`PushReturns`, `EverythingRuns`) | every Push returns, everything accepted runs | a functor that waits for room in its own worker's queue; a worker that was stopped |
| `StopEndsThreads` | a stopped pool ends | a functor that waits for itself |
| `LoopProgress` (`EverythingRuns`, `StopEndsLoop`) | everything the loop's queue accepted runs; after Stop the loop ends | a closed loop; a loop whose work another thread did |
| `LoopSafe` (`FunctorsOnLoopThread`, `NothingStranded`, `EndsClean`) | the loop's work is done in its thread; no functor is left without a callback due; the loop ends with no handle open and none used after its close | for the first and third, threads that do not call WaitStarted; for the third, calls under way when Stop is called or begun after it, a second Stop included, and timers that a functor adds behind a Stop |
| `FramingIntact` | message k a handler gets is message k that was sent, byte for byte | |
| `ClosedOnlyWithBacklog` | a connection is closed for want of room only when a whole message waits already, and that of a client that waits for its answers only at the end of the stream | messages that leave less than MaxWaste of the buffer free |
| `StreamProgress` (`EveryMessageDelivered`, `VectordbReturns`) | every message of a raft peer, and of a vectordb client that waits for answers, is handled; vectordb's handler returns | raft's loop spinning on an incomplete body; a raft connection closed because a read that filled the buffer was followed by one that found nothing |
| `LoopResponds` | the loop thread comes back to wait for events; **violated** for raft | |
| `HandlesSound` (`ClosedOnce`, `NoFreedHandle`, `NothingLeft`) | no handle is closed twice or freed while libuv has it; nothing is left of a stopped server | for freeing, a connection that could not be accepted |
| `StopReturns` | ServerThread::Stop returns | a failed write has ended the process |
| `RoundTrip` (`FieldsIntact`, `SizeExact`) | FromString reads what ToString wrote and says how long it was | a string of 128 bytes or more (for the first, one that another field follows) |
| `WithinBuffer` (`WithinMaxBytes`, `ReadsWithinMessage`) | ToString stays within MaxBytes, FromString within the message | for the second, TimeoutNow and messages that RoundTrip excepts |
| `StoreIntact` (`PutsSurvive`, `EveryReplicaOpen`) | Get returns what was put last, and every replica has its own engine, through stops and crashes | two replicas with one uid |
| `ItemsHaveKeys` | an index that answers queries has the key of every item of its tree | a file that a crash has cut between two nodes; several items without trees |
| `NoKeyTwice` | GetKNN returns no key twice | two replicas with one uid |
| `AssertsHold` | no assertion fails through stops and restarts | after a Delete, a crash or an AddIndex without trees; AddIndex with a path too long for MkDir |

Each property is broken by the mutants `PROJECT.json` lists for it, a conjunction by one for
each of its parts that has one.

## 5. Runs

`tlc -config <cfg> <module>`.  Behaviours end when the bounds are used up, so deadlock
checking is off; that somebody always can go on is what TimersMatchRole and the liveness
properties say.

| Run (module, cfg) | Instance and bounds | Shows |
|---|---|---|
| election (`MCVRaft`, `Election.cfg`) | 3 servers, no pre-vote, 3 election timeouts, 4 requests, 1 restart or crash | ElectionSafety, ElectionInv, TimersMatchRole, LeaderCacheSound, VoteStable |
| pre_vote (`MCVRaft`, `PreVote.cfg`) | 3 servers, pre-vote, interval check, 2 timeouts, 4 requests, 1 restart, 1 leader transfer | PreVoteBeforeElection |
| replication (`MCVRaft`, `Replication.cfg`) | 3 servers, 1 election, proposals after the noop, 1 duplicate, 1 restart | AppliedMatchesLog, IndicesWithinLog |
| rival_logs (`MCVRaft`, `RivalLogs.cfg`) | from two logs in conflict, with noops only or with a value each; 2 elections, 5 requests (4 as long as a value is left), 1 duplicate | TypeOK, LogMatching, LeaderCompleteness, CommittedNotOverwritten, MatchIndexSound, StateMachineSafety |
| four_servers (`MCVRaft`, `FourServers.cfg`) | 4 servers, 2 timeouts, 2 requests | ElectionSafety is **violated** |
| restarted_leader (`MCVRaft`, `RestartedLeader.cfg`) | 3 servers, 1 election, 2 requests, 1 restart | ReplyFindsLeader is **violated** |
| storage (`MCStorage`, `Storage.cfg`) | 3 indices, a data and a configuration entry; 2 terms, 2 candidates; 2 chunks, with offsets from 1, 3 snapshots, 3 leader terms, 2 messages each way; any number of crashes and power failures | LogRecoverable, ConfigInLog, VotesSound, ImplementsLogSpec, SnapshotSound |
| membership (`MCMembership`, `Membership.cfg`) | a cluster of 3 to 4 of 4 servers, and one of 2 that grows by a third server and by the joiner; 4 indices, 4 terms | MemberFollowsLog, MemberAssertsHold, MemberOneChange, JoinerStandbyClears |
| seda (`MCSeda`, `Seda.cfg`) | 2 workers, queues of 2, 2 producers with a functor each, one of which pushes another, a stop; 2 callers of a loop whose functors add a timer, stop the loop or do neither, and a stopper | SedaImplementsExecutor, StopDrains, PoolProgress, StopEndsThreads, LoopProgress, LoopSafe |
| network (`MCNet`, `Net.cfg`) | every class with strings at the varint boundaries and up to 2 list elements; 3 messages with bodies of 1 to 3 bytes in a buffer of 8; 2 servers, 2 peers, 2 connections, 1 write each | FramingIntact, ClosedOnlyWithBacklog, StreamProgress, HandlesSound, StopReturns, RoundTrip, WithinBuffer |
| vdb (`MCVdb`, `Vdb.cfg`) | 2 tables, of 2 partitions and of 1, the second with long paths, 2 keys, 1 index with or without trees, 1 delete, 1 stop, 1 crash; and 1 table of 2 partitions with 2 replicas, 3 keys, 2 indexes, 2 restarts | StoreIntact, ItemsHaveKeys, NoKeyTwice, AssertsHold |
| partial_body (`Stream`, `PartialBody.cfg`) | raft, bodies of 1 and 2 bytes in a buffer of 7 | LoopResponds is **violated** |

*Why these bounds.*  An election of three servers needs one timeout and one request to one
peer; three timeouts and four requests allow two rivals in one term, a third round after
it, and replies of one round that arrive in another.  One restart puts a server back in a
term it has voted or led in.  Replication needs one proposal to have a data entry beside
the noop, and one duplicate for a repeated reply.  In rival_logs the entries of terms 2
and 3 are at index 1, so two elections let the leader of term 4 copy the entry of an old
term to a majority and be replaced by another, which is the scenario the commit rule exists
for; the second start has values at the index in dispute, so that what is applied there
differs if the logs do.  Symmetry over servers is used from `Init`, where no server differs
from another, and only for invariants and action properties.

Three indices allow a log to be emptied at either end and filled again, an entry to be
replaced by one of the other kind, and a cut in the middle.  Two terms are enough for a vote
of one to be found in the next.  In membership four indices hold a change, its truncation, a
noop of the new leader and another change, or the joiner's change with another before or behind it,
and four terms two changes of leader; a state in
which a server has reread its configuration at a restart is not followed further, as no
property speaks about it.  A queue of two with three pushers has producers asleep and a
functor that waits for itself; one functor for each caller of the loop suffices for two
sends that make one callback, and for a timer added behind a Stop of the same batch.  A buffer of 8 with a header of 2 and bodies of up to 3 has
messages cut at every byte, moved to the front, and a buffer that is full.  Two connections
from two peers to two servers let a peer hang up and come back while the other is being
stopped.  In vdb the second table may be added before or after a restart, so that uids are distinct
and repeated, and three keys over two partitions leave one with two items.  Every error a mutant stands for is found within these bounds.

*Fairness.*  Only seda, the stream and the TCP server have liveness properties.  Assumed
is weak fairness of: each thread's next step (the operating system runs what can run; for a
mutex that means only that a process which can take it all the time gets it); the loop's
callbacks; the delivery of bytes that were sent; and the next `Push` of a `Stop` that has
begun.  Nothing is assumed of peers, of producers, of whoever calls Stop, or of spurious wake-ups.
VRaft has none: without durations two candidates can outbid each other for ever.

## 6. Proofs

`tlapm` checks the eight modules with `_proofs` in their names.  What is proved of `VRaft` holds
for any finite non-empty set of servers, any values, any bounds and both flags, from
`ServerAssumption`, `ValueAssumption`, `FlagAssumption` and `BoundAssumption`; what is proved of
seda for any number of threads, functors, ids and callers and any size of the queues, from
`PoolAssumption` and `LoopAssumption`; what is proved of the storage for any candidates, terms,
entries, indices, chunks and messages under way, from `VoteAssumption` (no server has the id that
stands for no vote), `LogAssumption` (an entry is a record of term, type and value) and
`SnapshotAssumption` (a snapshot has a chunk).  What is proved of membership holds for any servers,
first configuration, log length and terms, from `MembershipAssumption` (a server starts as a standby
exactly if it is not in the first configuration, and no server has the number that stands for no
address) and `PartsAssumption` (other leaders do not remove the member whose part is looked at, and
the joiner is a server that is no member yet; any other server may come and go); what is proved of the network for any sizes of buffer,
header and bodies, any number of messages, servers, peers and connections, from `StreamAssumption`
(the buffer is larger than what it may waste) and `NetAssumption` (a connection is no server, every
client has an address); what is proved of vectordb for any tables, partitions, replicas, keys, vectors,
indexes, deletes, stops and crashes, from `VdbAssumption` (finitely many names, and no vector is the
value that stands for none).  "odd" is a further hypothesis, explained below.

| Theorem | Statement | |
|---|---|---|
| `TypeCorrect` | `Spec => []TypeOK` | |
| `VotesAreStable` | `Spec => VoteStable` | |
| `TimersFollowRole` | `Spec => []TimersMatchRole` | |
| `VotesBackLeaders` | `Spec => []ElectionInv` | |
| `OneLeaderPerTerm` | `Spec => []ElectionSafety` | odd |
| `LeadersWereElected` | `Spec => []LeaderInv` | |
| `CachedLeaderSends` | `Spec => []LeaderCacheSound` | odd |
| `ElectionsArePreVoted` | `Spec => PreVoteBeforeElection` | |
| `LogsFollowLeaders` | `Spec => []LogInv` | odd |
| `LogsMatch` | `Spec => []LogMatching` | odd |
| `MatchesAreTrue` | `Spec => []MatchIndexSound` | odd |
| `CommitsAreChosen` | `Spec => []CommitInv` | odd |
| `LeadersAreComplete` | `Spec => []LeaderCompleteness` | odd |
| `CommittedStays` | `Spec => []CommittedNotOverwritten` | odd |
| `IndicesStayWithinLog` | `Spec => []IndicesWithinLog` | odd |
| `AppliedFollowsLog` | `Spec => []AppliedMatchesLog` | odd |
| `StateMachinesAgree` | `Spec => []StateMachineSafety` | odd |
| `PoolKeepsOrder` | `Spec => []PoolInv` | |
| `WorkersDrain` | `Spec => []StopDrains` | |
| `PoolIsExecutor` | `Spec => ImplementsExecutor` | |
| `SedaIsExecutor` | `SedaSpec => SedaImplementsExecutor` | |
| `LoopsAreSafe` | `SedaSpec => []LoopSafe` | |
| `VotesAreKept` | `StorageSpec => []VotesSound` | |
| `LogIsRecoverable` | `StorageSpec => []LogRecoverable` | |
| `ConfigsFollowLog` | `StorageSpec => []ConfigInLog` | |
| `LogIsLogSpec` | `StorageSpec => ImplementsLogSpec` | |
| `SnapshotsAreInstalled` | `StorageSpec => SnapshotSound` | |
| `FollowsLog` | `MembershipSpec => []MemberFollowsLog` | |
| `AssertionsHold` | `MembershipSpec => []MemberAssertsHold` | |
| `OneChange` | `MembershipSpec => []MemberOneChange` | |
| `StandbyIsCleared` | `MembershipSpec => []JoinerStandbyClears` | |
| `Framing` | `NetSpec => []FramingIntact` | |
| `RoomForNext` | `NetSpec => []ClosedOnlyWithBacklog` | |
| `HandlesAreSound` | `NetSpec => []HandlesSound` | |
| `StoreSurvives` | `Spec => []StoreIntact` | |
| `EveryItemHasKey` | `Spec => []ItemsHaveKeys` | |
| `KeysOnce` | `Spec => []NoKeyTwice` | |
| `NoAssertFails` | `Spec => []AssertsHold` | |

*Type correctness* is inductive as it stands; one lemma per action.  Its one arithmetic
point is that `NextAfterReject` never reaches 0, and that the set MajorityMax takes the
maximum of is never empty.

*Elections.*  `ElectionSafety` is not inductive: that two leaders of a term are one says
nothing about the votes that will make the next.  `ElectionInv` adds what the argument
uses: every granting reply tells its sender's vote, now or in a term it has left; no sender
has granted two candidates in a term; what a *candidate's* VoteManager counts are granting
replies of its present term (for a follower that may be false, since StepDown does not
clear the flags, and it does not matter since BecomeCandidate is always preceded by Clear);
and every leader of the past has a set of backers of the size Majority asks for.  A leader
backs itself only if its vote in that term is its own, because the code counts the own vote
through `IfSelfVote`: after a restart or a return to pre-vote the server may hold another
vote.  The proof describes a step by what it may do to votes, ballots, counts and leaders
(`ElectionStep`), shows that every action takes such a step (one lemma per action), and once
that such a step keeps `ElectionInv` (`ElectionStepInv`).  `MajoritiesMeet` then
finds the common backer of two leaders, which exists when twice the threshold exceeds the
number of servers.

*Odd.*  This is where `Cardinality(Server) % 2 = 1` is needed: the threshold of
VoteManager::Majority is half of the cluster rounded up, and the run four_servers shows that
an even cluster elects two leaders in a term.  Everything about logs rests on one leader per
term, so those theorems have the hypothesis too; without it they are false.

*Leader cache.*  `LeaderInv` says that whoever leads, is named in a cache or has sent
AppendEntries was elected in the term it goes with; a heartbeat needs TimersMatchRole for
that, since what lets the callback run is the timer.  With
one elected server per term, cache and sender agree.

*Pre-vote.*  `PreVoteInv` says that the logok and interval_ok flags of a *candidate* were set by
answers to the pre-vote of its present term: both ways to become a candidate clear them, and a
candidate that changes its term is none any more.  No other step raises a term and votes for the
server itself, because a vote request goes to a peer, which is part of ElectionInv.  The first
statement of the property asked for one answer with both flags, and the attempt to prove it showed
that to be false from three servers and a repeated answer on: VoteManager keeps the flags apart, so a
peer that is asked twice in a term may give them one by one.

*Logs.*  `LogMatching` compares two servers and says nothing about the messages that will
change them.  `LogInv` compares every log with those of the leaders: there is a function `L`
from terms to logs, a history no server keeps, such that `L[t]` is the log of the leader of
`t` while it is in that term; every log, and every `L[t]`, is up to each of its entries the
log of that entry's leader (`Rooted`); every AppendEntries is a piece of `L` of its term;
every positive reply tells what its sender holds as long as it stays in that term; and what
IndexManager has as match was acknowledged in this term.  `L` is quantified inside the
invariant, so no variable is added to the model; each step gives the next `L` (a new
leader's log with its noop, or a proposal, replaces one value).  Agreement at an index with
equal terms then follows through the common leader.

*What can be committed.*  The commit rule is sound because of votes that were given before
the entry was counted, so the invariant speaks of what *may still* be chosen: index `n` of
`L[t]` is `Choosable` as long as a quorum of MajorityMax's size has acknowledged it or has not
yet left term `t`.  `ChoiceInv` says that every later leader has what is choosable, that whoever
acknowledged it keeps it, and that a candidate has what its supporters have acknowledged.
The supporters are what carries the step to the next leader: OnRequestVote compares logs, and
`UpToDate` shows that a log that wins the comparison contains what is choosable.  It takes that
a request tells the candidate's log (`RequestsTrue`), also one that a request-vote timer sends
late, and that the own vote counts only when it is for oneself.

*What is committed and applied.*  `CommitInv` says that every commit index, in a server and in
a message, is covered by an index that was `Chosen`, counted by a leader in its own term;
that the state machine's disk holds the data entries of the log up to its last index; and that
`last_apply_` is either committed or what the disk said at a restart, when the commit index
starts again from 0.  The six properties follow.  In this part of the proof lie the commit
index of a request, taken over whatever the entries are, and the application of entries by a
server that restarted with a state machine ahead of its commit index.

*Work threads.*  The functors that wait at a worker are the rest of its batch followed by its
queue, its `Line`.  `PoolInv` says that an id's functors are in one line, in the order accepted.
As order in a filtered sequence would need an induction over it, it is said with a numbering
(`Ranks`): a function that starts at the number of the id's functors that have begun, ends at
the number accepted and grows by one where the line has one of them.  A stop functor in the
line has a number at least as large as what was accepted before it, from which StopDrains
follows when the worker ends.  Each step changes a line at one end or not at all (`QuietStep`),
and maps to Submit, Begin or End of `Executor` or to a stutter.

*Event loop.*  `LoopInv` says that what was submitted is what ran, then the rest of the
callback's list, then the queue; that `tid_` is set whenever somebody who waited looks at it;
and NothingStranded, which is inductive with these.  The refinement and the first two parts of
LoopSafe need no more.  That the loop ends clean needs `StopInv`: the pointers are reset only by a
loop that is closing; the timers of a closing loop are among those Close has closed, unless a functor
added one later; and as long as no call was `late` (`Alone`) nothing is closed or sent for before a
Stop has been called and every call has returned.  A Stop of another thread, of a functor and of a
timer's callback are the three ways to such a Close.  A second Stop finds `stop_` reset, like a
RunFunctor that comes after the first; both are `late`, and the theorem, like the property, says
nothing of them.

*Votes.*  `VoteInv` says that every Put is in memory and on disk, that a vote answered in the
term on disk is the one on record (without power failures), with none answered while the Put
that clears the record, or names this server, is still to come, and that the vote on record was
given with a look at the log (when the process dies only between handlers).

*The log on disk.*  The properties speak of keys; the argument speaks of two numbers.  `Holds(c, lo,
hi)` says that contents `c` of the database are key 0 and both keys of the entries lo to hi, with
checksums that go on from one another, and that key 0 says where to go on when there is no entry.
Lemmas say what Recovered, an append and a cut at either end do to such contents.  `DiskInv` then
says that db is empty or holds some lo to hi; that the mirror in memory is that of lo and hi or,
while an operation has yet to write config_db, that of the log before it (`MirrorDuring`); that
every state a power failure may bring back is empty or holds a log, too; and, as long as no failure
has separated the two databases, that config_db has exactly the configurations among lo to hi and
otherwise only older ones (`Tied`), with the one that a pending operation is about set apart.
LogRecoverable follows for every state.  For ConfigInLog the largest key of config_db has to exist,
which is shown from the well-foundedness of the naturals.  For LogSpec, `LogOf` of
contents that hold lo to hi is a function on lo to hi, an append, DeleteFrom and DeleteUtil are Append,
Truncate and Compact, a power failure is Fail, and the rest stutters: Open, too, because nothing on
disk and key 0 alone are the same empty log.

*Snapshots.*  A reply says how many chunks are stored and not of which snapshot, so MatchInstalled
needs to know where a reply that counts all chunks can come from.  `ChunksOK` orders the chunks under
way: those of the snapshot that is being sent come last, the finished ones among them behind the
others, and before them come at most repetitions of the last chunk of a snapshot that is known to be
there, for which the follower has no writer.  `RepliesOK` says that while a reply that counts all chunks
is under way the snapshot is installed, only repetitions of its last chunk follow, and there is no
second such reply.  A repetition is answered with 1, which is all chunks only if there is one chunk:
this is where more than one chunk is needed (`LastOffset > 1`), and with one the property is false
(section 7).  Installed means that it has been (`newest`): a crash between the two renames takes the
state machine away, and NeverGoesBack names that step as the only one that does.

*A member.*  What ConfigManager holds follows from the log only as long as a truncation takes back no
more than one configuration, for there is one `previous`.  `MemberInvariant` therefore says of the logs
(`LogsOK`) that consecutive configurations differ by one server, that the leader's log has one
configuration beyond what is chosen, at most, and that all configurations of the member's log but its
last are chosen and shared with the leader; and of the member (`Knows`) that its last configuration is
chosen and shared, too, or else `changing_index_` is its index and `previous` the configuration before
it.  The current configuration is then a function of the log, and so are the heartbeat timers; of the
other managers the invariant says that they have an item for each peer, since late messages may have
left more.  The step that takes work is
OnAppendEntries with a conflict: what it cuts off has one configuration at most, the rollback of which
is `previous`; and a leader that has a configuration that is not chosen refuses another, which is what
`changing_index_` is for.

*A joining server.*  `JoinerInvariant` says that as long as it is a standby it has either no
configuration, or one, which adds it and which it has not applied; and that once it is no standby it
has applied a configuration (what is applied is chosen, so a truncation does not take it back).
This holds as long as it is not `overtaken`: when a second change reaches it before it has applied the
first, ConfigChange overwrites `changing_index_`, and applying the first leaves `standby_` set.

*Framing.*  `StreamInvariant` says that the messages follow each other without a gap and that what is
between the two indices of the Buffer is the stream from where the first message that was not taken out
starts (`Holds`), up to what has arrived.  `RetrievedHolds` shows that Retrieve keeps that for the rest,
in each of its three cases; then PeekInt32 finds a header, and it is the next message's.  That
`read_index_` never exceeds `max_waste_bytes_` is part of it, and so is that a connection closed for
want of room has a full buffer (`ClosedForReason`); with messages that fit (`Fits`) these give the first
half of ClosedOnlyWithBacklog.  For the second, a client that waits has at most one message under way,
at the front of the buffer (`ClientWaits`), so none of its reads fills the buffer
(`ClientLeavesRoom`).

*Handles.*  `TcpInvariant` says that libuv's list has every closing handle exactly once (`Lists`), that
`connections_` names the accepted connections whose close callback has not come and no others, that
what is freed has had its callback or was never accepted, that a server that is not open has no open
connection, and that the latch counts the servers that are not closed.  So when a reply drops the last
reference of a connection that is not in the map, its callback has come; and as the latch is counted
down in the closing phase, which goes on until the list is empty, nothing is left when the loop stops.

*vectordb.*  Only the first job of a call under way has begun (`WorkOK`), so what is half written is
what that job works on.  A step is a call that begins, the first job going on (`Advances`), the first
job done (`Completes`), an assertion that fails, or a stop, crash or start (`Kind`); one lemma per
action says which it is and what it leaves of the index, and the invariants are then shown per kind.

`KeysInv` says of an index under construction which keys its job has numbered (`Stage`), whatever an
attempt before a crash has left in the key table; that a complete file has the keys of its items; and
that what is loaded and sound is a complete file (`LoadedFrom`).  The numbering is that of the data at the time, and goes into
the file unchanged because no Put comes in between.

`StoreInv` says, as long as the uids of the saved tables are distinct, that a value is in replica 0 of
its key's partition as last written and in no other replica (`PlacedOK`), and that every replica of a
running process has its engine under its uid or a job that will open it (`AllOpen`).  A crash in
AddTable leaves a table without directories; the jobs of the next start make them.  That uids were
distinct before a table was added follows from their being so afterwards, so nothing is assumed of the
past.  NoKeyTwice follows from PlacedOK: whatever the indexes of two replicas return, only one of them
has the key stored, and PrepareResults looks.

`AssertInv` is about runs in which nothing was deleted, no call was cut short and every index was made
with trees (`Clean`): then every index directory is complete and has trees, with the parameters of the
AddIndex that made it (`Good`), except the one the first job works on (`CleanDirs`), a job that is to
build an index has those parameters or finds them in its directory (`CleanWork`), every index that
answers is sound (`AllSound`), and every key in a tree is still stored (`TreeStored`), so none of the
asserts in Load, Build and PrepareResults can fail.

*Only model-checked:* RoundTrip and WithinBuffer, where fields are written and
read by folds over the list of a message's fields, which would take an induction over it.  Out of TLAPS's reach are liveness under fairness and the values of recursively defined
functions; none is claimed.

## 7. Findings

What a run shows to be violated:

* **Even clusters elect two leaders** (`src/raft/vote_manager.cc:27`).  `Majority` compares
  with `(votes.size() + 1 + 1) / 2`, that is half of the cluster rounded up.  With four
  servers two votes suffice, and TLC finds two leaders in one term, the state in which
  `Remu::CheckLeader` runs into `assert(0)`.  `MajorityMax` does take a strict majority.
* **A restarted leader can abort** (`src/raft/raft_append_entries.cc:290`).  Replies are
  dropped by term only; a leader that restarts is a follower in the same term, and a reply
  to what it sent before runs into `assert((state_ == STATE_LEADER))`.
* **An incomplete body stops the loop thread** (`src/raft/raft_server.cc:45`).  OnMessage
  repeats while a header is readable and does nothing when the body is not complete: a
  message that TCP cuts inside its body leaves the loop thread, which is "used to respond to
  events (Raft messages, timer events, etc...)" (`README.md:43`), spinning.  vectordb's
  handlers, with an `if`, return.

What the models contain as behaviour of the code and the properties of section 4 except:

* *Storage.*  AppendOne and DeleteFrom write the log and the configuration database one after
  the other, and Init compares nothing: a crash in between leaves a last configuration the
  log does not have, or hides one it has (`raft_log.cc:564`, `raft.cc:207`).  StepDown writes
  the term before it clears the vote: after a crash in between the old vote is reported as
  granted in the new term without a look at the log (`raft_core.cc:210`,
  `raft_request_vote.cc:110`).  Term and vote are not synced while the log is: a power
  failure takes back a vote that was answered (`solid_data.cc:93`).
* *Membership.*  A restarted server takes the last configuration of the log as it stands, with
  the address of the leader that wrote it as its own, the command line's as the one to roll
  back to, and `changing_index_` 0 (`raft.cc:208`, `raft.cc:84`).  A joining server that is
  first sent a configuration from before it was added, or whose joining is truncated, and a
  removed server that is added again, fail an assertion of DoConfigChange (`raft.cc:331`,
  `raft.cc:353`).  A late vote of a removed server enters it into VoteManager, whose size
  decides the majority (`vote_manager.cc:77`).  A late answer to AppendEntries enters it into
  IndexManager (`index_manager.h:88`), where MajorityMax counts it: with four members and one such
  item, two members and the removed server commit.  If the answer is a refusal, the new item has
  `next` 0 and `assert(pre_index <= last_index)` ends the process (`raft_append_entries.cc:348`); a
  late answer to a snapshot meets `assert(reader)`.  When a second change reaches a joining server
  before it has applied its own, `standby_` stays set although that change has finished
  (`raft.cc:321`, `raft_core.cc:394`), against "when config change finish, standby_ is clear"
  (`raft.h:231`).
* *Snapshots.*  A chunk whose offset equals what is stored is neither skipped nor accepted but
  fails the assertion (`raft_install_snapshot.cc:93`), and a reply that finds no reader fails
  `assert(reader)` (`raft_install_snapshot.cc:148`).  `reply.req_term` is never set.  A reply does
  not say which snapshot it is about: with snapshots of one chunk, the second answer to a chunk that
  a heartbeat has repeated is taken for the answer to the first chunk of the next snapshot
  (`raft_install_snapshot.cc:180`), which then counts as installed.  A crash between the two renames
  of a swap loses the state machine, old and new (`raft_install_snapshot.cc:121`): the next start
  makes an empty one, and a compacted log cannot fill it.  With the `offset_` 0 that SnapshotReader's
  constructor sets (`snapshot.h:18`) the first chunk already fails that assertion.
* *seda.*  Push by a functor to its own worker's full queue never returns
  (`work_thread.cc:35`).  Before `tid_` is set every thread counts as the loop thread
  (`eventloop.cc:113`).  RunFunctor and Stop, "call in any thread", use pointers the loop
  resets when it closes (`eventloop.cc:62`).  A timer that a functor adds behind a Stop in the same
  batch is not among the timers Close has copied (`eventloop.cc:150`) and is still open when
  `~EventLoop` calls `uv_loop_close`.  A read of 0 bytes, which libuv reports when nothing follows a
  read that filled the buffer, closes the connection (`tcp_connection.cc:40`).  A write that fails or is cancelled by a close
  fails `assert(status == 0)` (`tcp_connection.cc:85`).  A handle whose accept failed is
  freed while libuv still has it to close (`acceptor.cc:145`).
* *Encoding.*  DecodeString2 returns one byte for a varint length of any size
  (`coding.cc:380`), so what follows a string of 128 bytes or more is read from the wrong
  place.  TimeoutNow::FromString decodes its last byte with DecodeFixed64
  (`timeout_now.cc:121`).
* *vectordb.*  uids are counted from 0 in each process: a table added after a restart gets
  uids that are in use and its engines take the place of older ones (`metadata.cc:996`,
  `vdb_engine.cc:248`).  A query that finds a key deleted since the index was built fails an
  assertion (`vindex_annoy.cc:246`).  An engine whose directory was made and whose dimension
  was not written keeps dimension 0 (`vengine.cc:313`).  An index file cut by a crash inside a
  node ends every later start (`vindex_annoy.cc:223`); one cut between two nodes is loaded, with
  whatever nodes come last as roots (`annoylib.h:1063`).  Without its option the console asks for 0
  trees (`parser.cc:428`, `local_console.cc:214`): an empty replica then saves an empty file, which
  ends the next start at `assert(b)`, and one of several items is searched from its items, with the
  bytes of a norm taken for an item's number.  An index path of more than 118 bytes does not fit
  `char cmd[128]` of MkDir (`vindex_annoy.cc:158`), and AddIndex fails `assert(0)` in
  `VindexMeta::CreateDB`.

## 8. Not modelled

| Part | Reason |
|---|---|
| crashes inside a callback in VRaft | `Crash` falls between callbacks there; RaftLog and VoteStore have the crashes inside |
| compacted logs in VRaft (`First() > 1`) | the transfer is in Snapshot, the storage in RaftLog |
| `TcpClient`, `Connector`, `ClientThread` | VRaft sees them as a network that loses and delays; their retries and the life of a client that is dropped while it connects are left out |
| bind and listen errors, a listening socket that fails | the code asserts and ends |
| a peer that reuses its port within one poll | excluded by a guard of `TcpServer` that says so |
| durations: timers, timeouts, the interval check | an armed timer may fire at any time, the check may go either way |
| `StartElection`, `LeaderTransferFirstPeer`, DisableSend/Recv | switches for tests; what the last two do to messages is in the network's freedom |
| the content of snapshots | reader and writer are supplied by the user, the repository has none |
| `UpdateConfigFile`, ping handlers, tracing, logging, JSON, Remu, checker | change no protocol state; ping's encoding is in Codec |
| vstore's commands and console | a state machine as VRaft assumes it, and text |
| vectordb's console grammar (`parser.cc`, `vdb_console.cc`), `util/config.cc` | parsing and output of text |
| Annoy, hnswlib, leveldb, libuv and other third-party code | modelled from their use where the models need them |
| main, example, lib, python, debug | entry points and demonstrations |

## 9. Plan

Done: every module of section 2, their runs, and the proofs of section 6.  Next:

1. **Models.**  `Connector` and `TcpClient` with their retries; VRaft with a compacted log.
