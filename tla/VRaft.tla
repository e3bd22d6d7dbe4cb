------------------------------- MODULE VRaft -------------------------------
(***************************************************************************)
(* The consensus core of vraft: the class Raft of src/src/raft (elections, *)
(* pre-vote, leader transfer, log replication, commit, apply, restart) on  *)
(* a fixed set of servers, with the log kept from index 1 (no snapshot, no *)
(* membership change).                                                     *)
(*                                                                         *)
(* Every Raft object runs on one event-loop thread, so one timer callback  *)
(* or one message handler is one action.  The actions keep the C++ names.  *)
(***************************************************************************)
EXTENDS Naturals, Sequences, FiniteSets, FiniteSetsExt

CONSTANTS
    Server,             \* the RaftAddr of every member of the cluster
    Nil,                \* RaftAddr(0): no vote, no known leader
    Value,              \* the values clients propose
    Noop,               \* the value of the kNoop entry of a new leader
    EnablePreVote,      \* enable_pre_vote_
    IntervalCheck,      \* interval_check_
    MaxTransferTerm,    \* MAX_TRANSFER_TERM
    MaxElections,       \* bound: election timeouts in a behaviour
    MaxRpcs,            \* bound: requests sent by timers in a behaviour
    MaxDuplicates,      \* bound: messages delivered a second time
    MaxLog,             \* bound: longest log
    MaxRestarts,        \* bound: stops and crashes in a behaviour
    MaxTransfers,       \* bound: leader transfers in a behaviour
    MaxProposals        \* bound: proposals in a behaviour

ASSUME ServerAssumption == IsFiniteSet(Server) /\ Server # {} /\ Nil \notin Server
ASSUME ValueAssumption == Noop \notin Value
ASSUME FlagAssumption == EnablePreVote \in BOOLEAN /\ IntervalCheck \in BOOLEAN
ASSUME BoundAssumption ==
    /\ MaxTransferTerm \in Nat
    /\ MaxElections \in Nat
    /\ MaxRpcs \in Nat
    /\ MaxDuplicates \in Nat
    /\ MaxLog \in Nat
    /\ MaxRestarts \in Nat
    /\ MaxTransfers \in Nat
    /\ MaxProposals \in Nat

Follower == "follower"
Candidate == "candidate"
Leader == "leader"

(***************************************************************************)
(* What a server knows of the time since the last AppendEntries, which is  *)
(* all OnRequestVote reads of last_heartbeat_timestamp_: NeverHeard is 0,  *)
(* IamLeader is INT64_MAX, Heard is a wall-clock reading, whose age may or *)
(* may not exceed the election timeout.                                    *)
(***************************************************************************)
NeverHeard == "zero"
Heard == "clock"
IamLeader == "max"

VARIABLES
    \* SolidData, RaftLog, StateMachine: what a restart finds on disk
    term, vote, log, sm,
    \* Raft: the volatile fields of the object
    started, state, leader, commit, lastApply, lastHeartbeat,
    preVoting, leaderTransfer, transferMaxTerm,
    \* VoteManager: the peers whose flag is set
    grant, logOk, intervalOk,
    \* IndexManager
    next, match,
    \* TimerManager: is the timer armed, and for which peers
    electionTimer, requestVoteTimers, heartbeatTimers,
    \* the network: every message sent so far, and those a handler has run for
    messages, delivered,
    \* history: who became leader in which term
    elected,
    \* how often each bounded kind of event has happened
    used

meta == <<term, vote>>
smVars == <<sm, lastApply>>
voteMgr == <<grant, logOk, intervalOk>>
indexMgr == <<next, match>>
timerMgr == <<electionTimer, requestVoteTimers, heartbeatTimers>>
role == <<state, leader, lastHeartbeat>>
transferVars == <<leaderTransfer, transferMaxTerm>>
vars == <<meta, log, smVars, started, role, commit, preVoting, transferVars,
          voteMgr, indexMgr, timerMgr, messages, delivered, elected, used>>

-----------------------------------------------------------------------------
Peers(i) == Server \ {i}
Entry == [term: Nat, value: Value \cup {Noop}]
Index == 1..MaxLog

LastIndex(l) == Len(l)

LastTerm(l) == IF Len(l) = 0 THEN 0 ELSE l[Len(l)].term

\* 0 for index 0; IndicesWithinLog: no other index outside the log is asked for
GetTerm(l, k) == IF k \in DOMAIN l THEN l[k].term ELSE 0

Send(m) == messages' = messages \cup {m}
SendAll(ms) == messages' = messages \cup ms

\* The bounds on behaviours: an event of kind b happens at most max times
Bounded == {"election", "rpc", "duplicate", "restart", "transfer", "proposal"}
Spend(b, max) == used[b] < max /\ used' = [used EXCEPT ![b] = @ + 1]

\* A timer's request; sending the same request again changes nothing
SendRpc(m) == Send(m) /\ IF m \in messages THEN UNCHANGED used ELSE Spend("rpc", MaxRpcs)

RequestVoteMsg ==
    [type: {"RequestVote"}, src: Server, dest: Server, term: Nat,
     lastLogIndex: Nat, lastLogTerm: Nat, preVote: BOOLEAN, leaderTransfer: BOOLEAN]
RequestVoteReplyMsg ==
    [type: {"RequestVoteReply"}, src: Server, dest: Server, term: Nat, reqTerm: Nat,
     granted: BOOLEAN, logOk: BOOLEAN, intervalOk: BOOLEAN, preVote: BOOLEAN]
AppendEntriesMsg ==
    [type: {"AppendEntries"}, src: Server, dest: Server, term: Nat,
     preLogIndex: Nat, preLogTerm: Nat, entries: Seq(Entry), commitIndex: Nat]
AppendEntriesReplyMsg ==
    [type: {"AppendEntriesReply"}, src: Server, dest: Server, term: Nat, reqTerm: Nat,
     success: BOOLEAN, lastLogIndex: Nat, reqPreIndex: Nat, reqNumEntries: Nat]
TimeoutNowMsg ==
    [type: {"TimeoutNow"}, src: Server, dest: Server, term: Nat]
Message == RequestVoteMsg \cup RequestVoteReplyMsg \cup AppendEntriesMsg
             \cup AppendEntriesReplyMsg \cup TimeoutNowMsg

(***************************************************************************)
(* A cluster whose servers have just started: disk holds what SolidData    *)
(* and RaftLog find, past the leaders there have been.  A fresh server     *)
(* finds term 1, no vote and no log.                                       *)
(***************************************************************************)
EmptySm == [last |-> 0, applied |-> [k \in Index |-> <<>>]]

InitFrom(disk, past) ==
    /\ term = [i \in Server |-> disk[i].term]
    /\ vote = [i \in Server |-> disk[i].vote]
    /\ log = [i \in Server |-> disk[i].log]
    /\ sm = [i \in Server |-> EmptySm]
    /\ started = [i \in Server |-> TRUE]
    /\ state = [i \in Server |-> Follower]
    /\ leader = [i \in Server |-> Nil]
    /\ commit = [i \in Server |-> 0]
    /\ lastApply = [i \in Server |-> 0]
    /\ lastHeartbeat = [i \in Server |-> NeverHeard]
    /\ preVoting = [i \in Server |-> FALSE]
    /\ leaderTransfer = [i \in Server |-> FALSE]
    /\ transferMaxTerm = [i \in Server |-> 0]
    /\ grant = [i \in Server |-> {}]
    /\ logOk = [i \in Server |-> {}]
    /\ intervalOk = [i \in Server |-> {}]
    /\ next = [i \in Server |-> [j \in Server |-> LastIndex(disk[i].log) + 1]]
    /\ match = [i \in Server |-> [j \in Server |-> 0]]
    /\ electionTimer = [i \in Server |-> TRUE]
    /\ requestVoteTimers = [i \in Server |-> {}]
    /\ heartbeatTimers = [i \in Server |-> {}]
    /\ messages = {}
    /\ delivered = {}
    /\ elected = past
    /\ used = [b \in Bounded |-> 0]

Init == InitFrom([i \in Server |-> [term |-> 1, vote |-> Nil, log |-> <<>>]], {})

-----------------------------------------------------------------------------
(***************************************************************************)
(* Raft::StepDown.  The three operators give the fields it computes from   *)
(* the old state; StepDownTo assigns them, so that a handler that goes on  *)
(* to overwrite the vote, the leader or the heartbeat time can say so.     *)
(***************************************************************************)
\* Mutant: the vote is cleared in an equal term too
VoteAfterStepDownAlwaysNil(i, t) == Nil

VoteAfterStepDown(i, t) == IF term[i] < t THEN Nil ELSE vote[i]

\* Mutant: the leader of the old term stays in the cache
LeaderAfterStepDownKept(i, t) == leader[i]

LeaderAfterStepDown(i, t) == IF term[i] < t THEN Nil ELSE leader[i]

HeartbeatAfterStepDown(i) ==
    IF lastHeartbeat[i] = IamLeader THEN NeverHeard ELSE lastHeartbeat[i]

StepDownTo(i, t, v, l, h) ==
    /\ term' = [term EXCEPT ![i] = t]
    /\ vote' = [vote EXCEPT ![i] = v]
    /\ leader' = [leader EXCEPT ![i] = l]
    /\ lastHeartbeat' = [lastHeartbeat EXCEPT ![i] = h]
    /\ state' = [state EXCEPT ![i] = Follower]
    /\ heartbeatTimers' = [heartbeatTimers EXCEPT ![i] = {}]
    /\ requestVoteTimers' = [requestVoteTimers EXCEPT ![i] = {}]
    /\ electionTimer' = [electionTimer EXCEPT ![i] = TRUE]

StepDown(i, t) ==
    StepDownTo(i, t, VoteAfterStepDown(i, t), LeaderAfterStepDown(i, t),
               HeartbeatAfterStepDown(i))

\* Mutant: the request-vote timers are forgotten
StopTimersButRpc(i) ==
    /\ electionTimer' = [electionTimer EXCEPT ![i] = FALSE]
    /\ heartbeatTimers' = [heartbeatTimers EXCEPT ![i] = {}]
    /\ UNCHANGED requestVoteTimers

\* TimerManager::Stop
StopTimers(i) ==
    /\ electionTimer' = [electionTimer EXCEPT ![i] = FALSE]
    /\ requestVoteTimers' = [requestVoteTimers EXCEPT ![i] = {}]
    /\ heartbeatTimers' = [heartbeatTimers EXCEPT ![i] = {}]

(***************************************************************************)
(* VoteManager::Majority and MajorityPreVoteOK: at least half, rounded up, *)
(* of the cluster; and Raft::IfSelfVote.                                   *)
(***************************************************************************)
VoteThreshold == (Cardinality(Server) + 1) \div 2

SelfVote(i) == IF vote[i] = i THEN 1 ELSE 0

Majority(i, granted) == Cardinality(granted) + SelfVote(i) >= VoteThreshold

\* Mutant: a peer that has just heard from a leader counts
MajorityPreVoteOKAnyInterval(logs, intervals) == Cardinality(logs) + 1 >= VoteThreshold

MajorityPreVoteOK(logs, intervals) ==
    Cardinality(logs \cap intervals) + 1 >= VoteThreshold

ClearVotes(i) ==
    /\ grant' = [grant EXCEPT ![i] = {}]
    /\ logOk' = [logOk EXCEPT ![i] = {}]
    /\ intervalOk' = [intervalOk EXCEPT ![i] = {}]

(***************************************************************************)
(* Raft::BecomeLeader in term t, AppendNoop included.                      *)
(***************************************************************************)
BecomeLeader(i, t) ==
    /\ Len(log[i]) < MaxLog
    /\ leaderTransfer' = [leaderTransfer EXCEPT ![i] = FALSE]
    /\ state' = [state EXCEPT ![i] = Leader]
    /\ leader' = [leader EXCEPT ![i] = i]
    /\ lastHeartbeat' = [lastHeartbeat EXCEPT ![i] = IamLeader]
    /\ electionTimer' = [electionTimer EXCEPT ![i] = FALSE]
    /\ requestVoteTimers' = [requestVoteTimers EXCEPT ![i] = {}]
    /\ next' = [next EXCEPT ![i] = [j \in Server |-> LastIndex(log[i]) + 1]]
    /\ match' = [match EXCEPT ![i] = [j \in Server |-> 0]]
    /\ heartbeatTimers' = [heartbeatTimers EXCEPT ![i] = Peers(i)]
    /\ log' = [log EXCEPT ![i] = Append(@, [term |-> t, value |-> Noop])]
    /\ elected' = elected \cup {<<t, i>>}
    /\ UNCHANGED transferMaxTerm

\* Raft::BecomeCandidate and the timers both of its callers start
BecomeCandidate(i) ==
    /\ state' = [state EXCEPT ![i] = Candidate]
    /\ leader' = [leader EXCEPT ![i] = Nil]
    /\ requestVoteTimers' = [requestVoteTimers EXCEPT ![i] = Peers(i)]
    /\ electionTimer' = [electionTimer EXCEPT ![i] = TRUE]
    /\ UNCHANGED <<lastHeartbeat, heartbeatTimers, log, indexMgr, transferVars, elected>>

DoRequestVote(i) ==
    /\ term' = [term EXCEPT ![i] = @ + 1]
    /\ vote' = [vote EXCEPT ![i] = i]
    /\ preVoting' = [preVoting EXCEPT ![i] = FALSE]
    /\ ClearVotes(i)
    /\ IF Peers(i) = {} THEN BecomeLeader(i, term[i] + 1) ELSE BecomeCandidate(i)
    /\ UNCHANGED <<smVars, started, commit, messages>>

DoPreVote(i) ==
    /\ preVoting' = [preVoting EXCEPT ![i] = TRUE]
    /\ ClearVotes(i)
    /\ BecomeCandidate(i)
    /\ UNCHANGED <<meta, smVars, started, commit, messages>>

\* The election timer's callback
Elect(i) ==
    /\ electionTimer[i]
    /\ Spend("election", MaxElections)
    /\ IF EnablePreVote /\ Peers(i) # {} THEN DoPreVote(i) ELSE DoRequestVote(i)

\* A leader transfer excuses the candidate from the interval check for some terms only
SendRequestVote(i, j) ==
    LET transfer == leaderTransfer[i] /\ term[i] <= transferMaxTerm[i]
    IN  /\ SendRpc([type |-> "RequestVote", src |-> i, dest |-> j, term |-> term[i],
                    lastLogIndex |-> LastIndex(log[i]), lastLogTerm |-> LastTerm(log[i]),
                    preVote |-> preVoting[i], leaderTransfer |-> transfer])
        /\ leaderTransfer' = [leaderTransfer EXCEPT ![i] = transfer]
        /\ transferMaxTerm' = [transferMaxTerm EXCEPT ![i] = IF transfer THEN @ ELSE 0]

\* The request-vote timer's callback
RequestVoteRpc(i, j) ==
    /\ j \in requestVoteTimers[i]
    /\ SendRequestVote(i, j)
    /\ UNCHANGED <<meta, log, smVars, started, role, commit, preVoting,
                   voteMgr, indexMgr, timerMgr, elected>>

\* Mutant: any log is good enough for a vote
CandidateLogOkAlways(m, l) == TRUE

CandidateLogOk(m, l) ==
    \/ m.lastLogTerm > LastTerm(l)
    \/ m.lastLogTerm = LastTerm(l) /\ m.lastLogIndex >= LastIndex(l)

\* The outcomes of the interval check: the age of a wall-clock reading is unknown
IntervalOutcomes(i, m) ==
    CASE ~IntervalCheck \/ m.leaderTransfer -> {TRUE}
      [] lastHeartbeat[i] = NeverHeard      -> {TRUE}
      [] lastHeartbeat[i] = IamLeader       -> {FALSE}
      [] OTHER                              -> {TRUE, FALSE}

\* Mutant: a vote given to another candidate does not count
GivesVoteAgain(i, m, t) == m.term = t /\ CandidateLogOk(m, log[i])

\* The vote is given when it is free and the candidate's log is good enough
GivesVote(i, m, t) ==
    m.term = t /\ CandidateLogOk(m, log[i]) /\ VoteAfterStepDown(i, t) = Nil

RequestVoteReply(i, m, t, v, ok) ==
    [type |-> "RequestVoteReply", src |-> i, dest |-> m.src, term |-> t,
     reqTerm |-> m.term, granted |-> ok /\ m.term = t /\ v = m.src,
     logOk |-> CandidateLogOk(m, log[i]), intervalOk |-> ok, preVote |-> m.preVote]

OnRequestVote(i, m) ==
    /\ started[i] /\ m.type = "RequestVote" /\ m.dest = i
    /\ \E ok \in IntervalOutcomes(i, m) :
         LET t == IF ok /\ m.term > term[i] THEN m.term ELSE term[i]
             gives == ok /\ GivesVote(i, m, t)
             v == IF gives /\ ~m.preVote THEN m.src ELSE VoteAfterStepDown(i, t)
         IN  /\ Send(RequestVoteReply(i, m, t, v, ok))
             /\ IF gives \/ t > term[i]
                THEN StepDownTo(i, t, v, LeaderAfterStepDown(i, t), HeartbeatAfterStepDown(i))
                ELSE UNCHANGED <<meta, role, timerMgr>>
    /\ UNCHANGED <<log, smVars, started, commit, preVoting, transferVars,
                   voteMgr, indexMgr, elected>>

-----------------------------------------------------------------------------
\* A reply that is older than the server, or answers another term's request, is dropped
ReplyInTime(i, m) == m.term >= term[i] /\ m.reqTerm = term[i]

OnVoteReply(i, m) ==
    /\ m.term = term[i] /\ ~m.preVote
    /\ LET granted == IF m.granted THEN grant[i] \cup {m.src} ELSE grant[i]
       IN  /\ grant' = [grant EXCEPT ![i] = granted]
           /\ IF m.granted /\ Majority(i, granted) /\ state[i] = Candidate
              THEN BecomeLeader(i, term[i])
              ELSE /\ requestVoteTimers' = [requestVoteTimers EXCEPT ![i] = @ \ {m.src}]
                   /\ UNCHANGED <<role, transferVars, indexMgr, log, elected,
                                  electionTimer, heartbeatTimers>>
    /\ UNCHANGED <<meta, smVars, started, commit, preVoting, logOk, intervalOk,
                   messages>>

OnPreVoteReply(i, m) ==
    /\ m.term = term[i] /\ m.preVote
    /\ LET logs == IF m.logOk THEN logOk[i] \cup {m.src} ELSE logOk[i]
           intervals == IF m.intervalOk THEN intervalOk[i] \cup {m.src} ELSE intervalOk[i]
       IN  IF /\ m.logOk /\ MajorityPreVoteOK(logs, intervals)
              /\ state[i] = Candidate /\ preVoting[i]
           THEN DoRequestVote(i)
           ELSE /\ logOk' = [logOk EXCEPT ![i] = logs]
                /\ intervalOk' = [intervalOk EXCEPT ![i] = intervals]
                /\ requestVoteTimers' = [requestVoteTimers EXCEPT ![i] = @ \ {m.src}]
                /\ UNCHANGED <<meta, log, smVars, started, role, commit, preVoting,
                               transferVars, grant, indexMgr, electionTimer,
                               heartbeatTimers, messages, elected>>

\* A reply of a larger term: StepDown and nothing else
OnLargerTerm(i, m) ==
    /\ m.term > term[i]
    /\ StepDown(i, m.term)
    /\ UNCHANGED <<log, smVars, started, commit, preVoting, transferVars,
                   voteMgr, indexMgr, messages, elected>>

OnRequestVoteReply(i, m) ==
    /\ started[i] /\ m.type = "RequestVoteReply" /\ m.dest = i
    /\ ReplyInTime(i, m)
    /\ OnLargerTerm(i, m) \/ OnVoteReply(i, m) \/ OnPreVoteReply(i, m)

-----------------------------------------------------------------------------
(***************************************************************************)
(* Raft::SendAppendEntries with log l, next index n and commit index c: at *)
(* most one entry.                                                         *)
(***************************************************************************)
AppendEntries(i, j, l, n, c) ==
    LET entries == IF n \in DOMAIN l THEN <<l[n]>> ELSE <<>>
    IN  [type |-> "AppendEntries", src |-> i, dest |-> j, term |-> term[i],
         preLogIndex |-> n - 1, preLogTerm |-> GetTerm(l, n - 1), entries |-> entries,
         commitIndex |-> Min({c, n - 1 + Len(entries)})]

\* The heartbeat timer's callback
HeartBeat(i, j) ==
    /\ j \in heartbeatTimers[i]
    /\ SendRpc(AppendEntries(i, j, log[i], next[i][j], commit[i]))
    /\ UNCHANGED <<meta, log, smVars, started, role, commit, preVoting, transferVars,
                   voteMgr, indexMgr, timerMgr, elected>>

(***************************************************************************)
(* Raft::StateMachineApply over log l up to index c.  sm[i].applied[k] is  *)
(* the list of the entries handed to StateMachine::Apply for index k, and  *)
(* sm[i].last is StateMachine::LastIndex: noops leave both alone.          *)
(***************************************************************************)
DataIndices(l, a, c) == {k \in Index \cap DOMAIN l : a < k /\ k <= c /\ l[k].value # Noop}

StateMachineApply(i, l, c) ==
    LET data == DataIndices(l, lastApply[i], c)
    IN  /\ sm' = [sm EXCEPT ![i] =
                    [last |-> IF data = {} THEN @.last ELSE Max(data),
                     applied |-> [k \in Index |-> IF k \in data
                                                  THEN Append(sm[i].applied[k], l[k])
                                                  ELSE sm[i].applied[k]]]]
        /\ lastApply' = [lastApply EXCEPT ![i] = c]

\* commit_ becomes c; the state machine runs only when that is an advance
SetCommit(i, l, c) ==
    /\ commit' = [commit EXCEPT ![i] = c]
    /\ IF c > commit[i] /\ c > lastApply[i]
       THEN StateMachineApply(i, l, c)
       ELSE UNCHANGED smVars

(***************************************************************************)
(* IndexManager::MajorityMax: the matches, with LastIndex for the leader   *)
(* itself, sorted; the one at position (size - 1) / 2.  It is the largest  *)
(* index that all but (size - 1) / 2 of them reach.                        *)
(***************************************************************************)
Reaching(i, mt, last, k) == {j \in Server : (IF j = i THEN last ELSE mt[j]) >= k}

MajorityMax(i, mt, last) ==
    Max({k \in 0..MaxLog :
           Cardinality(Reaching(i, mt, last, k)) + (Cardinality(Server) - 1) \div 2
             >= Cardinality(Server)})

\* Mutant: an entry of an older term is committed by counting its copies
MaybeCommitAnyTerm(i, l, mt) ==
    LET new == MajorityMax(i, mt, LastIndex(l)) IN IF new > commit[i] THEN new ELSE commit[i]

\* Raft::MaybeCommit: the commit index with log l and match indices mt
MaybeCommit(i, l, mt) ==
    LET new == MajorityMax(i, mt, LastIndex(l))
    IN  IF new > commit[i] /\ GetTerm(l, new) = term[i] THEN new ELSE commit[i]

\* Raft::Propose and DoPropose
Propose(i, v) ==
    /\ state[i] = Leader /\ started[i]
    /\ Len(log[i]) < MaxLog
    /\ Spend("proposal", MaxProposals)
    /\ LET l == Append(log[i], [term |-> term[i], value |-> v])
           c == MaybeCommit(i, l, match[i])
       IN  /\ log' = [log EXCEPT ![i] = l]
           /\ SetCommit(i, l, c)
           /\ SendAll({AppendEntries(i, j, l, next[i][j], c) : j \in Peers(i)})
    /\ UNCHANGED <<meta, started, role, preVoting, transferVars, voteMgr, indexMgr,
                   timerMgr, elected>>

-----------------------------------------------------------------------------
AppendEntriesReply(i, m, t, success, last) ==
    [type |-> "AppendEntriesReply", src |-> i, dest |-> m.src, term |-> t,
     reqTerm |-> m.term, success |-> success, lastLogIndex |-> last,
     reqPreIndex |-> m.preLogIndex, reqNumEntries |-> Len(m.entries)]

\* Mutant: the term of the entry before them is not compared
PreLogMatchesNoTerm(l, m) == m.preLogIndex <= LastIndex(l)

\* No gap before the entries, and the entry before them has the leader's term
PreLogMatches(l, m) ==
    /\ m.preLogIndex <= LastIndex(l)
    /\ m.preLogIndex > 0 => GetTerm(l, m.preLogIndex) = m.preLogTerm

\* An entry of the log that the message contradicts, to be truncated with all after it
Conflicts(l, m) ==
    /\ m.entries # <<>>
    /\ m.preLogIndex < LastIndex(l)
    /\ l[m.preLogIndex + 1].term # m.entries[1].term

\* Mutant: a conflicting entry is kept
MergeLogKeep(l, m) ==
    IF m.entries # <<>> /\ m.preLogIndex = LastIndex(l) THEN Append(l, m.entries[1]) ELSE l

\* The log after the loop over the (at most one) entries of the message
MergeLog(l, m) ==
    IF m.entries # <<>> /\ (m.preLogIndex = LastIndex(l) \/ Conflicts(l, m))
    THEN Append(SubSeq(l, 1, m.preLogIndex), m.entries[1])
    ELSE l

RejectStale(i, m) ==
    /\ m.term < term[i]
    /\ Send(AppendEntriesReply(i, m, term[i], FALSE, LastIndex(log[i])))
    /\ UNCHANGED <<meta, log, smVars, role, commit, timerMgr>>

\* The steps every AppendEntries of the current or a newer term causes
FollowLeader(i, m) ==
    /\ m.term >= term[i]
    /\ LeaderAfterStepDown(i, m.term) \in {Nil, m.src}
    /\ StepDownTo(i, m.term, VoteAfterStepDown(i, m.term), m.src, Heard)

RejectMismatch(i, m) ==
    /\ FollowLeader(i, m)
    /\ ~PreLogMatches(log[i], m)
    /\ Send(AppendEntriesReply(i, m, m.term, FALSE, LastIndex(log[i])))
    /\ UNCHANGED <<log, smVars, commit>>

Accept(i, m) ==
    /\ FollowLeader(i, m)
    /\ PreLogMatches(log[i], m)
    /\ Conflicts(log[i], m) => commit[i] <= m.preLogIndex
    /\ LET l == MergeLog(log[i], m)
       IN  /\ log' = [log EXCEPT ![i] = l]
           /\ SetCommit(i, l, IF commit[i] < m.commitIndex THEN m.commitIndex ELSE commit[i])
           /\ Send(AppendEntriesReply(i, m, m.term, TRUE, LastIndex(l)))

\* The two assertions of the handler are guards here; LeaderCacheSound and
\* CommittedNotOverwritten state that they never fail.
OnAppendEntries(i, m) ==
    /\ started[i] /\ m.type = "AppendEntries" /\ m.dest = i
    /\ RejectStale(i, m) \/ RejectMismatch(i, m) \/ Accept(i, m)
    /\ UNCHANGED <<started, preVoting, transferVars, voteMgr, indexMgr, elected>>

-----------------------------------------------------------------------------
(***************************************************************************)
(* What is left of server i when its process dies: the disk, and the state *)
(* the constructor and Init give the next process.                         *)
(***************************************************************************)
LoseVolatile(i) ==
    /\ started' = [started EXCEPT ![i] = FALSE]
    /\ state' = [state EXCEPT ![i] = Follower]
    /\ leader' = [leader EXCEPT ![i] = Nil]
    /\ commit' = [commit EXCEPT ![i] = 0]
    /\ lastApply' = [lastApply EXCEPT ![i] = 0]
    /\ lastHeartbeat' = [lastHeartbeat EXCEPT ![i] = NeverHeard]
    /\ preVoting' = [preVoting EXCEPT ![i] = FALSE]
    /\ leaderTransfer' = [leaderTransfer EXCEPT ![i] = FALSE]
    /\ transferMaxTerm' = [transferMaxTerm EXCEPT ![i] = 0]
    /\ ClearVotes(i)
    /\ next' = [next EXCEPT ![i] = [j \in Server |-> LastIndex(log[i]) + 1]]
    /\ match' = [match EXCEPT ![i] = [j \in Server |-> 0]]
    /\ StopTimers(i)
    /\ UNCHANGED <<meta, log, sm, messages>>

\* assert(state_ == STATE_LEADER) fails: the process aborts
AbortNotLeader(i, m) ==
    /\ state[i] # Leader
    /\ LoseVolatile(i)
    /\ UNCHANGED elected

\* Mutant: a heartbeat counts as an entry
AckedHeartbeat(m) == m.reqPreIndex + 1

\* The last index a successful reply vouches for
Acked(m) == m.reqPreIndex + m.reqNumEntries

\* Mutant: no lower bound
NextAfterRejectUnbounded(n, m) == IF n - 1 > m.lastLogIndex + 1 THEN m.lastLogIndex + 1 ELSE n - 1

\* The next index after a refusal: one down, and no further than the follower's log
NextAfterReject(n, m) ==
    LET down == IF n > 1 THEN n - 1 ELSE n
    IN  IF down > m.lastLogIndex + 1 THEN m.lastLogIndex + 1 ELSE down

OnAppendReplyOfTerm(i, m) ==
    /\ state[i] = Leader /\ m.term = term[i]
    /\ LET j == m.src
           advances == m.success /\ match[i][j] <= Acked(m)
           mt == IF advances THEN [match[i] EXCEPT ![j] = Acked(m)] ELSE match[i]
           n == IF m.success THEN mt[j] + 1 ELSE NextAfterReject(next[i][j], m)
           c == IF advances THEN MaybeCommit(i, log[i], mt) ELSE commit[i]
       IN  /\ match' = [match EXCEPT ![i] = mt]
           /\ next' = [next EXCEPT ![i][j] = n]
           /\ SetCommit(i, log[i], c)
           /\ SendAll(IF n <= LastIndex(log[i]) THEN {AppendEntries(i, j, log[i], n, c)} ELSE {})
    /\ UNCHANGED <<meta, log, started, role, preVoting, transferVars, voteMgr,
                   timerMgr, elected>>

OnAppendEntriesReply(i, m) ==
    /\ started[i] /\ m.type = "AppendEntriesReply" /\ m.dest = i
    /\ ReplyInTime(i, m)
    /\ \/ AbortNotLeader(i, m)
       \/ state[i] = Leader /\ OnLargerTerm(i, m)
       \/ OnAppendReplyOfTerm(i, m)

-----------------------------------------------------------------------------
\* Raft::LeaderTransfer, with SendTimeoutNow
LeaderTransfer(i, j) ==
    /\ state[i] = Leader /\ started[i]
    /\ Spend("transfer", MaxTransfers)
    /\ Send([type |-> "TimeoutNow", src |-> i, dest |-> j, term |-> term[i]])
    /\ UNCHANGED <<meta, log, smVars, started, role, commit, preVoting, transferVars,
                   voteMgr, indexMgr, timerMgr, elected>>

\* Raft::OnTimeoutNow.  A follower whose log is good enough also makes its election
\* timer fire at once: the timer of a follower is armed and may fire at any time.
OnTimeoutNow(i, m) ==
    /\ started[i] /\ m.type = "TimeoutNow" /\ m.dest = i
    /\ leaderTransfer' = [leaderTransfer EXCEPT ![i] = TRUE]
    /\ transferMaxTerm' = [transferMaxTerm EXCEPT ![i] = term[i] + MaxTransferTerm]
    /\ IF m.term > term[i] THEN StepDown(i, m.term) ELSE UNCHANGED <<meta, role, timerMgr>>
    /\ UNCHANGED <<log, smVars, started, commit, preVoting, voteMgr, indexMgr, messages,
                   elected>>

\* Raft::Stop: the object stays, its timers and its state machine do not
Stop(i) ==
    /\ started[i]
    /\ Spend("restart", MaxRestarts)
    /\ started' = [started EXCEPT ![i] = FALSE]
    /\ StopTimers(i)
    /\ UNCHANGED <<meta, log, smVars, role, commit, preVoting, transferVars, voteMgr,
                   indexMgr, messages, elected>>

\* The process dies between two callbacks
Crash(i) ==
    /\ started[i]
    /\ Spend("restart", MaxRestarts)
    /\ LoseVolatile(i)
    /\ UNCHANGED elected

\* Mutant: the log is replayed from its start
RestoredApplyZero(i) == 0

\* The last index the state machine found on disk has applied
RestoredApply(i) == sm[i].last

\* Raft::Start
Start(i) ==
    /\ ~started[i]
    /\ started' = [started EXCEPT ![i] = TRUE]
    /\ lastApply' = [lastApply EXCEPT ![i] = RestoredApply(i)]
    /\ StepDown(i, term[i])
    /\ UNCHANGED <<log, sm, commit, preVoting, transferVars, voteMgr, indexMgr, messages,
                   elected>>

Timer(i) ==
    \/ Elect(i)
    \/ \E j \in Server : RequestVoteRpc(i, j) \/ HeartBeat(i, j)

Receive(i, m) ==
    \/ OnRequestVote(i, m)
    \/ OnRequestVoteReply(i, m)
    \/ OnAppendEntries(i, m)
    \/ OnAppendEntriesReply(i, m)
    \/ OnTimeoutNow(i, m)

(***************************************************************************)
(* The network delivers any message at any time, or never.  A second       *)
(* delivery stands for the timers' retransmissions, which differ from the  *)
(* first request in nothing but uid and send_ts.                           *)
(***************************************************************************)
Deliver(m) ==
    IF m \in delivered
    THEN Spend("duplicate", MaxDuplicates) /\ UNCHANGED delivered
    ELSE delivered' = delivered \cup {m} /\ UNCHANGED used

Client(i) ==
    \/ \E v \in Value : Propose(i, v)
    \/ \E j \in Peers(i) : LeaderTransfer(i, j)

Restart(i) ==
    \/ Stop(i) \/ Crash(i)
    \/ Start(i) /\ UNCHANGED used

Next ==
    \E i \in Server :
        \/ \E m \in messages : Receive(i, m) /\ Deliver(m)
        \/ (Timer(i) \/ Client(i) \/ Restart(i)) /\ UNCHANGED delivered

Spec == Init /\ [][Next]_vars
=============================================================================
