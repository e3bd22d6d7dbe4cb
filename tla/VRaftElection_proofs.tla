------------------------ MODULE VRaftElection_proofs ------------------------
(***************************************************************************)
(* Machine-checked proofs about the consensus core, for every finite set   *)
(* of servers and every value of the bounds: every variable keeps its      *)
(* type, votes are stable, the timers follow the role, a cluster of an odd *)
(* number of servers never has two leaders in one term, and with pre-vote  *)
(* no term is raised that was not asked for.                               *)
(***************************************************************************)
EXTENDS VRaftProperties, FiniteSetTheorems, WellFoundedInduction, TLAPS

-----------------------------------------------------------------------------
(***************************************************************************)
(* Max and Min                                                             *)
(***************************************************************************)

\* A set of natural numbers up to a bound has its maximum among its elements:
\* what IndexManager::MajorityMax and StateMachineApply return exists.
LEMMA MaxIsElement ==
    ASSUME NEW n \in Nat, NEW S, S \subseteq 0..n, S # {}
    PROVE  Max(S) \in S /\ \A y \in S : y <= Max(S)
<1> DEFINE T == {n - x : x \in S}
<1>0. \A x \in S : x \in Nat /\ x <= n
  OBVIOUS
<1>1. T \subseteq Nat /\ T # {}
  <2>1. \A x \in S : n - x \in Nat
    BY <1>0
  <2>2. PICK x \in S : TRUE
    OBVIOUS
  <2>3. n - x \in T
    BY <2>2
  <2> QED
    BY <2>1, <2>3
<1>2. PICK t \in T : \A u \in T : ~(<<u, t>> \in OpToRel(<, Nat))
  <2>1. IsWellFoundedOn(OpToRel(<, Nat), Nat)
    BY NatLessThanWellFounded
  <2> QED
    BY <1>1, <2>1, WFMin
<1>3. PICK x \in S : t = n - x
  BY <1>2
<1>4. \A y \in S : x >= y
  <2> SUFFICES ASSUME NEW y \in S, ~(x >= y)
               PROVE  FALSE
    OBVIOUS
  <2>1. n - y \in T /\ t \in T
    BY <1>2
  <2>2. n - y \in Nat /\ t \in Nat /\ n - y < t
    BY <1>0, <1>3
  <2>3. <<n - y, t>> \in OpToRel(<, Nat)
    BY <2>2 DEF OpToRel
  <2> QED
    BY <1>2, <2>1, <2>3
<1>5. Max(S) \in S /\ \A y \in S : Max(S) >= y
  BY <1>3, <1>4 DEF Max
<1> QED
  BY <1>0, <1>5

\* The commit index of an AppendEntries is a natural number, at most either bound.
LEMMA MinOfTwo ==
    ASSUME NEW a \in Nat, NEW b \in Nat
    PROVE  Min({a, b}) \in Nat /\ Min({a, b}) <= a /\ Min({a, b}) <= b
<1>1. \E x \in {a, b} : \A y \in {a, b} : x =< y
  OBVIOUS
<1> QED
  BY <1>1 DEF Min

LEMMA ServerFacts ==
    /\ IsFiniteSet(Server)
    /\ Cardinality(Server) \in Nat
    /\ \A S \in SUBSET Server : IsFiniteSet(S) /\ Cardinality(S) \in Nat
BY ServerAssumption, FS_Subset, FS_CardinalityType

\* IndexManager::MajorityMax is an index that all but (size - 1) / 2 servers have reached.
LEMMA MajorityMaxType ==
    ASSUME NEW i \in Server, NEW mt \in [Server -> Nat], NEW last \in Nat
    PROVE  /\ MajorityMax(i, mt, last) \in 0..MaxLog
           /\ Cardinality(Reaching(i, mt, last, MajorityMax(i, mt, last)))
                + (Cardinality(Server) - 1) \div 2 >= Cardinality(Server)
<1> DEFINE enough(k) == Cardinality(Reaching(i, mt, last, k)) + (Cardinality(Server) - 1) \div 2
                          >= Cardinality(Server)
           S == {k \in 0..MaxLog : enough(k)}
<1>1. Reaching(i, mt, last, 0) = Server
  BY DEF Reaching
<1>2. Cardinality(Server) >= 1
  <2>1. Cardinality(Server) # 0
    BY ServerAssumption, ServerFacts, FS_EmptySet
  <2> QED
    BY <2>1, ServerFacts
<1>3. 0 \in S
  BY <1>1, <1>2, ServerFacts, BoundAssumption
<1>4. S \subseteq 0..MaxLog /\ S # {}
  BY <1>3
<1>5. Max(S) \in S
  BY <1>4, MaxIsElement, BoundAssumption
<1> QED
  BY <1>5 DEF MajorityMax

-----------------------------------------------------------------------------
(***************************************************************************)
(* Type correctness                                                        *)
(***************************************************************************)

\* The index and the term a server reports for its log are natural numbers.
LEMMA LogFacts ==
    ASSUME NEW l \in Seq(Entry)
    PROVE  /\ LastIndex(l) \in Nat
           /\ LastTerm(l) \in Nat
           /\ \A k \in Nat : GetTerm(l, k) \in Nat
<1>1. \A k \in DOMAIN l : l[k].term \in Nat
  <2> SUFFICES ASSUME NEW k \in DOMAIN l
               PROVE  l[k].term \in Nat
    OBVIOUS
  <2>1. l[k] \in Entry
    OBVIOUS
  <2> QED
    BY <2>1 DEF Entry
<1>2. Len(l) \in Nat /\ (Len(l) # 0 => Len(l) \in DOMAIN l)
  OBVIOUS
<1> QED
  BY <1>1, <1>2 DEF LastIndex, LastTerm, GetTerm

\* Raft::SendAppendEntries builds a well-formed message.
LEMMA AppendEntriesType ==
    ASSUME TypeOK, NEW i \in Server, NEW j \in Server, NEW l \in Seq(Entry),
           NEW n \in Nat \ {0}, NEW c \in Nat
    PROVE  AppendEntries(i, j, l, n, c) \in Message
<1> DEFINE e == IF n \in DOMAIN l THEN <<l[n]>> ELSE <<>>
<1>1. e \in Seq(Entry) /\ Len(e) \in Nat
  BY DEF LastIndex
<1> HIDE DEF e
<1>2. n - 1 \in Nat /\ n - 1 + Len(e) \in Nat
  BY <1>1
<1>2a. GetTerm(l, n - 1) \in Nat
  BY <1>2, LogFacts
<1>3. Min({c, n - 1 + Len(e)}) \in Nat
  BY <1>2, MinOfTwo
<1>4. term[i] \in Nat
  BY DEF TypeOK
<1>5. [type |-> "AppendEntries", src |-> i, dest |-> j, term |-> term[i],
       preLogIndex |-> n - 1, preLogTerm |-> GetTerm(l, n - 1), entries |-> e,
       commitIndex |-> Min({c, n - 1 + Len(e)})] \in AppendEntriesMsg
  BY <1>1, <1>2, <1>2a, <1>3, <1>4 DEF AppendEntriesMsg
<1> QED
  BY <1>5 DEF AppendEntries, Message, e

\* Raft::MaybeCommit computes an index.
LEMMA MaybeCommitType ==
    ASSUME TypeOK, NEW i \in Server, NEW l \in Seq(Entry), NEW mt \in [Server -> Nat]
    PROVE  MaybeCommit(i, l, mt) \in Nat
<1>1. LastIndex(l) \in Nat
  BY LogFacts
<1>2. MajorityMax(i, mt, LastIndex(l)) \in Nat
  BY <1>1, MajorityMaxType, BoundAssumption
<1>3. commit[i] \in Nat
  BY DEF TypeOK
<1> QED
  BY <1>2, <1>3 DEF MaybeCommit

\* Advancing the commit index and running the state machine keep their types.
LEMMA SetCommitType ==
    ASSUME TypeOK, NEW i \in Server, NEW l \in Seq(Entry), NEW c \in Nat, SetCommit(i, l, c)
    PROVE  /\ commit' \in [Server -> Nat]
           /\ sm' \in [Server -> [last: Nat, applied: [Index -> Seq(Entry)]]]
           /\ lastApply' \in [Server -> Nat]
<1>1. commit' \in [Server -> Nat]
  BY DEF SetCommit, TypeOK
<1>2. CASE UNCHANGED smVars
  BY <1>1, <1>2 DEF smVars, TypeOK
<1>3. CASE StateMachineApply(i, l, c)
  <2> DEFINE data == DataIndices(l, lastApply[i], c)
             last == IF data = {} THEN sm[i].last ELSE Max(data)
             applied == [k \in Index |-> IF k \in data THEN Append(sm[i].applied[k], l[k])
                                         ELSE sm[i].applied[k]]
  <2>1. data \subseteq 0..MaxLog /\ data \subseteq Index \cap DOMAIN l
    BY BoundAssumption DEF DataIndices, Index
  <2>2. sm[i] \in [last: Nat, applied: [Index -> Seq(Entry)]]
    BY DEF TypeOK
  <2>3. last \in Nat
    <3>1. CASE data = {}
      BY <2>2, <3>1
    <3>2. CASE data # {}
      <4>1. Max(data) \in data
        BY <2>1, <3>2, MaxIsElement, BoundAssumption
      <4> QED
        BY <2>1, <3>2, <4>1
    <3> QED
      BY <3>1, <3>2
  <2>4. applied \in [Index -> Seq(Entry)]
    <3>1. \A k \in data : l[k] \in Entry
      BY <2>1
    <3>2. sm[i].applied \in [Index -> Seq(Entry)]
      BY <2>2
    <3> HIDE DEF data
    <3> QED
      BY <3>1, <3>2
  <2>5. [last |-> last, applied |-> applied] \in [last: Nat, applied: [Index -> Seq(Entry)]]
    BY <2>3, <2>4
  <2>6. sm' = [sm EXCEPT ![i] = [last |-> last, applied |-> applied]]
    BY <1>3 DEF StateMachineApply
  <2>7. lastApply' = [lastApply EXCEPT ![i] = c]
    BY <1>3 DEF StateMachineApply
  <2> HIDE DEF last, applied
  <2> QED
    BY <1>1, <2>5, <2>6, <2>7 DEF TypeOK
<1> QED
  BY <1>2, <1>3 DEF SetCommit

\* Raft::StepDown, in any of its uses, keeps the types of what it assigns.
LEMMA StepDownToType ==
    ASSUME TypeOK, NEW i \in Server, NEW t \in Nat, NEW v \in Server \cup {Nil},
           NEW l \in Server \cup {Nil}, NEW h \in {NeverHeard, Heard, IamLeader},
           StepDownTo(i, t, v, l, h)
    PROVE  /\ term' \in [Server -> Nat]
           /\ vote' \in [Server -> Server \cup {Nil}]
           /\ leader' \in [Server -> Server \cup {Nil}]
           /\ lastHeartbeat' \in [Server -> {NeverHeard, Heard, IamLeader}]
           /\ state' \in [Server -> {Follower, Candidate, Leader}]
           /\ heartbeatTimers' \in [Server -> SUBSET Server]
           /\ requestVoteTimers' \in [Server -> SUBSET Server]
           /\ electionTimer' \in [Server -> BOOLEAN]
BY DEF TypeOK, StepDownTo

LEMMA StepDownArgs ==
    ASSUME TypeOK, NEW i \in Server, NEW t \in Nat
    PROVE  /\ VoteAfterStepDown(i, t) \in Server \cup {Nil}
           /\ LeaderAfterStepDown(i, t) \in Server \cup {Nil}
           /\ HeartbeatAfterStepDown(i) \in {NeverHeard, Heard, IamLeader}
BY DEF TypeOK, VoteAfterStepDown, LeaderAfterStepDown, HeartbeatAfterStepDown

\* Raft::BecomeLeader, AppendNoop included, keeps the types of what it assigns.
LEMMA BecomeLeaderType ==
    ASSUME TypeOK, NEW i \in Server, NEW t \in Nat, BecomeLeader(i, t)
    PROVE  /\ leaderTransfer' \in [Server -> BOOLEAN]
           /\ transferMaxTerm' \in [Server -> Nat]
           /\ state' \in [Server -> {Follower, Candidate, Leader}]
           /\ leader' \in [Server -> Server \cup {Nil}]
           /\ lastHeartbeat' \in [Server -> {NeverHeard, Heard, IamLeader}]
           /\ heartbeatTimers' \in [Server -> SUBSET Server]
           /\ requestVoteTimers' \in [Server -> SUBSET Server]
           /\ electionTimer' \in [Server -> BOOLEAN]
           /\ next' \in [Server -> [Server -> Nat \ {0}]]
           /\ match' \in [Server -> [Server -> Nat]]
           /\ log' \in [Server -> Seq(Entry)]
           /\ elected' \subseteq Nat \X Server
<1>1. log[i] \in Seq(Entry) /\ [term |-> t, value |-> Noop] \in Entry
  BY DEF TypeOK, Entry
<1>2. log' \in [Server -> Seq(Entry)]
  <2>1. Append(log[i], [term |-> t, value |-> Noop]) \in Seq(Entry)
    BY <1>1
  <2> QED
    BY <2>1 DEF TypeOK, BecomeLeader
<1>3. LastIndex(log[i]) + 1 \in Nat \ {0}
  <2>1. LastIndex(log[i]) \in Nat
    BY <1>1, LogFacts
  <2> QED
    BY <2>1
<1>4. /\ next' \in [Server -> [Server -> Nat \ {0}]]
      /\ match' \in [Server -> [Server -> Nat]]
  BY <1>3 DEF TypeOK, BecomeLeader
<1>5. elected' \subseteq Nat \X Server
  <2>1. <<t, i>> \in Nat \X Server
    OBVIOUS
  <2>2. elected \subseteq Nat \X Server /\ elected' = elected \cup {<<t, i>>}
    BY DEF TypeOK, BecomeLeader
  <2> QED
    BY <2>1, <2>2, Zenon
<1> QED
  BY <1>2, <1>4, <1>5 DEF TypeOK, BecomeLeader, Peers

LEMMA ClearVotesType ==
    ASSUME TypeOK, NEW i \in Server, ClearVotes(i)
    PROVE  /\ grant' \in [Server -> SUBSET Server]
           /\ logOk' \in [Server -> SUBSET Server]
           /\ intervalOk' \in [Server -> SUBSET Server]
BY DEF TypeOK, ClearVotes

\* What both ways into an election do to the types: Elect, and the last pre-vote reply.
LEMMA DoRequestVoteType ==
    ASSUME TypeOK, NEW i \in Server, DoRequestVote(i), used' \in [Bounded -> Nat]
    PROVE  TypeOK'
<1>1. /\ term' \in [Server -> Nat] /\ vote' \in [Server -> Server \cup {Nil}]
      /\ preVoting' \in [Server -> BOOLEAN] /\ term[i] + 1 \in Nat
  BY DEF TypeOK, DoRequestVote
<1>2. /\ grant' \in [Server -> SUBSET Server]
      /\ logOk' \in [Server -> SUBSET Server]
      /\ intervalOk' \in [Server -> SUBSET Server]
  BY ClearVotesType DEF DoRequestVote
<1>3. UNCHANGED <<smVars, started, commit, messages>>
  BY DEF DoRequestVote
<1>4. CASE BecomeLeader(i, term[i] + 1)
  BY <1>1, <1>2, <1>3, <1>4, BecomeLeaderType DEF TypeOK, smVars
<1>5. CASE BecomeCandidate(i)
  BY <1>1, <1>2, <1>3, <1>5 DEF TypeOK, smVars, BecomeCandidate, Peers, indexMgr, transferVars
<1> QED
  BY <1>4, <1>5 DEF DoRequestVote

\* Counting an event keeps the type of the counters.
LEMMA SpendType ==
    ASSUME used \in [Bounded -> Nat], NEW b \in Bounded, NEW max \in Nat, Spend(b, max)
    PROVE  used' \in [Bounded -> Nat]
BY DEF Spend

LEMMA ElectType ==
    ASSUME TypeOK, NEW i \in Server, Elect(i)
    PROVE  TypeOK'
<1>1. used' \in [Bounded -> Nat]
  BY SpendType, BoundAssumption DEF TypeOK, Elect, Bounded
<1>2. CASE DoRequestVote(i)
  BY <1>1, <1>2, DoRequestVoteType
<1>3. CASE DoPreVote(i)
  <2>1. /\ grant' \in [Server -> SUBSET Server]
        /\ logOk' \in [Server -> SUBSET Server]
        /\ intervalOk' \in [Server -> SUBSET Server]
    BY <1>3, ClearVotesType DEF DoPreVote
  <2> QED
    BY <1>1, <1>3, <2>1 DEF DoPreVote, TypeOK, meta, smVars, BecomeCandidate, Peers, indexMgr,
                            transferVars
<1> QED
  BY <1>2, <1>3 DEF Elect

LEMMA SendRpcType ==
    ASSUME TypeOK, NEW m \in Message, SendRpc(m)
    PROVE  messages' \subseteq Message /\ used' \in [Bounded -> Nat]
BY DEF TypeOK, SendRpc, Send, Spend

LEMMA RequestVoteRpcType ==
    ASSUME TypeOK, NEW i \in Server, NEW j \in Server, RequestVoteRpc(i, j)
    PROVE  TypeOK'
<1> DEFINE transfer == leaderTransfer[i] /\ term[i] <= transferMaxTerm[i]
           m == [type |-> "RequestVote", src |-> i, dest |-> j, term |-> term[i],
                 lastLogIndex |-> LastIndex(log[i]), lastLogTerm |-> LastTerm(log[i]),
                 preVote |-> preVoting[i], leaderTransfer |-> transfer]
<1>1. LastIndex(log[i]) \in Nat /\ LastTerm(log[i]) \in Nat
  BY LogFacts DEF TypeOK
<1>2. transfer \in BOOLEAN /\ preVoting[i] \in BOOLEAN /\ term[i] \in Nat
  BY DEF TypeOK
<1>3. SendRpc(m) /\ leaderTransfer' = [leaderTransfer EXCEPT ![i] = transfer]
      /\ transferMaxTerm' = [transferMaxTerm EXCEPT ![i] = IF transfer THEN @ ELSE 0]
  BY DEF RequestVoteRpc, SendRequestVote
<1> HIDE DEF transfer
<1>4. m \in Message
  BY <1>1, <1>2 DEF Message, RequestVoteMsg
<1> HIDE DEF m
<1>5. messages' \subseteq Message /\ used' \in [Bounded -> Nat]
  BY <1>3, <1>4, SendRpcType
<1> QED
  BY <1>2, <1>3, <1>5 DEF RequestVoteRpc, TypeOK, meta, smVars, role, voteMgr, indexMgr, timerMgr

LEMMA HeartBeatType ==
    ASSUME TypeOK, NEW i \in Server, NEW j \in Server, HeartBeat(i, j)
    PROVE  TypeOK'
<1>1. log[i] \in Seq(Entry) /\ next[i][j] \in Nat \ {0} /\ commit[i] \in Nat
  BY DEF TypeOK
<1>2. AppendEntries(i, j, log[i], next[i][j], commit[i]) \in Message
  BY <1>1, AppendEntriesType
<1>3. messages' \subseteq Message /\ used' \in [Bounded -> Nat]
  BY <1>2, SendRpcType DEF HeartBeat
<1> QED
  BY <1>3 DEF HeartBeat, TypeOK, meta, smVars, role, transferVars, voteMgr, indexMgr, timerMgr

\* A message's kind tells which fields it has.
LEMMA MessageKind ==
    ASSUME NEW m \in Message
    PROVE  /\ m.type = "RequestVote" => m \in RequestVoteMsg
           /\ m.type = "RequestVoteReply" => m \in RequestVoteReplyMsg
           /\ m.type = "AppendEntries" => m \in AppendEntriesMsg
           /\ m.type = "AppendEntriesReply" => m \in AppendEntriesReplyMsg
           /\ m.type = "TimeoutNow" => m \in TimeoutNowMsg
BY DEF Message, RequestVoteMsg, RequestVoteReplyMsg, AppendEntriesMsg, AppendEntriesReplyMsg,
       TimeoutNowMsg

\* A message already delivered is counted, a new one recorded.
LEMMA DeliverType ==
    ASSUME TypeOK, NEW m, Deliver(m)
    PROVE  used' \in [Bounded -> Nat]
BY SpendType, BoundAssumption DEF TypeOK, Deliver, Bounded

\* Raft::StepDown keeps the types of what it assigns.
LEMMA StepDownType ==
    ASSUME TypeOK, NEW i \in Server, NEW t \in Nat, StepDown(i, t)
    PROVE  /\ term' \in [Server -> Nat]
           /\ vote' \in [Server -> Server \cup {Nil}]
           /\ leader' \in [Server -> Server \cup {Nil}]
           /\ lastHeartbeat' \in [Server -> {NeverHeard, Heard, IamLeader}]
           /\ state' \in [Server -> {Follower, Candidate, Leader}]
           /\ heartbeatTimers' \in [Server -> SUBSET Server]
           /\ requestVoteTimers' \in [Server -> SUBSET Server]
           /\ electionTimer' \in [Server -> BOOLEAN]
BY StepDownToType, StepDownArgs DEF StepDown

\* Sending a well-formed message keeps the network well formed.
LEMMA SendType ==
    ASSUME TypeOK, NEW m, m \in Message, Send(m)
    PROVE  messages' \subseteq Message
BY DEF TypeOK, Send

\* The answer to a vote request is well formed.
LEMMA RequestVoteReplyType ==
    ASSUME TypeOK, NEW i \in Server, NEW m \in RequestVoteMsg, NEW t \in Nat, NEW v,
           NEW ok \in BOOLEAN
    PROVE  RequestVoteReply(i, m, t, v, ok) \in Message
<1>1. m.src \in Server /\ m.term \in Nat /\ m.preVote \in BOOLEAN
  BY DEF RequestVoteMsg
<1>2. CandidateLogOk(m, log[i]) \in BOOLEAN
  BY DEF CandidateLogOk
<1>3. (ok /\ m.term = t /\ v = m.src) \in BOOLEAN
  OBVIOUS
<1>4. RequestVoteReply(i, m, t, v, ok) \in RequestVoteReplyMsg
  BY <1>1, <1>2, <1>3 DEF RequestVoteReply, RequestVoteReplyMsg
<1> QED
  BY <1>4 DEF Message

LEMMA OnRequestVoteType ==
    ASSUME TypeOK, NEW i \in Server, NEW m \in messages, OnRequestVote(i, m),
           used' \in [Bounded -> Nat]
    PROVE  TypeOK'
<1>1. m \in RequestVoteMsg
  BY MessageKind DEF TypeOK, OnRequestVote
<1>2. m.term \in Nat /\ m.src \in Server
  BY <1>1 DEF RequestVoteMsg
<1>3. PICK ok \in IntervalOutcomes(i, m) :
         LET t == IF ok /\ m.term > term[i] THEN m.term ELSE term[i]
             gives == ok /\ GivesVote(i, m, t)
             v == IF gives /\ ~m.preVote THEN m.src ELSE VoteAfterStepDown(i, t)
         IN  /\ Send(RequestVoteReply(i, m, t, v, ok))
             /\ IF gives \/ t > term[i]
                THEN StepDownTo(i, t, v, LeaderAfterStepDown(i, t), HeartbeatAfterStepDown(i))
                ELSE UNCHANGED <<meta, role, timerMgr>>
  BY DEF OnRequestVote
<1> DEFINE t == IF ok /\ m.term > term[i] THEN m.term ELSE term[i]
           gives == ok /\ GivesVote(i, m, t)
           v == IF gives /\ ~m.preVote THEN m.src ELSE VoteAfterStepDown(i, t)
<1>4. /\ Send(RequestVoteReply(i, m, t, v, ok))
      /\ \/ StepDownTo(i, t, v, LeaderAfterStepDown(i, t), HeartbeatAfterStepDown(i))
         \/ UNCHANGED <<meta, role, timerMgr>>
  BY <1>3
<1>5. ok \in BOOLEAN
  BY DEF IntervalOutcomes
<1>6. t \in Nat
  BY <1>2 DEF TypeOK
<1>7. v \in Server \cup {Nil}
  BY <1>2, <1>6, StepDownArgs
<1> HIDE DEF t, v
<1>8. messages' \subseteq Message
  <2>1. RequestVoteReply(i, m, t, v, ok) \in Message
    BY <1>1, <1>5, <1>6, RequestVoteReplyType
  <2> QED
    BY <1>4, <2>1, SendType
<1>9. UNCHANGED <<log, smVars, started, commit, preVoting, transferVars, voteMgr, indexMgr,
                  elected>>
  BY DEF OnRequestVote
<1>10. CASE StepDownTo(i, t, v, LeaderAfterStepDown(i, t), HeartbeatAfterStepDown(i))
  <2>1. /\ LeaderAfterStepDown(i, t) \in Server \cup {Nil}
        /\ HeartbeatAfterStepDown(i) \in {NeverHeard, Heard, IamLeader}
    BY <1>6, StepDownArgs
  <2>2. /\ term' \in [Server -> Nat]
        /\ vote' \in [Server -> Server \cup {Nil}]
        /\ leader' \in [Server -> Server \cup {Nil}]
        /\ lastHeartbeat' \in [Server -> {NeverHeard, Heard, IamLeader}]
        /\ state' \in [Server -> {Follower, Candidate, Leader}]
        /\ heartbeatTimers' \in [Server -> SUBSET Server]
        /\ requestVoteTimers' \in [Server -> SUBSET Server]
        /\ electionTimer' \in [Server -> BOOLEAN]
    BY <1>6, <1>7, <1>10, <2>1, StepDownToType
  <2> QED
    BY <1>8, <1>9, <2>2 DEF TypeOK, smVars, transferVars, voteMgr, indexMgr
<1>11. CASE UNCHANGED <<meta, role, timerMgr>>
  BY <1>8, <1>9, <1>11 DEF TypeOK, smVars, transferVars, voteMgr, indexMgr, meta, role, timerMgr
<1> QED
  BY <1>4, <1>10, <1>11

\* A reply of a larger term makes the server a follower of that term.
LEMMA OnLargerTermType ==
    ASSUME TypeOK, NEW i \in Server, NEW m, m.term \in Nat, OnLargerTerm(i, m),
           used' \in [Bounded -> Nat]
    PROVE  TypeOK'
<1>1. StepDown(i, m.term)
  BY DEF OnLargerTerm
<1> QED
  BY <1>1, StepDownType DEF OnLargerTerm, TypeOK, smVars, transferVars, voteMgr, indexMgr

LEMMA OnVoteReplyType ==
    ASSUME TypeOK, NEW i \in Server, NEW m, m.src \in Server, OnVoteReply(i, m),
           used' \in [Bounded -> Nat]
    PROVE  TypeOK'
<1>1. grant' \in [Server -> SUBSET Server]
  <2>1. PICK G \in {grant[i], grant[i] \cup {m.src}} : grant' = [grant EXCEPT ![i] = G]
    BY Zenon DEF OnVoteReply
  <2>2. grant \in [Server -> SUBSET Server] /\ G \subseteq Server
    BY <2>1 DEF TypeOK
  <2> QED
    BY <2>1, <2>2
<1>2. UNCHANGED <<meta, smVars, started, commit, preVoting, logOk, intervalOk, messages>>
  BY DEF OnVoteReply
<1>3. CASE BecomeLeader(i, term[i])
  <2>1. term[i] \in Nat
    BY DEF TypeOK
  <2> QED
    BY <1>1, <1>2, <1>3, <2>1, BecomeLeaderType DEF TypeOK, meta, smVars
<1>4. CASE /\ requestVoteTimers' = [requestVoteTimers EXCEPT ![i] = @ \ {m.src}]
           /\ UNCHANGED <<role, transferVars, indexMgr, log, elected, electionTimer,
                          heartbeatTimers>>
  BY <1>1, <1>2, <1>4 DEF TypeOK, meta, smVars, role, transferVars, indexMgr
<1> QED
  BY <1>3, <1>4 DEF OnVoteReply

LEMMA OnPreVoteReplyType ==
    ASSUME TypeOK, NEW i \in Server, NEW m, m.src \in Server, OnPreVoteReply(i, m),
           used' \in [Bounded -> Nat]
    PROVE  TypeOK'
<1> DEFINE logs == IF m.logOk THEN logOk[i] \cup {m.src} ELSE logOk[i]
           intervals == IF m.intervalOk THEN intervalOk[i] \cup {m.src} ELSE intervalOk[i]
           rest == /\ logOk' = [logOk EXCEPT ![i] = logs]
                   /\ intervalOk' = [intervalOk EXCEPT ![i] = intervals]
                   /\ requestVoteTimers' = [requestVoteTimers EXCEPT ![i] = @ \ {m.src}]
                   /\ UNCHANGED <<meta, log, smVars, started, role, commit, preVoting,
                                  transferVars, grant, indexMgr, electionTimer,
                                  heartbeatTimers, messages, elected>>
<1>1. DoRequestVote(i) \/ rest
  BY DEF OnPreVoteReply
<1>2. CASE DoRequestVote(i)
  BY <1>2, DoRequestVoteType
<1>3. CASE rest
  <2>1. logs \subseteq Server /\ intervals \subseteq Server
    BY DEF TypeOK
  <2> HIDE DEF logs, intervals
  <2> QED
    BY <1>3, <2>1 DEF TypeOK, meta, smVars, role, transferVars, indexMgr
<1> QED
  BY <1>1, <1>2, <1>3

LEMMA OnRequestVoteReplyType ==
    ASSUME TypeOK, NEW i \in Server, NEW m \in messages, OnRequestVoteReply(i, m),
           used' \in [Bounded -> Nat]
    PROVE  TypeOK'
<1>1. m \in RequestVoteReplyMsg
  BY MessageKind DEF TypeOK, OnRequestVoteReply
<1>2. m.term \in Nat /\ m.src \in Server
  BY <1>1 DEF RequestVoteReplyMsg
<1> QED
  BY <1>2, OnLargerTermType, OnVoteReplyType, OnPreVoteReplyType DEF OnRequestVoteReply

\* The log after the entries of an AppendEntries have been merged is a log.
LEMMA MergeLogType ==
    ASSUME NEW l \in Seq(Entry), NEW m \in AppendEntriesMsg, PreLogMatches(l, m)
    PROVE  MergeLog(l, m) \in Seq(Entry)
<1>1. m.entries \in Seq(Entry) /\ m.preLogIndex \in Nat
  BY DEF AppendEntriesMsg
<1>2. m.preLogIndex <= Len(l)
  BY DEF PreLogMatches, LastIndex
<1>3. SubSeq(l, 1, m.preLogIndex) \in Seq(Entry)
  BY <1>1, <1>2
<1>4. m.entries # <<>> => m.entries[1] \in Entry
  BY <1>1
<1> QED
  BY <1>3, <1>4 DEF MergeLog

LEMMA AppendEntriesReplyType ==
    ASSUME NEW i \in Server, NEW m \in AppendEntriesMsg, NEW t \in Nat,
           NEW success \in BOOLEAN, NEW last \in Nat
    PROVE  AppendEntriesReply(i, m, t, success, last) \in Message
<1>1. m.src \in Server /\ m.term \in Nat /\ m.preLogIndex \in Nat /\ m.entries \in Seq(Entry)
  BY DEF AppendEntriesMsg
<1>2. Len(m.entries) \in Nat
  BY <1>1
<1> QED
  BY <1>1, <1>2 DEF AppendEntriesReply, Message, AppendEntriesReplyMsg

LEMMA FollowLeaderType ==
    ASSUME TypeOK, NEW i \in Server, NEW m \in AppendEntriesMsg, FollowLeader(i, m)
    PROVE  /\ term' \in [Server -> Nat]
           /\ vote' \in [Server -> Server \cup {Nil}]
           /\ leader' \in [Server -> Server \cup {Nil}]
           /\ lastHeartbeat' \in [Server -> {NeverHeard, Heard, IamLeader}]
           /\ state' \in [Server -> {Follower, Candidate, Leader}]
           /\ heartbeatTimers' \in [Server -> SUBSET Server]
           /\ requestVoteTimers' \in [Server -> SUBSET Server]
           /\ electionTimer' \in [Server -> BOOLEAN]
<1>1. m.term \in Nat /\ m.src \in Server
  BY DEF AppendEntriesMsg
<1>2. VoteAfterStepDown(i, m.term) \in Server \cup {Nil}
  BY <1>1, StepDownArgs
<1> QED
  BY <1>1, <1>2, StepDownToType DEF FollowLeader

LEMMA OnAppendEntriesType ==
    ASSUME TypeOK, NEW i \in Server, NEW m \in messages, OnAppendEntries(i, m),
           used' \in [Bounded -> Nat]
    PROVE  TypeOK'
<1>1. m \in AppendEntriesMsg
  BY MessageKind DEF TypeOK, OnAppendEntries
<1>2. m.term \in Nat /\ m.commitIndex \in Nat
  BY <1>1 DEF AppendEntriesMsg
<1>3. UNCHANGED <<started, preVoting, transferVars, voteMgr, indexMgr, elected>>
  BY DEF OnAppendEntries
<1>4. log[i] \in Seq(Entry) /\ term[i] \in Nat /\ commit[i] \in Nat
  BY DEF TypeOK
<1>5. LastIndex(log[i]) \in Nat
  BY <1>4, LogFacts
<1>6. CASE RejectStale(i, m)
  <2>1. messages' \subseteq Message
    <3>1. AppendEntriesReply(i, m, term[i], FALSE, LastIndex(log[i])) \in Message
      BY <1>1, <1>4, <1>5, AppendEntriesReplyType
    <3> QED
      BY <1>6, <3>1, SendType DEF RejectStale
  <2> QED
    BY <1>3, <1>6, <2>1 DEF RejectStale, TypeOK, meta, smVars, role, timerMgr, transferVars,
                            voteMgr, indexMgr
<1>7. CASE RejectMismatch(i, m)
  <2>1. messages' \subseteq Message
    <3>1. AppendEntriesReply(i, m, m.term, FALSE, LastIndex(log[i])) \in Message
      BY <1>1, <1>2, <1>5, AppendEntriesReplyType
    <3> QED
      BY <1>7, <3>1, SendType DEF RejectMismatch
  <2> QED
    BY <1>1, <1>3, <1>7, <2>1, FollowLeaderType
       DEF RejectMismatch, TypeOK, smVars, transferVars, voteMgr, indexMgr
<1>8. CASE Accept(i, m)
  <2> DEFINE l == MergeLog(log[i], m)
             c == IF commit[i] < m.commitIndex THEN m.commitIndex ELSE commit[i]
  <2>1. /\ PreLogMatches(log[i], m) /\ FollowLeader(i, m)
        /\ log' = [log EXCEPT ![i] = l]
        /\ SetCommit(i, l, c)
        /\ Send(AppendEntriesReply(i, m, m.term, TRUE, LastIndex(l)))
    BY <1>8 DEF Accept
  <2>2. l \in Seq(Entry)
    BY <1>1, <1>4, <2>1, MergeLogType
  <2>3. c \in Nat
    BY <1>2, <1>4
  <2> HIDE DEF l, c
  <2>4. LastIndex(l) \in Nat
    BY <2>2, LogFacts
  <2>5. messages' \subseteq Message
    <3>1. AppendEntriesReply(i, m, m.term, TRUE, LastIndex(l)) \in Message
      BY <1>1, <1>2, <2>4, AppendEntriesReplyType
    <3> QED
      BY <2>1, <3>1, SendType
  <2>6. log' \in [Server -> Seq(Entry)]
    BY <2>1, <2>2 DEF TypeOK
  <2>7. /\ commit' \in [Server -> Nat]
        /\ sm' \in [Server -> [last: Nat, applied: [Index -> Seq(Entry)]]]
        /\ lastApply' \in [Server -> Nat]
    BY <2>1, <2>2, <2>3, SetCommitType
  <2> QED
    BY <1>1, <1>3, <2>1, <2>5, <2>6, <2>7, FollowLeaderType
       DEF TypeOK, transferVars, voteMgr, indexMgr
<1> QED
  BY <1>6, <1>7, <1>8 DEF OnAppendEntries

\* A dying process leaves well-typed volatile state to the next one.
LEMMA LoseVolatileType ==
    ASSUME TypeOK, NEW i \in Server, LoseVolatile(i), elected' = elected,
           used' \in [Bounded -> Nat]
    PROVE  TypeOK'
<1>1. LastIndex(log[i]) + 1 \in Nat \ {0}
  <2>1. LastIndex(log[i]) \in Nat
    BY LogFacts DEF TypeOK
  <2> QED
    BY <2>1
<1>2. /\ next' \in [Server -> [Server -> Nat \ {0}]]
      /\ match' \in [Server -> [Server -> Nat]]
  BY <1>1 DEF TypeOK, LoseVolatile
<1>3. /\ grant' \in [Server -> SUBSET Server]
      /\ logOk' \in [Server -> SUBSET Server]
      /\ intervalOk' \in [Server -> SUBSET Server]
  BY ClearVotesType DEF LoseVolatile
<1>4. /\ electionTimer' \in [Server -> BOOLEAN]
      /\ requestVoteTimers' \in [Server -> SUBSET Server]
      /\ heartbeatTimers' \in [Server -> SUBSET Server]
  BY DEF TypeOK, LoseVolatile, StopTimers
<1>5. /\ started' \in [Server -> BOOLEAN]
      /\ state' \in [Server -> {Follower, Candidate, Leader}]
      /\ leader' \in [Server -> Server \cup {Nil}]
      /\ commit' \in [Server -> Nat]
      /\ lastApply' \in [Server -> Nat]
      /\ lastHeartbeat' \in [Server -> {NeverHeard, Heard, IamLeader}]
      /\ preVoting' \in [Server -> BOOLEAN]
      /\ leaderTransfer' \in [Server -> BOOLEAN]
      /\ transferMaxTerm' \in [Server -> Nat]
  BY DEF TypeOK, LoseVolatile
<1>6. UNCHANGED <<meta, log, sm, messages>>
  BY DEF LoseVolatile
<1> QED
  BY <1>2, <1>3, <1>4, <1>5, <1>6 DEF TypeOK, meta

\* Both ways to lower the next index keep it above 0.
LEMMA NextAfterRejectType ==
    ASSUME NEW n \in Nat \ {0}, NEW m, m.lastLogIndex \in Nat
    PROVE  NextAfterReject(n, m) \in Nat \ {0}
BY DEF NextAfterReject

LEMMA OnAppendReplyOfTermType ==
    ASSUME TypeOK, NEW i \in Server, NEW m \in AppendEntriesReplyMsg, OnAppendReplyOfTerm(i, m),
           used' \in [Bounded -> Nat]
    PROVE  TypeOK'
<1> DEFINE j == m.src
           advances == m.success /\ match[i][j] <= Acked(m)
           mt == IF advances THEN [match[i] EXCEPT ![j] = Acked(m)] ELSE match[i]
           n == IF m.success THEN mt[j] + 1 ELSE NextAfterReject(next[i][j], m)
           c == IF advances THEN MaybeCommit(i, log[i], mt) ELSE commit[i]
           sent == IF n <= LastIndex(log[i]) THEN {AppendEntries(i, j, log[i], n, c)} ELSE {}
<1>1. /\ match' = [match EXCEPT ![i] = mt]
      /\ next' = [next EXCEPT ![i][j] = n]
      /\ SetCommit(i, log[i], c)
      /\ SendAll(sent)
  BY DEF OnAppendReplyOfTerm
<1>2. UNCHANGED <<meta, log, started, role, preVoting, transferVars, voteMgr, timerMgr, elected>>
  BY DEF OnAppendReplyOfTerm
<1>3. j \in Server /\ Acked(m) \in Nat /\ m.lastLogIndex \in Nat
  BY DEF AppendEntriesReplyMsg, Acked
<1>4. /\ log[i] \in Seq(Entry) /\ commit[i] \in Nat
      /\ match[i] \in [Server -> Nat] /\ next[i] \in [Server -> Nat \ {0}]
  BY DEF TypeOK
<1> HIDE DEF j
<1>5. mt \in [Server -> Nat]
  BY <1>3, <1>4
<1> HIDE DEF mt
<1>6. n \in Nat \ {0}
  <2>1. mt[j] + 1 \in Nat \ {0}
    BY <1>3, <1>5
  <2>2. NextAfterReject(next[i][j], m) \in Nat \ {0}
    BY <1>3, <1>4, NextAfterRejectType
  <2> QED
    BY <2>1, <2>2
<1>7. c \in Nat
  BY <1>4, <1>5, MaybeCommitType
<1> HIDE DEF n, c
<1>8. sent \subseteq Message
  <2>1. AppendEntries(i, j, log[i], n, c) \in Message
    BY <1>3, <1>4, <1>6, <1>7, AppendEntriesType
  <2> QED
    BY <2>1
<1> HIDE DEF sent
<1>9. messages' \subseteq Message
  BY <1>1, <1>8 DEF SendAll, TypeOK
<1>10. /\ match' \in [Server -> [Server -> Nat]]
       /\ next' \in [Server -> [Server -> Nat \ {0}]]
  BY <1>1, <1>3, <1>5, <1>6 DEF TypeOK
<1>11. /\ commit' \in [Server -> Nat]
       /\ sm' \in [Server -> [last: Nat, applied: [Index -> Seq(Entry)]]]
       /\ lastApply' \in [Server -> Nat]
  BY <1>1, <1>4, <1>7, SetCommitType
<1> QED
  BY <1>2, <1>9, <1>10, <1>11 DEF TypeOK, meta, role, transferVars, voteMgr, timerMgr

LEMMA OnAppendEntriesReplyType ==
    ASSUME TypeOK, NEW i \in Server, NEW m \in messages, OnAppendEntriesReply(i, m),
           used' \in [Bounded -> Nat]
    PROVE  TypeOK'
<1>1. m \in AppendEntriesReplyMsg
  BY MessageKind DEF TypeOK, OnAppendEntriesReply
<1>2. m.term \in Nat
  BY <1>1 DEF AppendEntriesReplyMsg
<1>3. CASE AbortNotLeader(i, m)
  BY <1>3, LoseVolatileType DEF AbortNotLeader
<1>4. CASE OnLargerTerm(i, m)
  BY <1>2, <1>4, OnLargerTermType
<1>5. CASE OnAppendReplyOfTerm(i, m)
  BY <1>1, <1>5, OnAppendReplyOfTermType
<1> QED
  BY <1>3, <1>4, <1>5 DEF OnAppendEntriesReply

LEMMA OnTimeoutNowType ==
    ASSUME TypeOK, NEW i \in Server, NEW m \in messages, OnTimeoutNow(i, m),
           used' \in [Bounded -> Nat]
    PROVE  TypeOK'
<1>1. m \in TimeoutNowMsg
  BY MessageKind DEF TypeOK, OnTimeoutNow
<1>2. m.term \in Nat
  BY <1>1 DEF TimeoutNowMsg
<1>3. leaderTransfer' \in [Server -> BOOLEAN] /\ transferMaxTerm' \in [Server -> Nat]
  BY BoundAssumption DEF TypeOK, OnTimeoutNow
<1>4. UNCHANGED <<log, smVars, started, commit, preVoting, voteMgr, indexMgr, messages, elected>>
  BY DEF OnTimeoutNow
<1>5. CASE StepDown(i, m.term)
  BY <1>2, <1>3, <1>4, <1>5, StepDownType DEF TypeOK, smVars, voteMgr, indexMgr
<1>6. CASE UNCHANGED <<meta, role, timerMgr>>
  BY <1>3, <1>4, <1>6 DEF TypeOK, smVars, voteMgr, indexMgr, meta, role, timerMgr
<1> QED
  BY <1>5, <1>6 DEF OnTimeoutNow

LEMMA ProposeType ==
    ASSUME TypeOK, NEW i \in Server, NEW v \in Value, Propose(i, v)
    PROVE  TypeOK'
<1> DEFINE l == Append(log[i], [term |-> term[i], value |-> v])
           c == MaybeCommit(i, l, match[i])
<1>1. /\ log' = [log EXCEPT ![i] = l]
      /\ SetCommit(i, l, c)
      /\ SendAll({AppendEntries(i, j, l, next[i][j], c) : j \in Peers(i)})
  BY DEF Propose
<1>2. UNCHANGED <<meta, started, role, preVoting, transferVars, voteMgr, indexMgr, timerMgr,
                  elected>>
  BY DEF Propose
<1>3. l \in Seq(Entry)
  <2>1. log[i] \in Seq(Entry) /\ [term |-> term[i], value |-> v] \in Entry
    BY DEF TypeOK, Entry
  <2> QED
    BY <2>1
<1> HIDE DEF l
<1>4. c \in Nat
  <2>1. match[i] \in [Server -> Nat]
    BY DEF TypeOK
  <2> QED
    BY <1>3, <2>1, MaybeCommitType
<1> HIDE DEF c
<1>5. \A j \in Peers(i) : AppendEntries(i, j, l, next[i][j], c) \in Message
  <2> SUFFICES ASSUME NEW j \in Peers(i)
               PROVE  AppendEntries(i, j, l, next[i][j], c) \in Message
    OBVIOUS
  <2>1. j \in Server /\ next[i][j] \in Nat \ {0}
    BY DEF TypeOK, Peers
  <2> QED
    BY <1>3, <1>4, <2>1, AppendEntriesType
<1>6. messages' \subseteq Message
  BY <1>1, <1>5 DEF SendAll, TypeOK
<1>7. log' \in [Server -> Seq(Entry)]
  BY <1>1, <1>3 DEF TypeOK
<1>8. /\ commit' \in [Server -> Nat]
      /\ sm' \in [Server -> [last: Nat, applied: [Index -> Seq(Entry)]]]
      /\ lastApply' \in [Server -> Nat]
  BY <1>1, <1>3, <1>4, SetCommitType
<1>9. used' \in [Bounded -> Nat]
  BY SpendType, BoundAssumption DEF TypeOK, Propose, Bounded
<1> QED
  BY <1>2, <1>6, <1>7, <1>8, <1>9 DEF TypeOK, meta, role, transferVars, voteMgr, indexMgr, timerMgr

LEMMA LeaderTransferType ==
    ASSUME TypeOK, NEW i \in Server, NEW j \in Server, LeaderTransfer(i, j)
    PROVE  TypeOK'
<1>1. used' \in [Bounded -> Nat]
  BY SpendType, BoundAssumption DEF TypeOK, LeaderTransfer, Bounded
<1> DEFINE m == [type |-> "TimeoutNow", src |-> i, dest |-> j, term |-> term[i]]
<1>2. m \in Message
  BY DEF TypeOK, Message, TimeoutNowMsg
<1>3. Send(m)
  BY DEF LeaderTransfer
<1> HIDE DEF m
<1>4. messages' \subseteq Message
  BY <1>2, <1>3, SendType
<1> QED
  BY <1>1, <1>4 DEF LeaderTransfer, TypeOK, meta, smVars, role, transferVars, voteMgr, indexMgr,
                    timerMgr

LEMMA RestartType ==
    ASSUME TypeOK, NEW i \in Server, Restart(i)
    PROVE  TypeOK'
<1>1. used' \in [Bounded -> Nat]
  BY SpendType, BoundAssumption DEF TypeOK, Restart, Stop, Crash, Bounded
<1>2. CASE Stop(i)
  BY <1>1, <1>2 DEF Stop, StopTimers, TypeOK, meta, smVars, role, transferVars, voteMgr, indexMgr
<1>3. CASE Crash(i)
  BY <1>1, <1>3, LoseVolatileType DEF Crash
<1>4. CASE Start(i)
  <2>1. RestoredApply(i) \in Nat /\ term[i] \in Nat
    BY DEF TypeOK, RestoredApply
  <2>2. started' \in [Server -> BOOLEAN] /\ lastApply' \in [Server -> Nat]
    BY <1>4, <2>1 DEF Start, TypeOK
  <2>3. StepDown(i, term[i])
    BY <1>4 DEF Start
  <2> QED
    BY <1>1, <1>4, <2>1, <2>2, <2>3, StepDownType
       DEF Start, TypeOK, transferVars, voteMgr, indexMgr
<1> QED
  BY <1>2, <1>3, <1>4 DEF Restart

LEMMA InitType == Init => TypeOK
<1> SUFFICES ASSUME Init
             PROVE  TypeOK
  OBVIOUS
<1>1. EmptySm \in [last: Nat, applied: [Index -> Seq(Entry)]]
  BY DEF EmptySm
<1>2. LastIndex(<<>>) + 1 = 1 /\ <<>> \in Seq(Entry)
  BY DEF LastIndex
<1> QED
  BY <1>1, <1>2 DEF Init, InitFrom, TypeOK

\* Every step keeps the types.
LEMMA NextType == TypeOK /\ [Next]_vars => TypeOK'
<1> SUFFICES ASSUME TypeOK, [Next]_vars
             PROVE  TypeOK'
  OBVIOUS
<1>1. CASE UNCHANGED vars
  BY <1>1 DEF TypeOK, vars, meta, smVars, role, transferVars, voteMgr, indexMgr, timerMgr
<1>2. ASSUME NEW i \in Server, NEW m \in messages, Receive(i, m), Deliver(m)
      PROVE  TypeOK'
  <2>1. used' \in [Bounded -> Nat]
    BY <1>2, DeliverType
  <2> QED
    BY <1>2, <2>1, OnRequestVoteType, OnRequestVoteReplyType, OnAppendEntriesType,
       OnAppendEntriesReplyType, OnTimeoutNowType DEF Receive
<1>3. ASSUME NEW i \in Server, Timer(i)
      PROVE  TypeOK'
  BY <1>3, ElectType, RequestVoteRpcType, HeartBeatType DEF Timer
<1>4. ASSUME NEW i \in Server, Client(i)
      PROVE  TypeOK'
  BY <1>4, ProposeType, LeaderTransferType DEF Client, Peers
<1>5. ASSUME NEW i \in Server, Restart(i)
      PROVE  TypeOK'
  BY <1>5, RestartType
<1> QED
  BY <1>1, <1>2, <1>3, <1>4, <1>5 DEF Next

\* Every variable keeps its type in every behaviour of the consensus core; in particular no
\* sequence of late or repeated refusals takes a next index of IndexManager to 0.
THEOREM TypeCorrect == Spec => []TypeOK
BY InitType, NextType, PTL DEF Spec

-----------------------------------------------------------------------------
(***************************************************************************)
(* Stable votes                                                            *)
(***************************************************************************)

\* StepDown, in any of its uses that overwrite no vote, keeps votes.
LEMMA StepDownToKeeps ==
    ASSUME TypeOK, NEW i \in Server, NEW t \in Nat, NEW v, NEW l, NEW h,
           StepDownTo(i, t, v, l, h), t >= term[i],
           t = term[i] /\ vote[i] # Nil => v = vote[i]
    PROVE  KeepsVotes
<1> SUFFICES ASSUME NEW k \in Server
             PROVE  /\ term'[k] >= term[k]
                    /\ term'[k] = term[k] /\ vote[k] # Nil => vote'[k] = vote[k]
  BY DEF KeepsVotes
<1>1. term[k] \in Nat /\ term[i] \in Nat
  BY DEF TypeOK
<1>2. /\ term'[k] = IF k = i THEN t ELSE term[k]
      /\ vote'[k] = IF k = i THEN v ELSE vote[k]
  BY DEF TypeOK, StepDownTo
<1> QED
  BY <1>1, <1>2

\* StepDown itself keeps votes: it clears the vote in a larger term only.
LEMMA StepDownKeeps ==
    ASSUME TypeOK, NEW i \in Server, NEW t \in Nat, StepDown(i, t), t >= term[i]
    PROVE  KeepsVotes
<1>1. t = term[i] /\ vote[i] # Nil => VoteAfterStepDown(i, t) = vote[i]
  BY DEF VoteAfterStepDown, TypeOK
<1> QED
  BY <1>1, StepDownToKeeps DEF StepDown

LEMMA SameMetaKeeps ==
    ASSUME TypeOK, UNCHANGED meta
    PROVE  KeepsVotes
BY DEF TypeOK, meta, KeepsVotes

LEMMA DoRequestVoteKeeps ==
    ASSUME TypeOK, NEW i \in Server, DoRequestVote(i)
    PROVE  KeepsVotes
<1> SUFFICES ASSUME NEW k \in Server
             PROVE  /\ term'[k] >= term[k]
                    /\ term'[k] = term[k] /\ vote[k] # Nil => vote'[k] = vote[k]
  BY DEF KeepsVotes
<1>1. term[k] \in Nat /\ term[i] \in Nat
  BY DEF TypeOK
<1>2. /\ term'[k] = IF k = i THEN term[i] + 1 ELSE term[k]
      /\ vote'[k] = IF k = i THEN i ELSE vote[k]
  BY DEF TypeOK, DoRequestVote
<1> QED
  BY <1>1, <1>2

\* What OnRequestVote decides: the outcome of the interval check, the term and the vote it
\* ends with, the reply it sends.
LEMMA OnRequestVoteEffect ==
    ASSUME TypeOK, NEW i \in Server, NEW m \in messages, OnRequestVote(i, m)
    PROVE  \E ok \in BOOLEAN, t \in Nat, v \in Server \cup {Nil} :
             /\ t >= term[i] /\ (ok => t >= m.term)
             /\ t = term[i] /\ vote[i] # Nil => v = vote[i]
             /\ messages' = messages \cup {RequestVoteReply(i, m, t, v, ok)}
             /\ \/ StepDownTo(i, t, v, LeaderAfterStepDown(i, t), HeartbeatAfterStepDown(i))
                \/ t = term[i] /\ v = vote[i] /\ UNCHANGED <<meta, role, timerMgr>>
<1>1. m \in RequestVoteMsg
  BY MessageKind DEF TypeOK, OnRequestVote
<1>2. m.term \in Nat /\ m.src \in Server /\ term[i] \in Nat
  BY <1>1 DEF RequestVoteMsg, TypeOK
<1>3. PICK ok \in IntervalOutcomes(i, m) :
         LET t == IF ok /\ m.term > term[i] THEN m.term ELSE term[i]
             gives == ok /\ GivesVote(i, m, t)
             v == IF gives /\ ~m.preVote THEN m.src ELSE VoteAfterStepDown(i, t)
         IN  /\ Send(RequestVoteReply(i, m, t, v, ok))
             /\ IF gives \/ t > term[i]
                THEN StepDownTo(i, t, v, LeaderAfterStepDown(i, t), HeartbeatAfterStepDown(i))
                ELSE UNCHANGED <<meta, role, timerMgr>>
  BY DEF OnRequestVote
<1> DEFINE t == IF ok /\ m.term > term[i] THEN m.term ELSE term[i]
           gives == ok /\ GivesVote(i, m, t)
           v == IF gives /\ ~m.preVote THEN m.src ELSE VoteAfterStepDown(i, t)
<1>4. /\ messages' = messages \cup {RequestVoteReply(i, m, t, v, ok)}
      /\ IF gives \/ t > term[i]
         THEN StepDownTo(i, t, v, LeaderAfterStepDown(i, t), HeartbeatAfterStepDown(i))
         ELSE UNCHANGED <<meta, role, timerMgr>>
  BY <1>3 DEF Send
<1>5. ok \in BOOLEAN
  BY DEF IntervalOutcomes
<1>6. t \in Nat /\ t >= term[i] /\ (ok => t >= m.term)
  BY <1>2
<1>7. v \in Server \cup {Nil}
  BY <1>2, <1>6, StepDownArgs
<1>8. t = term[i] => VoteAfterStepDown(i, t) = vote[i]
  BY <1>2 DEF VoteAfterStepDown
<1>9. gives => VoteAfterStepDown(i, t) = Nil
  BY DEF GivesVote
<1> HIDE DEF t
<1>10. t = term[i] /\ vote[i] # Nil => v = vote[i]
  BY <1>8, <1>9
<1>11. ~(gives \/ t > term[i]) => t = term[i] /\ v = vote[i]
  BY <1>2, <1>6, <1>8
<1> HIDE DEF gives, v
<1> QED
  BY <1>4, <1>5, <1>6, <1>7, <1>10, <1>11

\* Every step keeps votes.
LEMMA NextKeepsVotes == TypeOK /\ [Next]_vars => [KeepsVotes]_vars
<1> SUFFICES ASSUME TypeOK, Next
             PROVE  KeepsVotes
  OBVIOUS
<1>1. ASSUME NEW i \in Server, NEW m \in messages, OnRequestVote(i, m)
      PROVE  KeepsVotes
  <2>1. PICK ok \in BOOLEAN, t \in Nat, v \in Server \cup {Nil} :
           /\ t >= term[i] /\ (ok => t >= m.term)
           /\ t = term[i] /\ vote[i] # Nil => v = vote[i]
           /\ messages' = messages \cup {RequestVoteReply(i, m, t, v, ok)}
           /\ \/ StepDownTo(i, t, v, LeaderAfterStepDown(i, t), HeartbeatAfterStepDown(i))
              \/ t = term[i] /\ v = vote[i] /\ UNCHANGED <<meta, role, timerMgr>>
    BY <1>1, OnRequestVoteEffect
  <2> QED
    BY <2>1, StepDownToKeeps, SameMetaKeeps
<1>2. ASSUME NEW i \in Server, NEW m, m.term \in Nat, OnLargerTerm(i, m)
      PROVE  KeepsVotes
  <2>1. term[i] \in Nat
    BY DEF TypeOK
  <2> QED
    BY <1>2, <2>1, StepDownKeeps DEF OnLargerTerm
<1>3. ASSUME NEW i \in Server, NEW m \in messages, OnRequestVoteReply(i, m)
      PROVE  KeepsVotes
  <2>1. m.term \in Nat
    <3>1. m \in RequestVoteReplyMsg
      BY <1>3, MessageKind DEF TypeOK, OnRequestVoteReply
    <3> QED
      BY <3>1 DEF RequestVoteReplyMsg
  <2>2. CASE OnVoteReply(i, m)
    BY <2>2, SameMetaKeeps DEF OnVoteReply
  <2>3. CASE OnPreVoteReply(i, m)
    BY <2>3, SameMetaKeeps, DoRequestVoteKeeps DEF OnPreVoteReply
  <2>4. CASE OnLargerTerm(i, m)
    BY <1>2, <2>1, <2>4
  <2> QED
    BY <1>3, <2>2, <2>3, <2>4 DEF OnRequestVoteReply
<1>4. ASSUME NEW i \in Server, NEW m \in messages, OnAppendEntries(i, m)
      PROVE  KeepsVotes
  <2>1. m.term \in Nat /\ term[i] \in Nat
    BY <1>4, MessageKind DEF TypeOK, OnAppendEntries, AppendEntriesMsg
  <2>2. CASE RejectStale(i, m)
    BY <2>2, SameMetaKeeps DEF RejectStale
  <2>3. CASE FollowLeader(i, m)
    <3>1. m.term = term[i] => VoteAfterStepDown(i, m.term) = vote[i]
      BY <2>1 DEF VoteAfterStepDown
    <3> QED
      BY <2>1, <2>3, <3>1, StepDownToKeeps DEF FollowLeader
  <2> QED
    BY <1>4, <2>2, <2>3 DEF OnAppendEntries, RejectMismatch, Accept
<1>5. ASSUME NEW i \in Server, NEW m \in messages, OnAppendEntriesReply(i, m)
      PROVE  KeepsVotes
  <2>1. m.term \in Nat
    BY <1>5, MessageKind DEF TypeOK, OnAppendEntriesReply, AppendEntriesReplyMsg
  <2> QED
    BY <1>2, <1>5, <2>1, SameMetaKeeps
       DEF OnAppendEntriesReply, AbortNotLeader, LoseVolatile, OnAppendReplyOfTerm
<1>6. ASSUME NEW i \in Server, NEW m \in messages, OnTimeoutNow(i, m)
      PROVE  KeepsVotes
  <2>1. m.term \in Nat /\ term[i] \in Nat
    BY <1>6, MessageKind DEF TypeOK, OnTimeoutNow, TimeoutNowMsg
  <2> QED
    BY <1>6, <2>1, SameMetaKeeps, StepDownKeeps DEF OnTimeoutNow
<1>7. ASSUME NEW i \in Server, Timer(i)
      PROVE  KeepsVotes
  BY <1>7, SameMetaKeeps, DoRequestVoteKeeps
     DEF Timer, Elect, DoPreVote, RequestVoteRpc, HeartBeat
<1>8. ASSUME NEW i \in Server, Client(i)
      PROVE  KeepsVotes
  BY <1>8, SameMetaKeeps DEF Client, Propose, LeaderTransfer
<1>9. ASSUME NEW i \in Server, Restart(i)
      PROVE  KeepsVotes
  <2>1. term[i] \in Nat
    BY DEF TypeOK
  <2> QED
    BY <1>9, <2>1, SameMetaKeeps, StepDownKeeps DEF Restart, Stop, Crash, LoseVolatile, Start
<1> QED
  BY <1>1, <1>3, <1>4, <1>5, <1>6, <1>7, <1>8, <1>9 DEF Next, Receive

\* No server's term decreases and no vote changes within a term, in every behaviour: what
\* SolidData keeps is a promise that no handler, restart or crash between handlers breaks.
THEOREM VotesAreStable == Spec => VoteStable
BY TypeCorrect, NextKeepsVotes, PTL DEF Spec, VoteStable

-----------------------------------------------------------------------------
(***************************************************************************)
(* Timers follow the role                                                  *)
(***************************************************************************)

\* One server's part of TimersMatchRole
TimersOf(i) ==
    /\ requestVoteTimers[i] # {} => state[i] = Candidate
    /\ heartbeatTimers[i] = IF started[i] /\ state[i] = Leader THEN Peers(i) ELSE {}
    /\ electionTimer[i] <=> started[i] /\ state[i] # Leader

\* The timers and the role of every server but i are left alone.
OthersKeepTimers(i) ==
    \A k \in Peers(i) : /\ requestVoteTimers'[k] = requestVoteTimers[k]
                        /\ heartbeatTimers'[k] = heartbeatTimers[k]
                        /\ electionTimer'[k] = electionTimer[k]
                        /\ state'[k] = state[k]
                        /\ started'[k] = started[k]

LEMMA TimersOfOne ==
    ASSUME TimersMatchRole, NEW i \in Server, OthersKeepTimers(i), TimersOf(i)'
    PROVE  TimersMatchRole'
<1>1. ASSUME NEW k \in Server PROVE TimersOf(k)'
  <2>1. CASE k = i
    BY <2>1
  <2>2. CASE k # i
    BY <2>2 DEF TimersMatchRole, OthersKeepTimers, TimersOf, Peers
  <2> QED
    BY <2>1, <2>2
<1> QED
  BY <1>1 DEF TimersMatchRole, TimersOf

\* A running server that steps down has exactly its election timer armed.
LEMMA StepDownToTimers ==
    ASSUME TypeOK, TimersMatchRole, NEW i \in Server, NEW t, NEW v, NEW l, NEW h,
           StepDownTo(i, t, v, l, h), started' = [started EXCEPT ![i] = TRUE]
    PROVE  TimersMatchRole'
<1>1. OthersKeepTimers(i)
  BY DEF TypeOK, StepDownTo, OthersKeepTimers, Peers
<1>2. /\ requestVoteTimers'[i] = {} /\ heartbeatTimers'[i] = {} /\ electionTimer'[i] = TRUE
      /\ state'[i] = Follower /\ started'[i] = TRUE
  BY DEF TypeOK, StepDownTo
<1>3. TimersOf(i)'
  BY <1>2 DEF TimersOf, Follower, Candidate, Leader
<1> QED
  BY <1>1, <1>3, TimersOfOne

LEMMA BecomeLeaderTimers ==
    ASSUME TypeOK, TimersMatchRole, NEW i \in Server, NEW t, BecomeLeader(i, t), started[i],
           started' = started
    PROVE  TimersMatchRole'
<1>1. OthersKeepTimers(i)
  BY DEF TypeOK, BecomeLeader, OthersKeepTimers, Peers
<1>2. /\ requestVoteTimers'[i] = {} /\ heartbeatTimers'[i] = Peers(i)
      /\ electionTimer'[i] = FALSE /\ state'[i] = Leader
  BY DEF TypeOK, BecomeLeader
<1>3. TimersOf(i)'
  BY <1>2 DEF TimersOf
<1> QED
  BY <1>1, <1>3, TimersOfOne

LEMMA BecomeCandidateTimers ==
    ASSUME TypeOK, TimersMatchRole, NEW i \in Server, BecomeCandidate(i), electionTimer[i],
           started' = started
    PROVE  TimersMatchRole'
<1>1. OthersKeepTimers(i)
  BY DEF TypeOK, BecomeCandidate, OthersKeepTimers, Peers
<1>2. /\ requestVoteTimers'[i] = Peers(i) /\ heartbeatTimers'[i] = heartbeatTimers[i]
      /\ electionTimer'[i] = TRUE /\ state'[i] = Candidate
  BY DEF TypeOK, BecomeCandidate
<1>3. started[i] /\ heartbeatTimers[i] = {}
  BY DEF TimersMatchRole
<1>4. TimersOf(i)'
  BY <1>2, <1>3 DEF TimersOf, Candidate, Leader
<1> QED
  BY <1>1, <1>4, TimersOfOne

LEMMA DoRequestVoteTimers ==
    ASSUME TypeOK, TimersMatchRole, NEW i \in Server, DoRequestVote(i), electionTimer[i]
    PROVE  TimersMatchRole'
<1>1. started[i] /\ started' = started
  BY DEF TimersMatchRole, DoRequestVote
<1> QED
  BY <1>1, BecomeLeaderTimers, BecomeCandidateTimers DEF DoRequestVote

\* A server that stops or dies has no timer armed.
LEMMA StopTimersTimers ==
    ASSUME TypeOK, TimersMatchRole, NEW i \in Server, StopTimers(i),
           started' = [started EXCEPT ![i] = FALSE],
           \A k \in Peers(i) : state'[k] = state[k]
    PROVE  TimersMatchRole'
<1>1. OthersKeepTimers(i)
  BY DEF TypeOK, StopTimers, OthersKeepTimers, Peers
<1>2. /\ requestVoteTimers'[i] = {} /\ heartbeatTimers'[i] = {} /\ electionTimer'[i] = FALSE
      /\ started'[i] = FALSE
  BY DEF TypeOK, StopTimers
<1>3. TimersOf(i)'
  BY <1>2 DEF TimersOf
<1> QED
  BY <1>1, <1>3, TimersOfOne

LEMMA SameTimers ==
    ASSUME TimersMatchRole, UNCHANGED <<state, started, timerMgr>>
    PROVE  TimersMatchRole'
BY DEF TimersMatchRole, timerMgr

\* An answered vote request leaves one timer fewer.
LEMMA OneTimerFewer ==
    ASSUME TypeOK, TimersMatchRole, NEW i \in Server, NEW k,
           requestVoteTimers' = [requestVoteTimers EXCEPT ![i] = @ \ {k}],
           UNCHANGED <<state, started, electionTimer, heartbeatTimers>>
    PROVE  TimersMatchRole'
<1>1. OthersKeepTimers(i)
  BY DEF TypeOK, OthersKeepTimers, Peers
<1>2. requestVoteTimers'[i] = requestVoteTimers[i] \ {k}
  BY DEF TypeOK
<1>3. TimersOf(i)'
  BY <1>2 DEF TimersOf, TimersMatchRole
<1> QED
  BY <1>1, <1>3, TimersOfOne

\* Every step keeps the timers in line with the role.
LEMMA NextTimers == TypeOK /\ TimersMatchRole /\ [Next]_vars => TimersMatchRole'
<1> SUFFICES ASSUME TypeOK, TimersMatchRole, [Next]_vars
             PROVE  TimersMatchRole'
  OBVIOUS
<1>0. CASE UNCHANGED vars
  BY <1>0, SameTimers DEF vars, role
<1> USE DEF role
<1>a. ASSUME NEW i \in Server, started[i]
      PROVE  [started EXCEPT ![i] = TRUE] = started
  BY <1>a DEF TypeOK
<1>1. ASSUME NEW i \in Server, NEW m \in messages, OnRequestVote(i, m)
      PROVE  TimersMatchRole'
  <2>1. PICK ok \in BOOLEAN, t \in Nat, v \in Server \cup {Nil} :
           /\ t >= term[i] /\ (ok => t >= m.term)
           /\ t = term[i] /\ vote[i] # Nil => v = vote[i]
           /\ messages' = messages \cup {RequestVoteReply(i, m, t, v, ok)}
           /\ \/ StepDownTo(i, t, v, LeaderAfterStepDown(i, t), HeartbeatAfterStepDown(i))
              \/ t = term[i] /\ v = vote[i] /\ UNCHANGED <<meta, role, timerMgr>>
    BY <1>1, OnRequestVoteEffect
  <2>2. started[i] /\ started' = started
    BY <1>1 DEF OnRequestVote
  <2> QED
    BY <1>a, <2>1, <2>2, StepDownToTimers, SameTimers
<1>2. ASSUME NEW i \in Server, NEW m, started[i], OnLargerTerm(i, m)
      PROVE  TimersMatchRole'
  BY <1>2, <1>a, StepDownToTimers DEF OnLargerTerm, StepDown
<1>3. ASSUME NEW i \in Server, NEW m \in messages, OnRequestVoteReply(i, m)
      PROVE  TimersMatchRole'
  <2>1. started[i]
    BY <1>3 DEF OnRequestVoteReply
  <2>2. CASE OnVoteReply(i, m)
    BY <2>1, <2>2, BecomeLeaderTimers, OneTimerFewer DEF OnVoteReply
  <2>3. CASE OnPreVoteReply(i, m)
    <3>1. state[i] = Candidate => electionTimer[i]
      BY <2>1 DEF TimersMatchRole, Candidate, Leader
    <3> QED
      BY <2>3, <3>1, DoRequestVoteTimers, OneTimerFewer DEF OnPreVoteReply
  <2>4. CASE OnLargerTerm(i, m)
    BY <1>2, <2>1, <2>4
  <2> QED
    BY <1>3, <2>2, <2>3, <2>4 DEF OnRequestVoteReply
<1>4. ASSUME NEW i \in Server, NEW m \in messages, OnAppendEntries(i, m)
      PROVE  TimersMatchRole'
  <2>1. started[i] /\ started' = started
    BY <1>4 DEF OnAppendEntries
  <2>2. CASE RejectStale(i, m)
    BY <2>1, <2>2, SameTimers DEF RejectStale
  <2>3. CASE FollowLeader(i, m)
    BY <1>a, <2>1, <2>3, StepDownToTimers DEF FollowLeader
  <2> QED
    BY <1>4, <2>2, <2>3 DEF OnAppendEntries, RejectMismatch, Accept
<1>5. ASSUME NEW i \in Server, LoseVolatile(i)
      PROVE  TimersMatchRole'
  <2>1. \A k \in Peers(i) : state'[k] = state[k]
    BY <1>5 DEF LoseVolatile, Peers, TypeOK
  <2> QED
    BY <1>5, <2>1, StopTimersTimers DEF LoseVolatile
<1>6. ASSUME NEW i \in Server, NEW m \in messages, OnAppendEntriesReply(i, m)
      PROVE  TimersMatchRole'
  <2>1. CASE AbortNotLeader(i, m)
    BY <1>5, <2>1 DEF AbortNotLeader
  <2>2. CASE OnLargerTerm(i, m)
    BY <1>2, <1>6, <2>2 DEF OnAppendEntriesReply
  <2>3. CASE OnAppendReplyOfTerm(i, m)
    BY <2>3, SameTimers DEF OnAppendReplyOfTerm
  <2> QED
    BY <1>6, <2>1, <2>2, <2>3 DEF OnAppendEntriesReply
<1>7. ASSUME NEW i \in Server, NEW m \in messages, OnTimeoutNow(i, m)
      PROVE  TimersMatchRole'
  <2>1. started[i] /\ started' = started
    BY <1>7 DEF OnTimeoutNow
  <2> QED
    BY <1>7, <1>a, <2>1, StepDownToTimers, SameTimers DEF OnTimeoutNow, StepDown
<1>8. ASSUME NEW i \in Server, Elect(i)
      PROVE  TimersMatchRole'
  BY <1>8, DoRequestVoteTimers, BecomeCandidateTimers DEF Elect, DoPreVote
<1>9. ASSUME NEW i \in Server, NEW j \in Server, RequestVoteRpc(i, j) \/ HeartBeat(i, j)
      PROVE  TimersMatchRole'
  BY <1>9, SameTimers DEF RequestVoteRpc, HeartBeat
<1>10. ASSUME NEW i \in Server, Client(i)
       PROVE  TimersMatchRole'
  BY <1>10, SameTimers DEF Client, Propose, LeaderTransfer
<1>11. ASSUME NEW i \in Server, Restart(i)
       PROVE  TimersMatchRole'
  <2>1. CASE Stop(i)
    BY <2>1, StopTimersTimers DEF Stop
  <2>2. CASE Crash(i)
    BY <1>5, <2>2 DEF Crash
  <2>3. CASE Start(i)
    BY <2>3, StepDownToTimers DEF Start, StepDown
  <2> QED
    BY <1>11, <2>1, <2>2, <2>3 DEF Restart
<1> QED
  BY <1>0, <1>1, <1>3, <1>4, <1>6, <1>7, <1>8, <1>9, <1>10, <1>11 DEF Next, Receive, Timer

\* In every behaviour the timers armed are those of the server's role: the assertions at the
\* head of Elect, RequestVoteRpc and HeartBeat never fail, and no running server that is not
\* leader is ever left without an election timer.
THEOREM TimersFollowRole == Spec => []TimersMatchRole
<1>1. Init => TimersMatchRole
  BY DEF Init, InitFrom, TimersMatchRole, Follower, Candidate, Leader
<1> QED
  BY <1>1, TypeCorrect, NextTimers, PTL DEF Spec

-----------------------------------------------------------------------------
(***************************************************************************)
(* One leader per term.  A step is described by what it may do to votes,   *)
(* ballots, vote counts and leaders; every action takes such a step, and   *)
(* such a step keeps ElectionInv.                                          *)
(***************************************************************************)

\* Messages stay; new vote requests and ballots go to peers, and a new ballot names the
\* term and the vote its sender has after the step.
NetStep ==
    /\ messages \subseteq messages'
    /\ \A m \in messages' \ messages :
          /\ m.type = "RequestVote" \/ Ballot(m) => m.src # m.dest
          /\ Ballot(m) => m.term = term'[m.src] /\ vote'[m.src] = m.dest

\* Vote requests go to peers, and a candidate counts ballots of its term only.
CountStep ==
    \A i \in Server :
        /\ requestVoteTimers'[i] \subseteq Peers(i)
        /\ state'[i] = Candidate =>
             \A k \in grant'[i] : k # i /\ HasBallot(k, i, term'[i])

\* A new leader has enough ballots, its own vote included if it gave it to itself.
LeaderStep ==
    \A e \in elected' \ elected :
        /\ e[2] \in Server /\ term'[e[2]] = e[1]
        /\ \E G \in SUBSET Peers(e[2]) :
             /\ \A k \in G : HasBallot(k, e[2], e[1])
             /\ Cardinality(G) + (IF vote'[e[2]] = e[2] THEN 1 ELSE 0) >= VoteThreshold

ElectionStep == KeepsVotes /\ NetStep /\ CountStep /\ LeaderStep

\* A ballot stays a ballot.
LEMMA BallotsStay ==
    ASSUME NetStep, NEW k, NEW i, NEW t, HasBallot(k, i, t)
    PROVE  HasBallot(k, i, t)'
BY DEF NetStep, HasBallot

\* Backing is for ever.
LEMMA BackingStays ==
    ASSUME TypeOK, TypeOK', KeepsVotes, NetStep,
           NEW i \in Server, NEW k \in Server, NEW t \in Nat, Backs(k, i, t)
    PROVE  Backs(k, i, t)'
<1>1. CASE k # i
  BY <1>1, BallotsStay DEF Backs
<1>2. CASE k = i
  <2>1. /\ term[i] >= t
        /\ term[i] = t => vote[i] = i
        /\ \A j \in Server : HasBallot(i, j, t) => j = i
    BY <1>2 DEF Backs
  <2>2. /\ term'[i] >= term[i]
        /\ term'[i] = term[i] /\ vote[i] # Nil => vote'[i] = vote[i]
        /\ term[i] \in Nat /\ term'[i] \in Nat
    BY DEF KeepsVotes, TypeOK
  <2>3. term'[i] >= t
    BY <2>1, <2>2
  <2>4. term'[i] = t => vote'[i] = i
    <3> SUFFICES ASSUME term'[i] = t
                 PROVE  vote'[i] = i
      OBVIOUS
    <3>1. term[i] = t
      BY <2>1, <2>2
    <3> QED
      BY <2>1, <2>2, <3>1, ServerAssumption
  <2>5. ASSUME NEW j \in Server, HasBallot(i, j, t)'
        PROVE  j = i
    <3>1. PICK m \in messages' : Ballot(m) /\ m.src = i /\ m.dest = j /\ m.term = t
      BY <2>5 DEF HasBallot, Ballot
    <3>2. CASE m \in messages
      BY <2>1, <3>1, <3>2 DEF HasBallot
    <3>3. CASE m \notin messages
      BY <2>4, <3>1, <3>3 DEF NetStep
    <3> QED
      BY <3>2, <3>3
  <2> QED
    BY <1>2, <2>3, <2>4, <2>5 DEF Backs
<1> QED
  BY <1>1, <1>2

\* The message of a ballot is typed.
LEMMA BallotType ==
    ASSUME TypeOK, NEW m \in messages, Ballot(m)
    PROVE  m.src \in Server /\ m.dest \in Server /\ m.term \in Nat
<1>1. m \in RequestVoteReplyMsg
  BY MessageKind DEF TypeOK, Ballot
<1> QED
  BY <1>1 DEF RequestVoteReplyMsg

\* A step of this kind keeps ElectionInv.
LEMMA ElectionStepInv ==
    ASSUME TypeOK, TypeOK', ElectionInv, ElectionStep
    PROVE  ElectionInv'
<1> USE DEF ElectionStep
<1>1. \A i \in Server : requestVoteTimers'[i] \subseteq Peers(i)
  BY DEF CountStep
<1>2. \A m \in messages' : m.type = "RequestVote" \/ Ballot(m) => m.src # m.dest
  BY DEF NetStep, ElectionInv
<1>3. \A m \in messages' : Ballot(m) => /\ m.term <= term'[m.src]
                                        /\ m.term = term'[m.src] => vote'[m.src] = m.dest
  <2> SUFFICES ASSUME NEW m \in messages', Ballot(m)
               PROVE  m.term <= term'[m.src] /\ (m.term = term'[m.src] => vote'[m.src] = m.dest)
    OBVIOUS
  <2>1. CASE m \in messages
    <3>1. m.src \in Server /\ m.dest \in Server /\ m.term \in Nat
      BY <2>1, BallotType
    <3>2. term[m.src] \in Nat /\ term'[m.src] \in Nat
      BY <3>1 DEF TypeOK
    <3>3. m.term <= term[m.src] /\ (m.term = term[m.src] => vote[m.src] = m.dest)
      BY <2>1 DEF ElectionInv
    <3>4. /\ term'[m.src] >= term[m.src]
          /\ term'[m.src] = term[m.src] /\ vote[m.src] # Nil => vote'[m.src] = vote[m.src]
      BY <3>1 DEF KeepsVotes
    <3>5. m.term <= term'[m.src]
      BY <3>1, <3>2, <3>3, <3>4
    <3>6. m.term = term'[m.src] => term[m.src] = m.term
      BY <3>1, <3>2, <3>3, <3>4
    <3> QED
      BY <3>1, <3>3, <3>4, <3>5, <3>6, ServerAssumption
  <2>2. CASE m \notin messages
    <3>1. m.term = term'[m.src] /\ vote'[m.src] = m.dest
      BY <2>2 DEF NetStep
    <3>2. m.src \in Server /\ m.term \in Nat
      <4>1. m \in RequestVoteReplyMsg
        BY MessageKind DEF TypeOK, Ballot
      <4> QED
        BY <4>1 DEF RequestVoteReplyMsg
    <3> QED
      BY <3>1, <3>2
  <2> QED
    BY <2>1, <2>2
<1>4. \A i, j, k \in Server : \A m \in messages' :
        Ballot(m) /\ m.src = k /\ m.dest = i /\ HasBallot(k, j, m.term)' => i = j
  <2> SUFFICES ASSUME NEW i \in Server, NEW j \in Server, NEW k \in Server, NEW m \in messages',
                      NEW n \in messages', Ballot(m), Ballot(n), m.src = k, m.dest = i,
                      n.src = k, n.dest = j, n.term = m.term
               PROVE  i = j
    BY DEF HasBallot, Ballot
  <2>1. CASE m \in messages /\ n \in messages
    BY <2>1 DEF ElectionInv, HasBallot
  <2>2. CASE m \notin messages
    <3>1. m.term = term'[k] /\ vote'[k] = i
      BY <2>2 DEF NetStep
    <3> QED
      BY <1>3, <3>1
  <2>3. CASE n \notin messages
    <3>1. n.term = term'[k] /\ vote'[k] = j
      BY <2>3 DEF NetStep
    <3> QED
      BY <1>3, <3>1
  <2> QED
    BY <2>1, <2>2, <2>3
<1>5. \A i \in Server : \A k \in grant'[i] :
        state'[i] = Candidate => k # i /\ HasBallot(k, i, term[i])'
  BY DEF CountStep, NetStep, HasBallot, Ballot
<1>6. ASSUME NEW e \in elected'
      PROVE  \E Q \in SUBSET Server :
               Cardinality(Q) >= VoteThreshold /\ BackedBy(Q, e[2], e[1])'
  <2>0. e[1] \in Nat /\ e[2] \in Server
    BY DEF TypeOK
  <2>1. CASE e \in elected
    <3>1. PICK Q \in SUBSET Server : Cardinality(Q) >= VoteThreshold /\ BackedBy(Q, e[2], e[1])
      BY <2>1 DEF ElectionInv
    <3>2. \A k \in Q : Backs(k, e[2], e[1])'
      BY <2>0, <3>1, BackingStays DEF BackedBy
    <3> QED
      BY <3>1, <3>2 DEF BackedBy
  <2>2. CASE e \notin elected
    <3> DEFINE i == e[2]
               own == IF vote'[i] = i THEN 1 ELSE 0
    <3>1. PICK G \in SUBSET Peers(i) : /\ \A k \in G : HasBallot(k, i, e[1])
                                       /\ Cardinality(G) + own >= VoteThreshold
      BY <2>2 DEF LeaderStep
    <3>2. \A k \in G : Backs(k, i, e[1])'
      BY <3>1, BallotsStay DEF Backs, Peers
    <3>3. G \subseteq Server /\ i \notin G /\ IsFiniteSet(G) /\ Cardinality(G) \in Nat
      BY ServerFacts DEF Peers
    <3>4. CASE vote'[i] = i
      <4>1. Cardinality(G \cup {i}) = Cardinality(G) + 1
        BY <3>3, FS_AddElement
      <4>2. term'[i] = e[1]
        BY <2>2 DEF LeaderStep
      <4>3. ASSUME NEW j \in Server, HasBallot(i, j, e[1])'
            PROVE  j = i
        BY <1>3, <3>4, <4>2, <4>3 DEF HasBallot, Ballot
      <4>4. Backs(i, i, e[1])'
        BY <2>0, <3>4, <4>2, <4>3 DEF Backs
      <4>5. BackedBy(G \cup {i}, i, e[1])'
        BY <2>0, <3>2, <3>3, <4>4 DEF BackedBy
      <4> QED
        BY <2>0, <3>1, <3>3, <3>4, <4>1, <4>5
    <3>5. CASE vote'[i] # i
      BY <3>1, <3>2, <3>3, <3>5 DEF BackedBy
    <3> QED
      BY <3>4, <3>5
  <2> QED
    BY <2>1, <2>2
<1>7. \A e \in elected' : \E Q \in SUBSET Server :
        Cardinality(Q) >= VoteThreshold /\ BackedBy(Q, e[2], e[1])'
  BY <1>6
<1> QED
  BY <1>1, <1>2, <1>3, <1>4, <1>5, <1>7 DEF ElectionInv, Ballot

\* A step that changes no vote, role, count or leader, and sends neither a vote request nor
\* a ballot.
LEMMA QuietStep ==
    ASSUME TypeOK, ElectionInv, UNCHANGED <<meta, state, grant, elected>>,
           \A i \in Server : requestVoteTimers'[i] \subseteq requestVoteTimers[i],
           messages \subseteq messages',
           \A m \in messages' \ messages : m.type \notin {"RequestVote", "RequestVoteReply"}
    PROVE  ElectionStep
<1>1. KeepsVotes
  BY SameMetaKeeps
<1>2. NetStep
  BY DEF NetStep, Ballot
<1>3. CountStep
  BY DEF CountStep, ElectionInv, meta
<1>4. LeaderStep
  BY DEF LeaderStep
<1> QED
  BY <1>1, <1>2, <1>3, <1>4 DEF ElectionStep

\* A step that makes one server a follower and no server a leader.
LEMMA DemotedStep ==
    ASSUME TypeOK, ElectionInv, KeepsVotes, NetStep, NEW i \in Server, elected' = elected,
           state' = [state EXCEPT ![i] = Follower],
           requestVoteTimers' = [requestVoteTimers EXCEPT ![i] = {}],
           \A k \in Peers(i) : grant'[k] = grant[k] /\ term'[k] = term[k]
    PROVE  ElectionStep
<1>1. CountStep
  <2> SUFFICES ASSUME NEW k \in Server
               PROVE  /\ requestVoteTimers'[k] \subseteq Peers(k)
                      /\ state'[k] = Candidate =>
                           \A n \in grant'[k] : n # k /\ HasBallot(n, k, term'[k])
    BY DEF CountStep
  <2>1. CASE k = i
    BY <2>1 DEF TypeOK, Follower, Candidate
  <2>2. CASE k # i
    <3>1. /\ requestVoteTimers'[k] = requestVoteTimers[k] /\ state'[k] = state[k]
          /\ grant'[k] = grant[k] /\ term'[k] = term[k]
      BY <2>2 DEF TypeOK, Peers
    <3> QED
      BY <3>1 DEF ElectionInv
  <2> QED
    BY <2>1, <2>2
<1>2. LeaderStep
  BY DEF LeaderStep
<1> QED
  BY <1>1, <1>2 DEF ElectionStep

\* StepDown, in any of its uses, when no count and no leader changes.
LEMMA StepDownToElection ==
    ASSUME TypeOK, ElectionInv, KeepsVotes, NetStep, NEW i \in Server, NEW t, NEW v, NEW l, NEW h,
           StepDownTo(i, t, v, l, h), UNCHANGED <<grant, elected>>
    PROVE  ElectionStep
<1>1. \A k \in Peers(i) : grant'[k] = grant[k] /\ term'[k] = term[k]
  BY DEF StepDownTo, TypeOK, Peers
<1> QED
  BY <1>1, DemotedStep DEF StepDownTo

LEMMA LoseVolatileElection ==
    ASSUME TypeOK, ElectionInv, NEW i \in Server, LoseVolatile(i), elected' = elected
    PROVE  ElectionStep
<1>1. KeepsVotes
  BY SameMetaKeeps DEF LoseVolatile
<1>2. NetStep
  BY DEF NetStep, LoseVolatile
<1>3. \A k \in Peers(i) : grant'[k] = grant[k] /\ term'[k] = term[k]
  BY DEF LoseVolatile, ClearVotes, TypeOK, Peers, meta
<1> QED
  BY <1>1, <1>2, <1>3, DemotedStep DEF LoseVolatile, StopTimers

\* A new candidate starts with an empty count.
LEMMA CandidateStep ==
    ASSUME TypeOK, ElectionInv, NEW i \in Server, BecomeCandidate(i), ClearVotes(i),
           KeepsVotes, messages' = messages, \A k \in Peers(i) : term'[k] = term[k]
    PROVE  ElectionStep
<1>1. NetStep
  BY DEF NetStep
<1>2. CountStep
  <2> SUFFICES ASSUME NEW k \in Server
               PROVE  /\ requestVoteTimers'[k] \subseteq Peers(k)
                      /\ state'[k] = Candidate =>
                           \A n \in grant'[k] : n # k /\ HasBallot(n, k, term'[k])
    BY DEF CountStep
  <2>1. CASE k = i
    BY <2>1 DEF TypeOK, BecomeCandidate, ClearVotes
  <2>2. CASE k # i
    <3>1. /\ requestVoteTimers'[k] = requestVoteTimers[k] /\ state'[k] = state[k]
          /\ grant'[k] = grant[k] /\ term'[k] = term[k]
      BY <2>2 DEF TypeOK, Peers, BecomeCandidate, ClearVotes
    <3> QED
      BY <3>1 DEF ElectionInv
  <2> QED
    BY <2>1, <2>2
<1>3. LeaderStep
  BY DEF LeaderStep, BecomeCandidate
<1> QED
  BY <1>1, <1>2, <1>3 DEF ElectionStep

\* A new leader with enough ballots of its term.
LEMMA NewLeaderStep ==
    ASSUME TypeOK, ElectionInv, NEW i \in Server, BecomeLeader(i, term'[i]), KeepsVotes,
           messages' = messages, NEW G \in SUBSET Peers(i),
           \A k \in G : HasBallot(k, i, term'[i]),
           Cardinality(G) + (IF vote'[i] = i THEN 1 ELSE 0) >= VoteThreshold,
           \A k \in Peers(i) : term'[k] = term[k] /\ grant'[k] = grant[k]
    PROVE  ElectionStep
<1>1. NetStep
  BY DEF NetStep
<1>2. CountStep
  <2> SUFFICES ASSUME NEW k \in Server
               PROVE  /\ requestVoteTimers'[k] \subseteq Peers(k)
                      /\ state'[k] = Candidate =>
                           \A n \in grant'[k] : n # k /\ HasBallot(n, k, term'[k])
    BY DEF CountStep
  <2>1. CASE k = i
    BY <2>1 DEF TypeOK, BecomeLeader, Candidate, Leader
  <2>2. CASE k # i
    <3>1. /\ requestVoteTimers'[k] = requestVoteTimers[k] /\ state'[k] = state[k]
          /\ grant'[k] = grant[k] /\ term'[k] = term[k]
      BY <2>2 DEF TypeOK, Peers, BecomeLeader
    <3> QED
      BY <3>1 DEF ElectionInv
  <2> QED
    BY <2>1, <2>2
<1>3. LeaderStep
  <2>1. elected' \ elected \subseteq {<<term'[i], i>>}
    BY DEF BecomeLeader
  <2> QED
    BY <2>1 DEF LeaderStep
<1> QED
  BY <1>1, <1>2, <1>3 DEF ElectionStep

LEMMA DoRequestVoteElection ==
    ASSUME TypeOK, ElectionInv, NEW i \in Server, DoRequestVote(i)
    PROVE  ElectionStep
<1>1. KeepsVotes
  BY DoRequestVoteKeeps
<1>2. /\ ClearVotes(i) /\ messages' = messages
      /\ \A k \in Peers(i) : term'[k] = term[k] /\ grant'[k] = grant[k]
      /\ term'[i] = term[i] + 1 /\ vote'[i] = i
  BY DEF DoRequestVote, ClearVotes, TypeOK, Peers
<1>3. CASE Peers(i) # {}
  BY <1>1, <1>2, <1>3, CandidateStep DEF DoRequestVote
<1>4. CASE Peers(i) = {}
  <2>1. Cardinality({}) = 0 /\ {} \in SUBSET Peers(i)
    BY FS_EmptySet
  <2>2. Cardinality(Server) = 1
    <3>1. Server = {i}
      BY <1>4 DEF Peers
    <3> QED
      BY <3>1, FS_Singleton
  <2>3. Cardinality({}) + (IF vote'[i] = i THEN 1 ELSE 0) >= VoteThreshold
    BY <1>2, <2>1, <2>2 DEF VoteThreshold
  <2>4. BecomeLeader(i, term'[i])
    BY <1>2, <1>4 DEF DoRequestVote
  <2> QED
    BY <1>1, <1>2, <2>1, <2>3, <2>4, NewLeaderStep
<1> QED
  BY <1>3, <1>4

LEMMA ElectElection ==
    ASSUME TypeOK, ElectionInv, NEW i \in Server, Elect(i)
    PROVE  ElectionStep
<1>1. CASE DoRequestVote(i)
  BY <1>1, DoRequestVoteElection
<1>2. CASE DoPreVote(i)
  <2>1. KeepsVotes
    BY <1>2, SameMetaKeeps DEF DoPreVote
  <2> QED
    BY <1>2, <2>1, CandidateStep DEF DoPreVote, meta
<1> QED
  BY <1>1, <1>2 DEF Elect

LEMMA RequestVoteRpcElection ==
    ASSUME TypeOK, ElectionInv, NEW i \in Server, NEW j \in Server, RequestVoteRpc(i, j)
    PROVE  ElectionStep
<1>1. KeepsVotes
  BY SameMetaKeeps DEF RequestVoteRpc
<1>2. i # j
  BY DEF RequestVoteRpc, ElectionInv, Peers
<1>3. NetStep
  BY <1>2 DEF RequestVoteRpc, SendRequestVote, SendRpc, Send, NetStep, Ballot
<1>4. CountStep
  BY DEF CountStep, ElectionInv, RequestVoteRpc, meta, role, voteMgr, timerMgr
<1>5. LeaderStep
  BY DEF LeaderStep, RequestVoteRpc
<1> QED
  BY <1>1, <1>3, <1>4, <1>5 DEF ElectionStep

LEMMA OnRequestVoteElection ==
    ASSUME TypeOK, ElectionInv, NEW i \in Server, NEW m \in messages, OnRequestVote(i, m)
    PROVE  ElectionStep
<1>1. PICK ok \in BOOLEAN, t \in Nat, v \in Server \cup {Nil} :
         /\ t >= term[i] /\ (ok => t >= m.term)
         /\ t = term[i] /\ vote[i] # Nil => v = vote[i]
         /\ messages' = messages \cup {RequestVoteReply(i, m, t, v, ok)}
         /\ \/ StepDownTo(i, t, v, LeaderAfterStepDown(i, t), HeartbeatAfterStepDown(i))
            \/ t = term[i] /\ v = vote[i] /\ UNCHANGED <<meta, role, timerMgr>>
  BY OnRequestVoteEffect
<1>2. KeepsVotes
  BY <1>1, StepDownToKeeps, SameMetaKeeps
<1>3. term'[i] = t /\ vote'[i] = v
  BY <1>1 DEF StepDownTo, meta, TypeOK
<1>4. m.src # i
  BY DEF ElectionInv, OnRequestVote
<1>5. NetStep
  <2> DEFINE r == RequestVoteReply(i, m, t, v, ok)
  <2>1. r.src = i /\ r.dest = m.src /\ r.term = t /\ r.type = "RequestVoteReply"
        /\ (r.granted => v = m.src)
    BY DEF RequestVoteReply
  <2>2. messages' = messages \cup {r}
    BY <1>1
  <2> HIDE DEF r
  <2>3. Ballot(r) => v = m.src
    BY <2>1 DEF Ballot
  <2> QED
    BY <1>3, <1>4, <2>1, <2>2, <2>3 DEF NetStep
<1>6. UNCHANGED <<grant, elected>>
  BY DEF OnRequestVote, voteMgr
<1>7. CASE StepDownTo(i, t, v, LeaderAfterStepDown(i, t), HeartbeatAfterStepDown(i))
  BY <1>2, <1>5, <1>6, <1>7, StepDownToElection
<1>8. CASE UNCHANGED <<meta, role, timerMgr>>
  <2>1. CountStep
    BY <1>6, <1>8 DEF CountStep, ElectionInv, meta, role, timerMgr
  <2>2. LeaderStep
    BY <1>6 DEF LeaderStep
  <2> QED
    BY <1>2, <1>5, <2>1, <2>2 DEF ElectionStep
<1> QED
  BY <1>1, <1>7, <1>8

LEMMA OnLargerTermElection ==
    ASSUME TypeOK, ElectionInv, NEW i \in Server, NEW m, m.term \in Nat, OnLargerTerm(i, m)
    PROVE  ElectionStep
<1>1. KeepsVotes
  <2>1. term[i] \in Nat /\ m.term > term[i] /\ StepDown(i, m.term)
    BY DEF OnLargerTerm, TypeOK
  <2>2. m.term >= term[i]
    BY <2>1
  <2> QED
    BY <2>1, <2>2, StepDownKeeps
<1>2. NetStep
  BY DEF NetStep, OnLargerTerm
<1> QED
  BY <1>1, <1>2, StepDownToElection DEF OnLargerTerm, StepDown, voteMgr

\* A ballot of the candidate's term is counted, and may be the one that elects it.
LEMMA OnVoteReplyElection ==
    ASSUME TypeOK, ElectionInv, NEW i \in Server, NEW m \in messages, m.src \in Server,
           m.type = "RequestVoteReply", m.dest = i, OnVoteReply(i, m)
    PROVE  ElectionStep
<1> DEFINE granted == IF m.granted THEN grant[i] \cup {m.src} ELSE grant[i]
<1>1. KeepsVotes /\ messages' = messages /\ UNCHANGED meta
  BY SameMetaKeeps DEF OnVoteReply
<1>2. grant' = [grant EXCEPT ![i] = granted]
  BY DEF OnVoteReply
<1>3. state[i] = Candidate => \A k \in granted : k # i /\ HasBallot(k, i, term[i])
  <2>1. m.granted => m.src # i /\ HasBallot(m.src, i, term[i])
    BY DEF OnVoteReply, ElectionInv, HasBallot, Ballot
  <2> QED
    BY <2>1 DEF ElectionInv
<1>4. granted \subseteq Server
  BY DEF TypeOK
<1> HIDE DEF granted
<1>5. \A k \in Peers(i) : term'[k] = term[k] /\ grant'[k] = grant[k]
  BY <1>1, <1>2 DEF TypeOK, Peers, meta
<1>6. CASE state[i] = Candidate /\ Majority(i, granted) /\ BecomeLeader(i, term[i])
  <2>1. granted \in SUBSET Peers(i)
    BY <1>3, <1>4, <1>6 DEF Peers
  <2>2. Cardinality(granted) + (IF vote'[i] = i THEN 1 ELSE 0) >= VoteThreshold
    BY <1>1, <1>6 DEF Majority, SelfVote, meta
  <2>3. BecomeLeader(i, term'[i]) /\ \A k \in granted : HasBallot(k, i, term'[i])
    BY <1>1, <1>3, <1>6 DEF meta
  <2> QED
    BY <1>1, <1>5, <2>1, <2>2, <2>3, NewLeaderStep
<1>7. CASE /\ requestVoteTimers' = [requestVoteTimers EXCEPT ![i] = @ \ {m.src}]
           /\ UNCHANGED <<role, elected>>
  <2>1. NetStep
    BY <1>1 DEF NetStep
  <2>2. CountStep
    <3> SUFFICES ASSUME NEW k \in Server
                 PROVE  /\ requestVoteTimers'[k] \subseteq Peers(k)
                        /\ state'[k] = Candidate =>
                             \A n \in grant'[k] : n # k /\ HasBallot(n, k, term'[k])
      BY DEF CountStep
    <3>1. requestVoteTimers'[k] \subseteq requestVoteTimers[k] /\ state'[k] = state[k]
      BY <1>7 DEF TypeOK, role
    <3>2. requestVoteTimers'[k] \subseteq Peers(k)
      BY <3>1 DEF ElectionInv
    <3>3. CASE k = i
      <4>1. grant'[i] = granted /\ term'[i] = term[i]
        BY <1>1, <1>2 DEF TypeOK, meta
      <4> QED
        BY <1>3, <3>1, <3>2, <3>3, <4>1
    <3>4. CASE k # i
      <4>1. grant'[k] = grant[k] /\ term'[k] = term[k]
        BY <1>5, <3>4 DEF Peers
      <4> QED
        BY <3>1, <3>2, <4>1 DEF ElectionInv
    <3> QED
      BY <3>3, <3>4
  <2>3. LeaderStep
    BY <1>7 DEF LeaderStep
  <2> QED
    BY <1>1, <2>1, <2>2, <2>3 DEF ElectionStep
<1> QED
  BY <1>6, <1>7 DEF OnVoteReply, granted

LEMMA OnPreVoteReplyElection ==
    ASSUME TypeOK, ElectionInv, NEW i \in Server, NEW m, OnPreVoteReply(i, m)
    PROVE  ElectionStep
<1>1. CASE DoRequestVote(i)
  BY <1>1, DoRequestVoteElection
<1>2. CASE /\ requestVoteTimers' = [requestVoteTimers EXCEPT ![i] = @ \ {m.src}]
           /\ UNCHANGED <<meta, role, grant, messages, elected>>
  <2>1. \A k \in Server : requestVoteTimers'[k] \subseteq requestVoteTimers[k]
    BY <1>2 DEF TypeOK
  <2> QED
    BY <1>2, <2>1, QuietStep DEF role
<1> QED
  BY <1>1, <1>2 DEF OnPreVoteReply

LEMMA OnAppendEntriesElection ==
    ASSUME TypeOK, ElectionInv, NEW i \in Server, NEW m \in messages, OnAppendEntries(i, m)
    PROVE  ElectionStep
<1>1. UNCHANGED <<grant, elected>>
  BY DEF OnAppendEntries, voteMgr
<1>2. messages \subseteq messages'
  BY DEF OnAppendEntries, RejectStale, RejectMismatch, Accept, Send
<1>3. \A n \in messages' \ messages : n.type = "AppendEntriesReply"
  <2>1. \A t, ok, last : AppendEntriesReply(i, m, t, ok, last).type = "AppendEntriesReply"
    BY DEF AppendEntriesReply
  <2>2. CASE RejectStale(i, m)
    BY <2>1, <2>2 DEF RejectStale, Send
  <2>3. CASE RejectMismatch(i, m)
    BY <2>1, <2>3 DEF RejectMismatch, Send
  <2>4. CASE Accept(i, m)
    BY <2>1, <2>4 DEF Accept, Send
  <2> QED
    BY <2>2, <2>3, <2>4 DEF OnAppendEntries
<1>4. NetStep
  BY <1>2, <1>3 DEF NetStep, Ballot
<1>5. CASE RejectStale(i, m)
  BY <1>1, <1>2, <1>3, <1>5, QuietStep DEF RejectStale, role, timerMgr
<1>6. CASE FollowLeader(i, m)
  <2>1. m \in AppendEntriesMsg
    BY MessageKind DEF TypeOK, OnAppendEntries
  <2>2. m.term \in Nat /\ term[i] \in Nat
    BY <2>1 DEF TypeOK, AppendEntriesMsg
  <2>3. m.term = term[i] => VoteAfterStepDown(i, m.term) = vote[i]
    BY <2>2 DEF VoteAfterStepDown
  <2>4. KeepsVotes
    BY <1>6, <2>2, <2>3, StepDownToKeeps DEF FollowLeader
  <2> QED
    BY <1>1, <1>4, <1>6, <2>4, StepDownToElection DEF FollowLeader
<1> QED
  BY <1>5, <1>6 DEF OnAppendEntries, RejectMismatch, Accept

LEMMA OnAppendEntriesReplyElection ==
    ASSUME TypeOK, ElectionInv, NEW i \in Server, NEW m \in messages, OnAppendEntriesReply(i, m)
    PROVE  ElectionStep
<1>1. m \in AppendEntriesReplyMsg
  BY MessageKind DEF TypeOK, OnAppendEntriesReply
<1>2. m.term \in Nat
  BY <1>1 DEF AppendEntriesReplyMsg
<1>3. CASE AbortNotLeader(i, m)
  BY <1>3, LoseVolatileElection DEF AbortNotLeader
<1>4. CASE OnLargerTerm(i, m)
  BY <1>2, <1>4, OnLargerTermElection
<1>5. CASE OnAppendReplyOfTerm(i, m)
  <2>1. PICK n, c : messages' \subseteq messages \cup {AppendEntries(i, m.src, log[i], n, c)}
                    /\ messages \subseteq messages'
    BY <1>5 DEF OnAppendReplyOfTerm, SendAll
  <2>2. \A x \in messages' \ messages : x.type = "AppendEntries"
    BY <2>1 DEF AppendEntries
  <2> QED
    BY <1>5, <2>1, <2>2, QuietStep DEF OnAppendReplyOfTerm, role, voteMgr, timerMgr
<1> QED
  BY <1>3, <1>4, <1>5 DEF OnAppendEntriesReply

LEMMA OnTimeoutNowElection ==
    ASSUME TypeOK, ElectionInv, NEW i \in Server, NEW m \in messages, OnTimeoutNow(i, m)
    PROVE  ElectionStep
<1>1. m \in TimeoutNowMsg
  BY MessageKind DEF TypeOK, OnTimeoutNow
<1>2. m.term \in Nat /\ term[i] \in Nat
  BY <1>1 DEF TimeoutNowMsg, TypeOK
<1>3. messages' = messages /\ UNCHANGED <<grant, elected>>
  BY DEF OnTimeoutNow, voteMgr
<1>4. CASE m.term > term[i] /\ StepDown(i, m.term)
  <2>1. KeepsVotes
    BY <1>2, <1>4, StepDownKeeps
  <2>2. NetStep
    BY <1>3 DEF NetStep
  <2> QED
    BY <1>3, <1>4, <2>1, <2>2, StepDownToElection DEF StepDown
<1>5. CASE UNCHANGED <<meta, role, timerMgr>>
  BY <1>3, <1>5, QuietStep DEF role, timerMgr
<1> QED
  BY <1>4, <1>5 DEF OnTimeoutNow

LEMMA ClientElection ==
    ASSUME TypeOK, ElectionInv, NEW i \in Server, Client(i)
    PROVE  ElectionStep
<1>1. ASSUME NEW v, Propose(i, v)
      PROVE  ElectionStep
  <2> DEFINE l == Append(log[i], [term |-> term[i], value |-> v])
             c == MaybeCommit(i, l, match[i])
             sent == {AppendEntries(i, j, l, next[i][j], c) : j \in Peers(i)}
  <2>0. messages' = messages \cup sent
    BY <1>1 DEF Propose, SendAll
  <2>1. messages \subseteq messages' /\ \A m \in messages' \ messages : m.type = "AppendEntries"
    <3>1. \A j \in Peers(i) : AppendEntries(i, j, l, next[i][j], c).type = "AppendEntries"
      BY DEF AppendEntries
    <3> HIDE DEF l, c
    <3> QED
      BY <2>0, <3>1
  <2> QED
    BY <1>1, <2>1, QuietStep DEF Propose, role, voteMgr, timerMgr
<1>2. ASSUME NEW j, LeaderTransfer(i, j)
      PROVE  ElectionStep
  <2>1. messages \subseteq messages' /\ \A m \in messages' \ messages : m.type = "TimeoutNow"
    BY <1>2 DEF LeaderTransfer, Send
  <2> QED
    BY <1>2, <2>1, QuietStep DEF LeaderTransfer, role, voteMgr, timerMgr
<1> QED
  BY <1>1, <1>2 DEF Client

LEMMA RestartElection ==
    ASSUME TypeOK, ElectionInv, NEW i \in Server, Restart(i)
    PROVE  ElectionStep
<1>1. CASE Stop(i)
  <2>1. \A k \in Server : requestVoteTimers'[k] \subseteq requestVoteTimers[k]
    BY <1>1 DEF Stop, StopTimers, TypeOK
  <2> QED
    BY <1>1, <2>1, QuietStep DEF Stop, role, voteMgr
<1>2. CASE Crash(i)
  BY <1>2, LoseVolatileElection DEF Crash
<1>3. CASE Start(i)
  <2>1. term[i] \in Nat
    BY DEF TypeOK
  <2>2. KeepsVotes
    BY <1>3, <2>1, StepDownKeeps DEF Start
  <2>3. NetStep
    BY <1>3 DEF Start, NetStep
  <2> QED
    BY <1>3, <2>2, <2>3, StepDownToElection DEF Start, StepDown, voteMgr
<1> QED
  BY <1>1, <1>2, <1>3 DEF Restart

\* Every step of the consensus core keeps ElectionInv.
\* Every action takes such a step.
LEMMA NextElectionStep ==
    ASSUME TypeOK, ElectionInv, Next
    PROVE  ElectionStep
<1>1. ASSUME NEW i \in Server, NEW m \in messages, Receive(i, m)
      PROVE  ElectionStep
  <2>1. CASE OnRequestVoteReply(i, m)
    <3>1. m \in RequestVoteReplyMsg
      BY <2>1, MessageKind DEF TypeOK, OnRequestVoteReply
    <3>2. m.term \in Nat /\ m.src \in Server
      BY <3>1 DEF RequestVoteReplyMsg
    <3> QED
      BY <2>1, <3>2, OnLargerTermElection, OnVoteReplyElection, OnPreVoteReplyElection
         DEF OnRequestVoteReply
  <2> QED
    BY <1>1, <2>1, OnRequestVoteElection, OnAppendEntriesElection, OnAppendEntriesReplyElection,
       OnTimeoutNowElection DEF Receive
<1>2. ASSUME NEW i \in Server, NEW j \in Server, HeartBeat(i, j)
      PROVE  ElectionStep
  <2>1. messages \subseteq messages' /\ \A m \in messages' \ messages : m.type = "AppendEntries"
    BY <1>2 DEF HeartBeat, SendRpc, Send, AppendEntries
  <2> QED
    BY <1>2, <2>1, QuietStep DEF HeartBeat, role, voteMgr, timerMgr
<1> QED
  BY <1>1, <1>2, ElectElection, RequestVoteRpcElection, ClientElection, RestartElection
     DEF Next, Timer

LEMMA NextElection == TypeOK /\ ElectionInv /\ [Next]_vars => ElectionInv'
<1> SUFFICES ASSUME TypeOK, ElectionInv, [Next]_vars
             PROVE  ElectionInv'
  OBVIOUS
<1>1. TypeOK'
  BY NextType
<1>2. CASE UNCHANGED vars
  BY <1>2 DEF vars, meta, role, voteMgr, timerMgr, ElectionInv, BackedBy, Backs, HasBallot, Ballot
<1>3. CASE Next
  BY <1>1, <1>3, NextElectionStep, ElectionStepInv
<1> QED
  BY <1>2, <1>3

\* Every leader there has ever been had the backing VoteManager::Majority asks for, and no
\* server ever backed two candidates in a term: in every behaviour, for any cluster size.
THEOREM VotesBackLeaders == Spec => []ElectionInv
<1>1. Init => ElectionInv
  BY DEF Init, InitFrom, ElectionInv, Follower, Candidate
<1> QED
  BY <1>1, TypeCorrect, NextElection, PTL DEF Spec

\* In a cluster of an odd number of servers, two leaders of one term are one server.
LEMMA MajoritiesMeet ==
    ASSUME Cardinality(Server) % 2 = 1, TypeOK, ElectionInv
    PROVE  ElectionSafety
<1> SUFFICES ASSUME NEW e \in elected, NEW f \in elected, e[1] = f[1]
             PROVE  e[2] = f[2]
  BY DEF ElectionSafety
<1> DEFINE i == e[2]
           j == f[2]
           t == e[1]
<1>1. i \in Server /\ j \in Server /\ t \in Nat
  BY DEF TypeOK
<1>2. PICK Q \in SUBSET Server : Cardinality(Q) >= VoteThreshold /\ BackedBy(Q, i, t)
  BY DEF ElectionInv
<1>3. PICK R \in SUBSET Server : Cardinality(R) >= VoteThreshold /\ BackedBy(R, j, t)
  BY DEF ElectionInv
<1> HIDE DEF i, j, t
<1>4. 2 * VoteThreshold > Cardinality(Server)
  BY ServerFacts DEF VoteThreshold
<1>5. VoteThreshold \in Nat /\ Cardinality(Q) \in Nat /\ Cardinality(R) \in Nat
  BY ServerFacts DEF VoteThreshold
<1>6. Cardinality(Q) + Cardinality(R) > Cardinality(Server)
  BY <1>2, <1>3, <1>4, <1>5, ServerFacts
<1>7. PICK k \in Q \cap R : TRUE
  BY <1>6, ServerFacts, FS_MajoritiesIntersect
<1>8. k \in Server /\ Backs(k, i, t) /\ Backs(k, j, t)
  BY <1>2, <1>3, <1>7 DEF BackedBy
<1>9. i = j
  <2>1. CASE k = i \/ k = j
    BY <1>1, <1>8, <2>1 DEF Backs
  <2>2. CASE k # i /\ k # j
    <3>1. HasBallot(k, i, t) /\ HasBallot(k, j, t)
      BY <1>8, <2>2 DEF Backs
    <3>2. PICK m \in messages : Ballot(m) /\ m.src = k /\ m.dest = i /\ m.term = t
      BY <3>1 DEF HasBallot
    <3> QED
      BY <1>1, <1>8, <3>1, <3>2 DEF ElectionInv
  <2> QED
    BY <2>1, <2>2
<1> QED
  BY <1>9 DEF i, j

\* A cluster of an odd number of servers has at most one leader in a term, over every
\* behaviour with crashes, restarts, lost, late and repeated messages.  (FourServers shows
\* that the assumption is needed.)
THEOREM OneLeaderPerTerm ==
    ASSUME Cardinality(Server) % 2 = 1
    PROVE  Spec => []ElectionSafety
<1>1. TypeOK /\ ElectionInv => ElectionSafety
  BY MajoritiesMeet
<1> QED
  BY <1>1, TypeCorrect, VotesBackLeaders, PTL

-----------------------------------------------------------------------------
(***************************************************************************)
(* The leader cache.  leader_ survives a step-down within a term, a stop   *)
(* and a start; OnAppendEntries nevertheless asserts that it names the     *)
(* sender.  It does, because every name in a cache and every sender of     *)
(* AppendEntries was elected in the term it goes with, and a term has one  *)
(* elected server.                                                         *)
(***************************************************************************)

\* What server i holds of leaders was elected in i's term: its role, and its cache.
KnowsElected(i) ==
    /\ state[i] = Leader => <<term[i], i>> \in elected
    /\ leader[i] # Nil => <<term[i], leader[i]>> \in elected

\* The inductive invariant: the same of every server, and of every AppendEntries.
LeaderInv ==
    /\ \A i \in Server : KnowsElected(i)
    /\ \A m \in messages : m.type = "AppendEntries" => <<m.term, m.src>> \in elected

\* What i knows of leaders is all that a step changes for any server.
OthersKeepLeader(i) ==
    \A k \in Peers(i) : term'[k] = term[k] /\ state'[k] = state[k] /\ leader'[k] = leader[k]

\* A step sends AppendEntries only for a leader of their term.
SendsElected ==
    \A m \in messages' \ messages : m.type = "AppendEntries" => <<m.term, m.src>> \in elected'

\* A step that concerns one server keeps LeaderInv when it does so for that server.
LEMMA OneServerLeader ==
    ASSUME LeaderInv, NEW i \in Server, OthersKeepLeader(i), elected \subseteq elected',
           SendsElected, KnowsElected(i)'
    PROVE  LeaderInv'
<1>1. ASSUME NEW k \in Server PROVE KnowsElected(k)'
  <2>1. CASE k = i
    BY <2>1
  <2>2. CASE k # i
    <3>1. k \in Peers(i) /\ KnowsElected(k)
      BY <2>2 DEF Peers, LeaderInv
    <3> QED
      BY <3>1 DEF OthersKeepLeader, KnowsElected
  <2> QED
    BY <2>1, <2>2
<1>2. \A m \in messages' : m.type = "AppendEntries" => <<m.term, m.src>> \in elected'
  BY DEF LeaderInv, SendsElected
<1> QED
  BY <1>1, <1>2 DEF LeaderInv

\* A step that changes no term, no role and no cache.
LEMMA SameLeaders ==
    ASSUME LeaderInv, UNCHANGED <<term, state, leader, elected>>, SendsElected
    PROVE  LeaderInv'
<1>1. \A k \in Server : KnowsElected(k)'
  BY DEF LeaderInv, KnowsElected
<1>2. \A m \in messages' : m.type = "AppendEntries" => <<m.term, m.src>> \in elected'
  BY DEF LeaderInv, SendsElected
<1> QED
  BY <1>1, <1>2 DEF LeaderInv

\* StepDown, in any of its uses, when the cache it leaves is empty or names an elected server.
LEMMA StepDownToLeader ==
    ASSUME TypeOK, LeaderInv, NEW i \in Server, NEW t, NEW v, NEW l, NEW h,
           StepDownTo(i, t, v, l, h), elected' = elected, SendsElected,
           l # Nil => <<t, l>> \in elected
    PROVE  LeaderInv'
<1>1. OthersKeepLeader(i)
  BY DEF TypeOK, StepDownTo, OthersKeepLeader, Peers
<1>2. term'[i] = t /\ state'[i] = Follower /\ leader'[i] = l
  BY DEF TypeOK, StepDownTo
<1>3. KnowsElected(i)'
  BY <1>2 DEF KnowsElected, Follower, Leader
<1> QED
  BY <1>1, <1>3, OneServerLeader

\* The cache StepDown leaves behind: empty in a larger term, else what it was.
LEMMA CacheAfterStepDown ==
    ASSUME TypeOK, LeaderInv, NEW i \in Server, NEW t \in Nat, t >= term[i],
           LeaderAfterStepDown(i, t) # Nil
    PROVE  t = term[i] /\ <<t, LeaderAfterStepDown(i, t)>> \in elected
<1>1. term[i] \in Nat
  BY DEF TypeOK
<1>2. t = term[i] /\ LeaderAfterStepDown(i, t) = leader[i]
  BY <1>1 DEF LeaderAfterStepDown
<1> QED
  BY <1>2 DEF LeaderInv, KnowsElected

LEMMA StepDownLeader ==
    ASSUME TypeOK, LeaderInv, NEW i \in Server, NEW t \in Nat, t >= term[i], StepDown(i, t),
           elected' = elected, SendsElected
    PROVE  LeaderInv'
BY CacheAfterStepDown, StepDownToLeader DEF StepDown

LEMMA BecomeLeaderLeader ==
    ASSUME TypeOK, LeaderInv, NEW i \in Server, NEW t, BecomeLeader(i, t), term'[i] = t,
           \A k \in Peers(i) : term'[k] = term[k], messages' = messages
    PROVE  LeaderInv'
<1>1. OthersKeepLeader(i)
  BY DEF TypeOK, BecomeLeader, OthersKeepLeader, Peers
<1>2. leader'[i] = i /\ elected' = elected \cup {<<t, i>>}
  BY DEF TypeOK, BecomeLeader
<1>3. KnowsElected(i)'
  BY <1>2 DEF KnowsElected
<1>4. SendsElected
  BY DEF SendsElected
<1> QED
  BY <1>1, <1>2, <1>3, <1>4, OneServerLeader

LEMMA BecomeCandidateLeader ==
    ASSUME TypeOK, LeaderInv, NEW i \in Server, BecomeCandidate(i),
           \A k \in Peers(i) : term'[k] = term[k], messages' = messages
    PROVE  LeaderInv'
<1>1. OthersKeepLeader(i)
  BY DEF TypeOK, BecomeCandidate, OthersKeepLeader, Peers
<1>2. leader'[i] = Nil /\ state'[i] = Candidate /\ elected' = elected
  BY DEF TypeOK, BecomeCandidate
<1>3. KnowsElected(i)'
  BY <1>2 DEF KnowsElected, Candidate, Leader
<1>4. SendsElected
  BY DEF SendsElected
<1> QED
  BY <1>1, <1>2, <1>3, <1>4, OneServerLeader

LEMMA DoRequestVoteLeader ==
    ASSUME TypeOK, LeaderInv, NEW i \in Server, DoRequestVote(i)
    PROVE  LeaderInv'
<1>1. term'[i] = term[i] + 1 /\ \A k \in Peers(i) : term'[k] = term[k]
  BY DEF TypeOK, DoRequestVote, Peers
<1>2. messages' = messages
  BY DEF DoRequestVote
<1> QED
  BY <1>1, <1>2, BecomeLeaderLeader, BecomeCandidateLeader DEF DoRequestVote

LEMMA LoseVolatileLeader ==
    ASSUME TypeOK, LeaderInv, NEW i \in Server, LoseVolatile(i), elected' = elected
    PROVE  LeaderInv'
<1>1. OthersKeepLeader(i)
  BY DEF TypeOK, LoseVolatile, OthersKeepLeader, Peers, meta
<1>2. leader'[i] = Nil /\ state'[i] = Follower
  BY DEF TypeOK, LoseVolatile
<1>3. KnowsElected(i)'
  BY <1>2 DEF KnowsElected, Follower, Leader
<1>4. SendsElected
  BY DEF SendsElected, LoseVolatile
<1> QED
  BY <1>1, <1>3, <1>4, OneServerLeader

\* A leader's AppendEntries carry the term it was elected in.
LEMMA LeaderSends ==
    ASSUME LeaderInv, NEW i \in Server, state[i] = Leader, elected' = elected,
           \A m \in messages' \ messages : \E j, l, n, c : m = AppendEntries(i, j, l, n, c)
    PROVE  SendsElected
<1>1. <<term[i], i>> \in elected
  BY DEF LeaderInv, KnowsElected
<1>2. \A j, l, n, c : /\ AppendEntries(i, j, l, n, c).term = term[i]
                      /\ AppendEntries(i, j, l, n, c).src = i
  BY DEF AppendEntries
<1> QED
  BY <1>1, <1>2 DEF SendsElected

-----------------------------------------------------------------------------
LEMMA TimerLeader ==
    ASSUME TypeOK, TimersMatchRole, LeaderInv, NEW i \in Server, Timer(i)
    PROVE  LeaderInv'
<1>1. CASE Elect(i)
  <2>1. CASE DoPreVote(i)
    BY <2>1, BecomeCandidateLeader DEF DoPreVote, meta
  <2> QED
    BY <1>1, <2>1, DoRequestVoteLeader DEF Elect
<1>2. ASSUME NEW j \in Server, RequestVoteRpc(i, j)
      PROVE  LeaderInv'
  <2>1. SendsElected
    BY <1>2 DEF RequestVoteRpc, SendRequestVote, SendRpc, Send, SendsElected
  <2> QED
    BY <1>2, <2>1, SameLeaders DEF RequestVoteRpc, meta, role
<1>3. ASSUME NEW j \in Server, HeartBeat(i, j)
      PROVE  LeaderInv'
  <2>1. state[i] = Leader
    BY <1>3 DEF HeartBeat, TimersMatchRole
  <2>2. messages' = messages \cup {AppendEntries(i, j, log[i], next[i][j], commit[i])}
    BY <1>3 DEF HeartBeat, SendRpc, Send
  <2>3. UNCHANGED <<meta, role, elected>>
    BY <1>3 DEF HeartBeat
  <2>4. SendsElected
    BY <2>1, <2>2, <2>3, LeaderSends
  <2> QED
    BY <2>3, <2>4, SameLeaders DEF meta, role
<1> QED
  BY <1>1, <1>2, <1>3 DEF Timer

LEMMA OnRequestVoteLeader ==
    ASSUME TypeOK, LeaderInv, NEW i \in Server, NEW m \in messages, OnRequestVote(i, m)
    PROVE  LeaderInv'
<1>1. m \in RequestVoteMsg
  BY MessageKind DEF TypeOK, OnRequestVote
<1>2. m.term \in Nat /\ term[i] \in Nat
  BY <1>1 DEF TypeOK, RequestVoteMsg
<1>3. elected' = elected
  BY DEF OnRequestVote
<1>4. \A t, v, ok : RequestVoteReply(i, m, t, v, ok).type = "RequestVoteReply"
  BY DEF RequestVoteReply
<1>5. PICK ok \in IntervalOutcomes(i, m) :
         LET t == IF ok /\ m.term > term[i] THEN m.term ELSE term[i]
             gives == ok /\ GivesVote(i, m, t)
             v == IF gives /\ ~m.preVote THEN m.src ELSE VoteAfterStepDown(i, t)
         IN  /\ Send(RequestVoteReply(i, m, t, v, ok))
             /\ IF gives \/ t > term[i]
                THEN StepDownTo(i, t, v, LeaderAfterStepDown(i, t), HeartbeatAfterStepDown(i))
                ELSE UNCHANGED <<meta, role, timerMgr>>
  BY DEF OnRequestVote
<1> DEFINE t == IF ok /\ m.term > term[i] THEN m.term ELSE term[i]
           v == IF ok /\ GivesVote(i, m, t) /\ ~m.preVote THEN m.src ELSE VoteAfterStepDown(i, t)
<1>6. t \in Nat /\ t >= term[i]
  BY <1>2
<1>7. /\ Send(RequestVoteReply(i, m, t, v, ok))
      /\ \/ StepDownTo(i, t, v, LeaderAfterStepDown(i, t), HeartbeatAfterStepDown(i))
         \/ UNCHANGED <<meta, role, timerMgr>>
  BY <1>5, Zenon
<1> HIDE DEF t, v
<1>8. SendsElected
  BY <1>4, <1>7 DEF Send, SendsElected
<1>9. CASE StepDownTo(i, t, v, LeaderAfterStepDown(i, t), HeartbeatAfterStepDown(i))
  BY <1>3, <1>6, <1>8, <1>9, CacheAfterStepDown, StepDownToLeader
<1>10. CASE UNCHANGED <<meta, role, timerMgr>>
  BY <1>3, <1>8, <1>10, SameLeaders DEF meta, role
<1> QED
  BY <1>7, <1>9, <1>10

\* A reply of a larger term: one StepDown.
LEMMA OnLargerTermLeader ==
    ASSUME TypeOK, LeaderInv, NEW i \in Server, NEW m, m.term \in Nat, OnLargerTerm(i, m)
    PROVE  LeaderInv'
<1>1. m.term >= term[i] /\ StepDown(i, m.term) /\ elected' = elected /\ messages' = messages
  BY DEF OnLargerTerm, TypeOK
<1>2. SendsElected
  BY <1>1 DEF SendsElected
<1> QED
  BY <1>1, <1>2, StepDownLeader

LEMMA OnRequestVoteReplyLeader ==
    ASSUME TypeOK, LeaderInv, NEW i \in Server, NEW m \in messages, OnRequestVoteReply(i, m)
    PROVE  LeaderInv'
<1>1. m.term \in Nat
  BY MessageKind DEF TypeOK, OnRequestVoteReply, RequestVoteReplyMsg
<1>2. CASE OnVoteReply(i, m)
  <2>1. UNCHANGED <<meta, messages>>
    BY <1>2 DEF OnVoteReply
  <2>2. CASE BecomeLeader(i, term[i])
    BY <2>1, <2>2, BecomeLeaderLeader DEF meta
  <2>3. CASE UNCHANGED <<role, elected>>
    BY <2>1, <2>3, SameLeaders DEF meta, role, SendsElected
  <2> QED
    BY <1>2, <2>2, <2>3 DEF OnVoteReply
<1>3. CASE OnPreVoteReply(i, m)
  <2>1. CASE UNCHANGED <<meta, role, elected, messages>>
    BY <2>1, SameLeaders DEF meta, role, SendsElected
  <2> QED
    BY <1>3, <2>1, DoRequestVoteLeader DEF OnPreVoteReply
<1> QED
  BY <1>1, <1>2, <1>3, OnLargerTermLeader DEF OnRequestVoteReply

LEMMA OnAppendEntriesLeader ==
    ASSUME TypeOK, LeaderInv, NEW i \in Server, NEW m \in messages, OnAppendEntries(i, m)
    PROVE  LeaderInv'
<1>1. elected' = elected /\ m.type = "AppendEntries"
  BY DEF OnAppendEntries
<1>2. SendsElected
  <2>1. \A t, ok, last : AppendEntriesReply(i, m, t, ok, last).type = "AppendEntriesReply"
    BY DEF AppendEntriesReply
  <2>2. CASE RejectStale(i, m)
    BY <2>1, <2>2 DEF RejectStale, Send, SendsElected
  <2>3. CASE RejectMismatch(i, m)
    BY <2>1, <2>3 DEF RejectMismatch, Send, SendsElected
  <2>4. CASE Accept(i, m)
    BY <2>1, <2>4 DEF Accept, Send, SendsElected
  <2> QED
    BY <2>2, <2>3, <2>4 DEF OnAppendEntries
<1>3. CASE RejectStale(i, m)
  BY <1>1, <1>2, <1>3, SameLeaders DEF RejectStale, meta, role
<1>4. CASE FollowLeader(i, m)
  <2>1. <<m.term, m.src>> \in elected
    BY <1>1 DEF LeaderInv
  <2> QED
    BY <1>1, <1>2, <1>4, <2>1, StepDownToLeader DEF FollowLeader
<1> QED
  BY <1>3, <1>4 DEF OnAppendEntries, RejectMismatch, Accept

LEMMA OnAppendEntriesReplyLeader ==
    ASSUME TypeOK, LeaderInv, NEW i \in Server, NEW m \in messages, OnAppendEntriesReply(i, m)
    PROVE  LeaderInv'
<1>1. m.term \in Nat
  BY MessageKind DEF TypeOK, OnAppendEntriesReply, AppendEntriesReplyMsg
<1>2. CASE AbortNotLeader(i, m)
  BY <1>2, LoseVolatileLeader DEF AbortNotLeader
<1>3. CASE OnAppendReplyOfTerm(i, m)
  <2>1. PICK n, c : messages' \subseteq messages \cup {AppendEntries(i, m.src, log[i], n, c)}
    BY <1>3 DEF OnAppendReplyOfTerm, SendAll
  <2>2. state[i] = Leader /\ UNCHANGED <<meta, role, elected>>
    BY <1>3 DEF OnAppendReplyOfTerm
  <2>3. SendsElected
    BY <2>1, <2>2, LeaderSends
  <2> QED
    BY <2>2, <2>3, SameLeaders DEF meta, role
<1> QED
  BY <1>1, <1>2, <1>3, OnLargerTermLeader DEF OnAppendEntriesReply

LEMMA OnTimeoutNowLeader ==
    ASSUME TypeOK, LeaderInv, NEW i \in Server, NEW m \in messages, OnTimeoutNow(i, m)
    PROVE  LeaderInv'
<1>1. m.term \in Nat /\ term[i] \in Nat
  BY MessageKind DEF TypeOK, OnTimeoutNow, TimeoutNowMsg
<1>2. UNCHANGED <<messages, elected>> /\ SendsElected
  BY DEF OnTimeoutNow, SendsElected
<1>3. CASE m.term > term[i] /\ StepDown(i, m.term)
  BY <1>1, <1>2, <1>3, StepDownLeader
<1>4. CASE UNCHANGED <<meta, role, timerMgr>>
  BY <1>2, <1>4, SameLeaders DEF meta, role
<1> QED
  BY <1>3, <1>4 DEF OnTimeoutNow

LEMMA ClientLeader ==
    ASSUME TypeOK, LeaderInv, NEW i \in Server, Client(i)
    PROVE  LeaderInv'
<1>1. ASSUME NEW v, Propose(i, v)
      PROVE  LeaderInv'
  <2> DEFINE l == Append(log[i], [term |-> term[i], value |-> v])
             c == MaybeCommit(i, l, match[i])
  <2>1. messages' = messages \cup {AppendEntries(i, j, l, next[i][j], c) : j \in Peers(i)}
    BY <1>1 DEF Propose, SendAll
  <2> HIDE DEF l, c
  <2>2. state[i] = Leader /\ UNCHANGED <<meta, role, elected>>
    BY <1>1 DEF Propose
  <2>3. SendsElected
    BY <2>1, <2>2, LeaderSends
  <2> QED
    BY <2>2, <2>3, SameLeaders DEF meta, role
<1>2. ASSUME NEW j, LeaderTransfer(i, j)
      PROVE  LeaderInv'
  BY <1>2, SameLeaders DEF LeaderTransfer, Send, SendsElected, meta, role
<1> QED
  BY <1>1, <1>2 DEF Client

LEMMA RestartLeader ==
    ASSUME TypeOK, LeaderInv, NEW i \in Server, Restart(i)
    PROVE  LeaderInv'
<1>1. CASE Stop(i)
  BY <1>1, SameLeaders DEF Stop, SendsElected, meta, role
<1>2. CASE Crash(i)
  BY <1>2, LoseVolatileLeader DEF Crash
<1>3. CASE Start(i)
  <2>1. term[i] \in Nat /\ term[i] >= term[i]
    BY DEF TypeOK
  <2> QED
    BY <1>3, <2>1, StepDownLeader DEF Start, SendsElected
<1> QED
  BY <1>1, <1>2, <1>3 DEF Restart

LEMMA NextLeader == TypeOK /\ TimersMatchRole /\ LeaderInv /\ [Next]_vars => LeaderInv'
<1> SUFFICES ASSUME TypeOK, TimersMatchRole, LeaderInv, [Next]_vars
             PROVE  LeaderInv'
  OBVIOUS
<1>1. CASE UNCHANGED vars
  BY <1>1 DEF vars, meta, role, LeaderInv, KnowsElected
<1>2. ASSUME NEW i \in Server, NEW m \in messages, Receive(i, m)
      PROVE  LeaderInv'
  BY <1>2, OnRequestVoteLeader, OnRequestVoteReplyLeader, OnAppendEntriesLeader,
     OnAppendEntriesReplyLeader, OnTimeoutNowLeader DEF Receive
<1> QED
  BY <1>1, <1>2, TimerLeader, ClientLeader, RestartLeader DEF Next

\* Every server that leads, is cached as leader or sends AppendEntries was elected in that
\* term: in every behaviour, for any cluster size.
THEOREM LeadersWereElected == Spec => []LeaderInv
<1>1. Init => LeaderInv
  BY DEF Init, InitFrom, LeaderInv, KnowsElected, Follower, Leader
<1> QED
  BY <1>1, TypeCorrect, TimersFollowRole, NextLeader, PTL DEF Spec

\* In a cluster of an odd number of servers assert(leader_ == msg.src) of OnAppendEntries
\* never fails.
THEOREM CachedLeaderSends ==
    ASSUME Cardinality(Server) % 2 = 1
    PROVE  Spec => []LeaderCacheSound
<1>1. TypeOK /\ ElectionSafety /\ LeaderInv => LeaderCacheSound
  <2> SUFFICES ASSUME TypeOK, ElectionSafety, LeaderInv, NEW m \in messages,
                      m.type = "AppendEntries", m.term >= term[m.dest],
                      LeaderAfterStepDown(m.dest, m.term) # Nil
               PROVE  LeaderAfterStepDown(m.dest, m.term) = m.src
    BY DEF LeaderCacheSound
  <2>1. m \in AppendEntriesMsg
    BY MessageKind DEF TypeOK
  <2>2. m.dest \in Server /\ m.term \in Nat
    BY <2>1 DEF AppendEntriesMsg
  <2>3. <<m.term, LeaderAfterStepDown(m.dest, m.term)>> \in elected
    BY <2>2, CacheAfterStepDown
  <2>4. <<m.term, m.src>> \in elected
    BY DEF LeaderInv
  <2> QED
    BY <2>3, <2>4 DEF ElectionSafety
<1> QED
  BY <1>1, TypeCorrect, OneLeaderPerTerm, LeadersWereElected, PTL

-----------------------------------------------------------------------------
(***************************************************************************)
(* Pre-vote.  The flags of a candidate come from answers of its own term:  *)
(* both ways to become a candidate clear them, and a candidate that        *)
(* changes its term stops being one.  No other step may raise a term and   *)
(* vote for the server itself, because a vote request goes to a peer.      *)
(***************************************************************************)

\* What the flags of server i stand for, while it is a candidate
FlagsOf(i) ==
    state[i] = Candidate => logOk[i] \subseteq LogOkFrom(i) /\ intervalOk[i] \subseteq IntervalOkFrom(i)

PreVoteInv == \A i \in Server : FlagsOf(i)

\* The step of server i that PreVoteBeforeElection is about
Asked(i) ==
    EnablePreVote /\ Cardinality(Server) > 1 /\ term'[i] > term[i] /\ vote'[i] = i
      => Cardinality(PreVoters(i)) + 1 >= VoteThreshold

PreVoteStep == PreVoteInv' /\ \A i \in Server : Asked(i)

\* What the step leaves of server k's term, role and flags
KeepsFlags(k) ==
    /\ term'[k] = term[k] /\ state'[k] = state[k]
    /\ logOk'[k] = logOk[k] /\ intervalOk'[k] = intervalOk[k]

\* Answers stay, as long as the term does.
LEMMA AnswersStay ==
    ASSUME NEW i \in Server, messages \subseteq messages', term'[i] = term[i]
    PROVE  LogOkFrom(i) \subseteq LogOkFrom(i)' /\ IntervalOkFrom(i) \subseteq IntervalOkFrom(i)'
<1>1. PreVoteReplies(i) \subseteq PreVoteReplies(i)'
  BY DEF PreVoteReplies
<1> QED
  BY <1>1 DEF LogOkFrom, IntervalOkFrom

LEMMA KeptFlags ==
    ASSUME TypeOK, PreVoteInv, messages \subseteq messages', NEW k \in Server, KeepsFlags(k)
    PROVE  FlagsOf(k)' /\ Asked(k)
<1>1. FlagsOf(k)
  BY DEF PreVoteInv
<1>2. FlagsOf(k)'
  BY <1>1, AnswersStay DEF KeepsFlags, FlagsOf
<1>3. term[k] \in Nat /\ term'[k] = term[k]
  BY DEF TypeOK, KeepsFlags
<1>4. Asked(k)
  BY <1>3 DEF Asked
<1> QED
  BY <1>2, <1>4

\* A step of server i: what is left is to look at i.
LEMMA OneServerPreVote ==
    ASSUME TypeOK, PreVoteInv, messages \subseteq messages', NEW i \in Server,
           \A k \in Peers(i) : KeepsFlags(k), FlagsOf(i)', Asked(i)
    PROVE  PreVoteStep
<1> SUFFICES ASSUME NEW k \in Server PROVE FlagsOf(k)' /\ Asked(k)
  BY DEF PreVoteStep, PreVoteInv
<1>1. CASE k = i
  BY <1>1
<1>2. CASE k # i
  BY <1>2, KeptFlags DEF Peers
<1> QED
  BY <1>1, <1>2

LEMMA SamePreVote ==
    ASSUME TypeOK, PreVoteInv, messages \subseteq messages',
           UNCHANGED <<term, state, logOk, intervalOk>>
    PROVE  PreVoteStep
BY KeptFlags DEF PreVoteStep, PreVoteInv, KeepsFlags

\* StepDown, in any of its uses: the server is no candidate any more, and votes for itself in
\* no larger term.
LEMMA StepDownToPreVote ==
    ASSUME TypeOK, PreVoteInv, messages \subseteq messages', NEW i \in Server, NEW t \in Nat,
           NEW v, NEW l, NEW h, StepDownTo(i, t, v, l, h), UNCHANGED voteMgr,
           t > term[i] => v # i
    PROVE  PreVoteStep
<1>1. \A k \in Peers(i) : KeepsFlags(k)
  BY DEF TypeOK, StepDownTo, voteMgr, KeepsFlags, Peers
<1>2. state'[i] = Follower /\ term'[i] = t /\ vote'[i] = v
  BY DEF TypeOK, StepDownTo
<1>3. FlagsOf(i)'
  BY <1>2 DEF FlagsOf, Follower, Candidate
<1>4. Asked(i)
  BY <1>2 DEF Asked
<1> QED
  BY <1>1, <1>3, <1>4, OneServerPreVote

LEMMA StepDownPreVote ==
    ASSUME TypeOK, PreVoteInv, messages \subseteq messages', NEW i \in Server, NEW t \in Nat,
           StepDown(i, t), UNCHANGED voteMgr
    PROVE  PreVoteStep
<1>1. term[i] \in Nat
  BY DEF TypeOK
<1>2. t > term[i] => VoteAfterStepDown(i, t) # i
  BY <1>1, ServerAssumption DEF VoteAfterStepDown
<1> QED
  BY <1>2, StepDownToPreVote DEF StepDown

\* The flags are cleared whenever a server becomes a candidate.
LEMMA ClearedPreVote ==
    ASSUME TypeOK, PreVoteInv, messages \subseteq messages', NEW i \in Server, ClearVotes(i),
           \A k \in Peers(i) : term'[k] = term[k] /\ state'[k] = state[k], Asked(i)
    PROVE  PreVoteStep
<1>1. logOk'[i] = {} /\ intervalOk'[i] = {}
  BY DEF TypeOK, ClearVotes
<1>2. \A k \in Peers(i) : KeepsFlags(k)
  BY DEF TypeOK, ClearVotes, KeepsFlags, Peers
<1>3. FlagsOf(i)'
  BY <1>1 DEF FlagsOf
<1> QED
  BY <1>2, <1>3, OneServerPreVote

LEMMA DoRequestVotePreVote ==
    ASSUME TypeOK, PreVoteInv, NEW i \in Server, DoRequestVote(i), Asked(i)
    PROVE  PreVoteStep
<1>1. \A k \in Peers(i) : term'[k] = term[k]
  BY DEF TypeOK, DoRequestVote, Peers
<1>2. \A k \in Peers(i) : state'[k] = state[k]
  BY DEF TypeOK, DoRequestVote, BecomeLeader, BecomeCandidate, Peers
<1>3. ClearVotes(i) /\ messages' = messages
  BY DEF DoRequestVote
<1> QED
  BY <1>1, <1>2, <1>3, ClearedPreVote

LEMMA LoseVolatilePreVote ==
    ASSUME TypeOK, PreVoteInv, NEW i \in Server, LoseVolatile(i)
    PROVE  PreVoteStep
<1>1. \A k \in Peers(i) : term'[k] = term[k] /\ state'[k] = state[k]
  BY DEF TypeOK, LoseVolatile, Peers, meta
<1>2. ClearVotes(i) /\ messages' = messages /\ term' = term
  BY DEF LoseVolatile, meta
<1>3. Asked(i)
  BY <1>2 DEF TypeOK, Asked
<1> QED
  BY <1>1, <1>2, <1>3, ClearedPreVote

-----------------------------------------------------------------------------
LEMMA TimerPreVote ==
    ASSUME TypeOK, PreVoteInv, NEW i \in Server, Timer(i)
    PROVE  PreVoteStep
<1>1. ASSUME Elect(i) PROVE PreVoteStep
  <2>1. CASE EnablePreVote /\ Peers(i) # {}
    <3>1. DoPreVote(i)
      BY <1>1, <2>1 DEF Elect
    <3>2. ClearVotes(i) /\ BecomeCandidate(i) /\ term' = term /\ messages' = messages
      BY <3>1 DEF DoPreVote, meta
    <3>3. \A k \in Peers(i) : term'[k] = term[k] /\ state'[k] = state[k]
      BY <3>2 DEF TypeOK, BecomeCandidate, Peers
    <3>4. Asked(i)
      BY <3>2 DEF TypeOK, Asked
    <3> QED
      BY <3>2, <3>3, <3>4, ClearedPreVote
  <2>2. CASE ~(EnablePreVote /\ Peers(i) # {})
    <3>1. Peers(i) = {} => Cardinality(Server) = 1
      BY FS_Singleton DEF Peers
    <3>2. Asked(i)
      BY <2>2, <3>1 DEF Asked
    <3>3. DoRequestVote(i)
      BY <1>1, <2>2 DEF Elect
    <3> QED
      BY <3>2, <3>3, DoRequestVotePreVote
  <2> QED
    BY <2>1, <2>2
<1>2. ASSUME NEW j \in Server, RequestVoteRpc(i, j) PROVE PreVoteStep
  <2>1. messages \subseteq messages' /\ UNCHANGED <<term, state, logOk, intervalOk>>
    BY <1>2 DEF RequestVoteRpc, SendRequestVote, SendRpc, Send, meta, role, voteMgr
  <2> QED
    BY <2>1, SamePreVote
<1>3. ASSUME NEW j \in Server, HeartBeat(i, j) PROVE PreVoteStep
  <2>1. messages \subseteq messages' /\ UNCHANGED <<term, state, logOk, intervalOk>>
    BY <1>3 DEF HeartBeat, SendRpc, Send, meta, role, voteMgr
  <2> QED
    BY <2>1, SamePreVote
<1> QED
  BY <1>1, <1>2, <1>3 DEF Timer

\* A vote request comes from a peer, so its vote is for another server.
LEMMA OnRequestVotePreVote ==
    ASSUME TypeOK, ElectionInv, PreVoteInv, NEW i \in Server, NEW m \in messages,
           OnRequestVote(i, m)
    PROVE  PreVoteStep
<1>1. m \in RequestVoteMsg
  BY MessageKind DEF TypeOK, OnRequestVote
<1>2. m.term \in Nat /\ term[i] \in Nat
  BY <1>1 DEF TypeOK, RequestVoteMsg
<1>3. m.src # i /\ UNCHANGED voteMgr
  BY DEF ElectionInv, OnRequestVote
<1>5. PICK ok \in IntervalOutcomes(i, m) :
         LET t == IF ok /\ m.term > term[i] THEN m.term ELSE term[i]
             gives == ok /\ GivesVote(i, m, t)
             v == IF gives /\ ~m.preVote THEN m.src ELSE VoteAfterStepDown(i, t)
         IN  /\ Send(RequestVoteReply(i, m, t, v, ok))
             /\ IF gives \/ t > term[i]
                THEN StepDownTo(i, t, v, LeaderAfterStepDown(i, t), HeartbeatAfterStepDown(i))
                ELSE UNCHANGED <<meta, role, timerMgr>>
  BY DEF OnRequestVote
<1> DEFINE t == IF ok /\ m.term > term[i] THEN m.term ELSE term[i]
           v == IF ok /\ GivesVote(i, m, t) /\ ~m.preVote THEN m.src ELSE VoteAfterStepDown(i, t)
<1>6. t \in Nat
  BY <1>2
<1>7. /\ Send(RequestVoteReply(i, m, t, v, ok))
      /\ \/ StepDownTo(i, t, v, LeaderAfterStepDown(i, t), HeartbeatAfterStepDown(i))
         \/ UNCHANGED <<meta, role, timerMgr>>
  BY <1>5, Zenon
<1>8. v = m.src \/ v = VoteAfterStepDown(i, t)
  OBVIOUS
<1> HIDE DEF t, v
<1>9. t > term[i] => v # i
  BY <1>2, <1>3, <1>6, <1>8, ServerAssumption DEF VoteAfterStepDown
<1>10. messages \subseteq messages'
  BY <1>7 DEF Send
<1>11. CASE StepDownTo(i, t, v, LeaderAfterStepDown(i, t), HeartbeatAfterStepDown(i))
  BY <1>3, <1>6, <1>9, <1>10, <1>11, StepDownToPreVote
<1>12. CASE UNCHANGED <<meta, role, timerMgr>>
  BY <1>3, <1>10, <1>12, SamePreVote DEF meta, role, voteMgr
<1> QED
  BY <1>7, <1>11, <1>12

\* A pre-vote's answer of this term: its flags join the candidate's, and a majority of flags
\* is a majority of answers.
LEMMA OnPreVoteReplyPreVote ==
    ASSUME TypeOK, PreVoteInv, NEW i \in Server, NEW m \in messages, m \in RequestVoteReplyMsg,
           m.dest = i, m.reqTerm = term[i], OnPreVoteReply(i, m)
    PROVE  PreVoteStep
<1> DEFINE logs == IF m.logOk THEN logOk[i] \cup {m.src} ELSE logOk[i]
           intervals == IF m.intervalOk THEN intervalOk[i] \cup {m.src} ELSE intervalOk[i]
<1>1. m \in PreVoteReplies(i)
  BY DEF PreVoteReplies, OnPreVoteReply, RequestVoteReplyMsg
<1>2. /\ m.logOk => m.src \in LogOkFrom(i)
      /\ m.intervalOk => m.src \in IntervalOkFrom(i)
  BY <1>1 DEF LogOkFrom, IntervalOkFrom
<1>3. state[i] = Candidate => logs \subseteq LogOkFrom(i) /\ intervals \subseteq IntervalOkFrom(i)
  BY <1>2 DEF PreVoteInv, FlagsOf
<1>4. \/ MajorityPreVoteOK(logs, intervals) /\ state[i] = Candidate /\ DoRequestVote(i)
      \/ /\ logOk' = [logOk EXCEPT ![i] = logs]
         /\ intervalOk' = [intervalOk EXCEPT ![i] = intervals]
         /\ UNCHANGED <<meta, role, messages>>
  BY DEF OnPreVoteReply
<1> HIDE DEF logs, intervals
<1>5. ASSUME MajorityPreVoteOK(logs, intervals), state[i] = Candidate, DoRequestVote(i)
      PROVE  PreVoteStep
  <2>1. logs \cap intervals \subseteq PreVoters(i)
    BY <1>3, <1>5 DEF PreVoters
  <2>2. PreVoters(i) \subseteq Server
    <3>1. \A n \in PreVoteReplies(i) : n.src \in Server
      <4> SUFFICES ASSUME NEW n \in PreVoteReplies(i) PROVE n.src \in Server
        OBVIOUS
      <4>1. n \in messages /\ n.type = "RequestVoteReply"
        BY DEF PreVoteReplies
      <4>2. n \in RequestVoteReplyMsg
        BY <4>1, MessageKind DEF TypeOK
      <4> QED
        BY <4>2 DEF RequestVoteReplyMsg
    <3> QED
      BY <3>1 DEF PreVoters, LogOkFrom
  <2>3. IsFiniteSet(PreVoters(i))
    BY <2>2, ServerAssumption, FS_Subset
  <2>4. /\ Cardinality(logs \cap intervals) <= Cardinality(PreVoters(i))
        /\ Cardinality(logs \cap intervals) \in Nat /\ Cardinality(PreVoters(i)) \in Nat
    BY <2>1, <2>3, FS_Subset, FS_CardinalityType
  <2>5. Cardinality(logs \cap intervals) + 1 >= VoteThreshold /\ VoteThreshold \in Nat
    BY <1>5, ServerFacts DEF MajorityPreVoteOK, VoteThreshold
  <2>6. Asked(i)
    BY <2>4, <2>5 DEF Asked
  <2> QED
    BY <1>5, <2>6, DoRequestVotePreVote
<1>6. ASSUME logOk' = [logOk EXCEPT ![i] = logs],
             intervalOk' = [intervalOk EXCEPT ![i] = intervals],
             UNCHANGED <<meta, role, messages>>
      PROVE  PreVoteStep
  <2>1. logOk'[i] = logs /\ intervalOk'[i] = intervals
    BY <1>6 DEF TypeOK
  <2>2. term' = term /\ state' = state /\ messages' = messages
    BY <1>6 DEF meta, role
  <2>3. LogOkFrom(i) \subseteq LogOkFrom(i)' /\ IntervalOkFrom(i) \subseteq IntervalOkFrom(i)'
    BY <2>2, AnswersStay
  <2>4. FlagsOf(i)'
    BY <1>3, <2>1, <2>2, <2>3 DEF FlagsOf
  <2>5. Asked(i)
    BY <2>2 DEF TypeOK, Asked
  <2>6. \A k \in Peers(i) : KeepsFlags(k)
    BY <1>6, <2>2 DEF TypeOK, KeepsFlags, Peers
  <2> QED
    BY <2>2, <2>4, <2>5, <2>6, OneServerPreVote
<1> QED
  BY <1>4, <1>5, <1>6

LEMMA OnLargerTermPreVote ==
    ASSUME TypeOK, PreVoteInv, NEW i \in Server, NEW m, m.term \in Nat, OnLargerTerm(i, m)
    PROVE  PreVoteStep
BY StepDownPreVote DEF OnLargerTerm

LEMMA OnRequestVoteReplyPreVote ==
    ASSUME TypeOK, PreVoteInv, NEW i \in Server, NEW m \in messages, OnRequestVoteReply(i, m)
    PROVE  PreVoteStep
<1>1. m \in RequestVoteReplyMsg /\ m.dest = i /\ m.reqTerm = term[i]
  BY MessageKind DEF TypeOK, OnRequestVoteReply, ReplyInTime
<1>2. m.term \in Nat
  BY <1>1 DEF RequestVoteReplyMsg
<1>3. ASSUME OnVoteReply(i, m) PROVE PreVoteStep
  <2>1. UNCHANGED <<term, logOk, intervalOk, messages>>
    BY <1>3 DEF OnVoteReply, meta
  <2>2. ASSUME BecomeLeader(i, term[i]) PROVE PreVoteStep
    <3>1. \A k \in Peers(i) : KeepsFlags(k)
      BY <2>1, <2>2 DEF TypeOK, BecomeLeader, KeepsFlags, Peers
    <3>2. state'[i] = Leader
      BY <2>2 DEF TypeOK, BecomeLeader
    <3>3. FlagsOf(i)'
      BY <3>2 DEF FlagsOf, Leader, Candidate
    <3>4. Asked(i)
      BY <2>1 DEF TypeOK, Asked
    <3> QED
      BY <2>1, <3>1, <3>3, <3>4, OneServerPreVote
  <2>3. ASSUME UNCHANGED role PROVE PreVoteStep
    BY <2>1, <2>3, SamePreVote DEF role
  <2> QED
    BY <1>3, <2>2, <2>3 DEF OnVoteReply
<1> QED
  BY <1>1, <1>2, <1>3, OnLargerTermPreVote, OnPreVoteReplyPreVote DEF OnRequestVoteReply

LEMMA OnAppendEntriesPreVote ==
    ASSUME TypeOK, PreVoteInv, NEW i \in Server, NEW m \in messages, OnAppendEntries(i, m)
    PROVE  PreVoteStep
<1>1. UNCHANGED voteMgr /\ m \in AppendEntriesMsg
  BY MessageKind DEF TypeOK, OnAppendEntries
<1>2. m.term \in Nat /\ term[i] \in Nat
  BY <1>1 DEF TypeOK, AppendEntriesMsg
<1>3. messages \subseteq messages'
  BY DEF OnAppendEntries, RejectStale, RejectMismatch, Accept, Send
<1>4. CASE RejectStale(i, m)
  BY <1>1, <1>3, <1>4, SamePreVote DEF RejectStale, meta, role, voteMgr
<1>5. CASE FollowLeader(i, m)
  <2>1. m.term > term[i] => VoteAfterStepDown(i, m.term) # i
    BY <1>2, ServerAssumption DEF VoteAfterStepDown
  <2> QED
    BY <1>1, <1>2, <1>3, <1>5, <2>1, StepDownToPreVote DEF FollowLeader
<1> QED
  BY <1>4, <1>5 DEF OnAppendEntries, RejectMismatch, Accept

LEMMA OnAppendEntriesReplyPreVote ==
    ASSUME TypeOK, PreVoteInv, NEW i \in Server, NEW m \in messages, OnAppendEntriesReply(i, m)
    PROVE  PreVoteStep
<1>1. m.term \in Nat
  BY MessageKind DEF TypeOK, OnAppendEntriesReply, AppendEntriesReplyMsg
<1>2. CASE AbortNotLeader(i, m)
  BY <1>2, LoseVolatilePreVote DEF AbortNotLeader
<1>3. CASE OnAppendReplyOfTerm(i, m)
  <2>1. messages \subseteq messages'
    BY <1>3 DEF OnAppendReplyOfTerm, SendAll
  <2>2. UNCHANGED <<meta, role, voteMgr>>
    BY <1>3 DEF OnAppendReplyOfTerm
  <2> QED
    BY <2>1, <2>2, SamePreVote DEF meta, role, voteMgr
<1> QED
  BY <1>1, <1>2, <1>3, OnLargerTermPreVote DEF OnAppendEntriesReply

LEMMA OnTimeoutNowPreVote ==
    ASSUME TypeOK, PreVoteInv, NEW i \in Server, NEW m \in messages, OnTimeoutNow(i, m)
    PROVE  PreVoteStep
<1>1. m.term \in Nat
  BY MessageKind DEF TypeOK, OnTimeoutNow, TimeoutNowMsg
<1>2. UNCHANGED <<messages, voteMgr>>
  BY DEF OnTimeoutNow
<1>3. CASE StepDown(i, m.term)
  BY <1>1, <1>2, <1>3, StepDownPreVote
<1>4. CASE UNCHANGED <<meta, role, timerMgr>>
  BY <1>2, <1>4, SamePreVote DEF meta, role, voteMgr
<1> QED
  BY <1>3, <1>4 DEF OnTimeoutNow

LEMMA ClientPreVote ==
    ASSUME TypeOK, PreVoteInv, NEW i \in Server, Client(i)
    PROVE  PreVoteStep
<1>1. messages \subseteq messages'
  BY DEF Client, Propose, LeaderTransfer, Send, SendAll
<1>2. UNCHANGED <<meta, role, voteMgr>>
  BY DEF Client, Propose, LeaderTransfer
<1> QED
  BY <1>1, <1>2, SamePreVote DEF meta, role, voteMgr

LEMMA RestartPreVote ==
    ASSUME TypeOK, PreVoteInv, NEW i \in Server, Restart(i)
    PROVE  PreVoteStep
<1>1. CASE Stop(i)
  BY <1>1, SamePreVote DEF Stop, meta, role, voteMgr
<1>2. CASE Crash(i)
  BY <1>2, LoseVolatilePreVote DEF Crash
<1>3. CASE Start(i)
  <2>1. term[i] \in Nat
    BY DEF TypeOK
  <2> QED
    BY <1>3, <2>1, StepDownPreVote DEF Start
<1> QED
  BY <1>1, <1>2, <1>3 DEF Restart

LEMMA NextPreVote ==
    TypeOK /\ ElectionInv /\ PreVoteInv /\ [Next]_vars
      => PreVoteInv' /\ \A i \in Server : Asked(i)
<1> SUFFICES ASSUME TypeOK, ElectionInv, PreVoteInv, [Next]_vars
             PROVE  PreVoteStep
  BY DEF PreVoteStep
<1>1. CASE UNCHANGED vars
  BY <1>1, SamePreVote DEF vars, meta, role, voteMgr
<1>2. ASSUME NEW i \in Server, NEW m \in messages, Receive(i, m)
      PROVE  PreVoteStep
  BY <1>2, OnRequestVotePreVote, OnRequestVoteReplyPreVote, OnAppendEntriesPreVote,
     OnAppendEntriesReplyPreVote, OnTimeoutNowPreVote DEF Receive
<1> QED
  BY <1>1, <1>2, TimerPreVote, ClientPreVote, RestartPreVote DEF Next

\* With pre-vote on, no server of a cluster of two or more starts an election of a new term
\* before half of the cluster has said in its present term that it could win: whatever the
\* messages lost, delayed or delivered twice, the leader transfers and the restarts.
THEOREM ElectionsArePreVoted == Spec => PreVoteBeforeElection
<1>1. Init => PreVoteInv
  BY DEF Init, InitFrom, PreVoteInv, FlagsOf, Follower, Candidate
<1>2. Spec => []PreVoteInv
  BY <1>1, TypeCorrect, VotesBackLeaders, NextPreVote, PTL DEF Spec
<1>3. TypeOK /\ ElectionInv /\ PreVoteInv /\ [Next]_vars
        => [EnablePreVote /\ Cardinality(Server) > 1 =>
              \A i \in Server : term'[i] > term[i] /\ vote'[i] = i
                                  => Cardinality(PreVoters(i)) + 1 >= VoteThreshold]_vars
  BY NextPreVote DEF Asked
<1> QED
  BY <1>2, <1>3, TypeCorrect, VotesBackLeaders, PTL DEF Spec, PreVoteBeforeElection
=============================================================================
