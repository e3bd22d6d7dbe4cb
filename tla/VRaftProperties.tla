-------------------------- MODULE VRaftProperties --------------------------
(***************************************************************************)
(* What the consensus core of vraft promises, stated over the model VRaft. *)
(***************************************************************************)
EXTENDS VRaft

\* The type of every variable of the model: the fields of Raft, SolidData, RaftLog,
\* VoteManager, IndexManager and TimerManager.  next never reaches 0, which
\* SendAppendEntries would turn into a huge unsigned pre_index.
TypeOK ==
    /\ term \in [Server -> Nat]
    /\ vote \in [Server -> Server \cup {Nil}]
    /\ log \in [Server -> Seq(Entry)]
    /\ sm \in [Server -> [last: Nat, applied: [Index -> Seq(Entry)]]]
    /\ started \in [Server -> BOOLEAN]
    /\ state \in [Server -> {Follower, Candidate, Leader}]
    /\ leader \in [Server -> Server \cup {Nil}]
    /\ commit \in [Server -> Nat]
    /\ lastApply \in [Server -> Nat]
    /\ lastHeartbeat \in [Server -> {NeverHeard, Heard, IamLeader}]
    /\ preVoting \in [Server -> BOOLEAN]
    /\ leaderTransfer \in [Server -> BOOLEAN]
    /\ transferMaxTerm \in [Server -> Nat]
    /\ grant \in [Server -> SUBSET Server]
    /\ logOk \in [Server -> SUBSET Server]
    /\ intervalOk \in [Server -> SUBSET Server]
    /\ next \in [Server -> [Server -> Nat \ {0}]]
    /\ match \in [Server -> [Server -> Nat]]
    /\ electionTimer \in [Server -> BOOLEAN]
    /\ requestVoteTimers \in [Server -> SUBSET Server]
    /\ heartbeatTimers \in [Server -> SUBSET Server]
    /\ messages \subseteq Message
    /\ elected \subseteq Nat \X Server
    /\ used \in [Bounded -> Nat]

-----------------------------------------------------------------------------
(***************************************************************************)
(* Elections                                                               *)
(***************************************************************************)

\* At most one server becomes leader in a term, over the whole behaviour: crashes,
\* restarts, late vote replies and a candidate's return to an old term through pre-vote
\* included.  Remu::CheckLeader asserts it of the leaders of one moment.
ElectionSafety == \A e, f \in elected : e[1] = f[1] => e[2] = f[2]

\* A ballot is a granting reply; one from k for i in term t is or was on the network.
Ballot(m) == m.type = "RequestVoteReply" /\ m.granted
HasBallot(k, i, t) == \E m \in messages : Ballot(m) /\ m.src = k /\ m.dest = i /\ m.term = t

\* k stands behind i in term t: with a ballot, or, being i, with the vote it gave itself
\* and can give to nobody else.
Backs(k, i, t) ==
    IF k # i THEN HasBallot(k, i, t)
    ELSE /\ term[i] >= t
         /\ term[i] = t => vote[i] = i
         /\ \A j \in Server : HasBallot(i, j, t) => j = i

BackedBy(Q, i, t) == Q \subseteq Server /\ \A k \in Q : Backs(k, i, t)

\* Why the election is safe.  Vote requests and ballots go to peers; a ballot tells what
\* SolidData::vote of its sender is, or was in an older term; a server never gives two
\* candidates a ballot in one term; a candidate's VoteManager counts only ballots of its
\* current term, never one left over from an earlier round; and every leader there has been
\* is backed by as many servers as VoteManager::Majority asks for.
ElectionInv ==
    /\ \A i \in Server : requestVoteTimers[i] \subseteq Peers(i)
    /\ \A m \in messages : m.type = "RequestVote" \/ Ballot(m) => m.src # m.dest
    /\ \A m \in messages :
          Ballot(m) => /\ m.term <= term[m.src]
                       /\ m.term = term[m.src] => vote[m.src] = m.dest
    /\ \A i, j, k \in Server : \A m \in messages :
          Ballot(m) /\ m.src = k /\ m.dest = i /\ HasBallot(k, j, m.term) => i = j
    /\ \A i \in Server : \A k \in grant[i] :
          state[i] = Candidate => k # i /\ HasBallot(k, i, term[i])
    /\ \A e \in elected : \E Q \in SUBSET Server :
          Cardinality(Q) >= VoteThreshold /\ BackedBy(Q, e[2], e[1])

\* A step that lowers no term and changes no vote within a term
KeepsVotes ==
    \A i \in Server : /\ term'[i] >= term[i]
                      /\ term'[i] = term[i] /\ vote[i] # Nil => vote'[i] = vote[i]

\* SolidData: the term never decreases, and a vote once given is kept for the rest of
\* its term, through StepDown, pre-vote, Stop and Start, and a crash.
VoteStable == [][KeepsVotes]_vars

\* The timers armed are those of the server's role, so none of the assertions at the head
\* of Elect, RequestVoteRpc and HeartBeat can fail; and a running server that is not leader
\* always has its election timer armed, a leader its heartbeat timers.
TimersMatchRole ==
    \A i \in Server :
        /\ requestVoteTimers[i] # {} => state[i] = Candidate
        /\ heartbeatTimers[i] = IF started[i] /\ state[i] = Leader THEN Peers(i) ELSE {}
        /\ electionTimer[i] <=> started[i] /\ state[i] # Leader

\* assert(leader_ == msg.src) in OnAppendEntries: a server that knows a leader of its term
\* never receives AppendEntries of that term from another server.  The cache outlives a
\* step-down within the term, a stop and a start.
LeaderCacheSound ==
    \A m \in messages :
        m.type = "AppendEntries" /\ started[m.dest] /\ m.term >= term[m.dest]
          => LeaderAfterStepDown(m.dest, m.term) \in {Nil, m.src}

\* The answers to i's pre-vote of its current term
PreVoteReplies(i) ==
    {m \in messages : /\ m.type = "RequestVoteReply" /\ m.dest = i
                      /\ m.preVote /\ m.reqTerm = term[i]}

\* The peers that said, in that term, that i's log is up to date and that they have no recent
\* leader.  A peer that is asked twice may say the two things in two answers: VoteManager
\* keeps the flags apart.
LogOkFrom(i) == {m.src : m \in {n \in PreVoteReplies(i) : n.logOk}}
IntervalOkFrom(i) == {m.src : m \in {n \in PreVoteReplies(i) : n.intervalOk}}
PreVoters(i) == LogOkFrom(i) \cap IntervalOkFrom(i)

\* With pre-vote on, a server raises its own term and votes for itself only after half of
\* the cluster, itself included, said in that very term that it could win: stale flags of
\* an earlier pre-vote never count.
PreVoteBeforeElection ==
    [][EnablePreVote /\ Cardinality(Server) > 1 =>
         \A i \in Server : term'[i] > term[i] /\ vote'[i] = i
                             => Cardinality(PreVoters(i)) + 1 >= VoteThreshold]_vars

-----------------------------------------------------------------------------
(***************************************************************************)
(* Replication                                                             *)
(***************************************************************************)

\* Two logs that hold an entry of the same term at the same index are equal up to it.
LogMatching ==
    \A i, j \in Server : \A k \in 1..Min({Len(log[i]), Len(log[j])}) :
        log[i][k].term = log[j][k].term => SubSeq(log[i], 1, k) = SubSeq(log[j], 1, k)

\* A leader's log holds every entry that a server of its term or an older one has
\* committed, whatever leader committed it.
LeaderCompleteness ==
    \A i, j \in Server :
        state[i] = Leader /\ term[j] <= term[i] =>
            /\ commit[j] <= Len(log[i])
            /\ SubSeq(log[i], 1, commit[j]) = SubSeq(log[j], 1, commit[j])

\* The state machine on disk holds exactly the data entries of the log up to its last
\* index, each applied once: no restart, replay of the log or truncation loses one,
\* repeats one or leaves one that the log no longer holds.
AppliedMatchesLog ==
    \A i \in Server :
        /\ sm[i].last <= Len(log[i])
        /\ \A k \in Index : sm[i].applied[k] = IF k <= sm[i].last /\ log[i][k].value # Noop
                                               THEN <<log[i][k]>> ELSE <<>>

\* Two servers' state machines never apply different entries at one index.
StateMachineSafety ==
    \A i, j \in Server : \A k \in Index :
        sm[i].applied[k] # <<>> /\ sm[j].applied[k] # <<>>
          => sm[i].applied[k][1] = sm[j].applied[k][1]

\* assert(commit_ < index) in OnAppendEntries: no message on its way, however late or
\* duplicated, can make a server truncate an entry it has committed.
CommittedNotOverwritten ==
    \A m \in messages :
        /\ m.type = "AppendEntries" /\ started[m.dest] /\ m.term >= term[m.dest]
        /\ PreLogMatches(log[m.dest], m) /\ Conflicts(log[m.dest], m)
        => commit[m.dest] <= m.preLogIndex

\* A leader's match index tells the truth: a follower still in the leader's term holds the
\* leader's log up to it, whatever replies were reordered or repeated.
MatchIndexSound ==
    \A i, j \in Server :
        state[i] = Leader /\ j # i /\ term[j] = term[i] =>
            /\ match[i][j] <= Len(log[i])
            /\ match[i][j] <= Len(log[j])
            /\ SubSeq(log[i], 1, match[i][j]) = SubSeq(log[j], 1, match[i][j])

\* assert(pre_index <= last_index) in SendAppendEntries and assert(commit_ <= LastIndex())
\* in OnAppendEntries and MaybeCommit: a leader never looks beyond its log, nor does any
\* server commit beyond its own.
IndicesWithinLog ==
    \A i \in Server :
        /\ commit[i] <= Len(log[i])
        /\ state[i] = Leader => \A j \in Peers(i) : next[i][j] <= Len(log[i]) + 1

\* What assert(state_ == STATE_LEADER) in OnAppendEntriesReply claims: a reply that is not
\* dropped as stale finds the server still leader.
ReplyFindsLeader ==
    \A m \in messages :
        m.type = "AppendEntriesReply" /\ started[m.dest] /\ ReplyInTime(m.dest, m)
          => state[m.dest] = Leader
=============================================================================
