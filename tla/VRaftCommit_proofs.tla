------------------------- MODULE VRaftCommit_proofs -------------------------
(***************************************************************************)
(* Proofs about what leaders may choose.  An index of a leader's log is    *)
(* choosable while enough servers have acknowledged it or still can; once  *)
(* it is, every later leader has it, because every voter that acknowledged *)
(* it refuses a candidate whose log lacks it.                              *)
(***************************************************************************)
EXTENDS VRaftLog_proofs

\* Server j has acknowledged n entries to the leader of term t, or is that leader.
HasAcked(L, j, t, n) ==
    \/ \E m \in messages : Acknowledges(m) /\ m.src = j /\ m.term = t /\ n <= Acked(m)
    \/ <<t, j>> \in elected /\ n <= Len(L[t])

\* The servers MajorityMax asks for: all but (size - 1) / 2.
CommitQuorum(Q) ==
    Q \subseteq Server /\ Cardinality(Q) + (Cardinality(Server) - 1) \div 2 >= Cardinality(Server)

\* Index n may be, or become, one that the leader of term t commits by counting.
Choosable(L, t, n) ==
    /\ n \in DOMAIN L[t] => L[t][n].term = t
    /\ \E Q \in SUBSET Server :
          CommitQuorum(Q) /\ \A j \in Q : HasAcked(L, j, t, n) \/ term[j] <= t

Position == Nat \ {0}

\* A later leader has it.
ChoiceKept(L) ==
    \A t, u \in Nat, n \in Position :
        t < u /\ HasLeader(u) /\ Choosable(L, t, n) => Agree(L[u], L[t], n)

\* Who has acknowledged it has it for ever.
AckersKeep(L) ==
    \A t \in Nat, n \in Position, j \in Server :
        Choosable(L, t, n) /\ HasAcked(L, j, t, n) => Agree(log[j], L[t], n)

\* j is for i in i's term: its ballot is on the network, or its vote on disk.
Supports(j, i) ==
    j # i /\ (HasBallot(j, i, term[i]) \/ (vote[j] = i /\ term[j] = term[i]))

\* What a supporter has acknowledged the candidate has.
SupportersKnow(L) ==
    \A i, j \in Server : Supports(j, i) /\ ~HasLeader(term[i]) =>
        \A t \in Nat, n \in Position :
            t < term[i] /\ Choosable(L, t, n) /\ HasAcked(L, j, t, n) => Agree(log[i], L[t], n)

\* Votes are for servers that have reached the term.
VotesInPast ==
    /\ \A m \in messages : Ballot(m) => m.term <= term[m.dest]
    /\ \A i, j \in Server : j # i /\ vote[j] = i => term[j] <= term[i]

\* A vote request tells the candidate's log as long as the term has no leader.
RequestTrue(m) ==
    /\ m.term <= term[m.src]
    /\ m.term = term[m.src] /\ ~HasLeader(m.term) =>
         m.lastLogIndex = LastIndex(log[m.src]) /\ m.lastLogTerm = LastTerm(log[m.src])

RequestsTrue == \A m \in messages : m.type = "RequestVote" => RequestTrue(m)

ChoiceInv(L) ==
    ChoiceKept(L) /\ AckersKeep(L) /\ SupportersKnow(L) /\ VotesInPast /\ RequestsTrue

-----------------------------------------------------------------------------
(***************************************************************************)
(* Acknowledgements and quorums                                            *)
(***************************************************************************)

LEMMA AckedFacts ==
    ASSUME TypeOK, NEW L \in LeaderLogs, LeadersHold(L), AcksSound(L),
           NEW j \in Server, NEW t \in Nat, NEW n \in Position, HasAcked(L, j, t, n)
    PROVE  /\ n <= Len(L[t]) /\ t <= term[j]
           /\ term[j] = t => Agree(log[j], L[t], n)
<1>1. L[t] \in Seq(Entry) /\ log[j] \in Seq(Entry) /\ n \in Nat
  BY DEF LeaderLogs, TypeOK, Position
<1>2. ASSUME NEW m \in messages, Acknowledges(m), m.src = j, m.term = t, n <= Acked(m)
      PROVE  n <= Len(L[t]) /\ t <= term[j] /\ (term[j] = t => Agree(log[j], L[t], n))
  <2>1. Acked(m) \in Nat
    BY <1>2, AckType
  <2>2. /\ Acked(m) <= Len(L[t]) /\ t <= term[j]
        /\ term[j] = t => Agree(log[j], L[t], Acked(m))
    BY <1>2 DEF AcksSound, AckSound
  <2>3. Len(L[t]) \in Nat
    BY <1>1
  <2> QED
    BY <1>1, <1>2, <2>1, <2>2, <2>3, AgreeLess
<1>3. CASE <<t, j>> \in elected /\ n <= Len(L[t])
  BY <1>1, <1>3 DEF LeadersHold, Agree
<1> QED
  BY <1>2, <1>3 DEF HasAcked

\* A step adds acknowledgements of its sender's present term only.
LEMMA AckedBefore ==
    ASSUME TypeOK, TypeOK', ElectionStep, ElectionSafety', NEW L \in LeaderLogs,
           NEW M \in LeaderLogs, ReplicaStep(L, M), NEW j \in Server, NEW t \in Nat,
           NEW n \in Position, HasAcked(M, j, t, n)', term'[j] # t
    PROVE  HasAcked(L, j, t, n)
<1>1. ASSUME NEW m \in messages', Acknowledges(m), m.src = j, m.term = t, n <= Acked(m)
      PROVE  HasAcked(L, j, t, n)
  <2>1. m \in messages
    BY <1>1 DEF ReplicaStep, NetLogStep
  <2> QED
    BY <1>1, <2>1 DEF HasAcked
<1>2. CASE <<t, j>> \in elected' /\ n <= Len(M[t])
  <2>1. <<t, j>> \in elected
    BY <1>2 DEF ElectionStep, LeaderStep
  <2>2. M[t] = L[t]
    <3>1. ASSUME NEW i \in Server, Appends(i, L, M)
          PROVE  M[t] = L[t]
      <4>1. term'[i] # t
        <5> SUFFICES ASSUME term'[i] = t
                     PROVE  FALSE
          OBVIOUS
        <5>1. <<t, i>> \in elected'
          BY <3>1 DEF Appends
        <5>2. i = j
          BY <1>2, <5>1 DEF ElectionSafety
        <5> QED
          BY <5>2
      <4> QED
        BY <3>1, <4>1 DEF Appends, LeaderLogs
    <3> QED
      BY <3>1 DEF ReplicaStep, LogStep, SameLogs, Merges
  <2> QED
    BY <1>2, <2>1, <2>2 DEF HasAcked
<1>3. \/ \E m \in messages' : Acknowledges(m) /\ m.src = j /\ m.term = t /\ n <= Acked(m)
      \/ <<t, j>> \in elected' /\ n <= Len(M[t])
  BY DEF HasAcked, Acknowledges, Acked
<1> QED
  BY <1>1, <1>2, <1>3

\* Acknowledgements stay.
LEMMA AckedStays ==
    ASSUME TypeOK, TypeOK', NEW L \in LeaderLogs, NEW M \in LeaderLogs, Continues(L, M),
           messages \subseteq messages', elected \subseteq elected',
           NEW j, NEW t \in Nat, NEW n \in Position, HasAcked(L, j, t, n)
    PROVE  HasAcked(M, j, t, n)'
<1>1. n \in Nat /\ L[t] \in Seq(Entry) /\ M[t] \in Seq(Entry)
  BY DEF Position, LeaderLogs
<1>2. Len(L[t]) <= Len(M[t]) /\ Len(L[t]) \in Nat /\ Len(M[t]) \in Nat
  BY <1>1 DEF Continues, Agree
<1>3. \/ \E m \in messages' : Acknowledges(m) /\ m.src = j /\ m.term = t /\ n <= Acked(m)
      \/ <<t, j>> \in elected' /\ n <= Len(M[t])
  BY <1>1, <1>2 DEF HasAcked
<1> QED
  BY <1>3 DEF HasAcked, Acknowledges, Acked

\* What is choosable after a step was choosable before.
LEMMA ChoosableBefore ==
    ASSUME TypeOK, TypeOK', ElectionStep, ElectionSafety', NEW L \in LeaderLogs,
           NEW M \in LeaderLogs, Continues(L, M), ReplicaStep(L, M), NEW t \in Nat,
           NEW n \in Position, Choosable(M, t, n)'
    PROVE  Choosable(L, t, n)
<1>1. n \in Nat /\ L[t] \in Seq(Entry) /\ M[t] \in Seq(Entry)
  BY DEF Position, LeaderLogs
<1>2. n \in DOMAIN L[t] => n \in DOMAIN M[t] /\ L[t][n] = M[t][n]
  BY <1>1 DEF Continues, Agree
<1>3. n \in DOMAIN M[t] => M[t][n].term = t
  BY DEF Choosable
<1>4. PICK Q \in SUBSET Server :
         CommitQuorum(Q) /\ \A j \in Q : HasAcked(M, j, t, n)' \/ term'[j] <= t
  BY DEF Choosable, CommitQuorum
<1>5. ASSUME NEW j \in Q
      PROVE  HasAcked(L, j, t, n) \/ term[j] <= t
  <2>1. /\ j \in Server /\ term[j] \in Nat /\ term'[j] \in Nat /\ term[j] <= term'[j]
    BY DEF TypeOK, ElectionStep, KeepsVotes
  <2>2. CASE term'[j] <= t
    BY <2>1, <2>2
  <2>3. CASE HasAcked(M, j, t, n)' /\ term'[j] # t
    BY <2>1, <2>3, AckedBefore
  <2> QED
    BY <1>4, <2>1, <2>2, <2>3
<1> QED
  BY <1>2, <1>3, <1>4, <1>5 DEF Choosable

\* A quorum for an election and one for a commit share a server, whatever the cluster's size.
LEMMA QuorumsMeet ==
    ASSUME NEW Q, CommitQuorum(Q), NEW V \in SUBSET Server, Cardinality(V) >= VoteThreshold
    PROVE  \E j \in Q : j \in V
<1>1. Q \subseteq Server /\ Cardinality(Q) \in Nat /\ Cardinality(V) \in Nat
      /\ Cardinality(Server) \in Nat
  BY ServerFacts DEF CommitQuorum
<1>2. Cardinality(Q) + Cardinality(V) > Cardinality(Server)
  BY <1>1 DEF CommitQuorum, VoteThreshold
<1>3. Q \cap V # {}
  BY <1>1, <1>2, ServerFacts, FS_MajoritiesIntersect
<1> QED
  BY <1>3

\* The check of OnRequestVote: a candidate whose log passes it has every choosable entry
\* that the voter has acknowledged.
LEMMA UpToDate ==
    ASSUME TypeOK, NEW L \in LeaderLogs, LogsRooted(L), LeadersHold(L), ChoiceKept(L),
           NEW i \in Server, NEW j \in Server, NEW t \in Nat, NEW n \in Position,
           Choosable(L, t, n), Agree(log[j], L[t], n),
           NEW m, m.lastLogIndex = LastIndex(log[i]), m.lastLogTerm = LastTerm(log[i]),
           CandidateLogOk(m, log[j])
    PROVE  Agree(log[i], L[t], n)
<1> DEFINE p == Len(log[i])
           q == Len(log[j])
           x == LastTerm(log[i])
           w == LastTerm(log[j])
<1>1. /\ log[i] \in Seq(Entry) /\ log[j] \in Seq(Entry) /\ L[t] \in Seq(Entry)
      /\ term[i] \in Nat /\ term[j] \in Nat
  BY DEF TypeOK, LeaderLogs
<1>2. p \in Nat /\ q \in Nat /\ x \in Nat /\ w \in Nat /\ n \in Nat /\ n >= 1
  BY <1>1, LogFacts, SMTT(30) DEF Position
<1>3. n <= q /\ n <= Len(L[t]) /\ log[j][n] = L[t][n]
  BY <1>2 DEF Agree
<1>4. n \in DOMAIN L[t] /\ L[t][n].term = t
  <2>1. n \in DOMAIN L[t]
    BY <1>1, <1>2, <1>3
  <2> QED
    BY <2>1 DEF Choosable
<1>5. /\ \A s \in Nat : Rooted(L[s], L, s)
      /\ Rooted(log[i], L, term[i]) /\ Rooted(log[j], L, term[j])
  BY DEF LogsRooted
<1>6. q \in DOMAIN log[j] /\ w = log[j][q].term /\ n \in DOMAIN log[j]
  BY <1>1, <1>2, <1>3 DEF LastTerm
<1>7. t <= w
  <2>1. log[j][n].term <= log[j][q].term
    BY <1>1, <1>2, <1>3, <1>5, <1>6, TermsAscend
  <2> QED
    BY <1>3, <1>4, <1>6, <2>1
<1>8. x > w \/ (x = w /\ p >= q)
  BY DEF CandidateLogOk, LastIndex
<1>9. p >= 1
  <2>1. p = 0 => x = 0
    BY DEF LastTerm
  <2> QED
    BY <1>2, <1>3, <1>8, <2>1
<1>10. p \in DOMAIN log[i] /\ x = log[i][p].term
  BY <1>1, <1>2, <1>9 DEF LastTerm
<1>11. Agree(log[i], L[x], p) /\ L[x] \in Seq(Entry)
  BY <1>2, <1>5, <1>10 DEF Rooted, LeaderLogs
<1> HIDE DEF p, q, x, w
<1>12. CASE x = w /\ p >= q
  <2>1. Agree(log[j], L[w], q)
    BY <1>5, <1>6 DEF Rooted
  <2>2. Agree(log[j], L[w], n)
    BY <1>1, <1>2, <1>3, <1>11, <1>12, <2>1, AgreeLess
  <2>3. Agree(log[i], L[w], n)
    BY <1>1, <1>2, <1>3, <1>11, <1>12, AgreeLess
  <2>4. Agree(L[w], log[j], n)
    BY <2>2, AgreeSym
  <2> QED
    BY <2>3, <2>4, AgreeTrans
<1>13. CASE x > w
  <2>1. L[x] # <<>>
    <3>1. Len(L[x]) >= 1
      BY <1>2, <1>9, <1>11 DEF Agree
    <3> QED
      BY <3>1
  <2>2. t < x /\ HasLeader(x)
    BY <1>2, <1>7, <1>13, <2>1 DEF LeadersHold
  <2>3. Agree(L[x], L[t], n)
    BY <1>2, <2>2 DEF ChoiceKept
  <2>4. n <= p
    <3> SUFFICES ASSUME p < n
                 PROVE  FALSE
      BY <1>2
    <3>1. n <= Len(L[x]) /\ L[x][n] = L[t][n]
      BY <1>2, <2>3 DEF Agree
    <3>2. L[x][p] = log[i][p]
      BY <1>2, <1>9, <1>11 DEF Agree
    <3>3. p \in DOMAIN L[x] /\ n \in DOMAIN L[x] /\ p <= n
      BY <1>2, <1>9, <1>11, <3>1
    <3>4. L[x][p].term <= L[x][n].term
      BY <1>2, <1>5, <1>11, <3>3, TermsAscend
    <3>5. x <= t
      BY <1>4, <1>10, <3>1, <3>2, <3>4
    <3> QED
      BY <1>2, <2>2, <3>5
  <2>5. Agree(log[i], L[x], n)
    BY <1>1, <1>2, <1>11, <2>4, AgreeLess
  <2> QED
    BY <2>3, <2>5, AgreeTrans
<1> QED
  BY <1>8, <1>12, <1>13

-----------------------------------------------------------------------------
(***************************************************************************)
(* What a step may do to votes and vote requests, and how it keeps the     *)
(* invariant.                                                              *)
(***************************************************************************)

\* A new request tells its sender's term and log.
AsksStep ==
    \A m \in messages' \ messages : m.type = "RequestVote" =>
        /\ m.term = term'[m.src]
        /\ m.lastLogIndex = LastIndex(log'[m.src]) /\ m.lastLogTerm = LastTerm(log'[m.src])

\* A vote for a peer is one it had in this term, or answers a request of this term whose
\* log is good enough.
VoteStep ==
    \A i, j \in Server : j # i /\ vote'[j] = i =>
        \/ vote[j] = i /\ term'[j] = term[j]
        \/ \E m \in messages : /\ m.type = "RequestVote" /\ m.src = i /\ m.term = term'[j]
                               /\ CandidateLogOk(m, log[j])

CanvassStep == AsksStep /\ VoteStep

\* Everything a step of the system is known to do.
ChoiceStep(L, M) == ElectionStep /\ ReplicaStep(L, M) /\ CanvassStep

\* The log of a server changes only in a term that has a leader after the step.
LEMMA LogChanges ==
    ASSUME TypeOK, TypeOK', LeaderInv, NEW L \in LeaderLogs, LogInvWith(L), NEW M,
           ReplicaStep(L, M), NEW i \in Server, log'[i] # log[i]
    PROVE  HasLeader(term[i])'
<1>1. ASSUME NEW k \in Server, Appends(k, L, M)
      PROVE  HasLeader(term[i])'
  <2>1. k = i
    BY <1>1 DEF Appends, TypeOK
  <2> QED
    BY <1>1, <2>1 DEF Appends, HasLeader
<1>2. ASSUME NEW k \in Server, NEW m \in messages, Merges(k, m, L, M)
      PROVE  HasLeader(term[i])'
  <2>1. k = i /\ term'[i] = m.term /\ m.type = "AppendEntries" /\ elected' = elected
    BY <1>2 DEF Merges, TypeOK
  <2>2. <<m.term, m.src>> \in elected
    BY <2>1 DEF LeaderInv
  <2>3. m.src \in Server
    BY <2>2 DEF TypeOK
  <2> QED
    BY <2>1, <2>2, <2>3 DEF HasLeader
<1> QED
  BY <1>1, <1>2 DEF ReplicaStep, LogStep, SameLogs

LEMMA StepRequests ==
    ASSUME TypeOK, TypeOK', LeaderInv, NEW L \in LeaderLogs, LogInvWith(L), NEW M,
           ChoiceStep(L, M), RequestsTrue, elected \subseteq elected'
    PROVE  RequestsTrue'
<1> SUFFICES ASSUME NEW m \in messages', m.type = "RequestVote"
             PROVE  RequestTrue(m)'
  BY DEF RequestsTrue
<1>1. m \in RequestVoteMsg
  BY MessageKind DEF TypeOK
<1>2. m.src \in Server /\ m.term \in Nat
  BY <1>1 DEF RequestVoteMsg
<1>3. term[m.src] \in Nat /\ term'[m.src] \in Nat /\ term[m.src] <= term'[m.src]
  BY <1>2 DEF TypeOK, ChoiceStep, ElectionStep, KeepsVotes
<1>4. CASE m \notin messages
  <2>1. /\ m.term = term'[m.src]
        /\ m.lastLogIndex = LastIndex(log'[m.src]) /\ m.lastLogTerm = LastTerm(log'[m.src])
    BY <1>4 DEF ChoiceStep, CanvassStep, AsksStep
  <2>2. m.term <= term'[m.src]
    BY <1>2, <2>1
  <2> QED
    BY <2>1, <2>2 DEF RequestTrue, LastIndex, LastTerm
<1>5. CASE m \in messages
  <2>1. RequestTrue(m)
    BY <1>5 DEF RequestsTrue
  <2>2. m.term <= term'[m.src]
    BY <1>2, <1>3, <2>1 DEF RequestTrue
  <2>3. ASSUME m.term = term'[m.src], ~HasLeader(m.term)'
        PROVE  m.lastLogIndex = LastIndex(log'[m.src]) /\ m.lastLogTerm = LastTerm(log'[m.src])
    <3>1. m.term = term[m.src]
      BY <1>2, <1>3, <2>1, <2>3 DEF RequestTrue
    <3>2. ~HasLeader(m.term)
      BY <2>3 DEF HasLeader
    <3>3. log'[m.src] = log[m.src]
      BY <1>2, <2>3, LogChanges DEF ChoiceStep, HasLeader
    <3> QED
      BY <2>1, <3>1, <3>2, <3>3 DEF RequestTrue
  <2>4. HasLeader(m.term)' <=> \E i \in Server : <<m.term, i>> \in elected'
    BY DEF HasLeader
  <2> QED
    BY <2>2, <2>3, <2>4 DEF RequestTrue, LastIndex, LastTerm, HasLeader
<1> QED
  BY <1>4, <1>5

\* A vote after the step, as StepVotes and StepSupporters need it.
LEMMA VoteAfter ==
    ASSUME TypeOK, TypeOK', VoteStep, VotesInPast, RequestsTrue, KeepsVotes,
           NEW i \in Server, NEW j \in Server, j # i, vote'[j] = i
    PROVE  term'[j] <= term[i]
<1>1. term[i] \in Nat /\ term[j] \in Nat /\ term'[j] \in Nat
  BY DEF TypeOK
<1>2. CASE vote[j] = i /\ term'[j] = term[j]
  BY <1>2 DEF VotesInPast
<1>3. ASSUME NEW m \in messages, m.type = "RequestVote", m.src = i, m.term = term'[j]
      PROVE  term'[j] <= term[i]
  BY <1>3 DEF RequestsTrue, RequestTrue
<1> QED
  BY <1>2, <1>3 DEF VoteStep

LEMMA StepVotes ==
    ASSUME TypeOK, TypeOK', ElectionStep, VoteStep, VotesInPast, RequestsTrue
    PROVE  VotesInPast'
<1>1. KeepsVotes /\ NetStep
  BY DEF ElectionStep
<1>2. \A k \in Server : term[k] \in Nat /\ term'[k] \in Nat /\ term[k] <= term'[k]
  BY <1>1 DEF TypeOK, KeepsVotes
<1>3. ASSUME NEW i \in Server, NEW j \in Server, j # i, vote'[j] = i
      PROVE  term'[j] <= term'[i]
  <2>1. term'[j] <= term[i]
    BY <1>1, <1>3, VoteAfter
  <2> QED
    BY <1>2, <2>1
<1>4. ASSUME NEW m \in messages', Ballot(m)
      PROVE  m.term <= term'[m.dest]
  <2>1. m \in RequestVoteReplyMsg
    BY <1>4, MessageKind DEF TypeOK, Ballot
  <2>2. m.src \in Server /\ m.dest \in Server /\ m.term \in Nat
    BY <2>1 DEF RequestVoteReplyMsg
  <2>3. CASE m \in messages
    <3>1. m.term <= term[m.dest]
      BY <1>4, <2>3 DEF VotesInPast
    <3> QED
      BY <1>2, <2>2, <3>1
  <2>4. CASE m \notin messages
    <3>1. m.src # m.dest /\ m.term = term'[m.src] /\ vote'[m.src] = m.dest
      BY <1>1, <1>4, <2>4 DEF NetStep
    <3> QED
      BY <1>3, <2>2, <3>1
  <2> QED
    BY <2>3, <2>4
<1> QED
  BY <1>3, <1>4 DEF VotesInPast, Ballot

\* What a log shares with a choosable part of a leader's log it keeps, when its term is not
\* older.
LEMMA SharedStays ==
    ASSUME TypeOK, TypeOK', LeaderInv, NEW L \in LeaderLogs, LogInvWith(L),
           NEW M \in LeaderLogs, Continues(L, M), LogStep(L, M), ChoiceKept(L),
           NEW j \in Server, NEW t \in Nat, NEW n \in Position, NEW c \in Nat, c <= n,
           Choosable(L, t, n), n <= Len(L[t]), t <= term'[j], Agree(log[j], L[t], c)
    PROVE  Agree(log'[j], L[t], c) /\ Agree(log'[j], M[t], c)
<1>1. /\ log[j] \in Seq(Entry) /\ log'[j] \in Seq(Entry) /\ L[t] \in Seq(Entry)
      /\ term'[j] \in Nat /\ n \in Nat
  BY DEF TypeOK, LeaderLogs, Position
<1>2. ASSUME log'[j] = log[j]
      PROVE  Agree(log'[j], L[t], c)
  BY <1>2
<1>3. ASSUME NEW i \in Server, Appends(i, L, M), log'[j] # log[j]
      PROVE  Agree(log'[j], L[t], c)
  <2>1. PICK e \in Entry : log' = [log EXCEPT ![i] = Append(log[i], e)]
    BY <1>3 DEF Appends
  <2>2. log'[j] = Append(log[j], e)
    BY <1>3, <2>1 DEF TypeOK
  <2>3. Agree(L[t], log'[j], c)
    BY <1>1, <2>2, AgreeSym, AgreeAppend
  <2> QED
    BY <2>3, AgreeSym
<1>4. ASSUME NEW i \in Server, NEW m \in messages, Merges(i, m, L, M), log'[j] # log[j]
      PROVE  Agree(log'[j], L[t], c)
  <2>1. Merges(i, m, L, L) /\ m.type = "AppendEntries"
    BY <1>4 DEF Merges
  <2>2. LogsRooted(L) /\ MessagesSound(L)
    BY DEF LogInvWith
  <2>3. /\ \A k \in Server \ {i} : log'[k] = log[k]
        /\ m.term \in Nat /\ term'[i] = m.term
        /\ \A h \in Seq(Entry), k \in Nat :
              Agree(log[i], h, k) /\ Agree(L[m.term], h, k) => Agree(log'[i], h, k)
    BY <2>1, <2>2, MergeStep
  <2>4. i = j
    BY <1>4, <2>3
  <2>5. Agree(L[m.term], L[t], n)
    <3>1. CASE m.term = t
      BY <1>1, <3>1 DEF Agree
    <3>2. CASE m.term # t
      <4>1. t < m.term
        BY <2>3, <2>4, <3>2
      <4>2. <<m.term, m.src>> \in elected
        BY <2>1 DEF LeaderInv
      <4>3. HasLeader(m.term)
        BY <4>2 DEF HasLeader, TypeOK
      <4> QED
        BY <2>3, <4>1, <4>3 DEF ChoiceKept
    <3> QED
      BY <3>1, <3>2
  <2>6. L[m.term] \in Seq(Entry)
    BY <2>3 DEF LeaderLogs
  <2>7. Agree(L[m.term], L[t], c)
    BY <1>1, <2>5, <2>6, AgreeLess
  <2> QED
    BY <1>1, <2>3, <2>4, <2>7
<1>5. Agree(log'[j], L[t], c)
  BY <1>2, <1>3, <1>4 DEF LogStep, SameLogs
<1> QED
  BY <1>1, <1>5, ContinuedAgree

LEMMA StepAckers ==
    ASSUME TypeOK, TypeOK', LeaderInv, ElectionSafety', NEW L \in LeaderLogs, LogInvWith(L),
           NEW M \in LeaderLogs, Continues(L, M), LogInvWith(M)', ChoiceStep(L, M), ChoiceInv(L)
    PROVE  AckersKeep(M)'
<1> SUFFICES ASSUME NEW t \in Nat, NEW n \in Position, NEW j \in Server,
                    Choosable(M, t, n)', HasAcked(M, j, t, n)'
             PROVE  Agree(log'[j], M[t], n)
  BY DEF AckersKeep, Agree
<1>1. ElectionStep /\ ReplicaStep(L, M) /\ LogStep(L, M)
  BY DEF ChoiceStep, ReplicaStep
<1>2. ChoiceKept(L) /\ AckersKeep(L) /\ LeadersHold(L) /\ AcksSound(L)
  BY DEF ChoiceInv, LogInvWith
<1>3. Choosable(L, t, n)
  BY <1>1, ChoosableBefore
<1>4. term[j] \in Nat /\ term'[j] \in Nat /\ term[j] <= term'[j] /\ n \in Nat
  BY <1>1 DEF TypeOK, ElectionStep, KeepsVotes, Position
<1>5. CASE term'[j] = t
  <2>1. LeadersHold(M)' /\ AcksSound(M)'
    BY DEF LogInvWith
  <2>2. /\ M[t] \in Seq(Entry) /\ log'[j] \in Seq(Entry)
    BY DEF LeaderLogs, TypeOK
  <2>3. \/ \E m \in messages' : Acknowledges(m) /\ m.src = j /\ m.term = t /\ n <= Acked(m)
        \/ <<t, j>> \in elected' /\ n <= Len(M[t])
    BY DEF HasAcked, Acknowledges, Acked
  <2>4. ASSUME NEW m \in messages', Acknowledges(m), m.src = j, m.term = t, n <= Acked(m)
        PROVE  Agree(log'[j], M[t], n)
    <3>1. Agree(log'[j], M[t], Acked(m))
      BY <1>5, <2>1, <2>4 DEF AcksSound, AckSound, Acknowledges, Acked, Agree
    <3>2. Acked(m) \in Nat
      <4>1. m \in AppendEntriesReplyMsg
        BY <2>4, MessageKind DEF TypeOK, Acknowledges
      <4> QED
        BY <4>1 DEF Acked, AppendEntriesReplyMsg
    <3> QED
      BY <1>4, <2>2, <2>4, <3>1, <3>2, AgreeLess
  <2>5. CASE <<t, j>> \in elected' /\ n <= Len(M[t])
    <3>1. log'[j] = M[t]
      BY <1>5, <2>1, <2>5 DEF LeadersHold
    <3> QED
      BY <2>2, <2>5, <3>1 DEF Agree
  <2> QED
    BY <2>3, <2>4, <2>5
<1>6. CASE term'[j] # t
  <2>1. HasAcked(L, j, t, n)
    BY <1>1, <1>6, AckedBefore
  <2>2. Agree(log[j], L[t], n)
    BY <1>2, <1>3, <2>1 DEF AckersKeep
  <2>3. n <= Len(L[t]) /\ t <= term[j]
    BY <1>2, <2>1, AckedFacts
  <2>4. t <= term'[j] /\ n <= n
    BY <1>4, <2>3
  <2> QED
    BY <1>1, <1>2, <1>3, <1>4, <2>2, <2>3, <2>4, SharedStays
<1> QED
  BY <1>5, <1>6

\* A new leader's log is the one it had as candidate, and its first entry.
LEMMA NewLeaderLog ==
    ASSUME TypeOK, TypeOK', NEW L \in LeaderLogs, NEW M \in LeaderLogs, LogStep(L, M),
           NEW u, NEW i, <<u, i>> \in elected', <<u, i>> \notin elected
    PROVE  /\ i \in Server /\ u = term'[i] /\ u \in Nat
           /\ \E e \in Entry : M[u] = Append(log[i], e)
<1>1. PICK k \in Server : Appends(k, L, M)
  BY DEF LogStep, SameLogs, Merges
<1>2. k = i /\ u = term'[i]
  BY <1>1 DEF Appends
<1>3. u \in Nat
  BY <1>1, <1>2 DEF TypeOK
<1>4. PICK e \in Entry : log' = [log EXCEPT ![i] = Append(log[i], e)]
  BY <1>1, <1>2 DEF Appends
<1>5. log'[i] = Append(log[i], e)
  BY <1>1, <1>2, <1>4 DEF TypeOK
<1>6. M[u] = log'[i]
  BY <1>1, <1>2, <1>3 DEF Appends, LeaderLogs
<1> QED
  BY <1>1, <1>2, <1>3, <1>5, <1>6

\* The ballots of a new leader, its own vote included, are enough.
LEMMA VotersOf ==
    ASSUME TypeOK, NEW i \in Server, NEW G \in SUBSET Peers(i), NEW v,
           Cardinality(G) + (IF v = i THEN 1 ELSE 0) >= VoteThreshold
    PROVE  \E V \in SUBSET Server : Cardinality(V) >= VoteThreshold /\ V \subseteq G \cup {i}
<1>1. G \subseteq Server /\ i \notin G /\ IsFiniteSet(G) /\ Cardinality(G) \in Nat
  BY ServerFacts DEF Peers
<1>2. Cardinality(G \cup {i}) = Cardinality(G) + 1
  BY <1>1, FS_AddElement
<1>3. VoteThreshold \in Nat
  BY ServerFacts DEF VoteThreshold
<1>4. Cardinality(G \cup {i}) >= VoteThreshold /\ G \cup {i} \in SUBSET Server
  BY <1>1, <1>2, <1>3
<1> QED
  BY <1>4

LEMMA StepChoice ==
    ASSUME TypeOK, TypeOK', LeaderInv, ElectionInv, ElectionSafety', NEW L \in LeaderLogs,
           LogInvWith(L), NEW M \in LeaderLogs, Continues(L, M), ChoiceStep(L, M), ChoiceInv(L)
    PROVE  ChoiceKept(M)'
<1> SUFFICES ASSUME NEW t \in Nat, NEW u \in Nat, NEW n \in Position, t < u,
                    HasLeader(u)', Choosable(M, t, n)'
             PROVE  Agree(M[u], M[t], n)
  BY DEF ChoiceKept, Agree
<1>1. ElectionStep /\ ReplicaStep(L, M) /\ LogStep(L, M)
  BY DEF ChoiceStep, ReplicaStep
<1>2. ChoiceKept(L) /\ AckersKeep(L) /\ SupportersKnow(L) /\ VotesInPast
  BY DEF ChoiceInv
<1>3. Choosable(L, t, n)
  BY <1>1, ChoosableBefore
<1>4. /\ L[t] \in Seq(Entry) /\ M[t] \in Seq(Entry) /\ L[u] \in Seq(Entry) /\ M[u] \in Seq(Entry)
      /\ n \in Nat
  BY DEF LeaderLogs, Position
<1>5. CASE HasLeader(u)
  <2>1. Agree(L[u], L[t], n)
    BY <1>2, <1>3, <1>5 DEF ChoiceKept
  <2>2. Agree(L[u], M[t], n)
    BY <1>4, <2>1, ContinuedAgree
  <2>3. Agree(M[t], M[u], n)
    BY <1>4, <2>2, AgreeSym, ContinuedAgree
  <2> QED
    BY <2>3, AgreeSym
<1>6. CASE ~HasLeader(u)
  <2>1. PICK i \in Server : <<u, i>> \in elected' /\ <<u, i>> \notin elected
    BY <1>6 DEF HasLeader
  <2>2. PICK e \in Entry : u = term'[i] /\ M[u] = Append(log[i], e)
    BY <1>1, <2>1, NewLeaderLog
  <2>3. PICK G \in SUBSET Peers(i) :
           /\ \A k \in G : HasBallot(k, i, u)
           /\ Cardinality(G) + (IF vote'[i] = i THEN 1 ELSE 0) >= VoteThreshold
    BY <1>1, <2>1 DEF ElectionStep, LeaderStep
  <2>4. PICK V \in SUBSET Server : Cardinality(V) >= VoteThreshold /\ V \subseteq G \cup {i}
    BY <2>3, VotersOf
  <2>5. PICK Q \in SUBSET Server :
           CommitQuorum(Q) /\ \A j \in Q : HasAcked(M, j, t, n)' \/ term'[j] <= t
    BY DEF Choosable, CommitQuorum
  <2>6. PICK j \in Q : j \in V
    BY <2>4, <2>5, QuorumsMeet
  <2>7. j \in Server /\ term[j] \in Nat /\ term'[j] \in Nat /\ term[j] <= term'[j]
        /\ term[i] \in Nat /\ term[i] <= term'[i]
    BY <1>1 DEF TypeOK, ElectionStep, KeepsVotes
  <2>8. Agree(log[i], L[t], n)
    <3>1. CASE j = i
      <4>1. term'[j] # t /\ HasAcked(M, j, t, n)'
        BY <2>2, <2>5, <2>7, <3>1
      <4>2. HasAcked(L, j, t, n)
        BY <1>1, <4>1, AckedBefore
      <4> QED
        BY <1>2, <1>3, <3>1, <4>2 DEF AckersKeep
    <3>2. CASE j # i
      <4>1. PICK m \in messages : Ballot(m) /\ m.src = j /\ m.dest = i /\ m.term = u
        BY <2>3, <2>4, <2>6, <3>2 DEF HasBallot
      <4>2. u <= term[j] /\ u <= term[i]
        BY <1>2, <4>1 DEF ElectionInv, VotesInPast
      <4>3. term[i] = u
        BY <2>2, <2>7, <4>2
      <4>4. term'[j] # t /\ HasAcked(M, j, t, n)'
        BY <2>5, <2>7, <4>2
      <4>5. HasAcked(L, j, t, n)
        BY <1>1, <2>7, <4>4, AckedBefore
      <4>6. Supports(j, i)
        <5>1. HasBallot(j, i, term[i])
          BY <4>1, <4>3 DEF HasBallot
        <5> QED
          BY <3>2, <5>1 DEF Supports
      <4> QED
        BY <1>2, <1>3, <1>6, <2>7, <4>3, <4>5, <4>6 DEF SupportersKnow
    <3> QED
      BY <3>1, <3>2
  <2>9. log[i] \in Seq(Entry)
    BY DEF TypeOK
  <2>10. Agree(L[t], M[u], n)
    BY <1>4, <2>2, <2>8, <2>9, AgreeSym, AgreeAppend
  <2>11. Agree(M[u], M[t], n)
    BY <1>4, <2>10, AgreeSym, ContinuedAgree
  <2> QED
    BY <2>11
<1> QED
  BY <1>5, <1>6

LEMMA StepSupporters ==
    ASSUME TypeOK, TypeOK', LeaderInv, ElectionInv, ElectionSafety', NEW L \in LeaderLogs,
           LogInvWith(L), NEW M \in LeaderLogs, Continues(L, M), ChoiceStep(L, M), ChoiceInv(L)
    PROVE  SupportersKnow(M)'
<1> SUFFICES ASSUME NEW i \in Server, NEW j \in Server, Supports(j, i)', ~HasLeader(term[i])',
                    NEW t \in Nat, NEW n \in Position, t < term'[i],
                    Choosable(M, t, n)', HasAcked(M, j, t, n)'
             PROVE  Agree(log'[i], M[t], n)
  BY DEF SupportersKnow, Agree
<1> DEFINE u == term'[i]
<1>1. ElectionStep /\ ReplicaStep(L, M) /\ LogStep(L, M) /\ VoteStep /\ KeepsVotes /\ NetStep
  BY DEF ChoiceStep, ReplicaStep, CanvassStep, ElectionStep
<1>2. ChoiceKept(L) /\ AckersKeep(L) /\ SupportersKnow(L) /\ VotesInPast /\ RequestsTrue
      /\ LogsRooted(L) /\ LeadersHold(L)
  BY DEF ChoiceInv, LogInvWith
<1>3. Choosable(L, t, n)
  BY <1>1, ChoosableBefore
<1>4. /\ term[i] \in Nat /\ u \in Nat /\ term[i] <= u /\ n \in Nat
      /\ term[j] \in Nat /\ term'[j] \in Nat /\ term[j] <= term'[j]
      /\ log[i] \in Seq(Entry)
  BY <1>1 DEF TypeOK, KeepsVotes, Position
<1>5. log'[i] = log[i]
  BY <1>1, LogChanges
<1>6. ~HasLeader(u)
  <2>1. elected \subseteq elected'
    BY <1>1, <1>2, StepContinues
  <2> QED
    BY <2>1 DEF HasLeader
<1>7. j # i /\ (HasBallot(j, i, u) \/ (vote'[j] = i /\ term'[j] = u))
  <2>1. j # i /\ ((\E m \in messages' : Ballot(m) /\ m.src = j /\ m.dest = i /\ m.term = u)
                    \/ (vote'[j] = i /\ term'[j] = u))
    BY DEF Supports, HasBallot, Ballot
  <2> QED
    BY <1>1, <2>1 DEF HasBallot, NetStep
<1>8. CASE HasBallot(j, i, u)
  <2>1. u <= term[j] /\ u <= term[i]
    BY <1>2, <1>8 DEF HasBallot, ElectionInv, VotesInPast
  <2>2. term[i] = u /\ term'[j] # t
    BY <1>4, <2>1
  <2>3. HasAcked(L, j, t, n)
    BY <1>1, <2>2, AckedBefore
  <2>4. Supports(j, i)
    <3>1. HasBallot(j, i, term[i])
      BY <1>8, <2>2 DEF HasBallot
    <3> QED
      BY <1>7, <3>1 DEF Supports
  <2>5. Agree(log[i], L[t], n)
    BY <1>2, <1>3, <1>6, <2>2, <2>3, <2>4 DEF SupportersKnow
  <2> QED
    BY <1>4, <1>5, <2>5, ContinuedAgree
<1>9. CASE vote'[j] = i /\ term'[j] = u
  <2>1. term'[j] <= term[i]
    BY <1>1, <1>2, <1>7, <1>9, VoteAfter
  <2>2. term[i] = u /\ term'[j] # t
    BY <1>4, <1>9, <2>1
  <2>3. HasAcked(L, j, t, n)
    BY <1>1, <2>2, AckedBefore
  <2>4. CASE vote[j] = i /\ term'[j] = term[j]
    <3>1. Supports(j, i)
      BY <1>7, <1>9, <2>2, <2>4 DEF Supports
    <3> QED
      BY <1>2, <1>3, <1>4, <1>5, <1>6, <2>2, <2>3, <3>1, ContinuedAgree DEF SupportersKnow
  <2>5. ASSUME NEW m \in messages, m.type = "RequestVote", m.src = i, m.term = term'[j],
               CandidateLogOk(m, log[j])
        PROVE  Agree(log'[i], M[t], n)
    <3>1. m.lastLogIndex = LastIndex(log[i]) /\ m.lastLogTerm = LastTerm(log[i])
      BY <1>2, <1>6, <1>9, <2>2, <2>5 DEF RequestsTrue, RequestTrue
    <3>2. Agree(log[j], L[t], n)
      BY <1>2, <1>3, <2>3 DEF AckersKeep
    <3>3. Agree(log[i], L[t], n)
      BY <1>2, <1>3, <2>5, <3>1, <3>2, UpToDate
    <3> QED
      BY <1>4, <1>5, <3>3, ContinuedAgree
  <2> QED
    BY <1>1, <1>7, <1>9, <2>4, <2>5 DEF VoteStep
<1> QED
  BY <1>7, <1>8, <1>9

LEMMA ChoiceStepInv ==
    ASSUME TypeOK, TypeOK', LeaderInv, ElectionInv, ElectionSafety, ElectionSafety',
           NEW L \in LeaderLogs, LogInvWith(L), ChoiceInv(L), NEW M, ChoiceStep(L, M)
    PROVE  M \in LeaderLogs /\ Continues(L, M) /\ LogInvWith(M)' /\ ChoiceInv(M)'
<1>1. ElectionStep /\ KeepsVotes /\ ReplicaStep(L, M) /\ VoteStep
  BY DEF ChoiceStep, ElectionStep, CanvassStep
<1>2. M \in LeaderLogs /\ LogInvWith(M)'
  BY <1>1, ReplicaStepInv
<1>3. Continues(L, M) /\ elected \subseteq elected'
  BY <1>1, StepContinues DEF LogInvWith, ReplicaStep
<1>4. ChoiceKept(M)'
  BY <1>2, <1>3, StepChoice
<1>5. AckersKeep(M)'
  BY <1>2, <1>3, StepAckers
<1>6. SupportersKnow(M)'
  BY <1>2, <1>3, StepSupporters
<1>7. VotesInPast'
  BY <1>1, StepVotes DEF ChoiceInv
<1>8. RequestsTrue'
  BY <1>3, StepRequests DEF ChoiceInv
<1> QED
  BY <1>2, <1>3, <1>4, <1>5, <1>6, <1>7, <1>8 DEF ChoiceInv

-----------------------------------------------------------------------------
(***************************************************************************)
(* Every action takes such a step.                                         *)
(***************************************************************************)
NoNewRequest == \A m \in messages' \ messages : m.type # "RequestVote"

LEMMA SameMetaCanvass ==
    ASSUME TypeOK, UNCHANGED meta, NoNewRequest
    PROVE  CanvassStep
<1>1. AsksStep
  BY DEF NoNewRequest, AsksStep
<1>2. VoteStep
  BY DEF meta, VoteStep
<1> QED
  BY <1>1, <1>2 DEF CanvassStep

\* StepDown, in its uses that give no vote.
LEMMA StepDownToCanvass ==
    ASSUME TypeOK, NEW i \in Server, NEW t, NEW v, NEW l, NEW h, StepDownTo(i, t, v, l, h),
           v = Nil \/ (v = vote[i] /\ t = term[i]), NoNewRequest
    PROVE  CanvassStep
<1>1. AsksStep
  BY DEF NoNewRequest, AsksStep
<1>2. /\ term'[i] = t /\ vote'[i] = v
      /\ \A k \in Peers(i) : term'[k] = term[k] /\ vote'[k] = vote[k]
  BY DEF StepDownTo, TypeOK, Peers
<1>3. VoteStep
  BY <1>2, ServerAssumption DEF VoteStep, Peers
<1> QED
  BY <1>1, <1>3 DEF CanvassStep

LEMMA VoteLeft ==
    ASSUME TypeOK, NEW i \in Server, NEW t \in Nat, t >= term[i]
    PROVE  \/ VoteAfterStepDown(i, t) = Nil
           \/ VoteAfterStepDown(i, t) = vote[i] /\ t = term[i]
<1>1. term[i] \in Nat
  BY DEF TypeOK
<1> QED
  BY <1>1 DEF VoteAfterStepDown

LEMMA StepDownCanvass ==
    ASSUME TypeOK, NEW i \in Server, NEW t \in Nat, t >= term[i], StepDown(i, t), NoNewRequest
    PROVE  CanvassStep
<1>1. \/ VoteAfterStepDown(i, t) = Nil
      \/ VoteAfterStepDown(i, t) = vote[i] /\ t = term[i]
  BY VoteLeft
<1> QED
  BY <1>1, StepDownToCanvass DEF StepDown

\* A candidate votes for itself.
LEMMA DoRequestVoteCanvass ==
    ASSUME TypeOK, NEW i \in Server, DoRequestVote(i)
    PROVE  CanvassStep
<1>1. AsksStep
  BY DEF DoRequestVote, AsksStep
<1>2. vote'[i] = i /\ \A k \in Peers(i) : term'[k] = term[k] /\ vote'[k] = vote[k]
  BY DEF DoRequestVote, TypeOK, Peers
<1>3. VoteStep
  BY <1>2 DEF VoteStep, Peers
<1> QED
  BY <1>1, <1>3 DEF CanvassStep

LEMMA RequestVoteRpcCanvass ==
    ASSUME TypeOK, NEW i \in Server, NEW j \in Server, RequestVoteRpc(i, j)
    PROVE  CanvassStep
<1>1. UNCHANGED <<term, vote, log>>
  BY DEF RequestVoteRpc, meta
<1>2. PICK x : messages' = messages \cup
         {[type |-> "RequestVote", src |-> i, dest |-> j, term |-> term[i],
           lastLogIndex |-> LastIndex(log[i]), lastLogTerm |-> LastTerm(log[i]),
           preVote |-> preVoting[i], leaderTransfer |-> x]}
  BY DEF RequestVoteRpc, SendRequestVote, SendRpc, Send
<1>3. AsksStep
  BY <1>1, <1>2 DEF AsksStep
<1>4. VoteStep
  BY <1>1 DEF VoteStep
<1> QED
  BY <1>3, <1>4 DEF CanvassStep

\* A vote is given to a request of the term it is given in, and only after the check.
LEMMA OnRequestVoteCanvass ==
    ASSUME TypeOK, NEW i \in Server, NEW m \in messages, OnRequestVote(i, m)
    PROVE  CanvassStep
<1>1. m \in RequestVoteMsg
  BY MessageKind DEF TypeOK, OnRequestVote
<1>2. m.term \in Nat /\ m.src \in Server /\ term[i] \in Nat /\ m.type = "RequestVote"
  BY <1>1 DEF RequestVoteMsg, TypeOK
<1>3. PICK ok \in IntervalOutcomes(i, m) :
         LET t == IF ok /\ m.term > term[i] THEN m.term ELSE term[i]
             gives == ok /\ GivesVote(i, m, t)
             v == IF gives /\ ~m.preVote THEN m.src ELSE VoteAfterStepDown(i, t)
         IN  /\ Send(RequestVoteReply(i, m, t, v, ok))
             /\ IF gives \/ t > term[i]
                THEN StepDownTo(i, t, v, LeaderAfterStepDown(i, t), HeartbeatAfterStepDown(i))
                ELSE UNCHANGED <<meta, role, timerMgr>>
  BY DEF OnRequestVote
<1> DEFINE t == IF ok /\ m.term > term[i] THEN m.term ELSE term[i]
           gives == ok /\ GivesVote(i, m, t)
           v == IF gives /\ ~m.preVote THEN m.src ELSE VoteAfterStepDown(i, t)
<1>4. /\ messages' = messages \cup {RequestVoteReply(i, m, t, v, ok)}
      /\ \/ StepDownTo(i, t, v, LeaderAfterStepDown(i, t), HeartbeatAfterStepDown(i))
         \/ UNCHANGED <<meta, role, timerMgr>>
  BY <1>3, Zenon DEF Send
<1>5. t \in Nat /\ t >= term[i]
  BY <1>2
<1>6. gives => m.term = t /\ CandidateLogOk(m, log[i])
  BY DEF GivesVote
<1> HIDE DEF t
<1>7. \/ v = Nil \/ (v = vote[i] /\ t = term[i])
      \/ v = m.src /\ m.term = t /\ CandidateLogOk(m, log[i])
  BY <1>5, <1>6, VoteLeft
<1> HIDE DEF gives, v
<1>8. NoNewRequest
  <2>1. RequestVoteReply(i, m, t, v, ok).type = "RequestVoteReply"
    BY DEF RequestVoteReply
  <2> QED
    BY <1>4, <2>1 DEF NoNewRequest
<1>9. CASE UNCHANGED <<meta, role, timerMgr>>
  BY <1>8, <1>9, SameMetaCanvass
<1>10. CASE StepDownTo(i, t, v, LeaderAfterStepDown(i, t), HeartbeatAfterStepDown(i))
  <2>1. CASE v = Nil \/ (v = vote[i] /\ t = term[i])
    BY <1>8, <1>10, <2>1, StepDownToCanvass
  <2>2. CASE v = m.src /\ m.term = t /\ CandidateLogOk(m, log[i])
    <3>1. /\ term'[i] = t /\ vote'[i] = v
          /\ \A k \in Peers(i) : term'[k] = term[k] /\ vote'[k] = vote[k]
      BY <1>10 DEF StepDownTo, TypeOK, Peers
    <3>2. VoteStep
      BY <1>2, <2>2, <3>1 DEF VoteStep, Peers
    <3>3. AsksStep
      BY <1>8 DEF NoNewRequest, AsksStep
    <3> QED
      BY <3>2, <3>3 DEF CanvassStep
  <2> QED
    BY <1>7, <2>1, <2>2
<1> QED
  BY <1>4, <1>9, <1>10

LEMMA OnLargerTermCanvass ==
    ASSUME TypeOK, NEW i \in Server, NEW m, m.term \in Nat, OnLargerTerm(i, m)
    PROVE  CanvassStep
<1>1. m.term >= term[i] /\ StepDown(i, m.term) /\ messages' = messages
  BY DEF OnLargerTerm, TypeOK
<1>2. NoNewRequest
  BY <1>1 DEF NoNewRequest
<1> QED
  BY <1>1, <1>2, StepDownCanvass

LEMMA TimerCanvass ==
    ASSUME TypeOK, NEW i \in Server, Timer(i)
    PROVE  CanvassStep
<1>1. CASE Elect(i)
  <2>1. CASE DoPreVote(i)
    BY <2>1, SameMetaCanvass DEF DoPreVote, NoNewRequest
  <2> QED
    BY <1>1, <2>1, DoRequestVoteCanvass DEF Elect
<1>2. ASSUME NEW j \in Server, HeartBeat(i, j)
      PROVE  CanvassStep
  <2>1. messages' = messages \cup {AppendEntries(i, j, log[i], next[i][j], commit[i])}
    BY <1>2 DEF HeartBeat, SendRpc, Send
  <2>2. NoNewRequest
    BY <2>1 DEF NoNewRequest, AppendEntries
  <2> QED
    BY <1>2, <2>2, SameMetaCanvass DEF HeartBeat
<1> QED
  BY <1>1, <1>2, RequestVoteRpcCanvass DEF Timer

LEMMA OnRequestVoteReplyCanvass ==
    ASSUME TypeOK, NEW i \in Server, NEW m \in messages, OnRequestVoteReply(i, m)
    PROVE  CanvassStep
<1>1. m \in RequestVoteReplyMsg
  BY MessageKind DEF TypeOK, OnRequestVoteReply
<1>2. m.term \in Nat
  BY <1>1 DEF RequestVoteReplyMsg
<1>3. CASE OnVoteReply(i, m)
  BY <1>3, SameMetaCanvass DEF OnVoteReply, NoNewRequest
<1>4. CASE OnPreVoteReply(i, m)
  <2>1. CASE UNCHANGED <<meta, messages>>
    BY <2>1, SameMetaCanvass DEF NoNewRequest
  <2> QED
    BY <1>4, <2>1, DoRequestVoteCanvass DEF OnPreVoteReply
<1> QED
  BY <1>2, <1>3, <1>4, OnLargerTermCanvass DEF OnRequestVoteReply

LEMMA OnAppendEntriesCanvass ==
    ASSUME TypeOK, NEW i \in Server, NEW m \in messages, OnAppendEntries(i, m)
    PROVE  CanvassStep
<1>1. m \in AppendEntriesMsg
  BY MessageKind DEF TypeOK, OnAppendEntries
<1>2. m.term \in Nat
  BY <1>1 DEF AppendEntriesMsg
<1>3. NoNewRequest
  <2>1. \A t, ok, last : AppendEntriesReply(i, m, t, ok, last).type = "AppendEntriesReply"
    BY DEF AppendEntriesReply
  <2>2. CASE RejectStale(i, m)
    BY <2>1, <2>2 DEF RejectStale, Send, NoNewRequest
  <2>3. CASE RejectMismatch(i, m)
    BY <2>1, <2>3 DEF RejectMismatch, Send, NoNewRequest
  <2>4. CASE Accept(i, m)
    <3> DEFINE l == MergeLog(log[i], m)
    <3>1. messages' = messages \cup {AppendEntriesReply(i, m, m.term, TRUE, LastIndex(l))}
      BY <2>4 DEF Accept, Send
    <3> HIDE DEF l
    <3> QED
      BY <2>1, <3>1 DEF NoNewRequest
  <2> QED
    BY <2>2, <2>3, <2>4 DEF OnAppendEntries
<1>4. CASE RejectStale(i, m)
  BY <1>3, <1>4, SameMetaCanvass DEF RejectStale
<1>5. CASE FollowLeader(i, m)
  <2>1. \/ VoteAfterStepDown(i, m.term) = Nil
        \/ VoteAfterStepDown(i, m.term) = vote[i] /\ m.term = term[i]
    BY <1>2, <1>5, VoteLeft DEF FollowLeader
  <2> QED
    BY <1>3, <1>5, <2>1, StepDownToCanvass DEF FollowLeader
<1> QED
  BY <1>4, <1>5 DEF OnAppendEntries, RejectMismatch, Accept

LEMMA OnAppendEntriesReplyCanvass ==
    ASSUME TypeOK, NEW i \in Server, NEW m \in messages, OnAppendEntriesReply(i, m)
    PROVE  CanvassStep
<1>1. m \in AppendEntriesReplyMsg
  BY MessageKind DEF TypeOK, OnAppendEntriesReply
<1>2. m.term \in Nat
  BY <1>1 DEF AppendEntriesReplyMsg
<1>3. CASE AbortNotLeader(i, m)
  BY <1>3, SameMetaCanvass DEF AbortNotLeader, LoseVolatile, NoNewRequest
<1>4. CASE OnAppendReplyOfTerm(i, m)
  <2>1. PICK n, c : messages' \subseteq messages \cup {AppendEntries(i, m.src, log[i], n, c)}
    BY <1>4 DEF OnAppendReplyOfTerm, SendAll
  <2>2. NoNewRequest
    BY <2>1 DEF NoNewRequest, AppendEntries
  <2> QED
    BY <1>4, <2>2, SameMetaCanvass DEF OnAppendReplyOfTerm
<1> QED
  BY <1>2, <1>3, <1>4, OnLargerTermCanvass DEF OnAppendEntriesReply

LEMMA OnTimeoutNowCanvass ==
    ASSUME TypeOK, NEW i \in Server, NEW m \in messages, OnTimeoutNow(i, m)
    PROVE  CanvassStep
<1>1. m \in TimeoutNowMsg
  BY MessageKind DEF TypeOK, OnTimeoutNow
<1>2. m.term \in Nat /\ term[i] \in Nat
  BY <1>1 DEF TimeoutNowMsg, TypeOK
<1>3. NoNewRequest
  BY DEF OnTimeoutNow, NoNewRequest
<1>4. CASE m.term > term[i] /\ StepDown(i, m.term)
  BY <1>2, <1>3, <1>4, StepDownCanvass
<1>5. CASE UNCHANGED <<meta, role, timerMgr>>
  BY <1>3, <1>5, SameMetaCanvass
<1> QED
  BY <1>4, <1>5 DEF OnTimeoutNow

LEMMA ClientCanvass ==
    ASSUME TypeOK, NEW i \in Server, Client(i)
    PROVE  CanvassStep
<1>1. UNCHANGED meta
  BY DEF Client, Propose, LeaderTransfer
<1>2. NoNewRequest
  <2>1. \A j, l, n, c : AppendEntries(i, j, l, n, c).type = "AppendEntries"
    BY DEF AppendEntries
  <2>2. ASSUME NEW v, Propose(i, v)
        PROVE  NoNewRequest
    <3> DEFINE l == Append(log[i], [term |-> term[i], value |-> v])
    <3> DEFINE c == MaybeCommit(i, l, match[i])
    <3>1. messages' = messages \cup {AppendEntries(i, j, l, next[i][j], c) : j \in Peers(i)}
      BY <2>2 DEF Propose, SendAll
    <3> HIDE DEF l, c
    <3> QED
      BY <2>1, <3>1 DEF NoNewRequest
  <2>3. ASSUME NEW j, LeaderTransfer(i, j)
        PROVE  NoNewRequest
    BY <2>3 DEF LeaderTransfer, Send, NoNewRequest
  <2> QED
    BY <2>2, <2>3 DEF Client
<1> QED
  BY <1>1, <1>2, SameMetaCanvass

LEMMA RestartCanvass ==
    ASSUME TypeOK, NEW i \in Server, Restart(i)
    PROVE  CanvassStep
<1>1. CASE Stop(i)
  BY <1>1, SameMetaCanvass DEF Stop, NoNewRequest
<1>2. CASE Crash(i)
  BY <1>2, SameMetaCanvass DEF Crash, LoseVolatile, NoNewRequest
<1>3. CASE Start(i)
  <2>1. term[i] \in Nat /\ term[i] >= term[i]
    BY DEF TypeOK
  <2> QED
    BY <1>3, <2>1, StepDownCanvass DEF Start, NoNewRequest
<1> QED
  BY <1>1, <1>2, <1>3 DEF Restart

LEMMA NextCanvass ==
    ASSUME TypeOK, Next
    PROVE  CanvassStep
<1>1. ASSUME NEW i \in Server, NEW m \in messages, Receive(i, m)
      PROVE  CanvassStep
  BY <1>1, OnRequestVoteCanvass, OnRequestVoteReplyCanvass, OnAppendEntriesCanvass,
     OnAppendEntriesReplyCanvass, OnTimeoutNowCanvass DEF Receive
<1> QED
  BY <1>1, TimerCanvass, ClientCanvass, RestartCanvass DEF Next

LEMMA NextChoice ==
    ASSUME TypeOK, TypeOK', TimersMatchRole, LeaderInv, ElectionInv, NEW L \in LeaderLogs,
           LogInvWith(L), Next
    PROVE  \E M : ChoiceStep(L, M)
<1>1. ElectionStep /\ CanvassStep
  BY NextElectionStep, NextCanvass
<1> QED
  BY <1>1, NextReplica DEF ChoiceStep

LEMMA InitChoice ==
    ASSUME Init, NEW L \in LeaderLogs
    PROVE  ChoiceInv(L)
<1>1. /\ messages = {} /\ elected = {}
      /\ \A i \in Server : vote[i] = Nil
  BY DEF Init, InitFrom
<1>2. ChoiceKept(L) /\ AckersKeep(L)
  BY <1>1 DEF ChoiceKept, AckersKeep, HasLeader, HasAcked
<1>3. SupportersKnow(L)
  BY <1>1, ServerAssumption DEF SupportersKnow, Supports, HasBallot
<1>4. VotesInPast /\ RequestsTrue
  BY <1>1, ServerAssumption DEF VotesInPast, RequestsTrue
<1> QED
  BY <1>2, <1>3, <1>4 DEF ChoiceInv

-----------------------------------------------------------------------------
(***************************************************************************)
(* Proofs about what is committed and applied.  A commit index is covered  *)
(* by an index that a leader chose: counted on a quorum of acknowledgements *)
(* and of the leader's own term.  What is chosen stays chosen and no later *)
(* leader lacks it, so committed prefixes agree and are never truncated.   *)
(***************************************************************************)

\* The leader of term t may count index n as committed: see Raft::MaybeCommit.
Chosen(L, t, n) ==
    /\ n \in DOMAIN L[t] /\ L[t][n].term = t
    /\ \E Q \in SUBSET Server : CommitQuorum(Q) /\ \A j \in Q : HasAcked(L, j, t, n)

\* Log l of a server in term t shares its first c entries with what was chosen by then.
Known(L, l, t, c) ==
    \/ c = 0
    \/ \E s \in Nat, n \in Position :
          s <= t /\ c <= n /\ Chosen(L, s, n) /\ Agree(l, L[s], c)

\* The commit index of AppendEntries m is within what it matches, and known to its leader.
CommitSound(m, L) ==
    /\ m.commitIndex <= m.preLogIndex + Len(m.entries)
    /\ Known(L, L[m.term], m.term, m.commitIndex)

CommitsKnown(L) ==
    /\ \A i \in Server : /\ Known(L, log[i], term[i], commit[i])
                         /\ Known(L, log[i], term[i], sm[i].last)
    /\ \A m \in messages : m.type = "AppendEntries" => CommitSound(m, L)

\* lastApply_ of a running server: all data up to it is in the state machine, and it is
\* either committed or what the state machine had on disk.
ApplySound(i) ==
    started[i] =>
      /\ sm[i].last <= lastApply[i]
      /\ lastApply[i] <= commit[i] \/ lastApply[i] = sm[i].last
      /\ \A k \in Index : sm[i].last < k /\ k <= lastApply[i] => log[i][k].value = Noop

\* The state machine of i holds the data entries of i's log up to its last index.
HoldsLog(i) ==
    \A k \in Index : sm[i].applied[k] = IF k <= sm[i].last /\ log[i][k].value # Noop
                                        THEN <<log[i][k]>> ELSE <<>>

AppliesSound == \A i \in Server : ApplySound(i) /\ HoldsLog(i)

\* The inductive invariant.
CommitInv ==
    /\ \E L \in LeaderLogs : LogInvWith(L) /\ ChoiceInv(L) /\ CommitsKnown(L)
    /\ AppliesSound

-----------------------------------------------------------------------------
(***************************************************************************)
(* What is known                                                           *)
(***************************************************************************)

LEMMA ChosenFacts ==
    ASSUME NEW L \in LeaderLogs, NEW t \in Nat, NEW n \in Position, Chosen(L, t, n)
    PROVE  Choosable(L, t, n) /\ n <= Len(L[t]) /\ L[t] # <<>>
<1>1. L[t] \in Seq(Entry) /\ n \in DOMAIN L[t]
  BY DEF LeaderLogs, Chosen
<1>2. n <= Len(L[t]) /\ L[t] # <<>>
  BY <1>1
<1>3. Choosable(L, t, n)
  BY DEF Chosen, Choosable
<1> QED
  BY <1>2, <1>3

\* What is chosen stays chosen.
LEMMA ChosenStays ==
    ASSUME TypeOK, TypeOK', NEW L \in LeaderLogs, NEW M \in LeaderLogs, Continues(L, M),
           messages \subseteq messages', elected \subseteq elected',
           NEW t \in Nat, NEW n \in Position, Chosen(L, t, n)
    PROVE  Chosen(M, t, n)'
<1>1. L[t] \in Seq(Entry) /\ M[t] \in Seq(Entry) /\ n \in Nat
  BY DEF LeaderLogs, Position
<1>2. n \in DOMAIN L[t] /\ L[t][n].term = t
  BY DEF Chosen
<1>3. n \in DOMAIN M[t] /\ M[t][n].term = t
  BY <1>1, <1>2 DEF Continues, Agree
<1>4. PICK Q \in SUBSET Server : CommitQuorum(Q) /\ \A j \in Q : HasAcked(L, j, t, n)
  BY DEF Chosen
<1>5. \A j \in Q : HasAcked(M, j, t, n)'
  BY <1>4, AckedStays
<1> QED
  BY <1>3, <1>4, <1>5 DEF Chosen, CommitQuorum

\* What is chosen, the leader of any later term has.
LEMMA ChosenKept ==
    ASSUME NEW L \in LeaderLogs, ChoiceKept(L), NEW s \in Nat, NEW u \in Nat, s <= u,
           HasLeader(u), NEW n \in Position, Chosen(L, s, n)
    PROVE  Agree(L[u], L[s], n)
<1>1. Choosable(L, s, n) /\ n <= Len(L[s])
  BY ChosenFacts
<1>2. CASE s = u
  BY <1>1, <1>2 DEF Agree
<1>3. CASE s < u
  BY <1>1, <1>3 DEF ChoiceKept
<1> QED
  BY <1>2, <1>3

LEMMA KnownLess ==
    ASSUME NEW L \in LeaderLogs, NEW l \in Seq(Entry), NEW t \in Nat, NEW c \in Nat,
           NEW k \in Nat, k <= c, Known(L, l, t, c)
    PROVE  Known(L, l, t, k)
<1>1. CASE c = 0
  BY <1>1 DEF Known
<1>2. CASE c # 0
  <2>1. PICK s \in Nat, n \in Position :
           s <= t /\ c <= n /\ Chosen(L, s, n) /\ Agree(l, L[s], c)
    BY <1>2 DEF Known
  <2>2. L[s] \in Seq(Entry) /\ k <= n
    BY <2>1 DEF LeaderLogs, Position
  <2>3. Agree(l, L[s], k)
    BY <2>1, <2>2, AgreeLess
  <2> QED
    BY <2>1, <2>2, <2>3 DEF Known
<1> QED
  BY <1>1, <1>2

\* What is known in a term the leader of that term or of a later one has.
LEMMA KnownByLeader ==
    ASSUME NEW L \in LeaderLogs, ChoiceKept(L), NEW l \in Seq(Entry), NEW t \in Nat,
           NEW u \in Nat, t <= u, HasLeader(u), NEW c \in Nat, Known(L, l, t, c)
    PROVE  Agree(l, L[u], c)
<1>1. L[u] \in Seq(Entry)
  BY DEF LeaderLogs
<1>2. CASE c = 0
  BY <1>1, <1>2 DEF Agree
<1>3. CASE c # 0
  <2>1. PICK s \in Nat, n \in Position :
           s <= t /\ c <= n /\ Chosen(L, s, n) /\ Agree(l, L[s], c)
    BY <1>3 DEF Known
  <2>2. L[s] \in Seq(Entry) /\ n \in Nat /\ s <= u
    BY <2>1 DEF LeaderLogs, Position
  <2>3. Agree(L[u], L[s], n)
    BY <2>1, <2>2, ChosenKept
  <2>4. Agree(L[s], L[u], c)
    BY <1>1, <2>1, <2>2, <2>3, AgreeSym, AgreeLess
  <2> QED
    BY <2>1, <2>4, AgreeTrans
<1> QED
  BY <1>2, <1>3

\* Two servers know the same.
LEMMA KnownAgree ==
    ASSUME NEW L \in LeaderLogs, LeadersHold(L), ChoiceKept(L), NEW a \in Seq(Entry),
           NEW b \in Seq(Entry), NEW t \in Nat, NEW u \in Nat, NEW c \in Nat,
           Known(L, a, t, c), Known(L, b, u, c)
    PROVE  Agree(a, b, c)
<1>1. CASE c = 0
  BY <1>1 DEF Agree
<1>2. CASE c # 0
  <2>1. PICK s \in Nat, n \in Position : c <= n /\ Chosen(L, s, n) /\ Agree(a, L[s], c)
    BY <1>2 DEF Known
  <2>2. PICK r \in Nat, p \in Position : c <= p /\ Chosen(L, r, p) /\ Agree(b, L[r], c)
    BY <1>2 DEF Known
  <2>3. HasLeader(s) /\ HasLeader(r)
    BY <2>1, <2>2, ChosenFacts DEF LeadersHold
  <2>4. L[s] \in Seq(Entry) /\ L[r] \in Seq(Entry) /\ n \in Nat /\ p \in Nat
    BY DEF LeaderLogs, Position
  <2>5. CASE s <= r
    <3>1. Agree(L[r], L[s], n)
      BY <2>1, <2>3, <2>5, ChosenKept
    <3>2. Agree(L[s], L[r], c)
      BY <2>1, <2>4, <3>1, AgreeSym, AgreeLess
    <3>3. Agree(L[r], b, c)
      BY <2>2, AgreeSym
    <3> QED
      BY <2>1, <3>2, <3>3, AgreeTrans
  <2>6. CASE r <= s
    <3>1. Agree(L[s], L[r], p)
      BY <2>2, <2>3, <2>6, ChosenKept
    <3>2. Agree(L[s], L[r], c)
      BY <2>2, <2>4, <3>1, AgreeLess
    <3>3. Agree(L[r], b, c)
      BY <2>2, AgreeSym
    <3> QED
      BY <2>1, <3>2, <3>3, AgreeTrans
  <2> QED
    BY <2>5, <2>6
<1> QED
  BY <1>1, <1>2

\* What a server knows no step takes from its log.
LEMMA KnownStays ==
    ASSUME TypeOK, TypeOK', LeaderInv, KeepsVotes, NEW L \in LeaderLogs, LogInvWith(L),
           NEW M \in LeaderLogs, Continues(L, M), ReplicaStep(L, M), ChoiceKept(L),
           elected \subseteq elected',
           NEW i \in Server, NEW c \in Nat, Known(L, log[i], term[i], c)
    PROVE  Known(M, log[i], term[i], c)' /\ Agree(log'[i], log[i], c)
<1>1. log[i] \in Seq(Entry) /\ log'[i] \in Seq(Entry)
  BY DEF TypeOK
<1>2. CASE c = 0
  BY <1>1, <1>2 DEF Known, Agree
<1>3. CASE c # 0
  <2>1. PICK s \in Nat, n \in Position :
           s <= term[i] /\ c <= n /\ Chosen(L, s, n) /\ Agree(log[i], L[s], c)
    BY <1>3 DEF Known
  <2>2. s <= term'[i]
    BY <2>1 DEF TypeOK, KeepsVotes
  <2>3. LogStep(L, M) /\ messages \subseteq messages'
    BY DEF ReplicaStep, NetLogStep
  <2>4. Choosable(L, s, n) /\ n <= Len(L[s])
    BY <2>1, ChosenFacts
  <2>5. Agree(log'[i], L[s], c) /\ Agree(log'[i], M[s], c)
    BY <2>1, <2>2, <2>3, <2>4, SharedStays
  <2>6. Chosen(M, s, n)'
    BY <2>1, <2>3, ChosenStays
  <2>7. Agree(log'[i], log[i], c)
    BY <2>1, <2>5, AgreeSym, AgreeTrans
  <2>8. Agree(log[i], M[s], c)'
    BY <2>5 DEF Agree
  <2>9. (s <= term[i])'
    BY <2>2
  <2> QED
    BY <2>1, <2>6, <2>7, <2>8, <2>9 DEF Known
<1> QED
  BY <1>2, <1>3

-----------------------------------------------------------------------------
(***************************************************************************)
(* What a step does to the commit indices and the state machines, and how  *)
(* it keeps the invariant.                                                 *)
(***************************************************************************)

\* Leader i has counted its commit index.
Counted(i) ==
    /\ state[i] = Leader
    /\ commit[i] \in DOMAIN log[i] /\ log[i][commit[i]].term = term[i]
    /\ \E Q \in SUBSET Server : CommitQuorum(Q) /\ \A j \in Q : j # i =>
          \E m \in messages : Acknowledges(m) /\ m.src = j /\ m.term = term[i]
                                /\ commit[i] <= Acked(m)

\* Follower i has its commit index from AppendEntries m, which it has acknowledged.
Learned(i, m) ==
    /\ m.type = "AppendEntries" /\ m.term = term[i] /\ m.commitIndex = commit[i]
    /\ \E r \in messages : /\ Acknowledges(r) /\ r.src = i /\ r.term = m.term
                           /\ m.commitIndex <= Acked(r)

\* A commit index stays, is lost in a crash, is counted or is learned.
CommitMoves(i) ==
    \/ commit'[i] = commit[i] \/ commit'[i] = 0
    \/ Counted(i)'
    \/ \E m \in messages : Learned(i, m)'

\* AppendEntries tell no more than its sender has committed and the receiver will match.
TellsCommit(m) ==
    /\ m.src \in Server /\ state[m.src] = Leader /\ m.term = term[m.src]
    /\ m.commitIndex <= commit[m.src]
    /\ m.commitIndex <= m.preLogIndex + Len(m.entries)

\* The state machine and lastApply_ stay, or are set again by Start.
ApplyStays(i) ==
    /\ sm'[i] = sm[i]
    /\ started'[i] =>
         \/ lastApply'[i] = sm[i].last
         \/ started[i] /\ lastApply'[i] = lastApply[i] /\ commit[i] <= commit'[i]

\* The state machine runs up to the new commit index.
Applies(i) ==
    /\ started[i] /\ lastApply[i] < commit'[i]
    /\ lastApply'[i] = commit'[i]
    /\ LET data == DataIndices(log'[i], lastApply[i], commit'[i])
       IN  /\ sm'[i].last = IF data = {} THEN sm[i].last ELSE Max(data)
           /\ \A k \in Index : sm'[i].applied[k] = IF k \in data
                                                   THEN Append(sm[i].applied[k], log'[i][k])
                                                   ELSE sm[i].applied[k]

CommitStep ==
    /\ \A i \in Server : CommitMoves(i) /\ (ApplyStays(i) \/ Applies(i))
    /\ \A m \in messages' \ messages : m.type = "AppendEntries" => TellsCommit(m)'

\* The indices DataIndices gives lie between its bounds, and so does the last of them.
LEMMA DataFacts ==
    ASSUME NEW l \in Seq(Entry), NEW a \in Nat, NEW c \in Nat, DataIndices(l, a, c) # {}
    PROVE  /\ Max(DataIndices(l, a, c)) \in DataIndices(l, a, c)
           /\ \A k \in DataIndices(l, a, c) : k <= Max(DataIndices(l, a, c))
<1> DEFINE S == DataIndices(l, a, c)
<1>1. S \subseteq 0..c /\ S # {}
  BY DEF DataIndices, Index
<1> HIDE DEF S
<1>2. Max(S) \in S /\ \A k \in S : k <= Max(S)
  BY <1>1, MaxIsElement
<1> QED
  BY <1>2 DEF S

\* A leader that has counted an index has chosen it.
LEMMA CountedKnown ==
    ASSUME TypeOK', LeaderInv', NEW M \in LeaderLogs, LogInvWith(M)', NEW i \in Server,
           Counted(i)'
    PROVE  Known(M, log[i], term[i], commit[i])'
<1>1. PICK t \in Nat, c \in Nat : t = term'[i] /\ c = commit'[i]
  BY DEF TypeOK
<1>2. log'[i] \in Seq(Entry) /\ state'[i] = Leader
  BY DEF TypeOK, Counted
<1>3. <<t, i>> \in elected'
  BY <1>1, <1>2 DEF LeaderInv, KnowsElected
<1>4. log'[i] = M[t]
  BY <1>1, <1>3 DEF LogInvWith, LeadersHold
<1>5. c \in DOMAIN M[t] /\ M[t][c].term = t
  BY <1>1, <1>4 DEF Counted
<1>6. c \in Position /\ c <= Len(M[t])
  BY <1>2, <1>4, <1>5 DEF Position
<1>7. PICK Q \in SUBSET Server : CommitQuorum(Q) /\ \A j \in Q : j # i =>
         \E m \in messages' : Acknowledges(m) /\ m.src = j /\ m.term = t /\ c <= Acked(m)
  BY <1>1 DEF Counted, CommitQuorum, Acknowledges, Acked
<1>8. ASSUME NEW j \in Q
      PROVE  HasAcked(M, j, t, c)'
  <2>1. \/ \E m \in messages' : Acknowledges(m) /\ m.src = j /\ m.term = t /\ c <= Acked(m)
        \/ <<t, j>> \in elected' /\ c <= Len(M[t])
    BY <1>3, <1>6, <1>7
  <2> QED
    BY <2>1 DEF HasAcked, Acknowledges, Acked
<1>9. Chosen(M, t, c)'
  BY <1>5, <1>7, <1>8 DEF Chosen, CommitQuorum
<1>10. Agree(log[i], M[t], c)'
  BY <1>2, <1>4, <1>6 DEF Agree
<1>11. (t <= term[i])' /\ c <= c
  BY <1>1
<1>12. Known(M, log[i], term[i], c)'
  BY <1>6, <1>9, <1>10, <1>11 DEF Known
<1> QED
  BY <1>1, <1>12 DEF Known

\* What the leader's commit index covers a follower that acknowledged the message has.
LEMMA LearnedKnown ==
    ASSUME TypeOK', NEW M \in LeaderLogs, LogInvWith(M)', NEW i \in Server, NEW m,
           m.type = "AppendEntries", m.term \in Nat, m.commitIndex \in Nat,
           Known(M, M[m.term], m.term, m.commitIndex)', Learned(i, m)'
    PROVE  Known(M, log[i], term[i], commit[i])'
<1> DEFINE c == m.commitIndex
           t == m.term
<1>1. term'[i] = t /\ commit'[i] = c /\ log'[i] \in Seq(Entry) /\ M[t] \in Seq(Entry)
  BY DEF Learned, TypeOK, LeaderLogs
<1>2. PICK r \in messages' : Acknowledges(r) /\ r.src = i /\ r.term = t /\ c <= Acked(r)
  BY DEF Learned, Acknowledges, Acked
<1>3. Acked(r) \in Nat
  <2>1. r \in AppendEntriesReplyMsg
    <3>1. r \in Message
      BY DEF TypeOK
    <3> QED
      BY <1>2, <3>1, MessageKind DEF Acknowledges
  <2> QED
    BY <2>1 DEF AppendEntriesReplyMsg, Acked
<1>4. Agree(log'[i], M[t], Acked(r))
  BY <1>1, <1>2 DEF LogInvWith, AcksSound, AckSound, Acknowledges, Acked, Agree
<1>5. Agree(log'[i], M[t], c)
  BY <1>1, <1>2, <1>3, <1>4, AgreeLess
<1>6. CASE c = 0
  BY <1>1, <1>6 DEF Known
<1>7. CASE c # 0
  <2>1. PICK s \in Nat, n \in Position :
           s <= t /\ c <= n /\ Chosen(M, s, n)' /\ Agree(M[t], M[s], c)
    BY <1>7 DEF Known, Agree
  <2>2. Agree(log'[i], M[s], c)
    BY <1>5, <2>1, AgreeTrans
  <2>3. Agree(log[i], M[s], c)' /\ (s <= term[i])'
    BY <1>1, <2>1, <2>2 DEF Agree
  <2>4. Known(M, log[i], term[i], c)'
    BY <2>1, <2>3 DEF Known
  <2> QED
    BY <1>1, <2>4 DEF Known
<1> QED
  BY <1>6, <1>7

\* The commit index of an AppendEntries stays known: the leaders' logs only grow.
LEMMA ToldStays ==
    ASSUME TypeOK, TypeOK', NEW L \in LeaderLogs, NEW M \in LeaderLogs, Continues(L, M),
           messages \subseteq messages', elected \subseteq elected',
           NEW t \in Nat, NEW c \in Nat, Known(L, L[t], t, c)
    PROVE  Known(M, M[t], t, c)'
<1>1. CASE c = 0
  BY <1>1 DEF Known
<1>2. CASE c # 0
  <2>1. PICK s \in Nat, n \in Position :
           s <= t /\ c <= n /\ Chosen(L, s, n) /\ Agree(L[t], L[s], c)
    BY <1>2 DEF Known
  <2>2. L[t] \in Seq(Entry) /\ M[t] \in Seq(Entry) /\ M[s] \in Seq(Entry)
    BY DEF LeaderLogs
  <2>3. Agree(M[s], L[t], c)
    BY <2>1, <2>2, ContinuedAgree, AgreeSym
  <2>4. Agree(M[s], M[t], c)
    BY <2>2, <2>3, ContinuedAgree
  <2>5. Agree(M[t], M[s], c)'
    BY <2>4 DEF Agree
  <2>6. Chosen(M, s, n)'
    BY <2>1, ChosenStays
  <2> QED
    BY <2>1, <2>5, <2>6 DEF Known
<1> QED
  BY <1>1, <1>2

LEMMA AppendEntriesTyped ==
    ASSUME TypeOK, NEW m \in messages, m.type = "AppendEntries"
    PROVE  /\ m.src \in Server /\ m.dest \in Server
           /\ m.term \in Nat /\ m.commitIndex \in Nat /\ m.preLogIndex \in Nat
           /\ m.entries \in Seq(Entry) /\ m \in AppendEntriesMsg
<1>1. m \in AppendEntriesMsg
  BY MessageKind DEF TypeOK
<1> QED
  BY <1>1 DEF AppendEntriesMsg

\* The setting of the step lemmas: the invariants before a step, and what layers below say of it.
StepOf(L, M) ==
    /\ TypeOK /\ TypeOK' /\ LeaderInv /\ LeaderInv' /\ KeepsVotes
    /\ L \in LeaderLogs /\ M \in LeaderLogs /\ Continues(L, M)
    /\ LogInvWith(L) /\ LogInvWith(M)' /\ ChoiceInv(L) /\ ReplicaStep(L, M)
    /\ messages \subseteq messages' /\ elected \subseteq elected'

LEMMA StepCommits ==
    ASSUME NEW L, NEW M, StepOf(L, M), CommitsKnown(L), CommitStep, NEW i \in Server
    PROVE  Known(M, log[i], term[i], commit[i])'
<1>1. /\ TypeOK /\ TypeOK' /\ LeaderInv /\ LeaderInv' /\ KeepsVotes
      /\ L \in LeaderLogs /\ M \in LeaderLogs /\ Continues(L, M)
      /\ LogInvWith(L) /\ LogInvWith(M)' /\ ChoiceKept(L) /\ ReplicaStep(L, M)
      /\ messages \subseteq messages' /\ elected \subseteq elected'
  BY DEF StepOf, ChoiceInv
<1>2. CASE commit'[i] = commit[i]
  <2>1. PICK c \in Nat : c = commit[i]
    BY <1>1 DEF TypeOK
  <2>2. Known(L, log[i], term[i], c)
    BY <2>1 DEF CommitsKnown
  <2>3. Known(M, log[i], term[i], c)'
    BY <1>1, <2>2, KnownStays
  <2> QED
    BY <1>2, <2>1, <2>3 DEF Known
<1>3. CASE commit'[i] = 0
  BY <1>3 DEF Known
<1>4. CASE Counted(i)'
  BY <1>1, <1>4, CountedKnown
<1>5. ASSUME NEW m \in messages, Learned(i, m)'
      PROVE  Known(M, log[i], term[i], commit[i])'
  <2>1. m.type = "AppendEntries"
    BY <1>5 DEF Learned
  <2>2. m.term \in Nat /\ m.commitIndex \in Nat
    BY <1>1, <2>1, AppendEntriesTyped
  <2>3. Known(L, L[m.term], m.term, m.commitIndex)
    BY <2>1 DEF CommitsKnown, CommitSound
  <2>4. Known(M, M[m.term], m.term, m.commitIndex)'
    BY <1>1, <2>2, <2>3, ToldStays
  <2> QED
    BY <1>1, <1>5, <2>1, <2>2, <2>4, LearnedKnown
<1> QED
  BY <1>2, <1>3, <1>4, <1>5 DEF CommitStep, CommitMoves

\* Known for a smaller index, after the step.
LEMMA KnownLessAfter ==
    ASSUME TypeOK', NEW M \in LeaderLogs, NEW i \in Server, NEW c \in Nat, c <= commit'[i],
           Known(M, log[i], term[i], commit[i])'
    PROVE  Known(M, log[i], term[i], c)'
<1>1. PICK d \in Nat : d = commit'[i]
  BY DEF TypeOK
<1>2. log'[i] \in Seq(Entry)
  BY DEF TypeOK
<1>3. CASE d = 0
  BY <1>1, <1>3 DEF Known
<1>4. CASE d # 0
  <2>1. PICK s \in Nat, n \in Position :
           s <= term'[i] /\ d <= n /\ Chosen(M, s, n)' /\ Agree(log'[i], M[s], d)
    BY <1>1, <1>4 DEF Known, Agree
  <2>2. M[s] \in Seq(Entry) /\ c <= n
    <3>1. M[s] \in Seq(Entry) /\ n \in Nat /\ c <= d
      BY <1>1 DEF LeaderLogs, Position
    <3> QED
      BY <2>1, <3>1
  <2>3. Agree(log'[i], M[s], c)
    BY <1>1, <1>2, <2>1, <2>2, AgreeLess
  <2>4. Agree(log[i], M[s], c)' /\ (s <= term[i])'
    BY <2>1, <2>3 DEF Agree
  <2> QED
    BY <2>1, <2>2, <2>4 DEF Known
<1> QED
  BY <1>3, <1>4

LEMMA StepLast ==
    ASSUME NEW L, NEW M, StepOf(L, M), CommitsKnown(L), CommitStep, NEW i \in Server
    PROVE  Known(M, log[i], term[i], sm[i].last)'
<1>1. /\ TypeOK /\ TypeOK' /\ LeaderInv /\ KeepsVotes
      /\ L \in LeaderLogs /\ M \in LeaderLogs /\ Continues(L, M)
      /\ LogInvWith(L) /\ ChoiceKept(L) /\ ReplicaStep(L, M)
      /\ messages \subseteq messages' /\ elected \subseteq elected'
  BY DEF StepOf, ChoiceInv
<1>2. PICK c \in Nat : c = sm'[i].last
  BY <1>1 DEF TypeOK
<1>3. CASE sm'[i].last = sm[i].last
  <2>1. Known(L, log[i], term[i], c)
    BY <1>2, <1>3 DEF CommitsKnown
  <2>2. Known(M, log[i], term[i], c)'
    BY <1>1, <2>1, KnownStays
  <2> QED
    BY <1>2, <2>2 DEF Known
<1>4. CASE Applies(i) /\ sm'[i].last # sm[i].last
  <2> DEFINE data == DataIndices(log'[i], lastApply[i], commit'[i])
  <2>1. sm'[i].last = Max(data) /\ data # {}
    BY <1>4 DEF Applies
  <2>2. log'[i] \in Seq(Entry) /\ lastApply[i] \in Nat /\ commit'[i] \in Nat
    BY <1>1 DEF TypeOK
  <2>3. Max(data) \in data
    BY <2>1, <2>2, DataFacts
  <2>4. c <= commit'[i]
    BY <1>2, <2>1, <2>3 DEF DataIndices
  <2>5. Known(M, log[i], term[i], c)'
    BY <1>1, <2>4, StepCommits, KnownLessAfter
  <2> QED
    BY <1>2, <2>5 DEF Known
<1> QED
  BY <1>3, <1>4 DEF CommitStep, ApplyStays

LEMMA StepTold ==
    ASSUME NEW L, NEW M, StepOf(L, M), CommitsKnown(L), CommitStep, NEW m \in messages',
           m.type = "AppendEntries"
    PROVE  CommitSound(m, M)'
<1>1. /\ TypeOK /\ TypeOK' /\ LeaderInv' /\ Continues(L, M)
      /\ L \in LeaderLogs /\ M \in LeaderLogs /\ LogInvWith(M)'
      /\ messages \subseteq messages' /\ elected \subseteq elected'
  BY DEF StepOf
<1>2. CASE m \in messages
  <2>1. m.term \in Nat /\ m.commitIndex \in Nat
    BY <1>1, <1>2, AppendEntriesTyped
  <2>2. CommitSound(m, L)
    BY <1>2 DEF CommitsKnown
  <2>3. Known(M, M[m.term], m.term, m.commitIndex)'
    BY <1>1, <2>1, <2>2, ToldStays DEF CommitSound
  <2> QED
    BY <2>2, <2>3 DEF CommitSound
<1>3. CASE m \notin messages
  <2>1. TellsCommit(m)'
    BY <1>3 DEF CommitStep
  <2>2. PICK i \in Server : i = m.src
    BY <2>1 DEF TellsCommit
  <2>3. /\ state'[i] = Leader /\ m.term = term'[i] /\ m.commitIndex <= commit'[i]
        /\ m.commitIndex <= m.preLogIndex + Len(m.entries)
    BY <2>1, <2>2 DEF TellsCommit
  <2>4. m.commitIndex \in Nat /\ m.term \in Nat
    <3>1. m \in AppendEntriesMsg
      <4>1. m \in Message
        BY <1>1 DEF TypeOK
      <4> QED
        BY <4>1, MessageKind
    <3> QED
      BY <3>1 DEF AppendEntriesMsg
  <2>5. Known(M, log[i], term[i], m.commitIndex)'
    BY <1>1, <2>3, <2>4, StepCommits, KnownLessAfter
  <2>6. <<m.term, i>> \in elected'
    BY <1>1, <2>3 DEF LeaderInv, KnowsElected
  <2>7. log'[i] = M[m.term]
    BY <1>1, <2>3, <2>4, <2>6 DEF LogInvWith, LeadersHold
  <2>8. Known(M, M[m.term], m.term, m.commitIndex)'
    BY <2>3, <2>5, <2>7 DEF Known
  <2> QED
    BY <2>3, <2>8 DEF CommitSound
<1> QED
  BY <1>2, <1>3

LEMMA StepKnown ==
    ASSUME NEW L, NEW M, StepOf(L, M), CommitsKnown(L), CommitStep
    PROVE  CommitsKnown(M)'
BY StepCommits, StepLast, StepTold DEF CommitsKnown

-----------------------------------------------------------------------------
\* What a server knows is within its log.
LEMMA KnownWithin ==
    ASSUME NEW L \in LeaderLogs, NEW l \in Seq(Entry), NEW t, NEW c, Known(L, l, t, c)
    PROVE  c <= Len(l)
<1>1. Len(l) \in Nat
  OBVIOUS
<1> QED
  BY <1>1 DEF Known, Agree

\* What the state machine has applied, and what is committed, the step leaves in the log.
LEMMA AppliedKept ==
    ASSUME NEW L, NEW M, StepOf(L, M), CommitsKnown(L), NEW i \in Server
    PROVE  Agree(log'[i], log[i], sm[i].last) /\ Agree(log'[i], log[i], commit[i])
<1>1. /\ TypeOK /\ TypeOK' /\ LeaderInv /\ KeepsVotes
      /\ L \in LeaderLogs /\ M \in LeaderLogs /\ Continues(L, M)
      /\ LogInvWith(L) /\ ChoiceKept(L) /\ ReplicaStep(L, M) /\ elected \subseteq elected'
  BY DEF StepOf, ChoiceInv
<1>2. sm[i].last \in Nat /\ commit[i] \in Nat
  BY <1>1 DEF TypeOK
<1>3. Known(L, log[i], term[i], sm[i].last) /\ Known(L, log[i], term[i], commit[i])
  BY DEF CommitsKnown
<1> QED
  BY <1>1, <1>2, <1>3, KnownStays

\* The log below lastApply_ is that of before the step, beyond the last applied index too.
LEMMA NoopsKept ==
    ASSUME NEW L, NEW M, StepOf(L, M), CommitsKnown(L), NEW i \in Server, started[i],
           ApplySound(i), NEW k \in Index, sm[i].last < k, k <= lastApply[i]
    PROVE  log'[i][k].value = Noop
<1>1. /\ sm[i].last \in Nat /\ lastApply[i] \in Nat /\ commit[i] \in Nat
      /\ k \in Nat /\ 1 <= k
  BY BoundAssumption DEF StepOf, TypeOK, Index
<1>2. k <= commit[i]
  BY <1>1 DEF ApplySound
<1>3. Agree(log'[i], log[i], commit[i])
  BY AppliedKept
<1>4. log'[i][k] = log[i][k]
  BY <1>1, <1>2, <1>3 DEF Agree
<1> QED
  BY <1>4 DEF ApplySound

LEMMA StepHolds ==
    ASSUME NEW L, NEW M, StepOf(L, M), CommitsKnown(L), CommitStep, AppliesSound,
           NEW i \in Server
    PROVE  HoldsLog(i)'
<1> DEFINE a == sm[i].last
           c == commit'[i]
           d == lastApply[i]
           l == log'[i]
<1>1. /\ a \in Nat /\ c \in Nat /\ d \in Nat /\ l \in Seq(Entry)
      /\ sm'[i].last \in Nat
  BY DEF StepOf, TypeOK
<1>2. ApplySound(i) /\ HoldsLog(i)
  BY DEF AppliesSound
<1>3. \A k \in 1..a : l[k] = log[i][k]
  BY AppliedKept DEF Agree
<1>4. \A k \in Index : k \in Nat /\ 1 <= k
  BY BoundAssumption DEF Index
<1>5. \A k \in Index : k <= a => l[k] = log[i][k]
  BY <1>1, <1>3, <1>4
<1> SUFFICES ASSUME NEW k \in Index
             PROVE  sm'[i].applied[k] = IF k <= sm'[i].last /\ l[k].value # Noop
                                        THEN <<l[k]>> ELSE <<>>
  BY DEF HoldsLog
<1>6. sm[i].applied[k] = IF k <= a /\ log[i][k].value # Noop THEN <<log[i][k]>> ELSE <<>>
  BY <1>2 DEF HoldsLog
<1>7. CASE ApplyStays(i)
  BY <1>5, <1>6, <1>7 DEF ApplyStays
<1>8. CASE Applies(i)
  <2> DEFINE data == DataIndices(l, d, c)
  <2>1. /\ started[i] /\ d < c
        /\ sm'[i].last = IF data = {} THEN a ELSE Max(data)
        /\ sm'[i].applied[k] = IF k \in data THEN Append(sm[i].applied[k], l[k])
                                             ELSE sm[i].applied[k]
    BY <1>8 DEF Applies
  <2>2. a <= d
    BY <1>2, <2>1 DEF ApplySound
  <2>3. c <= Len(l)
    <3>1. Known(M, log[i], term[i], commit[i])'
      BY StepCommits
    <3>2. c = 0 \/ \E s, n : Agree(l, M[s], c)
      BY <3>1 DEF Known, Agree
    <3> QED
      BY <1>1, <3>2 DEF Agree
  <2>4. k \in data <=> d < k /\ k <= c /\ l[k].value # Noop
    <3>1. k <= c => k \in DOMAIN l
      BY <1>1, <1>4, <2>3
    <3> QED
      BY <3>1 DEF DataIndices
  <2>5. data # {} => Max(data) \in data /\ \A n \in data : n <= Max(data)
    BY <1>1, DataFacts
  <2>6. data # {} => d < Max(data) /\ Max(data) <= c /\ Max(data) \in Nat
    <3>1. \A n \in data : d < n /\ n <= c /\ n \in Nat
      BY <1>4 DEF DataIndices
    <3> QED
      BY <2>5, <3>1
  <2>7. CASE k \in data
    <3>1. d < k /\ l[k].value # Noop /\ ~(k <= a) /\ k <= sm'[i].last
      BY <1>1, <1>4, <2>1, <2>2, <2>4, <2>5, <2>7
    <3>2. sm[i].applied[k] = <<>>
      BY <1>6, <3>1
    <3>3. sm'[i].applied[k] = Append(<<>>, l[k])
      BY <2>1, <2>7, <3>2
    <3>4. Append(<<>>, l[k]) = <<l[k]>>
      OBVIOUS
    <3> QED
      BY <3>1, <3>3, <3>4
  <2>8. CASE k \notin data /\ k <= a
    <3>1. k <= sm'[i].last
      <4>1. a <= sm'[i].last
        BY <1>1, <2>1, <2>2, <2>6
      <4> QED
        BY <1>1, <1>4, <2>8, <4>1
    <3>2. sm'[i].applied[k] = sm[i].applied[k] /\ l[k] = log[i][k]
      BY <1>5, <2>1, <2>8
    <3> QED
      BY <1>6, <2>8, <3>1, <3>2
  <2>9. CASE k \notin data /\ ~(k <= a)
    <3>1. sm'[i].applied[k] = <<>>
      BY <1>6, <2>1, <2>9
    <3>2. k <= sm'[i].last => l[k].value = Noop
      <4> SUFFICES ASSUME k <= sm'[i].last
                   PROVE  l[k].value = Noop
        OBVIOUS
      <4>1. a < k /\ k <= c
        BY <1>1, <1>4, <2>1, <2>6, <2>9
      <4>2. CASE k <= d
        BY <1>2, <2>1, <4>1, <4>2, NoopsKept
      <4>3. CASE d < k
        BY <2>4, <2>9, <4>1, <4>3
      <4> QED
        BY <1>1, <1>4, <4>2, <4>3
    <3> QED
      BY <3>1, <3>2
  <2> QED
    BY <2>7, <2>8, <2>9
<1> QED
  BY <1>7, <1>8 DEF CommitStep

LEMMA StepApply ==
    ASSUME NEW L, NEW M, StepOf(L, M), CommitsKnown(L), CommitStep, AppliesSound,
           NEW i \in Server
    PROVE  ApplySound(i)'
<1> SUFFICES ASSUME started'[i]
             PROVE  /\ sm'[i].last <= lastApply'[i]
                    /\ lastApply'[i] <= commit'[i] \/ lastApply'[i] = sm'[i].last
                    /\ \A k \in Index : sm'[i].last < k /\ k <= lastApply'[i]
                          => log'[i][k].value = Noop
  BY DEF ApplySound
<1>1. /\ sm[i].last \in Nat /\ commit'[i] \in Nat /\ commit[i] \in Nat /\ lastApply[i] \in Nat
      /\ log'[i] \in Seq(Entry) /\ sm'[i].last \in Nat
  BY DEF StepOf, TypeOK
<1>2. ApplySound(i)
  BY DEF AppliesSound
<1>3. \A k \in Index : k \in Nat /\ 1 <= k
  BY BoundAssumption DEF Index
<1>4. CASE ApplyStays(i) /\ lastApply'[i] = sm[i].last
  BY <1>1, <1>3, <1>4 DEF ApplyStays
<1>5. CASE ApplyStays(i) /\ started[i] /\ lastApply'[i] = lastApply[i] /\ commit[i] <= commit'[i]
  <2>1. sm'[i] = sm[i]
    BY <1>5 DEF ApplyStays
  <2>2. /\ sm[i].last <= lastApply[i]
        /\ lastApply[i] <= commit'[i] \/ lastApply[i] = sm[i].last
    BY <1>1, <1>2, <1>5 DEF ApplySound
  <2>3. \A k \in Index : sm[i].last < k /\ k <= lastApply[i] => log'[i][k].value = Noop
    BY <1>2, <1>5, NoopsKept
  <2> QED
    BY <1>5, <2>1, <2>2, <2>3
<1>6. CASE Applies(i)
  <2> DEFINE l == log'[i]
             c == commit'[i]
             d == lastApply[i]
             data == DataIndices(l, d, c)
  <2>1. /\ started[i] /\ d < c /\ lastApply'[i] = c
        /\ sm'[i].last = IF data = {} THEN sm[i].last ELSE Max(data)
    BY <1>6 DEF Applies
  <2>2. sm[i].last <= d
    BY <1>2, <2>1 DEF ApplySound
  <2>3. data # {} => Max(data) \in data /\ \A n \in data : n <= Max(data)
    BY <1>1, DataFacts
  <2>4. \A n \in data : d < n /\ n <= c /\ n \in Nat
    BY <1>3 DEF DataIndices
  <2>5. sm'[i].last <= c /\ sm[i].last <= sm'[i].last
    BY <1>1, <2>1, <2>2, <2>3, <2>4
  <2>6. c <= Len(l)
    <3>1. Known(M, log[i], term[i], commit[i])'
      BY StepCommits
    <3>2. c = 0 \/ \E s, n : Agree(l, M[s], c)
      BY <3>1 DEF Known, Agree
    <3> QED
      BY <1>1, <3>2 DEF Agree
  <2>7. ASSUME NEW k \in Index, sm'[i].last < k, k <= c
        PROVE  l[k].value = Noop
    <3>1. CASE k <= d
      <4>1. sm[i].last < k
        BY <1>1, <1>3, <2>5, <2>7
      <4> QED
        BY <1>2, <2>1, <3>1, <4>1, NoopsKept
    <3>2. CASE d < k
      <4> SUFFICES ASSUME l[k].value # Noop
                   PROVE  FALSE
        OBVIOUS
      <4>1. k \in DOMAIN l
        BY <1>1, <1>3, <2>6, <2>7
      <4>2. k \in data
        BY <2>7, <3>2, <4>1 DEF DataIndices
      <4>3. k <= sm'[i].last
        BY <2>1, <2>3, <4>2
      <4> QED
        BY <1>1, <1>3, <2>7, <4>3
    <3> QED
      BY <1>1, <1>3, <3>1, <3>2
  <2> HIDE DEF data
  <2> QED
    BY <1>1, <2>1, <2>5, <2>7
<1> QED
  BY <1>4, <1>5, <1>6 DEF CommitStep, ApplyStays

LEMMA CommitStepInv ==
    ASSUME NEW L, NEW M, StepOf(L, M), ChoiceInv(M)', CommitsKnown(L), CommitStep, AppliesSound
    PROVE  CommitInv'
<1>1. M \in LeaderLogs /\ LogInvWith(M)'
  BY DEF StepOf
<1>2. CommitsKnown(M)'
  BY StepKnown
<1>3. AppliesSound'
  BY StepHolds, StepApply DEF AppliesSound
<1> QED
  BY <1>1, <1>2, <1>3 DEF CommitInv

-----------------------------------------------------------------------------
(***************************************************************************)
(* Every action takes such a step.                                         *)
(***************************************************************************)

\* Nothing of the commit, the state machine or the running of another server changes.
OthersKeepCommit(i) ==
    \A k \in Peers(i) : /\ commit'[k] = commit[k] /\ sm'[k] = sm[k]
                        /\ lastApply'[k] = lastApply[k] /\ started'[k] = started[k]

NoNewAppend == \A m \in messages' \ messages : m.type # "AppendEntries"

LEMMA OneServerCommit ==
    ASSUME TypeOK, NEW i \in Server, OthersKeepCommit(i), CommitMoves(i),
           ApplyStays(i) \/ Applies(i),
           \A m \in messages' \ messages : m.type = "AppendEntries" => TellsCommit(m)'
    PROVE  CommitStep
<1>1. ASSUME NEW k \in Server, k # i
      PROVE  CommitMoves(k) /\ ApplyStays(k)
  <2>1. /\ commit'[k] = commit[k] /\ sm'[k] = sm[k] /\ commit[k] \in Nat
        /\ lastApply'[k] = lastApply[k] /\ started'[k] = started[k]
    BY <1>1 DEF OthersKeepCommit, Peers, TypeOK
  <2> QED
    BY <2>1 DEF CommitMoves, ApplyStays
<1> QED
  BY <1>1 DEF CommitStep

LEMMA SameCommit ==
    ASSUME TypeOK, UNCHANGED <<commit, smVars, started>>, NoNewAppend
    PROVE  CommitStep
<1>1. ASSUME NEW k \in Server
      PROVE  CommitMoves(k) /\ ApplyStays(k)
  <2>1. commit[k] \in Nat
    BY DEF TypeOK
  <2> QED
    BY <2>1 DEF CommitMoves, ApplyStays, smVars
<1> QED
  BY <1>1 DEF CommitStep, NoNewAppend

\* The process dies: the commit index is lost, the state machine is on disk.
LEMMA LoseVolatileCommit ==
    ASSUME TypeOK, NEW i \in Server, LoseVolatile(i)
    PROVE  CommitStep
<1>1. commit'[i] = 0 /\ ~started'[i] /\ sm'[i] = sm[i] /\ messages' = messages
  BY DEF LoseVolatile, TypeOK
<1>2. OthersKeepCommit(i)
  BY DEF LoseVolatile, OthersKeepCommit, Peers, TypeOK
<1> QED
  BY <1>1, <1>2, OneServerCommit DEF CommitMoves, ApplyStays

\* What SendAppendEntries writes into the message.
LEMMA AppendEntriesTells ==
    ASSUME TypeOK, NEW i \in Server, NEW j, NEW l \in Seq(Entry), NEW n \in Nat \ {0},
           NEW c \in Nat
    PROVE  /\ AppendEntries(i, j, l, n, c).src = i
           /\ AppendEntries(i, j, l, n, c).term = term[i]
           /\ AppendEntries(i, j, l, n, c).commitIndex <= c
           /\ AppendEntries(i, j, l, n, c).commitIndex
                <= AppendEntries(i, j, l, n, c).preLogIndex
                     + Len(AppendEntries(i, j, l, n, c).entries)
<1> DEFINE m == AppendEntries(i, j, l, n, c)
           e == IF n \in DOMAIN l THEN <<l[n]>> ELSE <<>>
<1>1. /\ m.src = i /\ m.term = term[i] /\ m.preLogIndex = n - 1 /\ m.entries = e
      /\ m.commitIndex = Min({c, n - 1 + Len(e)})
  BY DEF AppendEntries
<1>2. Len(e) \in Nat
  OBVIOUS
<1> HIDE DEF m, e
<1>3. n - 1 + Len(e) \in Nat
  BY <1>2
<1>4. m.commitIndex <= c /\ m.commitIndex <= n - 1 + Len(e)
  BY <1>1, <1>3, MinOfTwo
<1> QED
  BY <1>1, <1>4 DEF m

\* A leader tells the commit index it has after the step.
LEMMA LeaderTells ==
    ASSUME TypeOK, TypeOK', NEW i \in Server, state'[i] = Leader, term'[i] = term[i],
           \A m \in messages' \ messages : \E j, l, n :
              l \in Seq(Entry) /\ n \in Nat \ {0} /\ m = AppendEntries(i, j, l, n, commit'[i])
    PROVE  \A m \in messages' \ messages : m.type = "AppendEntries" => TellsCommit(m)'
<1> SUFFICES ASSUME NEW m \in messages' \ messages
             PROVE  TellsCommit(m)'
  OBVIOUS
<1>1. PICK j, l, n :
         l \in Seq(Entry) /\ n \in Nat \ {0} /\ m = AppendEntries(i, j, l, n, commit'[i])
  OBVIOUS
<1>2. commit'[i] \in Nat
  BY DEF TypeOK
<1>3. /\ m.src = i /\ m.term = term[i] /\ m.commitIndex <= commit'[i]
      /\ m.commitIndex <= m.preLogIndex + Len(m.entries)
  BY <1>1, <1>2, AppendEntriesTells
<1> QED
  BY <1>3 DEF TellsCommit

\* Setting the commit index to c, which is no step back.
LEMMA SetCommitStep ==
    ASSUME TypeOK, NEW i \in Server, NEW l, log'[i] = l, NEW c \in Nat, commit[i] <= c,
           SetCommit(i, l, c), started[i], UNCHANGED started
    PROVE  commit'[i] = c /\ OthersKeepCommit(i) /\ (ApplyStays(i) \/ Applies(i))
<1>1. commit'[i] = c /\ started'[i] = started[i]
  BY DEF SetCommit, TypeOK
<1>2. CASE UNCHANGED smVars
  <2>1. ApplyStays(i)
    BY <1>1, <1>2 DEF ApplyStays, smVars
  <2>2. OthersKeepCommit(i)
    BY <1>2 DEF SetCommit, OthersKeepCommit, Peers, TypeOK, smVars
  <2> QED
    BY <1>1, <2>1, <2>2
<1>3. CASE c > lastApply[i] /\ StateMachineApply(i, l, c)
  <2> DEFINE data == DataIndices(l, lastApply[i], c)
             s == [last |-> IF data = {} THEN sm[i].last ELSE Max(data),
                   applied |-> [k \in Index |-> IF k \in data
                                                THEN Append(sm[i].applied[k], l[k])
                                                ELSE sm[i].applied[k]]]
  <2>1. sm' = [sm EXCEPT ![i] = s] /\ lastApply' = [lastApply EXCEPT ![i] = c]
    BY <1>3 DEF StateMachineApply, TypeOK
  <2>2. /\ s.last = IF data = {} THEN sm[i].last ELSE Max(data)
        /\ \A k \in Index : s.applied[k] = IF k \in data THEN Append(sm[i].applied[k], l[k])
                                           ELSE sm[i].applied[k]
    OBVIOUS
  <2> HIDE DEF s
  <2>3. sm'[i] = s /\ lastApply'[i] = c
    BY <2>1 DEF TypeOK
  <2>4. OthersKeepCommit(i)
    BY <2>1 DEF SetCommit, OthersKeepCommit, Peers, TypeOK
  <2>5. lastApply[i] < c
    BY <1>3 DEF TypeOK
  <2>6. Applies(i)
    BY <1>1, <2>2, <2>3, <2>5 DEF Applies
  <2> QED
    BY <1>1, <2>4, <2>6
<1> QED
  BY <1>2, <1>3 DEF SetCommit

\* IndexManager::MajorityMax: enough servers have reached the index it returns.
LEMMA MajorityMaxFacts ==
    ASSUME NEW i \in Server, NEW mt \in [Server -> Nat], NEW last \in Nat
    PROVE  /\ MajorityMax(i, mt, last) \in Nat
           /\ CommitQuorum(Reaching(i, mt, last, MajorityMax(i, mt, last)))
<1>1. Reaching(i, mt, last, MajorityMax(i, mt, last)) \subseteq Server
  BY DEF Reaching
<1> QED
  BY <1>1, MajorityMaxType, BoundAssumption DEF CommitQuorum

\* MaybeCommit keeps the commit index, or the leader has counted the new one.
LEMMA LeaderCounts ==
    ASSUME TypeOK, TypeOK', LeaderInv', NEW M \in LeaderLogs, LogInvWith(M)', NEW i \in Server,
           state'[i] = Leader, term'[i] = term[i],
           NEW c, c = MaybeCommit(i, log'[i], match'[i])
    PROVE  /\ c \in Nat /\ commit[i] <= c
           /\ commit'[i] = c => c = commit[i] \/ Counted(i)'
<1> DEFINE l == log'[i]
           mt == match'[i]
           new == MajorityMax(i, mt, LastIndex(l))
<1>1. /\ l \in Seq(Entry) /\ mt \in [Server -> Nat] /\ commit[i] \in Nat /\ term'[i] \in Nat
  BY DEF TypeOK
<1>2. LastIndex(l) = Len(l) /\ Len(l) \in Nat
  BY <1>1 DEF LastIndex
<1>3. new \in Nat /\ CommitQuorum(Reaching(i, mt, LastIndex(l), new))
  BY <1>1, <1>2, MajorityMaxFacts
<1>4. c = IF new > commit[i] /\ GetTerm(l, new) = term[i] THEN new ELSE commit[i]
  BY DEF MaybeCommit
<1> HIDE DEF new
<1>5. c \in Nat /\ commit[i] <= c
  BY <1>1, <1>3, <1>4
<1>6. ASSUME new > commit[i], GetTerm(l, new) = term[i], c = new, commit'[i] = c
      PROVE  Counted(i)'
  <2>1. PICK Q : Q = Reaching(i, mt, LastIndex(l), c) /\ CommitQuorum(Q)
    BY <1>3, <1>6
  <2>2. Q \in SUBSET Server
    BY <2>1 DEF CommitQuorum
  <2>3. /\ \A j \in Q : j # i => mt[j] >= c
        /\ i \in Q => Len(l) >= c
    BY <1>2, <2>1 DEF Reaching
  <2>4. c >= 1
    BY <1>1, <1>3, <1>6
  <2>5. ASSUME NEW j \in Q, j # i
        PROVE  \E m \in messages' : Acknowledges(m) /\ m.src = j /\ m.term = term'[i]
                                      /\ c <= Acked(m) /\ Acked(m) = mt[j]
    <3>1. mt[j] # 0 /\ j \in Server /\ mt[j] \in Nat
      BY <1>1, <1>5, <2>2, <2>3, <2>4, <2>5
    <3>2. PICK m \in messages' :
             Acknowledges(m) /\ m.src = j /\ m.term = term'[i] /\ Acked(m) = mt[j]
      BY <3>1 DEF LogInvWith, IndicesSound, IndexSound, Acknowledges, Acked
    <3>3. c <= mt[j]
      BY <1>5, <2>3, <2>5, <3>1
    <3> QED
      BY <3>2, <3>3
  <2>6. c <= Len(l)
    <3>1. PICK j \in Q : TRUE
      <4>1. Q # {}
        <5> SUFFICES ASSUME Q = {}
                     PROVE  FALSE
          OBVIOUS
        <5>1. Cardinality(Q) = 0
          BY FS_EmptySet
        <5>2. Cardinality(Server) \in Nat /\ Cardinality(Server) # 0
          BY ServerAssumption, ServerFacts, FS_EmptySet
        <5> QED
          BY <2>1, <5>1, <5>2 DEF CommitQuorum
      <4> QED
        BY <4>1
    <3>2. CASE j = i
      BY <1>2, <1>5, <2>3, <3>2
    <3>3. CASE j # i
      <4>1. PICK m \in messages' : Acknowledges(m) /\ m.term = term'[i]
                                     /\ c <= Acked(m) /\ Acked(m) = mt[j]
        BY <2>5, <3>3
      <4>2. Acked(m) <= Len(M[term'[i]])
        BY <4>1 DEF LogInvWith, AcksSound, AckSound, Acknowledges, Acked
      <4>3. <<term'[i], i>> \in elected'
        BY DEF LeaderInv, KnowsElected
      <4>4. l = M[term'[i]]
        BY <1>1, <4>3 DEF LogInvWith, LeadersHold
      <4>5. mt[j] \in Nat
        BY <1>1, <2>2
      <4> QED
        BY <1>2, <1>5, <4>1, <4>2, <4>4, <4>5
    <3> QED
      BY <3>2, <3>3
  <2>7. c \in DOMAIN l
    BY <1>1, <1>2, <1>5, <2>4, <2>6
  <2>8. l[c].term = term'[i]
    BY <1>6, <2>7 DEF GetTerm
  <2> HIDE DEF mt
  <2>9. \E R \in SUBSET Server : CommitQuorum(R) /\ \A j \in R : j # i =>
           \E m \in messages' : Acknowledges(m) /\ m.src = j /\ m.term = term'[i]
                                  /\ commit'[i] <= Acked(m)
    BY <1>6, <2>1, <2>2, <2>5
  <2> QED
    BY <1>6, <2>7, <2>8, <2>9 DEF Counted, CommitQuorum, Acknowledges, Acked
<1> QED
  BY <1>4, <1>5, <1>6

LEMMA TimerCommit ==
    ASSUME TypeOK, TypeOK', TimersMatchRole, NEW i \in Server, Timer(i)
    PROVE  CommitStep
<1>1. CASE Elect(i)
  BY <1>1, SameCommit DEF Elect, DoPreVote, DoRequestVote, NoNewAppend
<1>2. ASSUME NEW j \in Server, RequestVoteRpc(i, j)
      PROVE  CommitStep
  <2>1. NoNewAppend
    BY <1>2 DEF RequestVoteRpc, SendRequestVote, SendRpc, Send, NoNewAppend
  <2> QED
    BY <1>2, <2>1, SameCommit DEF RequestVoteRpc
<1>3. ASSUME NEW j \in Server, HeartBeat(i, j)
      PROVE  CommitStep
  <2>1. state[i] = Leader
    BY <1>3 DEF HeartBeat, TimersMatchRole
  <2>2. messages' = messages \cup {AppendEntries(i, j, log[i], next[i][j], commit[i])}
    BY <1>3 DEF HeartBeat, SendRpc, Send
  <2>3. UNCHANGED <<meta, role, commit, smVars, started>>
    BY <1>3 DEF HeartBeat
  <2>4. log[i] \in Seq(Entry) /\ next[i] \in [Server -> Nat \ {0}]
    BY DEF TypeOK
  <2>5. next[i][j] \in Nat \ {0}
    BY <2>4
  <2>6. state'[i] = Leader /\ term'[i] = term[i] /\ commit'[i] = commit[i]
    BY <2>1, <2>3 DEF meta, role
  <2>7. \A m \in messages' \ messages : m.type = "AppendEntries" => TellsCommit(m)'
    BY <2>2, <2>4, <2>5, <2>6, LeaderTells
  <2>8. OthersKeepCommit(i) /\ CommitMoves(i) /\ ApplyStays(i)
    <3>1. commit[i] \in Nat
      BY DEF TypeOK
    <3> QED
      BY <2>3, <3>1 DEF OthersKeepCommit, CommitMoves, ApplyStays, smVars
  <2> QED
    BY <2>7, <2>8, OneServerCommit
<1> QED
  BY <1>1, <1>2, <1>3 DEF Timer

LEMMA OnRequestVoteCommit ==
    ASSUME TypeOK, NEW i \in Server, NEW m \in messages, OnRequestVote(i, m)
    PROVE  CommitStep
<1>1. PICK ok \in BOOLEAN, t \in Nat, v \in Server \cup {Nil} :
         messages' = messages \cup {RequestVoteReply(i, m, t, v, ok)}
  BY OnRequestVoteEffect
<1>2. RequestVoteReply(i, m, t, v, ok).type = "RequestVoteReply"
  BY DEF RequestVoteReply
<1>3. NoNewAppend
  BY <1>1, <1>2 DEF NoNewAppend
<1> QED
  BY <1>3, SameCommit DEF OnRequestVote

LEMMA OnRequestVoteReplyCommit ==
    ASSUME TypeOK, NEW i \in Server, NEW m \in messages, OnRequestVoteReply(i, m)
    PROVE  CommitStep
<1>1. CASE OnLargerTerm(i, m)
  BY <1>1, SameCommit DEF OnLargerTerm, NoNewAppend
<1>2. CASE OnVoteReply(i, m)
  BY <1>2, SameCommit DEF OnVoteReply, NoNewAppend
<1>3. CASE OnPreVoteReply(i, m)
  BY <1>3, SameCommit DEF OnPreVoteReply, DoRequestVote, NoNewAppend
<1> QED
  BY <1>1, <1>2, <1>3 DEF OnRequestVoteReply

\* A follower's commit index is the leader's, of a message whose entries it now has.
LEMMA AcceptCommit ==
    ASSUME TypeOK, TypeOK', NEW L \in LeaderLogs, CommitsKnown(L), NEW i \in Server,
           NEW m \in messages, m.type = "AppendEntries", Accept(i, m), started[i],
           UNCHANGED started
    PROVE  CommitStep
<1>1. m.term \in Nat /\ m.commitIndex \in Nat /\ commit[i] \in Nat
  BY AppendEntriesTyped DEF TypeOK
<1>2. term'[i] = m.term
  BY DEF Accept, FollowLeader, StepDownTo, TypeOK
<1> DEFINE l == MergeLog(log[i], m)
           c == IF commit[i] < m.commitIndex THEN m.commitIndex ELSE commit[i]
<1>3. /\ log'[i] = l /\ SetCommit(i, l, c)
      /\ messages' = messages \cup {AppendEntriesReply(i, m, m.term, TRUE, LastIndex(l))}
  BY DEF Accept, Send, TypeOK
<1>4. c \in Nat /\ commit[i] <= c
  BY <1>1
<1> HIDE DEF l
<1>5. PICK r \in messages' :
         r = AppendEntriesReply(i, m, m.term, TRUE, LastIndex(l)) /\ messages' = messages \cup {r}
  BY <1>3
<1>6. /\ r.type = "AppendEntriesReply" /\ r.success /\ r.src = i /\ r.term = m.term
      /\ r.reqPreIndex + r.reqNumEntries = m.preLogIndex + Len(m.entries)
  BY <1>5 DEF AppendEntriesReply
<1>7. commit'[i] = c /\ OthersKeepCommit(i) /\ (ApplyStays(i) \/ Applies(i))
  BY <1>3, <1>4, SetCommitStep
<1>8. NoNewAppend
  BY <1>5, <1>6 DEF NoNewAppend
<1>9. CommitMoves(i)
  <2>1. CASE c = commit[i]
    BY <1>7, <2>1 DEF CommitMoves
  <2>2. CASE c = m.commitIndex
    <3>1. m.commitIndex <= m.preLogIndex + Len(m.entries)
      BY DEF CommitsKnown, CommitSound
    <3>2. Learned(i, m)'
      BY <1>2, <1>6, <1>7, <2>2, <3>1 DEF Learned, Acknowledges, Acked
    <3> QED
      BY <3>2 DEF CommitMoves
  <2> QED
    BY <2>1, <2>2
<1> QED
  BY <1>7, <1>8, <1>9, OneServerCommit DEF NoNewAppend

LEMMA OnAppendEntriesCommit ==
    ASSUME TypeOK, TypeOK', NEW L \in LeaderLogs, CommitsKnown(L), NEW i \in Server,
           NEW m \in messages, OnAppendEntries(i, m)
    PROVE  CommitStep
<1>1. m.type = "AppendEntries" /\ started[i] /\ UNCHANGED started
  BY DEF OnAppendEntries
<1>2. \A t, ok, last : AppendEntriesReply(i, m, t, ok, last).type = "AppendEntriesReply"
  BY DEF AppendEntriesReply
<1>3. CASE RejectStale(i, m)
  <2>1. NoNewAppend
    BY <1>2, <1>3 DEF RejectStale, Send, NoNewAppend
  <2> QED
    BY <1>1, <1>3, <2>1, SameCommit DEF RejectStale
<1>4. CASE RejectMismatch(i, m)
  <2>1. NoNewAppend
    BY <1>2, <1>4 DEF RejectMismatch, Send, NoNewAppend
  <2> QED
    BY <1>1, <1>4, <2>1, SameCommit DEF RejectMismatch
<1>5. CASE Accept(i, m)
  BY <1>1, <1>5, AcceptCommit
<1> QED
  BY <1>3, <1>4, <1>5 DEF OnAppendEntries

\* A leader counts an acknowledgement.
LEMMA ReplyCommit ==
    ASSUME TypeOK, TypeOK', LeaderInv', NEW M \in LeaderLogs, LogInvWith(M)', NEW i \in Server,
           NEW m \in messages, m.type = "AppendEntriesReply", OnAppendReplyOfTerm(i, m),
           started[i]
    PROVE  CommitStep
<1> DEFINE j == m.src
           advances == m.success /\ match[i][j] <= Acked(m)
           mt == IF advances THEN [match[i] EXCEPT ![j] = Acked(m)] ELSE match[i]
           n == IF m.success THEN mt[j] + 1 ELSE NextAfterReject(next[i][j], m)
           c == IF advances THEN MaybeCommit(i, log[i], mt) ELSE commit[i]
<1>1. /\ match' = [match EXCEPT ![i] = mt] /\ next' = [next EXCEPT ![i][j] = n]
      /\ SetCommit(i, log[i], c)
      /\ messages' = messages \cup
           (IF n <= LastIndex(log[i]) THEN {AppendEntries(i, j, log[i], n, c)} ELSE {})
  BY DEF OnAppendReplyOfTerm, SendAll
<1>2. state[i] = Leader /\ UNCHANGED <<meta, role, log, started>>
  BY DEF OnAppendReplyOfTerm
<1>3. j \in Server
  <2>1. m \in AppendEntriesReplyMsg
    BY MessageKind DEF TypeOK
  <2> QED
    BY <2>1 DEF AppendEntriesReplyMsg
<1> HIDE DEF mt, n
<1>4. match'[i] = mt /\ next'[i][j] = n
  BY <1>1, <1>3, SMTT(30) DEF TypeOK
<1>5. /\ state'[i] = Leader /\ term'[i] = term[i] /\ log'[i] = log[i] /\ started' = started
      /\ log[i] \in Seq(Entry) /\ commit[i] \in Nat /\ next'[i] \in [Server -> Nat \ {0}]
  BY <1>2 DEF meta, role, TypeOK
<1>6. n \in Nat \ {0}
  BY <1>3, <1>4, <1>5
<1> DEFINE d == MaybeCommit(i, log'[i], match'[i])
<1>7. /\ d \in Nat /\ commit[i] <= d
      /\ commit'[i] = d => d = commit[i] \/ Counted(i)'
  BY <1>5, LeaderCounts
<1>8. c = IF advances THEN d ELSE commit[i]
  BY <1>4, <1>5
<1> HIDE DEF d, c, advances
<1>9. c \in Nat /\ commit[i] <= c
  BY <1>5, <1>7, <1>8
<1>10. commit'[i] = c /\ OthersKeepCommit(i) /\ (ApplyStays(i) \/ Applies(i))
  BY <1>1, <1>5, <1>9, SetCommitStep
<1>11. CommitMoves(i)
  BY <1>7, <1>8, <1>10 DEF CommitMoves
<1>12. \A r \in messages' \ messages : r.type = "AppendEntries" => TellsCommit(r)'
  BY <1>1, <1>5, <1>6, <1>10, LeaderTells
<1> QED
  BY <1>10, <1>11, <1>12, OneServerCommit

LEMMA OnAppendEntriesReplyCommit ==
    ASSUME TypeOK, TypeOK', LeaderInv', NEW M \in LeaderLogs, LogInvWith(M)', NEW i \in Server,
           NEW m \in messages, OnAppendEntriesReply(i, m)
    PROVE  CommitStep
<1>1. CASE AbortNotLeader(i, m)
  BY <1>1, LoseVolatileCommit DEF AbortNotLeader
<1>2. CASE OnLargerTerm(i, m)
  BY <1>2, SameCommit DEF OnLargerTerm, NoNewAppend
<1>3. CASE OnAppendReplyOfTerm(i, m)
  BY <1>3, ReplyCommit DEF OnAppendEntriesReply
<1> QED
  BY <1>1, <1>2, <1>3 DEF OnAppendEntriesReply

LEMMA ProposeCommit ==
    ASSUME TypeOK, TypeOK', LeaderInv', NEW M \in LeaderLogs, LogInvWith(M)', NEW i \in Server,
           NEW v \in Value, Propose(i, v)
    PROVE  CommitStep
<1> DEFINE l == Append(log[i], [term |-> term[i], value |-> v])
           c == MaybeCommit(i, l, match[i])
<1>1. /\ log' = [log EXCEPT ![i] = l] /\ SetCommit(i, l, c)
      /\ messages' = messages \cup {AppendEntries(i, j, l, next[i][j], c) : j \in Peers(i)}
  BY DEF Propose, SendAll
<1>2. state[i] = Leader /\ started[i] /\ UNCHANGED <<meta, role, started, indexMgr>>
  BY DEF Propose
<1> HIDE DEF l
<1>3. /\ state'[i] = Leader /\ term'[i] = term[i] /\ log'[i] = l /\ match'[i] = match[i]
      /\ started' = started
  BY <1>1, <1>2 DEF meta, role, indexMgr, TypeOK
<1>4. l \in Seq(Entry) /\ next[i] \in [Server -> Nat \ {0}]
  <2>1. log'[i] \in Seq(Entry) /\ next[i] \in [Server -> Nat \ {0}]
    BY DEF TypeOK
  <2> QED
    BY <1>3, <2>1
<1>5. /\ c \in Nat /\ commit[i] <= c
      /\ commit'[i] = c => c = commit[i] \/ Counted(i)'
  BY <1>3, LeaderCounts
<1> HIDE DEF c
<1>6. commit'[i] = c /\ OthersKeepCommit(i) /\ (ApplyStays(i) \/ Applies(i))
  BY <1>1, <1>2, <1>3, <1>5, SetCommitStep
<1>7. CommitMoves(i)
  BY <1>5, <1>6 DEF CommitMoves
<1>8. \A j \in Peers(i) : next[i][j] \in Nat \ {0}
  BY <1>4 DEF Peers
<1>9. \A r \in messages' \ messages : r.type = "AppendEntries" => TellsCommit(r)'
  <2>1. ASSUME NEW r \in messages' \ messages
        PROVE  \E j, k, n : /\ k \in Seq(Entry) /\ n \in Nat \ {0}
                            /\ r = AppendEntries(i, j, k, n, commit'[i])
    <3>1. PICK j \in Peers(i) : r = AppendEntries(i, j, l, next[i][j], c)
      BY <1>1, <2>1
    <3> QED
      BY <1>4, <1>6, <1>8, <3>1
  <2> QED
    BY <1>3, <2>1, LeaderTells
<1> QED
  BY <1>6, <1>7, <1>9, OneServerCommit

LEMMA ClientCommit ==
    ASSUME TypeOK, TypeOK', LeaderInv', NEW M \in LeaderLogs, LogInvWith(M)', NEW i \in Server,
           Client(i)
    PROVE  CommitStep
<1>1. ASSUME NEW j, LeaderTransfer(i, j)
      PROVE  CommitStep
  BY <1>1, SameCommit DEF LeaderTransfer, Send, NoNewAppend
<1> QED
  BY <1>1, ProposeCommit DEF Client

LEMMA RestartCommit ==
    ASSUME TypeOK, NEW i \in Server, Restart(i)
    PROVE  CommitStep
<1>1. CASE Stop(i)
  <2>1. /\ ~started'[i] /\ UNCHANGED <<commit, smVars, messages>>
        /\ \A k \in Peers(i) : started'[k] = started[k]
    BY <1>1 DEF Stop, TypeOK, Peers
  <2>2. OthersKeepCommit(i) /\ CommitMoves(i) /\ ApplyStays(i)
    BY <2>1 DEF OthersKeepCommit, CommitMoves, ApplyStays, smVars
  <2> QED
    BY <2>1, <2>2, OneServerCommit
<1>2. CASE Crash(i)
  BY <1>2, LoseVolatileCommit DEF Crash
<1>3. CASE Start(i)
  <2>1. /\ lastApply'[i] = sm[i].last /\ UNCHANGED <<commit, sm, messages>>
        /\ \A k \in Peers(i) : started'[k] = started[k] /\ lastApply'[k] = lastApply[k]
    BY <1>3 DEF Start, RestoredApply, TypeOK, Peers
  <2>2. OthersKeepCommit(i) /\ CommitMoves(i) /\ ApplyStays(i)
    BY <2>1 DEF OthersKeepCommit, CommitMoves, ApplyStays
  <2> QED
    BY <2>1, <2>2, OneServerCommit
<1> QED
  BY <1>1, <1>2, <1>3 DEF Restart

LEMMA NextCommitStep ==
    ASSUME TypeOK, TypeOK', TimersMatchRole, LeaderInv', NEW L \in LeaderLogs, CommitsKnown(L),
           NEW M \in LeaderLogs, LogInvWith(M)', Next
    PROVE  CommitStep
<1>1. ASSUME NEW i \in Server, NEW m \in messages, Receive(i, m)
      PROVE  CommitStep
  <2>1. CASE OnTimeoutNow(i, m)
    BY <2>1, SameCommit DEF OnTimeoutNow, NoNewAppend
  <2> QED
    BY <1>1, <2>1, OnRequestVoteCommit, OnRequestVoteReplyCommit, OnAppendEntriesCommit,
       OnAppendEntriesReplyCommit DEF Receive
<1> QED
  BY <1>1, TimerCommit, ClientCommit, RestartCommit DEF Next

-----------------------------------------------------------------------------
(***************************************************************************)
(* The invariant, and what it implies                                      *)
(***************************************************************************)
LEMMA InitCommit == Init => CommitInv
<1> SUFFICES ASSUME Init
             PROVE  CommitInv
  OBVIOUS
<1>1. PICK L \in LeaderLogs : LogInvWith(L)
  BY InitLog DEF LogInv
<1>2. ChoiceInv(L)
  BY InitChoice
<1>3. /\ \A i \in Server : /\ commit[i] = 0 /\ lastApply[i] = 0 /\ sm[i] = EmptySm
      /\ messages = {}
  BY DEF Init, InitFrom
<1>4. EmptySm.last = 0 /\ \A k \in Index : EmptySm.applied[k] = <<>>
  BY DEF EmptySm
<1>5. CommitsKnown(L)
  BY <1>3, <1>4 DEF CommitsKnown, Known
<1>6. \A k \in Index : k \in Nat /\ 1 <= k
  BY BoundAssumption DEF Index
<1>7. AppliesSound
  BY <1>3, <1>4, <1>6 DEF AppliesSound, ApplySound, HoldsLog
<1> QED
  BY <1>1, <1>2, <1>5, <1>7 DEF CommitInv

\* A stuttering step is such a step too.
LEMMA StutterChoice ==
    ASSUME TypeOK, TypeOK', ElectionInv, NEW L \in LeaderLogs, LogInvWith(L), UNCHANGED vars
    PROVE  ChoiceStep(L, L) /\ CommitStep
<1>1. UNCHANGED <<meta, role, log, elected, messages, indexMgr, commit, smVars, started>>
  BY DEF vars
<1>2. QuietLogs
  BY <1>1, SameRolesQuiet DEF meta, role
<1>3. ReplicaStep(L, L)
  BY <1>2, QuietReplica
<1>4. CanvassStep
  BY <1>1, SameMetaCanvass DEF NoNewRequest
<1>5. CommitStep
  BY <1>1, SameCommit DEF NoNewAppend
<1>6. KeepsVotes
  BY <1>1, SameMetaKeeps
<1>7. NetStep /\ LeaderStep
  BY <1>1 DEF NetStep, LeaderStep
<1>8. CountStep
  BY DEF vars, meta, role, voteMgr, timerMgr, ElectionInv, CountStep, HasBallot, Ballot
<1> QED
  BY <1>3, <1>4, <1>5, <1>6, <1>7, <1>8 DEF ChoiceStep, ElectionStep

LEMMA NextCommit ==
    ASSUME TypeOK, TypeOK', TimersMatchRole, LeaderInv, LeaderInv', ElectionInv,
           ElectionSafety, ElectionSafety', CommitInv, [Next]_vars
    PROVE  CommitInv'
<1>1. PICK L \in LeaderLogs : LogInvWith(L) /\ ChoiceInv(L) /\ CommitsKnown(L)
  BY DEF CommitInv
<1>2. PICK M : ChoiceStep(L, M)
  BY <1>1, NextChoice, StutterChoice
<1>3. M \in LeaderLogs /\ Continues(L, M) /\ LogInvWith(M)' /\ ChoiceInv(M)'
  BY <1>1, <1>2, ChoiceStepInv
<1>4. ReplicaStep(L, M) /\ KeepsVotes
  BY <1>2 DEF ChoiceStep, ElectionStep
<1>5. messages \subseteq messages' /\ elected \subseteq elected'
  <2>1. messages \subseteq messages' /\ LogStep(L, M)
    BY <1>4 DEF ReplicaStep, NetLogStep
  <2> QED
    BY <2>1 DEF LogStep, SameLogs, Appends, Merges
<1>6. StepOf(L, M)
  BY <1>1, <1>3, <1>4, <1>5 DEF StepOf
<1>7. CommitStep
  BY <1>1, <1>3, NextCommitStep, StutterChoice
<1>8. AppliesSound
  BY DEF CommitInv
<1> QED
  BY <1>1, <1>3, <1>6, <1>7, <1>8, CommitStepInv

\* In every behaviour of an odd cluster: each commit index is covered by an index that a
\* leader of the server's term or an older one counted on a quorum; every later leader has
\* what was counted; and each state machine holds the data of the log up to its last index.
THEOREM CommitsAreChosen ==
    ASSUME Cardinality(Server) % 2 = 1
    PROVE  Spec => []CommitInv
<1>1. TypeOK /\ TypeOK' /\ TimersMatchRole /\ LeaderInv /\ LeaderInv' /\ ElectionInv
        /\ ElectionSafety /\ ElectionSafety' /\ CommitInv /\ [Next]_vars => CommitInv'
  BY NextCommit
<1> QED
  BY <1>1, InitCommit, TypeCorrect, TimersFollowRole, LeadersWereElected, VotesBackLeaders,
     OneLeaderPerTerm, PTL DEF Spec

\* A leader's log holds every entry that a server of its term or an older one has committed,
\* whatever was lost, repeated or reordered and whoever crashed since.
THEOREM LeadersAreComplete ==
    ASSUME Cardinality(Server) % 2 = 1
    PROVE  Spec => []LeaderCompleteness
<1>1. TypeOK /\ LeaderInv /\ CommitInv => LeaderCompleteness
  <2> SUFFICES ASSUME TypeOK, LeaderInv, CommitInv, NEW i \in Server, NEW j \in Server,
                      state[i] = Leader, term[j] <= term[i]
               PROVE  /\ commit[j] <= Len(log[i])
                      /\ SubSeq(log[i], 1, commit[j]) = SubSeq(log[j], 1, commit[j])
    BY DEF LeaderCompleteness
  <2>1. PICK L \in LeaderLogs : LogInvWith(L) /\ ChoiceInv(L) /\ CommitsKnown(L)
    BY DEF CommitInv
  <2>2. <<term[i], i>> \in elected /\ log[i] = L[term[i]] /\ term[i] \in Nat
    BY <2>1, LeaderHasLog DEF LogInvWith
  <2>3. /\ log[i] \in Seq(Entry) /\ log[j] \in Seq(Entry) /\ commit[j] \in Nat /\ term[j] \in Nat
        /\ HasLeader(term[i])
    BY <2>2 DEF TypeOK, HasLeader
  <2>4. Agree(log[j], L[term[i]], commit[j])
    BY <2>1, <2>2, <2>3, KnownByLeader DEF CommitsKnown, ChoiceInv
  <2>5. Agree(log[i], log[j], commit[j])
    BY <2>2, <2>4, AgreeSym
  <2> QED
    BY <2>3, <2>5, AgreeSubSeq DEF Agree
<1> QED
  BY <1>1, TypeCorrect, LeadersWereElected, CommitsAreChosen, PTL

\* assert(commit_ < index) of OnAppendEntries never fails: no AppendEntries, however late,
\* makes a server truncate an entry it has committed.
THEOREM CommittedStays ==
    ASSUME Cardinality(Server) % 2 = 1
    PROVE  Spec => []CommittedNotOverwritten
<1>1. TypeOK /\ LeaderInv /\ CommitInv => CommittedNotOverwritten
  <2> SUFFICES ASSUME TypeOK, LeaderInv, CommitInv, NEW m \in messages,
                      m.type = "AppendEntries", m.term >= term[m.dest],
                      Conflicts(log[m.dest], m)
               PROVE  commit[m.dest] <= m.preLogIndex
    BY DEF CommittedNotOverwritten
  <2> DEFINE i == m.dest
             g == m.term
             p == m.preLogIndex
             c == commit[i]
  <2>1. PICK L \in LeaderLogs : LogInvWith(L) /\ ChoiceInv(L) /\ CommitsKnown(L)
    BY DEF CommitInv
  <2>2. /\ i \in Server /\ m.src \in Server /\ g \in Nat /\ p \in Nat /\ <<g, m.src>> \in elected
        /\ PieceOf(m, L[g])
    BY <2>1, AppendEntriesTyped DEF LeaderInv, LogInvWith, MessagesSound
  <2>3. c \in Nat /\ log[i] \in Seq(Entry) /\ term[i] \in Nat /\ HasLeader(g)
    BY <2>2 DEF TypeOK, HasLeader
  <2>4. Agree(log[i], L[g], c)
    BY <2>1, <2>2, <2>3, KnownByLeader DEF CommitsKnown, ChoiceInv
  <2>5. m.entries # <<>> /\ log[i][p + 1].term # m.entries[1].term
    BY DEF Conflicts
  <2>6. m.entries = <<L[g][p + 1]>>
    BY <2>2, <2>5 DEF PieceOf
  <2>7. m.entries[1] = L[g][p + 1]
    BY <2>6
  <2> HIDE DEF i, g, p, c
  <2>8. ~(p + 1 <= c)
    <3> SUFFICES ASSUME p + 1 <= c
                 PROVE  FALSE
      OBVIOUS
    <3>1. p + 1 \in 1..c
      BY <2>2, <2>3
    <3>2. log[i][p + 1] = L[g][p + 1]
      BY <2>4, <3>1 DEF Agree
    <3> QED
      BY <2>5, <2>7, <3>2
  <2>9. c <= p
    BY <2>2, <2>3, <2>8
  <2> QED
    BY <2>9 DEF c, p, i
<1> QED
  BY <1>1, TypeCorrect, LeadersWereElected, CommitsAreChosen, PTL

\* assert(commit_ <= LastIndex()) and assert(pre_index <= last_index) never fail.
THEOREM IndicesStayWithinLog ==
    ASSUME Cardinality(Server) % 2 = 1
    PROVE  Spec => []IndicesWithinLog
<1>1. TypeOK /\ CommitInv => IndicesWithinLog
  <2> SUFFICES ASSUME TypeOK, CommitInv, NEW i \in Server
               PROVE  /\ commit[i] <= Len(log[i])
                      /\ state[i] = Leader => \A j \in Peers(i) : next[i][j] <= Len(log[i]) + 1
    BY DEF IndicesWithinLog
  <2>1. PICK L \in LeaderLogs : LogInvWith(L) /\ CommitsKnown(L)
    BY DEF CommitInv
  <2>2. log[i] \in Seq(Entry)
    BY DEF TypeOK
  <2>3. commit[i] <= Len(log[i])
    BY <2>1, <2>2, KnownWithin DEF CommitsKnown
  <2>4. state[i] = Leader => \A j \in Peers(i) : next[i][j] <= Len(log[i]) + 1
    BY <2>1 DEF LogInvWith, IndicesSound, IndexSound, Peers
  <2> QED
    BY <2>3, <2>4
<1> QED
  BY <1>1, TypeCorrect, CommitsAreChosen, PTL

\* Each state machine on disk holds exactly the data entries of its server's log up to its
\* last index, each once, through truncations, crashes, stops and restarts.
THEOREM AppliedFollowsLog ==
    ASSUME Cardinality(Server) % 2 = 1
    PROVE  Spec => []AppliedMatchesLog
<1>1. TypeOK /\ CommitInv => AppliedMatchesLog
  <2> SUFFICES ASSUME TypeOK, CommitInv, NEW i \in Server
               PROVE  sm[i].last <= Len(log[i]) /\ HoldsLog(i)
    BY DEF AppliedMatchesLog, HoldsLog
  <2>1. PICK L \in LeaderLogs : CommitsKnown(L)
    BY DEF CommitInv
  <2>2. log[i] \in Seq(Entry)
    BY DEF TypeOK
  <2>3. sm[i].last <= Len(log[i])
    BY <2>1, <2>2, KnownWithin DEF CommitsKnown
  <2> QED
    BY <2>3 DEF CommitInv, AppliesSound
<1> QED
  BY <1>1, TypeCorrect, CommitsAreChosen, PTL

\* Two servers' state machines never apply different entries at one index.
THEOREM StateMachinesAgree ==
    ASSUME Cardinality(Server) % 2 = 1
    PROVE  Spec => []StateMachineSafety
<1>1. TypeOK /\ CommitInv => StateMachineSafety
  <2> SUFFICES ASSUME TypeOK, CommitInv, NEW i \in Server, NEW j \in Server, NEW k \in Index,
                      sm[i].applied[k] # <<>>, sm[j].applied[k] # <<>>
               PROVE  sm[i].applied[k][1] = sm[j].applied[k][1]
    BY DEF StateMachineSafety
  <2>1. PICK L \in LeaderLogs : LogInvWith(L) /\ ChoiceInv(L) /\ CommitsKnown(L)
    BY DEF CommitInv
  <2>2. k \in Nat /\ 1 <= k
    BY BoundAssumption DEF Index
  <2>3. ASSUME NEW x \in Server, sm[x].applied[k] # <<>>
        PROVE  /\ sm[x].applied[k] = <<log[x][k]>>
               /\ Known(L, log[x], term[x], k) /\ log[x] \in Seq(Entry) /\ term[x] \in Nat
    <3>1. sm[x].applied[k] = <<log[x][k]>> /\ k <= sm[x].last
      BY <2>3 DEF CommitInv, AppliesSound, HoldsLog
    <3>2. sm[x].last \in Nat /\ log[x] \in Seq(Entry) /\ term[x] \in Nat
      BY DEF TypeOK
    <3>3. Known(L, log[x], term[x], k)
      BY <2>1, <2>2, <3>1, <3>2, KnownLess DEF CommitsKnown
    <3> QED
      BY <3>1, <3>2, <3>3
  <2>4. Agree(log[i], log[j], k)
    BY <2>1, <2>2, <2>3, KnownAgree DEF LogInvWith, ChoiceInv
  <2>5. log[i][k] = log[j][k]
    BY <2>2, <2>4 DEF Agree
  <2> QED
    BY <2>3, <2>5
<1> QED
  BY <1>1, TypeCorrect, CommitsAreChosen, PTL
=============================================================================
