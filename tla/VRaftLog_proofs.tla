-------------------------- MODULE VRaftLog_proofs --------------------------
(***************************************************************************)
(* Proofs about logs.  The argument compares every log with the log of the *)
(* leader of each term: L[t] is the log of the leader of term t as long as *)
(* it was in that term, and the last it had then.  No server keeps L; the  *)
(* invariant says that there is such an L.                                 *)
(***************************************************************************)
EXTENDS VRaftElection_proofs, SequenceTheorems

LeaderLogs == [Nat -> Seq(Entry)]

\* Logs a and b have n entries each and the same up to there.
Agree(a, b, n) == n <= Len(a) /\ n <= Len(b) /\ \A k \in 1..n : a[k] = b[k]

\* A log of a server in term t: up to every entry it is the log of that entry's leader.
Rooted(l, L, t) == \A n \in DOMAIN l : l[n].term <= t /\ Agree(l, L[l[n].term], n)

LogsRooted(L) ==
    /\ \A i \in Server : Rooted(log[i], L, term[i])
    /\ \A t \in Nat : Rooted(L[t], L, t)

HasLeader(t) == \E i \in Server : <<t, i>> \in elected

\* A leader has L[t], after a crash too, until it leaves the term; only leaders have logs.
LeadersHold(L) ==
    /\ \A t \in Nat, i \in Server :
          <<t, i>> \in elected => t <= term[i] /\ (term[i] = t => log[i] = L[t])
    /\ \A t \in Nat : L[t] # <<>> => HasLeader(t)

\* AppendEntries m is a piece of log l.
PieceOf(m, l) ==
    /\ m.preLogIndex <= Len(l)
    /\ m.preLogTerm = GetTerm(l, m.preLogIndex)
    /\ \/ m.entries = <<>>
       \/ m.preLogIndex + 1 <= Len(l) /\ m.entries = <<l[m.preLogIndex + 1]>>

MessagesSound(L) == \A m \in messages : m.type = "AppendEntries" => PieceOf(m, L[m.term])

\* A positive reply: its sender holds the leader's log up to Acked(m), while in that term.
Acknowledges(m) == m.type = "AppendEntriesReply" /\ m.success

AckSound(m, L) ==
    /\ Acked(m) <= Len(L[m.term])
    /\ m.term <= term[m.src]
    /\ term[m.src] = m.term => Agree(log[m.src], L[m.term], Acked(m))

AcksSound(L) == \A m \in messages : Acknowledges(m) => AckSound(m, L)

\* What IndexManager of leader i says of j: it asks for no entry beyond the next one, and
\* every match was acknowledged in this term.
IndexSound(i, j) ==
    /\ next[i][j] <= Len(log[i]) + 1
    /\ match[i][j] # 0 => \E m \in messages :
          Acknowledges(m) /\ m.src = j /\ m.dest = i /\ m.term = term[i] /\ Acked(m) = match[i][j]

IndicesSound == \A i, j \in Server : state[i] = Leader => IndexSound(i, j)

LogInvWith(L) ==
    LogsRooted(L) /\ LeadersHold(L) /\ MessagesSound(L) /\ AcksSound(L) /\ IndicesSound

\* The inductive invariant.
LogInv == \E L \in LeaderLogs : LogInvWith(L)

-----------------------------------------------------------------------------
(***************************************************************************)
(* Agreement of logs                                                       *)
(***************************************************************************)

LEMMA AgreeSym ==
    ASSUME NEW a, NEW b, NEW n, Agree(a, b, n)
    PROVE  Agree(b, a, n)
BY DEF Agree

LEMMA AgreeTrans ==
    ASSUME NEW a, NEW b, NEW c, NEW n, Agree(a, b, n), Agree(b, c, n)
    PROVE  Agree(a, c, n)
BY DEF Agree

LEMMA AgreeLess ==
    ASSUME NEW a \in Seq(Entry), NEW b \in Seq(Entry), NEW n \in Nat, NEW k \in Nat, k <= n,
           Agree(a, b, n)
    PROVE  Agree(a, b, k)
BY DEF Agree

\* Appending an entry leaves what there was.
LEMMA AppendFacts ==
    ASSUME NEW l \in Seq(Entry), NEW e \in Entry
    PROVE  /\ Append(l, e) \in Seq(Entry)
           /\ Len(Append(l, e)) = Len(l) + 1
           /\ Append(l, e)[Len(l) + 1] = e
           /\ \A k \in 1..Len(l) : Append(l, e)[k] = l[k]
           /\ Agree(l, Append(l, e), Len(l))
BY DEF Agree

\* What agrees with a log agrees with its continuation.
LEMMA AgreeAppend ==
    ASSUME NEW a \in Seq(Entry), NEW l \in Seq(Entry), NEW e \in Entry, NEW n \in Nat,
           Agree(a, l, n)
    PROVE  Agree(a, Append(l, e), n)
BY AppendFacts DEF Agree

\* The terms of a rooted log do not decrease.
LEMMA TermsAscend ==
    ASSUME NEW L \in LeaderLogs, \A t \in Nat : Rooted(L[t], L, t),
           NEW l \in Seq(Entry), NEW u \in Nat, Rooted(l, L, u),
           NEW a \in DOMAIN l, NEW b \in DOMAIN l, a <= b
    PROVE  l[a].term <= l[b].term
<1>1. l[b].term \in Nat
  <2>1. l[b] \in Entry
    OBVIOUS
  <2> QED
    BY <2>1 DEF Entry
<1>2. Agree(l, L[l[b].term], b)
  BY DEF Rooted
<1> DEFINE t == l[b].term
<1>3. L[t] \in Seq(Entry) /\ Rooted(L[t], L, t)
  BY <1>1 DEF LeaderLogs
<1>4. a \in DOMAIN L[t] /\ L[t][a] = l[a]
  BY <1>2, <1>3 DEF Agree
<1> QED
  BY <1>3, <1>4 DEF Rooted

\* Two rooted logs that have an entry of the same term at an index agree up to it.
LEMMA RootedAgree ==
    ASSUME NEW L \in LeaderLogs, NEW a \in Seq(Entry), NEW b \in Seq(Entry),
           NEW s, NEW t, Rooted(a, L, s), Rooted(b, L, t),
           NEW n \in DOMAIN a \cap DOMAIN b, a[n].term = b[n].term
    PROVE  Agree(a, b, n)
<1>1. Agree(a, L[a[n].term], n) /\ Agree(b, L[a[n].term], n)
  BY DEF Rooted
<1> QED
  BY <1>1, AgreeSym, AgreeTrans

\* A log whose entry before a piece has the leader's term agrees with the leader up to it.
LEMMA PreLogAgrees ==
    ASSUME NEW L \in LeaderLogs, \A t \in Nat : Rooted(L[t], L, t),
           NEW l \in Seq(Entry), NEW u \in Nat, Rooted(l, L, u),
           NEW m \in AppendEntriesMsg, PieceOf(m, L[m.term]), PreLogMatches(l, m)
    PROVE  Agree(l, L[m.term], m.preLogIndex)
<1> DEFINE g == L[m.term]
           p == m.preLogIndex
<1>1. m.term \in Nat /\ p \in Nat
  BY DEF AppendEntriesMsg
<1>2. g \in Seq(Entry) /\ Rooted(g, L, m.term)
  BY <1>1 DEF LeaderLogs
<1>3. p <= Len(l) /\ p <= Len(g) /\ (p > 0 => GetTerm(l, p) = GetTerm(g, p))
  BY DEF PreLogMatches, PieceOf, LastIndex
<1> HIDE DEF g, p
<1>4. CASE p = 0
  BY <1>2, <1>3, <1>4 DEF Agree, g, p
<1>5. CASE p # 0
  <2>1. p \in DOMAIN l \cap DOMAIN g
    BY <1>1, <1>2, <1>3, <1>5
  <2>2. l[p].term = g[p].term
    BY <1>1, <1>3, <1>5, <2>1 DEF GetTerm
  <2>3. Agree(l, g, p)
    BY <1>2, <2>1, <2>2, RootedAgree
  <2> QED
    BY <2>3 DEF g, p
<1> QED
  BY <1>4, <1>5

\* The loop of OnAppendEntries: the log then holds the piece, is rooted, and keeps whatever
\* it shares with the leader's log.
LEMMA MergeFacts ==
    ASSUME NEW L \in LeaderLogs, \A t \in Nat : Rooted(L[t], L, t),
           NEW l \in Seq(Entry), NEW u \in Nat, Rooted(l, L, u),
           NEW m \in AppendEntriesMsg, PieceOf(m, L[m.term]), PreLogMatches(l, m), u <= m.term
    PROVE  /\ MergeLog(l, m) \in Seq(Entry)
           /\ Rooted(MergeLog(l, m), L, m.term)
           /\ Len(m.entries) \in Nat
           /\ Agree(MergeLog(l, m), L[m.term], m.preLogIndex + Len(m.entries))
           /\ \A h \in Seq(Entry), n \in Nat :
                 Agree(l, h, n) /\ Agree(L[m.term], h, n) => Agree(MergeLog(l, m), h, n)
<1> DEFINE g == L[m.term]
           p == m.preLogIndex
           r == MergeLog(l, m)
<1>1. m.term \in Nat /\ p \in Nat /\ m.entries \in Seq(Entry)
  BY DEF AppendEntriesMsg
<1>2. g \in Seq(Entry) /\ Rooted(g, L, m.term)
  BY <1>1 DEF LeaderLogs
<1>3. r \in Seq(Entry)
  BY MergeLogType
<1>4. Agree(l, g, p)
  BY PreLogAgrees
<1>5. p <= Len(l) /\ p <= Len(g)
  BY <1>4 DEF Agree
<1>6. m.entries # <<>> => p + 1 <= Len(g) /\ m.entries[1] = g[p + 1] /\ Len(m.entries) = 1
  <2>1. m.entries # <<>> => p + 1 <= Len(g) /\ m.entries = <<g[p + 1]>>
    BY DEF PieceOf
  <2> HIDE DEF g, p
  <2>2. \A e : Len(<<e>>) = 1 /\ <<e>>[1] = e
    OBVIOUS
  <2> QED
    BY <2>1, <2>2, Zenon
<1>7. m.entries = <<>> => Len(m.entries) = 0
  OBVIOUS
<1> DEFINE new == m.entries # <<>> /\ (p = Len(l) \/ Conflicts(l, m))
<1>8. CASE new
  <2>1. r = Append(SubSeq(l, 1, p), g[p + 1])
    BY <1>6, <1>8 DEF MergeLog, LastIndex
  <2>2. /\ SubSeq(l, 1, p) \in Seq(Entry) /\ Len(SubSeq(l, 1, p)) = p
        /\ \A k \in 1..p : SubSeq(l, 1, p)[k] = l[k]
    BY <1>1, <1>5
  <2> HIDE DEF g, p, r
  <2>3. g[p + 1] \in Entry
    <3>1. p + 1 \in 1..Len(g)
      BY <1>1, <1>6, <1>8
    <3> QED
      BY <1>2, <3>1
  <2>4. Len(r) = p + 1 /\ r[p + 1] = g[p + 1] /\ \A k \in 1..p : r[k] = l[k]
    BY <2>1, <2>2, <2>3, AppendFacts
  <2>5. \A k \in 1..p : l[k] = g[k]
    BY <1>4 DEF Agree
  <2>6. Agree(r, g, p + 1)
    BY <1>1, <1>6, <1>8, <2>4, <2>5 DEF Agree
  <2>7. Rooted(r, L, m.term)
    <3> SUFFICES ASSUME NEW n \in DOMAIN r
                 PROVE  r[n].term <= m.term /\ Agree(r, L[r[n].term], n)
      BY DEF Rooted
    <3>1. n \in 1..(p + 1) /\ n \in DOMAIN g /\ r[n] = g[n]
      BY <1>1, <1>2, <1>3, <1>6, <1>8, <2>4, <2>6 DEF Agree
    <3>2. g[n].term <= m.term /\ Agree(g, L[g[n].term], n)
      BY <1>2, <3>1 DEF Rooted
    <3>3. Agree(r, g, n)
      BY <1>1, <1>2, <1>3, <2>6, <3>1, AgreeLess
    <3> QED
      BY <3>1, <3>2, <3>3, AgreeTrans
  <2>8. ASSUME NEW h \in Seq(Entry), NEW n \in Nat, Agree(l, h, n), Agree(g, h, n)
        PROVE  Agree(r, h, n)
    <3>1. n <= p
      <4> SUFFICES ASSUME p + 1 <= n
                   PROVE  FALSE
        BY <1>1
      <4>1. p + 1 \in 1..n /\ n <= Len(l)
        BY <1>1, <2>8 DEF Agree
      <4>2. l[p + 1] = g[p + 1]
        BY <2>8, <4>1 DEF Agree
      <4>3. Conflicts(l, m)
        BY <1>1, <1>8, <4>1
      <4> QED
        BY <1>6, <1>8, <4>2, <4>3 DEF Conflicts, p
    <3>2. Agree(r, g, n)
      BY <1>1, <1>2, <1>3, <2>6, <3>1, AgreeLess
    <3> QED
      BY <2>8, <3>2, AgreeTrans
  <2>9. p + Len(m.entries) = p + 1
    BY <1>6, <1>8
  <2> QED
    BY <1>3, <1>6, <1>8, <2>6, <2>7, <2>8, <2>9 DEF g, p, r
<1>9. CASE ~new
  <2>1. r = l
    BY <1>9 DEF MergeLog, LastIndex
  <2>2. Rooted(l, L, m.term)
    <3>1. \A n \in DOMAIN l : l[n].term \in Nat
      <4>1. \A n \in DOMAIN l : l[n] \in Entry
        OBVIOUS
      <4> QED
        BY <4>1 DEF Entry
    <3> QED
      BY <1>1, <3>1 DEF Rooted
  <2>3. Agree(l, g, p + Len(m.entries))
    <3>1. CASE m.entries = <<>>
      BY <1>1, <1>4, <1>7, <3>1
    <3>2. CASE m.entries # <<>>
      <4>1. p + 1 \in DOMAIN l \cap DOMAIN g /\ l[p + 1].term = g[p + 1].term
        BY <1>1, <1>2, <1>5, <1>6, <1>9, <3>2 DEF Conflicts, LastIndex
      <4>2. Agree(l, g, p + 1)
        BY <1>2, <4>1, RootedAgree
      <4> QED
        BY <1>6, <3>2, <4>2
    <3> QED
      BY <3>1, <3>2
  <2> QED
    BY <1>3, <1>6, <1>7, <2>1, <2>2, <2>3
<1> QED
  BY <1>8, <1>9

\* A leader that merges a piece of its own log changes nothing.
LEMMA MergeOwn ==
    ASSUME NEW l \in Seq(Entry), NEW m \in AppendEntriesMsg, PieceOf(m, l)
    PROVE  MergeLog(l, m) = l
<1>1. m.preLogIndex \in Nat
  BY DEF AppendEntriesMsg
<1>2. m.entries # <<>> => m.preLogIndex < Len(l) /\ m.entries = <<l[m.preLogIndex + 1]>>
  BY <1>1 DEF PieceOf
<1>3. m.entries # <<>> => m.entries[1] = l[m.preLogIndex + 1]
  BY <1>2
<1> QED
  BY <1>1, <1>2, <1>3 DEF MergeLog, Conflicts, LastIndex

-----------------------------------------------------------------------------
(***************************************************************************)
(* What a step does to the logs, and how the leaders' logs M after it      *)
(* follow from L.                                                          *)
(***************************************************************************)
SameLogs(L, M) == UNCHANGED <<log, elected>> /\ M = L

\* A leader of the term it has after the step appends an entry of that term.
Appends(i, L, M) ==
    /\ \E e \in Entry : e.term = term'[i] /\ log' = [log EXCEPT ![i] = Append(log[i], e)]
    /\ elected' = elected \cup {<<term'[i], i>>}
    /\ M = [L EXCEPT ![term'[i]] = log'[i]]

\* Server i takes over the entries of AppendEntries m.
Merges(i, m, L, M) ==
    /\ m \in messages /\ m.type = "AppendEntries"
    /\ term[i] <= m.term /\ term'[i] = m.term
    /\ PreLogMatches(log[i], m)
    /\ log' = [log EXCEPT ![i] = MergeLog(log[i], m)]
    /\ elected' = elected /\ M = L

LogStep(L, M) ==
    \/ SameLogs(L, M)
    \/ \E i \in Server : Appends(i, L, M)
    \/ \E i \in Server, m \in messages : Merges(i, m, L, M)

\* Every leader's log is continued.
Continues(L, M) == \A t \in Nat : Agree(L[t], M[t], Len(L[t]))

LEMMA ContinuedAgree ==
    ASSUME NEW L \in LeaderLogs, NEW M \in LeaderLogs, Continues(L, M), NEW t \in Nat,
           NEW l \in Seq(Entry), NEW n \in Nat, Agree(l, L[t], n)
    PROVE  Agree(l, M[t], n)
<1>1. L[t] \in Seq(Entry) /\ M[t] \in Seq(Entry)
  BY DEF LeaderLogs
<1>2. n <= Len(L[t])
  BY DEF Agree
<1>3. Agree(L[t], M[t], n)
  BY <1>1, <1>2, AgreeLess DEF Continues
<1> QED
  BY <1>3, AgreeTrans

LEMMA ContinuedRooted ==
    ASSUME NEW L \in LeaderLogs, NEW M \in LeaderLogs, Continues(L, M),
           NEW l \in Seq(Entry), NEW t \in Nat, NEW u \in Nat, t <= u, Rooted(l, L, t)
    PROVE  Rooted(l, M, u)
<1> SUFFICES ASSUME NEW n \in DOMAIN l
             PROVE  l[n].term <= u /\ Agree(l, M[l[n].term], n)
  BY DEF Rooted
<1>1. l[n].term \in Nat /\ n \in Nat
  <2>1. l[n] \in Entry /\ n \in Nat
    OBVIOUS
  <2> QED
    BY <2>1 DEF Entry
<1>2. l[n].term <= t /\ Agree(l, L[l[n].term], n)
  BY DEF Rooted
<1> QED
  BY <1>1, <1>2, ContinuedAgree

\* One leader per term, for two pairs.
LEMMA SameLeader ==
    ASSUME ElectionSafety, NEW t, NEW i, NEW j, <<t, i>> \in elected, <<t, j>> \in elected
    PROVE  i = j
BY DEF ElectionSafety

\* A leader's append continues the log of its term: it had that log, or the term had none.
LEMMA AppendContinues ==
    ASSUME TypeOK, TypeOK', KeepsVotes, ElectionSafety', NEW L \in LeaderLogs, LeadersHold(L),
           NEW i \in Server, NEW M, Appends(i, L, M)
    PROVE  /\ M \in LeaderLogs /\ Continues(L, M) /\ M[term'[i]] = log'[i]
           /\ \A t \in Nat : t # term'[i] => M[t] = L[t]
           /\ L[term'[i]] # <<>> => /\ <<term'[i], i>> \in elected
                                   /\ term[i] = term'[i] /\ log[i] = L[term'[i]]
<1> DEFINE t == term'[i]
<1>1. t \in Nat /\ term[i] \in Nat /\ term[i] <= t /\ log'[i] \in Seq(Entry)
      /\ log[i] \in Seq(Entry)
  BY DEF TypeOK, KeepsVotes
<1>2. PICK e \in Entry : log' = [log EXCEPT ![i] = Append(log[i], e)]
  BY DEF Appends
<1>3. log'[i] = Append(log[i], e)
  BY <1>2 DEF TypeOK
<1>4. /\ M \in LeaderLogs /\ M[t] = log'[i]
      /\ \A s \in Nat : s # t => M[s] = L[s]
  BY <1>1 DEF Appends, LeaderLogs
<1>5. ASSUME L[t] # <<>>
      PROVE  <<t, i>> \in elected /\ term[i] = t /\ log[i] = L[t]
  <2>1. PICK x \in Server : <<t, x>> \in elected
    BY <1>1, <1>5 DEF LeadersHold, HasLeader
  <2>2. <<t, i>> \in elected' /\ <<t, x>> \in elected'
    BY <2>1 DEF Appends
  <2>3. x = i
    BY <2>2 DEF ElectionSafety
  <2> QED
    BY <1>1, <2>1, <2>3 DEF LeadersHold
<1>6. Continues(L, M)
  <2> SUFFICES ASSUME NEW s \in Nat
               PROVE  Agree(L[s], M[s], Len(L[s]))
    BY DEF Continues
  <2>1. L[s] \in Seq(Entry) /\ Agree(L[s], L[s], Len(L[s]))
    BY DEF Agree, LeaderLogs
  <2>2. CASE s # t
    BY <1>4, <2>1, <2>2
  <2>3. CASE s = t /\ L[t] # <<>>
    <3>1. log[i] = L[s] /\ M[s] = Append(log[i], e)
      BY <1>3, <1>4, <1>5, <2>3
    <3> QED
      BY <1>1, <3>1, AppendFacts
  <2>4. CASE s = t /\ L[t] = <<>>
    <3>1. Len(L[s]) = 0 /\ 0 <= Len(M[s])
      BY <1>1, <1>4, <2>4
    <3> QED
      BY <3>1 DEF Agree
  <2> QED
    BY <2>2, <2>3, <2>4
<1> QED
  BY <1>4, <1>5, <1>6

\* Merging a piece of the leader's log, at the server that does.
LEMMA MergeStep ==
    ASSUME TypeOK, NEW L \in LeaderLogs, LogsRooted(L), MessagesSound(L),
           NEW i \in Server, NEW m \in messages, Merges(i, m, L, L)
    PROVE  /\ m \in AppendEntriesMsg /\ m.term \in Nat /\ L[m.term] \in Seq(Entry)
           /\ log'[i] = MergeLog(log[i], m) /\ term'[i] = m.term /\ term[i] <= m.term
           /\ \A k \in Server \ {i} : log'[k] = log[k]
           /\ log'[i] \in Seq(Entry)
           /\ Rooted(log'[i], L, m.term)
           /\ Agree(log'[i], L[m.term], m.preLogIndex + Len(m.entries))
           /\ \A h \in Seq(Entry), n \in Nat :
                 Agree(log[i], h, n) /\ Agree(L[m.term], h, n) => Agree(log'[i], h, n)
<1>1. m \in AppendEntriesMsg
  BY MessageKind DEF TypeOK, Merges
<1>2. m.term \in Nat
  BY <1>1 DEF AppendEntriesMsg
<1>3. PieceOf(m, L[m.term]) /\ PreLogMatches(log[i], m) /\ term[i] <= m.term
  BY DEF MessagesSound, Merges
<1>4. log'[i] = MergeLog(log[i], m) /\ \A k \in Server \ {i} : log'[k] = log[k]
  BY DEF Merges, TypeOK
<1>5. log[i] \in Seq(Entry) /\ term[i] \in Nat /\ Rooted(log[i], L, term[i])
  BY DEF TypeOK, LogsRooted
<1>6. \A t \in Nat : Rooted(L[t], L, t)
  BY DEF LogsRooted
<1>7. L[m.term] \in Seq(Entry) /\ term'[i] = m.term
  BY <1>2 DEF LeaderLogs, Merges
<1> QED
  BY <1>1, <1>2, <1>3, <1>4, <1>5, <1>6, <1>7, MergeFacts

LEMMA StepContinues ==
    ASSUME TypeOK, TypeOK', KeepsVotes, ElectionSafety', NEW L \in LeaderLogs, LeadersHold(L),
           NEW M, LogStep(L, M)
    PROVE  M \in LeaderLogs /\ Continues(L, M) /\ elected \subseteq elected'
<1>1. Continues(L, L)
  <2>1. \A t \in Nat : L[t] \in Seq(Entry)
    BY DEF LeaderLogs
  <2> QED
    BY <2>1 DEF Continues, Agree
<1>2. CASE SameLogs(L, M)
  BY <1>1, <1>2 DEF SameLogs
<1>3. ASSUME NEW i \in Server, Appends(i, L, M)
      PROVE  M \in LeaderLogs /\ Continues(L, M) /\ elected \subseteq elected'
  <2>1. elected \subseteq elected'
    BY <1>3 DEF Appends
  <2> QED
    BY <1>3, <2>1, AppendContinues
<1>4. ASSUME NEW i \in Server, NEW m \in messages, Merges(i, m, L, M)
      PROVE  M \in LeaderLogs /\ Continues(L, M) /\ elected \subseteq elected'
  BY <1>1, <1>4 DEF Merges
<1> QED
  BY <1>2, <1>3, <1>4 DEF LogStep

\* Every log stays rooted.
LEMMA StepRooted ==
    ASSUME TypeOK, TypeOK', KeepsVotes, ElectionSafety', NEW L \in LeaderLogs, LogsRooted(L),
           LeadersHold(L), MessagesSound(L), NEW M, LogStep(L, M)
    PROVE  LogsRooted(M)'
<1>1. M \in LeaderLogs /\ Continues(L, M)
  BY StepContinues
<1>2. \A k \in Server : term[k] \in Nat /\ term'[k] \in Nat /\ term[k] <= term'[k]
                        /\ log[k] \in Seq(Entry) /\ log'[k] \in Seq(Entry)
  BY DEF TypeOK, KeepsVotes
<1>3. ASSUME NEW k \in Server, log'[k] = log[k]
      PROVE  Rooted(log'[k], M, term'[k])
  <2>1. Rooted(log[k], L, term[k])
    BY DEF LogsRooted
  <2> QED
    BY <1>1, <1>2, <1>3, <2>1, ContinuedRooted
<1>4. ASSUME NEW t \in Nat, M[t] = L[t]
      PROVE  Rooted(M[t], M, t)
  <2>1. Rooted(L[t], L, t) /\ L[t] \in Seq(Entry)
    BY DEF LogsRooted, LeaderLogs
  <2> QED
    BY <1>1, <1>4, <2>1, ContinuedRooted
<1>5. CASE SameLogs(L, M)
  BY <1>3, <1>4, <1>5 DEF SameLogs, LogsRooted
<1>6. ASSUME NEW i \in Server, Appends(i, L, M)
      PROVE  LogsRooted(M)'
  <2> DEFINE t == term'[i]
  <2>1. PICK e \in Entry : e.term = t /\ log' = [log EXCEPT ![i] = Append(log[i], e)]
    BY <1>6 DEF Appends
  <2>2. M[t] = log'[i] /\ \A s \in Nat : s # t => M[s] = L[s]
    BY <1>2, <1>6 DEF Appends, LeaderLogs
  <2>3. Rooted(log'[i], M, t)
    <3> SUFFICES ASSUME NEW n \in DOMAIN log'[i]
                 PROVE  log'[i][n].term <= t /\ Agree(log'[i], M[log'[i][n].term], n)
      BY DEF Rooted
    <3>1. /\ log'[i] = Append(log[i], e) /\ Len(log'[i]) = Len(log[i]) + 1
          /\ log'[i][Len(log[i]) + 1] = e
          /\ \A k \in 1..Len(log[i]) : log'[i][k] = log[i][k]
      BY <1>2, <2>1, AppendFacts DEF TypeOK
    <3>2. Len(log[i]) \in Nat /\ n \in 1..(Len(log[i]) + 1)
      BY <1>2, <3>1
    <3>3. CASE n = Len(log[i]) + 1
      <4>1. log'[i][n].term = t
        BY <2>1, <3>1, <3>3
      <4>2. Agree(log'[i], log'[i], n)
        BY <3>1, <3>2 DEF Agree
      <4> QED
        BY <1>2, <2>2, <4>1, <4>2
    <3>4. CASE n # Len(log[i]) + 1
      <4>1. n \in DOMAIN log[i] /\ n \in Nat /\ log'[i][n] = log[i][n]
        BY <1>2, <3>1, <3>2, <3>4
      <4>2. Rooted(log[i], M, t)
        BY <1>1, <1>2, ContinuedRooted DEF LogsRooted
      <4>3. log[i][n].term <= t /\ Agree(log[i], M[log[i][n].term], n)
        BY <4>1, <4>2 DEF Rooted
      <4>4. Agree(log'[i], log[i], n)
        BY <3>1, <3>2, <4>1 DEF Agree
      <4> QED
        BY <4>1, <4>3, <4>4, AgreeTrans
    <3> QED
      BY <3>3, <3>4
  <2>4. ASSUME NEW k \in Server
        PROVE  Rooted(log'[k], M, term'[k])
    <3>1. k # i => log'[k] = log[k]
      BY <2>1 DEF TypeOK
    <3> QED
      BY <1>3, <2>3, <3>1
  <2>5. ASSUME NEW s \in Nat
        PROVE  Rooted(M[s], M, s)
    BY <1>4, <2>2, <2>3
  <2> QED
    BY <2>4, <2>5 DEF LogsRooted
<1>7. ASSUME NEW i \in Server, NEW m \in messages, Merges(i, m, L, M)
      PROVE  LogsRooted(M)'
  <2>1. M = L /\ Merges(i, m, L, L)
    BY <1>7 DEF Merges
  <2>2. /\ term'[i] = m.term /\ Rooted(log'[i], L, m.term)
        /\ \A k \in Server \ {i} : log'[k] = log[k]
    BY <2>1, MergeStep
  <2>3. \A k \in Server : Rooted(log'[k], M, term'[k])
    BY <1>3, <2>1, <2>2
  <2> QED
    BY <1>4, <2>1, <2>3 DEF LogsRooted
<1> QED
  BY <1>5, <1>6, <1>7 DEF LogStep

\* A leader still in its term has that term's log after the step.
LEMMA StepLeadersHold ==
    ASSUME TypeOK, TypeOK', KeepsVotes, ElectionSafety, ElectionSafety', LeaderInv,
           NEW L \in LeaderLogs, LogsRooted(L), LeadersHold(L), MessagesSound(L),
           NEW M, LogStep(L, M)
    PROVE  LeadersHold(M)'
<1>1. M \in LeaderLogs /\ Continues(L, M) /\ elected \subseteq elected'
  BY StepContinues
<1>2. \A k \in Server : term[k] \in Nat /\ term'[k] \in Nat /\ term[k] <= term'[k]
                        /\ log[k] \in Seq(Entry) /\ log'[k] \in Seq(Entry)
  BY DEF TypeOK, KeepsVotes
<1>3. ASSUME NEW t \in Nat, M[t] = L[t], M[t] # <<>>
      PROVE  HasLeader(t)'
  BY <1>1, <1>3 DEF LeadersHold, HasLeader
<1>4. ASSUME NEW t \in Nat, NEW k \in Server, <<t, k>> \in elected
      PROVE  t <= term'[k] /\ (term'[k] = t => term[k] = t /\ log[k] = L[t])
  <2>1. t <= term[k] /\ (term[k] = t => log[k] = L[t])
    BY <1>4 DEF LeadersHold
  <2> QED
    BY <1>2, <2>1
<1>5. CASE SameLogs(L, M)
  <2>1. M = L /\ log' = log /\ elected' = elected
    BY <1>5 DEF SameLogs
  <2> QED
    BY <1>3, <1>4, <2>1 DEF LeadersHold
<1>6. ASSUME NEW i \in Server, Appends(i, L, M)
      PROVE  LeadersHold(M)'
  <2> DEFINE u == term'[i]
  <2>1. M[u] = log'[i] /\ \A s \in Nat : s # u => M[s] = L[s]
    BY <1>2, <1>6 DEF Appends, LeaderLogs
  <2>2. elected' = elected \cup {<<u, i>>}
    BY <1>6 DEF Appends
  <2>3. ASSUME NEW t \in Nat, NEW k \in Server, <<t, k>> \in elected'
        PROVE  t <= term'[k] /\ (term'[k] = t => log'[k] = M[t])
    <3>1. CASE t = u
      <4>1. k = i
        BY <2>2, <2>3, <3>1 DEF ElectionSafety
      <4> QED
        BY <1>2, <2>1, <3>1, <4>1
    <3>2. CASE t # u
      <4>1. <<t, k>> \in elected
        BY <2>2, <2>3, <3>2
      <4>2. k # i => log'[k] = log[k]
        BY <1>6 DEF Appends, TypeOK
      <4>3. M[t] = L[t]
        BY <2>1, <3>2
      <4> QED
        BY <1>4, <3>2, <4>1, <4>2, <4>3
    <3> QED
      BY <3>1, <3>2
  <2>4. ASSUME NEW t \in Nat, M[t] # <<>>
        PROVE  HasLeader(t)'
    <3>1. CASE t = u
      BY <2>2, <3>1 DEF HasLeader
    <3>2. CASE t # u
      BY <1>3, <2>1, <2>4, <3>2
    <3> QED
      BY <3>1, <3>2
  <2> QED
    BY <2>3, <2>4 DEF LeadersHold
<1>7. ASSUME NEW i \in Server, NEW m \in messages, Merges(i, m, L, M)
      PROVE  LeadersHold(M)'
  <2>1. M = L /\ Merges(i, m, L, L) /\ elected' = elected
    BY <1>7 DEF Merges
  <2>2. /\ m \in AppendEntriesMsg /\ term'[i] = m.term /\ log'[i] = MergeLog(log[i], m)
        /\ \A k \in Server \ {i} : log'[k] = log[k]
    BY <2>1, MergeStep
  <2>3. ASSUME NEW t \in Nat, NEW k \in Server, <<t, k>> \in elected, term'[k] = t
        PROVE  log'[k] = L[t]
    <3>1. term[k] = t /\ log[k] = L[t]
      BY <1>4, <2>3
    <3>2. CASE k # i
      BY <2>2, <3>1, <3>2
    <3>3. CASE k = i
      <4>1. PieceOf(m, log[k])
        BY <1>7, <2>2, <2>3, <3>1, <3>3 DEF MessagesSound, Merges
      <4>2. MergeLog(log[k], m) = log[k]
        BY <1>2, <2>2, <4>1, MergeOwn
      <4> QED
        BY <2>2, <3>1, <3>3, <4>2
    <3> QED
      BY <3>2, <3>3
  <2> QED
    BY <1>3, <1>4, <2>1, <2>3 DEF LeadersHold
<1> QED
  BY <1>5, <1>6, <1>7 DEF LogStep

\* AppendEntries already sent stay pieces of their leader's log.
LEMMA PieceContinues ==
    ASSUME NEW g \in Seq(Entry), NEW h \in Seq(Entry), Agree(g, h, Len(g)),
           NEW m \in AppendEntriesMsg, PieceOf(m, g)
    PROVE  PieceOf(m, h)
<1>1. m.preLogIndex \in Nat
  BY DEF AppendEntriesMsg
<1>2. Len(g) \in Nat /\ Len(h) \in Nat /\ Len(g) <= Len(h) /\ \A k \in 1..Len(g) : g[k] = h[k]
  BY DEF Agree
<1>3. GetTerm(g, m.preLogIndex) = GetTerm(h, m.preLogIndex)
  BY <1>1, <1>2 DEF GetTerm, PieceOf
<1>4. m.preLogIndex + 1 <= Len(g) => g[m.preLogIndex + 1] = h[m.preLogIndex + 1]
  BY <1>1, <1>2
<1> QED
  BY <1>1, <1>2, <1>3, <1>4 DEF PieceOf

LEMMA StepMessages ==
    ASSUME TypeOK, TypeOK', NEW L \in LeaderLogs, MessagesSound(L),
           NEW M \in LeaderLogs, Continues(L, M),
           \A m \in messages' \ messages : m.type = "AppendEntries" => PieceOf(m, M[m.term])
    PROVE  MessagesSound(M)'
<1> SUFFICES ASSUME NEW m \in messages, m.type = "AppendEntries"
             PROVE  PieceOf(m, M[m.term])
  BY DEF MessagesSound
<1>1. m \in AppendEntriesMsg
  BY MessageKind DEF TypeOK
<1>2. m.term \in Nat
  BY <1>1 DEF AppendEntriesMsg
<1>3. L[m.term] \in Seq(Entry) /\ M[m.term] \in Seq(Entry)
  BY <1>2 DEF LeaderLogs
<1>4. PieceOf(m, L[m.term]) /\ Agree(L[m.term], M[m.term], Len(L[m.term]))
  BY <1>2 DEF MessagesSound, Continues
<1> QED
  BY <1>1, <1>3, <1>4, PieceContinues

LEMMA AckType ==
    ASSUME TypeOK, NEW m \in messages, Acknowledges(m)
    PROVE  m.src \in Server /\ m.dest \in Server /\ m.term \in Nat /\ Acked(m) \in Nat
<1>1. m \in AppendEntriesReplyMsg
  BY MessageKind DEF TypeOK, Acknowledges
<1> QED
  BY <1>1 DEF AppendEntriesReplyMsg, Acked

\* Who has acknowledged the leader's log keeps it for the rest of the term.
LEMMA StepAcks ==
    ASSUME TypeOK, TypeOK', KeepsVotes, ElectionSafety', NEW L \in LeaderLogs, LogsRooted(L),
           LeadersHold(L), MessagesSound(L), AcksSound(L), NEW M, LogStep(L, M),
           \A m \in messages' \ messages : Acknowledges(m) => AckSound(m, M)'
    PROVE  AcksSound(M)'
<1> SUFFICES ASSUME NEW m \in messages, Acknowledges(m)
             PROVE  AckSound(m, M)'
  BY DEF AcksSound, Acknowledges
<1> DEFINE j == m.src
           t == m.term
           n == Acked(m)
<1>1. j \in Server /\ t \in Nat /\ n \in Nat
  BY AckType
<1>2. M \in LeaderLogs /\ Continues(L, M)
  BY StepContinues
<1>3. L[t] \in Seq(Entry) /\ M[t] \in Seq(Entry) /\ log[j] \in Seq(Entry) /\ log'[j] \in Seq(Entry)
      /\ term[j] \in Nat /\ term'[j] \in Nat /\ term[j] <= term'[j]
  BY <1>1, <1>2 DEF LeaderLogs, TypeOK, KeepsVotes
<1>4. n <= Len(L[t]) /\ t <= term[j] /\ (term[j] = t => Agree(log[j], L[t], n))
  BY DEF AcksSound, AckSound
<1>5. n <= Len(M[t]) /\ t <= term'[j]
  BY <1>1, <1>2, <1>3, <1>4 DEF Continues, Agree
<1>6. ASSUME term'[j] = t
      PROVE  Agree(log'[j], M[t], n)
  <2>1. Agree(log[j], L[t], n)
    BY <1>1, <1>3, <1>4, <1>6
  <2>2. Agree(log[j], M[t], n)
    BY <1>1, <1>2, <1>3, <2>1, ContinuedAgree
  <2>3. CASE log'[j] = log[j]
    BY <2>2, <2>3
  <2>4. ASSUME NEW i \in Server, Appends(i, L, M)
        PROVE  Agree(log'[j], M[t], n)
    <3>1. PICK e \in Entry : log' = [log EXCEPT ![i] = Append(log[i], e)]
      BY <2>4 DEF Appends
    <3>2. CASE j # i
      BY <1>1, <2>3, <3>1, <3>2 DEF TypeOK
    <3>3. CASE j = i
      <4>1. log'[j] = Append(log[j], e)
        BY <3>1, <3>3 DEF TypeOK
      <4>2. Agree(M[t], log[j], n)
        BY <2>2, AgreeSym
      <4>3. Agree(M[t], log'[j], n)
        BY <1>1, <1>3, <4>1, <4>2, AgreeAppend
      <4> QED
        BY <4>3, AgreeSym
    <3> QED
      BY <3>2, <3>3
  <2>5. ASSUME NEW i \in Server, NEW r \in messages, Merges(i, r, L, M)
        PROVE  Agree(log'[j], M[t], n)
    <3>1. M = L /\ Merges(i, r, L, L)
      BY <2>5 DEF Merges
    <3>2. /\ \A k \in Server \ {i} : log'[k] = log[k]
          /\ term'[i] = r.term
          /\ \A h \in Seq(Entry), k \in Nat :
                Agree(log[i], h, k) /\ Agree(L[r.term], h, k) => Agree(log'[i], h, k)
      BY <3>1, MergeStep
    <3>3. CASE j # i
      BY <1>1, <2>3, <3>2, <3>3
    <3>4. CASE j = i
      <4>1. r.term = t /\ Agree(L[t], L[t], n)
        BY <1>3, <1>4, <1>6, <3>2, <3>4 DEF Agree
      <4> QED
        BY <1>1, <1>3, <2>1, <3>1, <3>2, <3>4, <4>1
    <3> QED
      BY <3>3, <3>4
  <2> QED
    BY <2>3, <2>4, <2>5 DEF LogStep, SameLogs
<1> QED
  BY <1>5, <1>6 DEF AckSound

-----------------------------------------------------------------------------
(***************************************************************************)
(* Every action takes a step of this kind, and such a step keeps LogInv.   *)
(***************************************************************************)

\* New AppendEntries are pieces of their leader's log; a new acknowledgement carries its
\* sender's term and is true.
NetLogStep(M) ==
    /\ messages \subseteq messages'
    /\ \A m \in messages' \ messages :
          /\ m.type = "AppendEntries" => PieceOf(m, M[m.term])
          /\ Acknowledges(m) => m.term = term'[m.src] /\ AckSound(m, M)'

ReplicaStep(L, M) == LogStep(L, M) /\ NetLogStep(M) /\ IndicesSound'

LEMMA ReplicaStepInv ==
    ASSUME TypeOK, TypeOK', KeepsVotes, ElectionSafety, ElectionSafety', LeaderInv,
           NEW L \in LeaderLogs, LogInvWith(L), NEW M, ReplicaStep(L, M)
    PROVE  M \in LeaderLogs /\ LogInvWith(M)'
<1>1. LogsRooted(L) /\ LeadersHold(L) /\ MessagesSound(L) /\ AcksSound(L)
  BY DEF LogInvWith
<1>2. LogStep(L, M) /\ NetLogStep(M) /\ IndicesSound'
  BY DEF ReplicaStep
<1>3. M \in LeaderLogs /\ Continues(L, M)
  BY <1>1, <1>2, StepContinues
<1>4. LogsRooted(M)'
  BY <1>1, <1>2, StepRooted
<1>5. LeadersHold(M)'
  BY <1>1, <1>2, StepLeadersHold
<1>6. MessagesSound(M)'
  BY <1>1, <1>2, <1>3, StepMessages DEF NetLogStep
<1>7. AcksSound(M)'
  BY <1>1, <1>2, StepAcks DEF NetLogStep
<1> QED
  BY <1>2, <1>3, <1>4, <1>5, <1>6, <1>7 DEF LogInvWith

\* What IndexManager says stays true when the log grows and messages stay.
LEMMA IndexStays ==
    ASSUME TypeOK, TypeOK', NEW i \in Server, NEW j \in Server, IndexSound(i, j),
           term'[i] = term[i], next'[i] = next[i], match'[i] = match[i],
           messages \subseteq messages', Len(log'[i]) >= Len(log[i])
    PROVE  IndexSound(i, j)'
<1>1. next[i] \in [Server -> Nat \ {0}] /\ log[i] \in Seq(Entry) /\ log'[i] \in Seq(Entry)
  BY DEF TypeOK
<1>2. next[i][j] \in Nat /\ Len(log[i]) \in Nat /\ Len(log'[i]) \in Nat
  BY <1>1
<1>3. next'[i][j] <= Len(log'[i]) + 1
  BY <1>2 DEF IndexSound
<1>4. match'[i][j] # 0 => \E m \in messages' :
        /\ Acknowledges(m) /\ m.src = j /\ m.dest = i /\ m.term = term'[i]
        /\ Acked(m) = match'[i][j]
  BY DEF IndexSound
<1> QED
  BY <1>3, <1>4 DEF IndexSound, Acknowledges, Acked

\* Neither a log, a leader, AppendEntries nor an acknowledgement comes of the step, and who
\* leads after it led before.
QuietLogs ==
    /\ UNCHANGED <<log, elected>>
    /\ messages \subseteq messages'
    /\ \A m \in messages' \ messages : m.type # "AppendEntries" /\ ~Acknowledges(m)
    /\ \A k \in Server : state'[k] = Leader =>
          state[k] = Leader /\ term'[k] = term[k] /\ next'[k] = next[k] /\ match'[k] = match[k]

LEMMA QuietReplica ==
    ASSUME TypeOK, TypeOK', NEW L \in LeaderLogs, LogInvWith(L), QuietLogs
    PROVE  ReplicaStep(L, L)
<1>1. LogStep(L, L)
  BY DEF QuietLogs, LogStep, SameLogs
<1>2. NetLogStep(L)
  BY DEF QuietLogs, NetLogStep
<1>3. IndicesSound'
  <2> SUFFICES ASSUME NEW i \in Server, NEW j \in Server, state'[i] = Leader
               PROVE  IndexSound(i, j)'
    BY DEF IndicesSound
  <2>1. /\ state[i] = Leader /\ term'[i] = term[i] /\ next'[i] = next[i] /\ match'[i] = match[i]
        /\ messages \subseteq messages' /\ log' = log
    BY DEF QuietLogs
  <2>2. IndexSound(i, j) /\ Len(log'[i]) >= Len(log[i])
    BY <2>1 DEF LogInvWith, IndicesSound, TypeOK
  <2> QED
    BY <2>1, <2>2, IndexStays
<1> QED
  BY <1>1, <1>2, <1>3 DEF ReplicaStep

\* StepDown, in any of its uses, leaves nobody leader who was not.
LEMMA StepDownToQuiet ==
    ASSUME TypeOK, NEW i \in Server, NEW t, NEW v, NEW l, NEW h, StepDownTo(i, t, v, l, h),
           UNCHANGED <<log, elected, indexMgr>>, messages \subseteq messages',
           \A m \in messages' \ messages : m.type # "AppendEntries" /\ ~Acknowledges(m)
    PROVE  QuietLogs
<1>1. state'[i] # Leader /\ \A k \in Peers(i) : state'[k] = state[k] /\ term'[k] = term[k]
  BY DEF StepDownTo, TypeOK, Peers, Follower, Leader
<1> QED
  BY <1>1 DEF QuietLogs, indexMgr, Peers

\* A step that changes no term, role or index.
LEMMA SameRolesQuiet ==
    ASSUME TypeOK, UNCHANGED <<log, elected, term, state, indexMgr>>, messages \subseteq messages',
           \A m \in messages' \ messages : m.type # "AppendEntries" /\ ~Acknowledges(m)
    PROVE  QuietLogs
BY DEF QuietLogs, indexMgr

LEMMA BecomeCandidateQuiet ==
    ASSUME TypeOK, NEW i \in Server, BecomeCandidate(i), messages' = messages,
           \A k \in Peers(i) : term'[k] = term[k]
    PROVE  QuietLogs
<1>1. state'[i] # Leader /\ \A k \in Peers(i) : state'[k] = state[k]
  BY DEF BecomeCandidate, TypeOK, Peers, Candidate, Leader
<1> QED
  BY <1>1 DEF QuietLogs, BecomeCandidate, indexMgr, Peers

LEMMA LoseVolatileQuiet ==
    ASSUME TypeOK, NEW i \in Server, LoseVolatile(i), elected' = elected
    PROVE  QuietLogs
<1>1. state'[i] # Leader /\ \A k \in Peers(i) : state'[k] = state[k] /\ next'[k] = next[k]
                                              /\ match'[k] = match[k]
  BY DEF LoseVolatile, TypeOK, Peers, Follower, Leader
<1> QED
  BY <1>1 DEF QuietLogs, LoseVolatile, meta, Peers

\* A leader has the log of its term.
LEMMA LeaderHasLog ==
    ASSUME TypeOK, LeaderInv, NEW L \in LeaderLogs, LeadersHold(L), NEW i \in Server,
           state[i] = Leader
    PROVE  <<term[i], i>> \in elected /\ log[i] = L[term[i]] /\ term[i] \in Nat
<1>1. <<term[i], i>> \in elected /\ term[i] \in Nat
  BY DEF LeaderInv, KnowsElected, TypeOK
<1> QED
  BY <1>1 DEF LeadersHold

\* SendAppendEntries sends a piece of the leader's log when next is at most one beyond it.
LEMMA AppendEntriesPiece ==
    ASSUME NEW i, NEW j, NEW l \in Seq(Entry), NEW n \in Nat \ {0}, n <= Len(l) + 1, NEW c
    PROVE  /\ AppendEntries(i, j, l, n, c).type = "AppendEntries"
           /\ AppendEntries(i, j, l, n, c).term = term[i]
           /\ PieceOf(AppendEntries(i, j, l, n, c), l)
<1> DEFINE m == AppendEntries(i, j, l, n, c)
<1>1. /\ m.type = "AppendEntries" /\ m.term = term[i] /\ m.preLogIndex = n - 1
      /\ m.preLogTerm = GetTerm(l, n - 1)
      /\ m.entries = IF n \in DOMAIN l THEN <<l[n]>> ELSE <<>>
  BY DEF AppendEntries
<1> HIDE DEF m
<1>2. m.preLogIndex + 1 = n /\ m.preLogIndex <= Len(l)
  BY <1>1
<1>3. n \in DOMAIN l <=> n <= Len(l)
  OBVIOUS
<1>4. PieceOf(m, l)
  BY <1>1, <1>2, <1>3 DEF PieceOf
<1> QED
  BY <1>1, <1>4 DEF m

\* What a leader sends in a step, of the log it has after it.
LEMMA LeaderNet ==
    ASSUME TypeOK, TypeOK', NEW M, NEW i \in Server, M[term[i]] = log'[i], messages \subseteq messages',
           \A m \in messages' \ messages : \E j, c : \E n \in 1..(Len(log'[i]) + 1) :
              m = AppendEntries(i, j, log'[i], n, c)
    PROVE  NetLogStep(M)
<1> SUFFICES ASSUME NEW m \in messages' \ messages
             PROVE  m.type = "AppendEntries" /\ PieceOf(m, M[m.term])
  BY DEF NetLogStep, Acknowledges
<1>1. PICK j, c : \E n \in 1..(Len(log'[i]) + 1) : m = AppendEntries(i, j, log'[i], n, c)
  OBVIOUS
<1>2. log'[i] \in Seq(Entry)
  BY DEF TypeOK
<1>3. PICK n \in 1..(Len(log'[i]) + 1) : m = AppendEntries(i, j, log'[i], n, c)
  BY <1>1
<1>4. n \in Nat \ {0} /\ n <= Len(log'[i]) + 1
  BY <1>2
<1> QED
  BY <1>2, <1>3, <1>4, AppendEntriesPiece

LEMMA BecomeLeaderReplica ==
    ASSUME TypeOK, TypeOK', NEW L \in LeaderLogs, LogInvWith(L), NEW i \in Server,
           BecomeLeader(i, term'[i]), messages' = messages,
           \A k \in Peers(i) : term'[k] = term[k], NEW M, M = [L EXCEPT ![term'[i]] = log'[i]]
    PROVE  ReplicaStep(L, M)
<1> DEFINE e == [term |-> term'[i], value |-> Noop]
<1>1. e \in Entry /\ e.term = term'[i]
  BY DEF TypeOK, Entry
<1>2. log' = [log EXCEPT ![i] = Append(log[i], e)] /\ elected' = elected \cup {<<term'[i], i>>}
  BY DEF BecomeLeader
<1> HIDE DEF e
<1>3. Appends(i, L, M)
  BY <1>1, <1>2 DEF Appends
<1>4. LogStep(L, M)
  BY <1>3 DEF LogStep
<1>5. NetLogStep(M)
  BY DEF NetLogStep
<1>6. ASSUME NEW k \in Server, NEW j \in Server, state'[k] = Leader
      PROVE  IndexSound(k, j)'
  <2>1. CASE k = i
    <3>1. next'[i][j] = Len(log[i]) + 1 /\ match'[i][j] = 0
      BY DEF BecomeLeader, TypeOK, LastIndex
    <3>2. log'[i] = Append(log[i], e) /\ log[i] \in Seq(Entry)
      BY <1>2 DEF TypeOK
    <3>3. Len(log'[i]) = Len(log[i]) + 1 /\ Len(log[i]) \in Nat
      BY <1>1, <3>2, AppendFacts
    <3>4. next'[i][j] <= Len(log'[i]) + 1
      BY <3>1, <3>3
    <3> QED
      BY <2>1, <3>1, <3>4 DEF IndexSound
  <2>2. CASE k # i
    <3>1. /\ state'[k] = state[k] /\ term'[k] = term[k] /\ next'[k] = next[k]
          /\ match'[k] = match[k] /\ log'[k] = log[k]
      BY <1>2, <2>2 DEF BecomeLeader, TypeOK, Peers
    <3>2. IndexSound(k, j)
      BY <1>6, <3>1 DEF LogInvWith, IndicesSound
    <3>3. Len(log'[k]) >= Len(log[k])
      BY <3>1 DEF TypeOK
    <3> QED
      BY <3>1, <3>2, <3>3, IndexStays
  <2> QED
    BY <2>1, <2>2
<1> QED
  BY <1>4, <1>5, <1>6 DEF ReplicaStep, IndicesSound

LEMMA DoRequestVoteReplica ==
    ASSUME TypeOK, TypeOK', NEW L \in LeaderLogs, LogInvWith(L), NEW i \in Server,
           DoRequestVote(i)
    PROVE  \E M : ReplicaStep(L, M)
<1>1. /\ term'[i] = term[i] + 1 /\ messages' = messages
      /\ \A k \in Peers(i) : term'[k] = term[k]
  BY DEF DoRequestVote, TypeOK, Peers
<1>2. CASE BecomeLeader(i, term[i] + 1)
  BY <1>1, <1>2, BecomeLeaderReplica
<1>3. CASE BecomeCandidate(i)
  BY <1>1, <1>3, BecomeCandidateQuiet, QuietReplica
<1> QED
  BY <1>2, <1>3 DEF DoRequestVote

\* A leader's IndexManager is sound after a step that leaves it and its role alone.
LEMMA SameIndices ==
    ASSUME TypeOK, TypeOK', IndicesSound, UNCHANGED <<term, state, indexMgr>>,
           messages \subseteq messages', \A k \in Server : Len(log'[k]) >= Len(log[k])
    PROVE  IndicesSound'
<1> SUFFICES ASSUME NEW k \in Server, NEW j \in Server, state'[k] = Leader
             PROVE  IndexSound(k, j)'
  BY DEF IndicesSound
<1>1. /\ term'[k] = term[k] /\ next'[k] = next[k] /\ match'[k] = match[k] /\ IndexSound(k, j)
      /\ Len(log'[k]) >= Len(log[k])
  BY DEF indexMgr, IndicesSound
<1> QED
  BY <1>1, IndexStays

LEMMA TimerReplica ==
    ASSUME TypeOK, TypeOK', TimersMatchRole, LeaderInv, NEW L \in LeaderLogs, LogInvWith(L),
           NEW i \in Server, Timer(i)
    PROVE  \E M : ReplicaStep(L, M)
<1>1. CASE Elect(i)
  <2>1. CASE DoPreVote(i)
    BY <2>1, BecomeCandidateQuiet, QuietReplica DEF DoPreVote, meta
  <2> QED
    BY <1>1, <2>1, DoRequestVoteReplica DEF Elect
<1>2. ASSUME NEW j \in Server, RequestVoteRpc(i, j)
      PROVE  \E M : ReplicaStep(L, M)
  <2>1. /\ messages \subseteq messages'
        /\ \A m \in messages' \ messages : m.type # "AppendEntries" /\ ~Acknowledges(m)
    BY <1>2 DEF RequestVoteRpc, SendRequestVote, SendRpc, Send, Acknowledges
  <2> QED
    BY <1>2, <2>1, SameRolesQuiet, QuietReplica DEF RequestVoteRpc, meta, role
<1>3. ASSUME NEW j \in Server, HeartBeat(i, j)
      PROVE  \E M : ReplicaStep(L, M)
  <2>1. state[i] = Leader
    BY <1>3 DEF HeartBeat, TimersMatchRole
  <2>2. messages' = messages \cup {AppendEntries(i, j, log[i], next[i][j], commit[i])}
    BY <1>3 DEF HeartBeat, SendRpc, Send
  <2>3. UNCHANGED <<meta, role, log, elected, indexMgr>>
    BY <1>3 DEF HeartBeat
  <2>4. LogStep(L, L)
    BY <2>3 DEF LogStep, SameLogs
  <2>5. log[i] = L[term[i]]
    BY <2>1, LeaderHasLog DEF LogInvWith
  <2>6. log[i] \in Seq(Entry) /\ next[i] \in [Server -> Nat \ {0}]
    BY DEF TypeOK
  <2>7. next[i][j] <= Len(log[i]) + 1
    BY <2>1 DEF LogInvWith, IndicesSound, IndexSound
  <2>8. next[i][j] \in 1..(Len(log'[i]) + 1) /\ log'[i] = log[i]
    BY <2>3, <2>6, <2>7
  <2>9. NetLogStep(L)
    BY <2>2, <2>5, <2>8, LeaderNet
  <2>10. \A k \in Server : Len(log'[k]) >= Len(log[k])
    BY <2>3 DEF TypeOK
  <2>11. IndicesSound'
    BY <2>2, <2>3, <2>10, SameIndices DEF meta, role, LogInvWith
  <2> QED
    BY <2>4, <2>9, <2>11 DEF ReplicaStep
<1> QED
  BY <1>1, <1>2, <1>3 DEF Timer

LEMMA OnRequestVoteReplica ==
    ASSUME TypeOK, TypeOK', NEW L \in LeaderLogs, LogInvWith(L), NEW i \in Server,
           NEW m \in messages, OnRequestVote(i, m)
    PROVE  \E M : ReplicaStep(L, M)
<1>1. PICK ok \in BOOLEAN, t \in Nat, v \in Server \cup {Nil} :
         /\ t >= term[i] /\ (ok => t >= m.term)
         /\ t = term[i] /\ vote[i] # Nil => v = vote[i]
         /\ messages' = messages \cup {RequestVoteReply(i, m, t, v, ok)}
         /\ \/ StepDownTo(i, t, v, LeaderAfterStepDown(i, t), HeartbeatAfterStepDown(i))
            \/ t = term[i] /\ v = vote[i] /\ UNCHANGED <<meta, role, timerMgr>>
  BY OnRequestVoteEffect
<1>2. UNCHANGED <<log, elected, indexMgr>>
  BY DEF OnRequestVote
<1>3. RequestVoteReply(i, m, t, v, ok).type = "RequestVoteReply"
  BY DEF RequestVoteReply
<1>4. /\ messages \subseteq messages'
      /\ \A r \in messages' \ messages : r.type # "AppendEntries" /\ ~Acknowledges(r)
  BY <1>1, <1>3 DEF Acknowledges
<1>5. QuietLogs
  BY <1>1, <1>2, <1>4, StepDownToQuiet, SameRolesQuiet DEF meta, role
<1> QED
  BY <1>5, QuietReplica

\* A StepDown that sends nothing.
LEMMA StepDownReplica ==
    ASSUME TypeOK, TypeOK', NEW L \in LeaderLogs, LogInvWith(L), NEW i \in Server, NEW t,
           StepDown(i, t), UNCHANGED <<log, elected, indexMgr, messages>>
    PROVE  \E M : ReplicaStep(L, M)
<1>1. QuietLogs
  BY StepDownToQuiet DEF StepDown
<1> QED
  BY <1>1, QuietReplica

LEMMA OnRequestVoteReplyReplica ==
    ASSUME TypeOK, TypeOK', NEW L \in LeaderLogs, LogInvWith(L), NEW i \in Server,
           NEW m \in messages, OnRequestVoteReply(i, m)
    PROVE  \E M : ReplicaStep(L, M)
<1>1. CASE OnLargerTerm(i, m)
  BY <1>1, StepDownReplica DEF OnLargerTerm
<1>2. CASE OnVoteReply(i, m)
  <2>1. UNCHANGED <<meta, messages>>
    BY <1>2 DEF OnVoteReply
  <2>2. CASE BecomeLeader(i, term[i])
    BY <2>1, <2>2, BecomeLeaderReplica DEF meta
  <2>3. CASE UNCHANGED <<role, indexMgr, log, elected>>
    BY <2>1, <2>3, SameRolesQuiet, QuietReplica DEF meta, role
  <2> QED
    BY <1>2, <2>2, <2>3 DEF OnVoteReply
<1>3. CASE OnPreVoteReply(i, m)
  <2>1. CASE UNCHANGED <<meta, role, indexMgr, log, elected, messages>>
    BY <2>1, SameRolesQuiet, QuietReplica DEF meta, role
  <2> QED
    BY <1>3, <2>1, DoRequestVoteReplica DEF OnPreVoteReply
<1> QED
  BY <1>1, <1>2, <1>3 DEF OnRequestVoteReply

LEMMA AcceptReplica ==
    ASSUME TypeOK, TypeOK', NEW L \in LeaderLogs, LogInvWith(L), NEW i \in Server,
           NEW m \in messages, m.type = "AppendEntries", Accept(i, m),
           UNCHANGED <<elected, indexMgr>>
    PROVE  ReplicaStep(L, L)
<1>1. m \in AppendEntriesMsg
  BY MessageKind DEF TypeOK
<1>2. m.term \in Nat /\ term[i] \in Nat
  BY <1>1 DEF AppendEntriesMsg, TypeOK
<1>3. StepDownTo(i, m.term, VoteAfterStepDown(i, m.term), m.src, Heard) /\ m.term >= term[i]
  BY DEF Accept, FollowLeader
<1>4. /\ term'[i] = m.term /\ state'[i] = Follower
      /\ \A k \in Peers(i) : state'[k] = state[k] /\ term'[k] = term[k]
  BY <1>3 DEF StepDownTo, TypeOK, Peers
<1>5. PreLogMatches(log[i], m) /\ log' = [log EXCEPT ![i] = MergeLog(log[i], m)]
  BY DEF Accept
<1>6. Merges(i, m, L, L)
  BY <1>2, <1>3, <1>4, <1>5 DEF Merges
<1>7. LogStep(L, L)
  BY <1>6 DEF LogStep
<1>8. /\ Agree(log'[i], L[m.term], m.preLogIndex + Len(m.entries))
      /\ \A k \in Server \ {i} : log'[k] = log[k]
  BY <1>6, MergeStep DEF LogInvWith
<1>9. PICK r : r = AppendEntriesReply(i, m, m.term, TRUE, LastIndex(MergeLog(log[i], m)))
               /\ messages' = messages \cup {r}
  BY DEF Accept, Send
<1>10. /\ r.type = "AppendEntriesReply" /\ r.src = i /\ r.term = m.term
       /\ Acked(r) = m.preLogIndex + Len(m.entries)
  BY <1>9 DEF AppendEntriesReply, Acked
<1>11. AckSound(r, L)'
  <2>1. Acked(r) <= Len(L[r.term]) /\ r.term <= term'[r.src]
    BY <1>2, <1>4, <1>8, <1>10 DEF Agree
  <2>2. Agree(log'[r.src], L[r.term], Acked(r))
    BY <1>8, <1>10
  <2> QED
    BY <2>1, <2>2 DEF AckSound, Agree, Acked
<1>12. NetLogStep(L)
  BY <1>4, <1>9, <1>10, <1>11 DEF NetLogStep
<1>13. ASSUME NEW k \in Server, NEW j \in Server, state'[k] = Leader
       PROVE  IndexSound(k, j)'
  <2>1. k # i
    BY <1>4, <1>13 DEF Follower, Leader
  <2>2. /\ state[k] = Leader /\ term'[k] = term[k] /\ next'[k] = next[k]
        /\ match'[k] = match[k] /\ log'[k] = log[k] /\ messages \subseteq messages'
    BY <1>4, <1>8, <1>9, <1>13, <2>1 DEF indexMgr, Peers
  <2>3. IndexSound(k, j) /\ Len(log'[k]) >= Len(log[k])
    BY <2>2 DEF LogInvWith, IndicesSound, TypeOK
  <2> QED
    BY <2>2, <2>3, IndexStays
<1> QED
  BY <1>7, <1>12, <1>13 DEF ReplicaStep, IndicesSound

LEMMA OnAppendEntriesReplica ==
    ASSUME TypeOK, TypeOK', NEW L \in LeaderLogs, LogInvWith(L), NEW i \in Server,
           NEW m \in messages, OnAppendEntries(i, m)
    PROVE  \E M : ReplicaStep(L, M)
<1>1. UNCHANGED <<elected, indexMgr>> /\ m.type = "AppendEntries"
  BY DEF OnAppendEntries
<1>2. ASSUME NEW t, NEW last, Send(AppendEntriesReply(i, m, t, FALSE, last))
      PROVE  /\ messages \subseteq messages'
             /\ \A r \in messages' \ messages : r.type # "AppendEntries" /\ ~Acknowledges(r)
  <2> DEFINE r == AppendEntriesReply(i, m, t, FALSE, last)
  <2>1. r.type = "AppendEntriesReply" /\ ~r.success
    BY DEF AppendEntriesReply
  <2>2. messages' = messages \cup {r}
    BY <1>2 DEF Send
  <2> HIDE DEF r
  <2> QED
    BY <2>1, <2>2 DEF Acknowledges
<1>3. CASE RejectStale(i, m)
  <2>1. QuietLogs
    BY <1>1, <1>2, <1>3, SameRolesQuiet DEF RejectStale, meta, role
  <2> QED
    BY <2>1, QuietReplica
<1>4. CASE RejectMismatch(i, m)
  <2>1. QuietLogs
    BY <1>1, <1>2, <1>4, StepDownToQuiet DEF RejectMismatch, FollowLeader
  <2> QED
    BY <2>1, QuietReplica
<1>5. CASE Accept(i, m)
  BY <1>1, <1>5, AcceptReplica
<1> QED
  BY <1>3, <1>4, <1>5 DEF OnAppendEntries

\* What a reply to AppendEntries does to the leader's IndexManager: a match is one it has or
\* the acknowledged one.
LEMMA ReplyIndices ==
    ASSUME TypeOK, TypeOK', LeaderInv, NEW L \in LeaderLogs, LogInvWith(L), NEW i \in Server,
           NEW m \in messages, m.type = "AppendEntriesReply", m.dest = i,
           OnAppendReplyOfTerm(i, m)
    PROVE  IndicesSound' /\ next'[i][m.src] \in 1..(Len(log[i]) + 1)
<1> DEFINE j == m.src
           advances == m.success /\ match[i][j] <= Acked(m)
           mt == IF advances THEN [match[i] EXCEPT ![j] = Acked(m)] ELSE match[i]
           n == IF m.success THEN mt[j] + 1 ELSE NextAfterReject(next[i][j], m)
<1>1. match' = [match EXCEPT ![i] = mt] /\ next' = [next EXCEPT ![i][j] = n]
  BY DEF OnAppendReplyOfTerm
<1>2. state[i] = Leader /\ m.term = term[i] /\ UNCHANGED <<meta, role, log>>
      /\ messages \subseteq messages'
  BY DEF OnAppendReplyOfTerm, SendAll
<1>3. m \in AppendEntriesReplyMsg
  BY MessageKind DEF TypeOK
<1>4. j \in Server /\ Acked(m) \in Nat /\ m.lastLogIndex \in Nat /\ m.success \in BOOLEAN
  BY <1>3 DEF AppendEntriesReplyMsg, Acked
<1>5. /\ match[i] \in [Server -> Nat] /\ next[i] \in [Server -> Nat \ {0}]
      /\ match \in [Server -> [Server -> Nat]] /\ next \in [Server -> [Server -> Nat \ {0}]]
      /\ log[i] \in Seq(Entry)
  BY DEF TypeOK
<1>6. log[i] = L[term[i]]
  BY <1>2, LeaderHasLog DEF LogInvWith
<1>7. ASSUME NEW k \in Server
      PROVE  /\ mt[k] \in Nat /\ mt[k] <= Len(log[i])
             /\ mt[k] # 0 => \E r \in messages :
                   /\ Acknowledges(r) /\ r.src = k /\ r.dest = i /\ r.term = term[i]
                   /\ Acked(r) = mt[k]
  <2>1. mt[k] # 0 => \E r \in messages :
           /\ Acknowledges(r) /\ r.src = k /\ r.dest = i /\ r.term = term[i]
           /\ Acked(r) = mt[k]
    <3>1. CASE advances /\ k = j
      <4>1. mt[k] = Acked(m)
        BY <1>4, <1>5, <3>1
      <4>2. Acknowledges(m)
        BY <3>1 DEF Acknowledges
      <4> QED
        BY <1>2, <3>1, <4>1, <4>2
    <3>2. CASE ~(advances /\ k = j)
      <4>1. mt[k] = match[i][k]
        BY <1>4, <1>5, <3>2
      <4> QED
        BY <1>2, <4>1 DEF LogInvWith, IndicesSound, IndexSound
    <3> QED
      BY <3>1, <3>2
  <2>2. mt[k] \in Nat
    BY <1>4, <1>5
  <2> HIDE DEF mt
  <2>3. mt[k] # 0 => mt[k] <= Len(L[term[i]])
    BY <2>1 DEF LogInvWith, AcksSound, AckSound
  <2> QED
    BY <1>5, <1>6, <2>1, <2>2, <2>3
<1>8. next[i][j] \in Nat \ {0} /\ next[i][j] <= Len(log[i]) + 1
  BY <1>2, <1>4, <1>5 DEF LogInvWith, IndicesSound, IndexSound
<1> HIDE DEF mt
<1>9. n \in 1..(Len(log[i]) + 1)
  <2>1. Len(log[i]) \in Nat
    BY <1>5
  <2>2. mt[j] + 1 \in 1..(Len(log[i]) + 1)
    BY <1>4, <1>7, <2>1
  <2>3. NextAfterReject(next[i][j], m) \in 1..(Len(log[i]) + 1)
    <3> DEFINE a == next[i][j]
               b == m.lastLogIndex
               d == IF a > 1 THEN a - 1 ELSE a
    <3>1. a \in Nat \ {0} /\ b \in Nat /\ a <= Len(log[i]) + 1
      BY <1>4, <1>8
    <3> HIDE DEF a, b
    <3>2. d \in 1..(Len(log[i]) + 1)
      BY <2>1, <3>1
    <3> HIDE DEF d
    <3>3. (IF d > b + 1 THEN b + 1 ELSE d) \in 1..(Len(log[i]) + 1)
      BY <2>1, <3>1, <3>2
    <3> QED
      BY <3>3 DEF NextAfterReject, a, b, d
  <2> QED
    BY <2>2, <2>3
<1> HIDE DEF n
<1>10. match'[i] = mt /\ next'[i][j] = n /\ \A k \in Server : k # j => next'[i][k] = next[i][k]
  BY <1>1, <1>4, <1>5
<1>11. \A k \in Peers(i) : match'[k] = match[k] /\ next'[k] = next[k]
  BY <1>1, <1>5 DEF Peers
<1>12. ASSUME NEW k \in Server, NEW h \in Server, state'[k] = Leader
       PROVE  IndexSound(k, h)'
  <2>1. term'[k] = term[k] /\ state[k] = Leader /\ log'[k] = log[k]
    BY <1>2, <1>12 DEF meta, role
  <2>2. CASE k = i
    <3>1. next'[i][h] <= Len(log'[i]) + 1
      <4>1. next[i][h] <= Len(log[i]) + 1
        BY <1>2 DEF LogInvWith, IndicesSound, IndexSound
      <4>2. n <= Len(log[i]) + 1
        BY <1>5, <1>9
      <4> QED
        BY <1>10, <2>1, <2>2, <4>1, <4>2
    <3>2. match'[i][h] # 0 => \E r \in messages' :
             /\ Acknowledges(r) /\ r.src = h /\ r.dest = i /\ r.term = term'[i]
             /\ Acked(r) = match'[i][h]
      BY <1>2, <1>7, <1>10, <2>1, <2>2
    <3> QED
      BY <2>2, <3>1, <3>2 DEF IndexSound, Acknowledges, Acked
  <2>3. CASE k # i
    <3>1. match'[k] = match[k] /\ next'[k] = next[k] /\ Len(log'[k]) >= Len(log[k])
      BY <1>11, <2>1, <2>3 DEF Peers, TypeOK
    <3>2. IndexSound(k, h)
      BY <2>1 DEF LogInvWith, IndicesSound
    <3> QED
      BY <1>2, <2>1, <3>1, <3>2, IndexStays
  <2> QED
    BY <2>2, <2>3
<1> QED
  BY <1>9, <1>10, <1>12 DEF IndicesSound

LEMMA OnAppendEntriesReplyReplica ==
    ASSUME TypeOK, TypeOK', LeaderInv, NEW L \in LeaderLogs, LogInvWith(L), NEW i \in Server,
           NEW m \in messages, OnAppendEntriesReply(i, m)
    PROVE  \E M : ReplicaStep(L, M)
<1>1. CASE AbortNotLeader(i, m)
  BY <1>1, LoseVolatileQuiet, QuietReplica DEF AbortNotLeader
<1>2. CASE OnLargerTerm(i, m)
  BY <1>2, StepDownReplica DEF OnLargerTerm
<1>3. CASE OnAppendReplyOfTerm(i, m)
  <2>1. m.type = "AppendEntriesReply" /\ m.dest = i
    BY DEF OnAppendEntriesReply
  <2>2. IndicesSound' /\ next'[i][m.src] \in 1..(Len(log[i]) + 1)
    BY <1>3, <2>1, ReplyIndices
  <2>3. state[i] = Leader /\ UNCHANGED <<log, elected>>
    BY <1>3 DEF OnAppendReplyOfTerm
  <2>4. PICK c : messages' = messages \/
                 messages' = messages \cup {AppendEntries(i, m.src, log[i], next'[i][m.src], c)}
    <3> DEFINE j == m.src
               advances == m.success /\ match[i][j] <= Acked(m)
               mt == IF advances THEN [match[i] EXCEPT ![j] = Acked(m)] ELSE match[i]
               n == IF m.success THEN mt[j] + 1 ELSE NextAfterReject(next[i][j], m)
               c == IF advances THEN MaybeCommit(i, log[i], mt) ELSE commit[i]
    <3>1. /\ next' = [next EXCEPT ![i][j] = n]
          /\ messages' = messages \cup
               (IF n <= LastIndex(log[i]) THEN {AppendEntries(i, j, log[i], n, c)} ELSE {})
      BY <1>3 DEF OnAppendReplyOfTerm, SendAll
    <3> HIDE DEF n, c
    <3>2. m.src \in Server
      BY <2>1, MessageKind DEF TypeOK, AppendEntriesReplyMsg
    <3>3. next'[i][j] = n
      BY <3>1, <3>2, SMTT(30) DEF TypeOK
    <3> QED
      BY <3>1, <3>3
  <2>5. log[i] = L[term[i]] /\ log'[i] = log[i]
    BY <2>3, LeaderHasLog DEF LogInvWith
  <2>6. NetLogStep(L)
    BY <2>2, <2>4, <2>5, LeaderNet
  <2>7. LogStep(L, L)
    BY <2>3 DEF LogStep, SameLogs
  <2> QED
    BY <2>2, <2>6, <2>7 DEF ReplicaStep
<1> QED
  BY <1>1, <1>2, <1>3 DEF OnAppendEntriesReply

LEMMA ProposeReplica ==
    ASSUME TypeOK, TypeOK', LeaderInv, NEW L \in LeaderLogs, LogInvWith(L), NEW i \in Server,
           NEW v \in Value, Propose(i, v), NEW M, M = [L EXCEPT ![term'[i]] = log'[i]]
    PROVE  ReplicaStep(L, M)
<1> DEFINE e == [term |-> term[i], value |-> v]
           c == MaybeCommit(i, Append(log[i], e), match[i])
<1>1. e \in Entry /\ e.term = term[i]
  BY DEF TypeOK, Entry
<1>2. /\ log' = [log EXCEPT ![i] = Append(log[i], e)] /\ state[i] = Leader
      /\ messages' = messages \cup
            {AppendEntries(i, j, Append(log[i], e), next[i][j], c) : j \in Peers(i)}
      /\ UNCHANGED <<meta, role, indexMgr, elected>>
  BY DEF Propose, SendAll
<1> HIDE DEF e, c
<1>3. /\ <<term[i], i>> \in elected /\ term[i] \in Nat /\ term'[i] = term[i]
      /\ log'[i] = Append(log[i], e) /\ log[i] \in Seq(Entry)
      /\ \A k \in Peers(i) : log'[k] = log[k]
  BY <1>2, LeaderHasLog DEF LogInvWith, TypeOK, meta, Peers
<1>4. Appends(i, L, M)
  BY <1>1, <1>2, <1>3 DEF Appends
<1>5. M[term[i]] = log'[i]
  BY <1>3 DEF LeaderLogs
<1>6. Len(log'[i]) = Len(log[i]) + 1 /\ Len(log[i]) \in Nat
  BY <1>1, <1>3, AppendFacts
<1>7. \A j \in Server : next[i][j] \in 1..(Len(log'[i]) + 1)
  <2>1. next[i] \in [Server -> Nat \ {0}]
    BY DEF TypeOK
  <2>2. \A j \in Server : next[i][j] <= Len(log[i]) + 1
    BY <1>2 DEF LogInvWith, IndicesSound, IndexSound
  <2> QED
    BY <1>6, <2>1, <2>2
<1>8. NetLogStep(M)
  <2>1. \A m \in messages' \ messages : \E j, d : \E n \in 1..(Len(log'[i]) + 1) :
           m = AppendEntries(i, j, log'[i], n, d)
    BY <1>2, <1>3, <1>7 DEF Peers
  <2> QED
    BY <1>2, <1>5, <2>1, LeaderNet
<1>9. \A k \in Server : Len(log'[k]) >= Len(log[k])
  <2>1. \A k \in Server : log[k] \in Seq(Entry)
    BY DEF TypeOK
  <2>2. \A k \in Server : Len(log[k]) \in Nat
    BY <2>1
  <2> QED
    BY <1>3, <1>6, <2>2 DEF Peers
<1>10. IndicesSound'
  BY <1>2, <1>9, SameIndices DEF meta, role, LogInvWith
<1>11. LogStep(L, M)
  BY <1>4 DEF LogStep
<1> QED
  BY <1>8, <1>10, <1>11 DEF ReplicaStep

LEMMA ClientReplica ==
    ASSUME TypeOK, TypeOK', LeaderInv, NEW L \in LeaderLogs, LogInvWith(L), NEW i \in Server,
           Client(i)
    PROVE  \E M : ReplicaStep(L, M)
<1>1. ASSUME NEW j, LeaderTransfer(i, j)
      PROVE  \E M : ReplicaStep(L, M)
  <2>1. QuietLogs
    BY <1>1, SameRolesQuiet DEF LeaderTransfer, Send, Acknowledges, meta, role
  <2> QED
    BY <2>1, QuietReplica
<1> QED
  BY <1>1, ProposeReplica DEF Client

LEMMA OnTimeoutNowReplica ==
    ASSUME TypeOK, TypeOK', NEW L \in LeaderLogs, LogInvWith(L), NEW i \in Server,
           NEW m, OnTimeoutNow(i, m)
    PROVE  \E M : ReplicaStep(L, M)
<1>1. UNCHANGED <<log, elected, indexMgr, messages>>
  BY DEF OnTimeoutNow
<1>2. CASE UNCHANGED <<meta, role, timerMgr>>
  BY <1>1, <1>2, SameRolesQuiet, QuietReplica DEF meta, role
<1> QED
  BY <1>1, <1>2, StepDownReplica DEF OnTimeoutNow

LEMMA RestartReplica ==
    ASSUME TypeOK, TypeOK', NEW L \in LeaderLogs, LogInvWith(L), NEW i \in Server, Restart(i)
    PROVE  \E M : ReplicaStep(L, M)
<1>1. CASE Stop(i)
  BY <1>1, SameRolesQuiet, QuietReplica DEF Stop, meta, role
<1>2. CASE Crash(i)
  BY <1>2, LoseVolatileQuiet, QuietReplica DEF Crash
<1>3. CASE Start(i)
  BY <1>3, StepDownReplica DEF Start
<1> QED
  BY <1>1, <1>2, <1>3 DEF Restart

LEMMA NextReplica ==
    ASSUME TypeOK, TypeOK', TimersMatchRole, LeaderInv, NEW L \in LeaderLogs, LogInvWith(L), Next
    PROVE  \E M : ReplicaStep(L, M)
<1>1. ASSUME NEW i \in Server, NEW m \in messages, Receive(i, m)
      PROVE  \E M : ReplicaStep(L, M)
  BY <1>1, OnRequestVoteReplica, OnRequestVoteReplyReplica, OnAppendEntriesReplica,
     OnAppendEntriesReplyReplica, OnTimeoutNowReplica DEF Receive
<1> QED
  BY <1>1, TimerReplica, ClientReplica, RestartReplica DEF Next

LEMMA NextLog ==
    ASSUME TypeOK, TypeOK', TimersMatchRole, LeaderInv, ElectionSafety, ElectionSafety', LogInv,
           [Next]_vars
    PROVE  LogInv'
<1>1. PICK L \in LeaderLogs : LogInvWith(L)
  BY DEF LogInv
<1>2. \E M : ReplicaStep(L, M)
  <2>1. CASE UNCHANGED vars
    BY <1>1, <2>1, SameRolesQuiet, QuietReplica DEF vars, meta, role
  <2> QED
    BY <1>1, <2>1, NextReplica
<1>3. PICK M : ReplicaStep(L, M)
  BY <1>2
<1>4. KeepsVotes
  BY NextKeepsVotes, SameMetaKeeps DEF vars
<1>5. M \in LeaderLogs /\ LogInvWith(M)'
  BY <1>1, <1>3, <1>4, ReplicaStepInv
<1> QED
  BY <1>5 DEF LogInv

LEMMA InitLog == Init => LogInv
<1> SUFFICES ASSUME Init
             PROVE  LogInv
  OBVIOUS
<1> DEFINE L == [t \in Nat |-> <<>>]
<1>1. L \in LeaderLogs
  BY DEF LeaderLogs
<1>2. /\ \A i \in Server : log[i] = <<>> /\ state[i] # Leader
      /\ messages = {} /\ elected = {}
  BY DEF Init, InitFrom, Follower, Leader
<1>3. LogsRooted(L)
  BY <1>2 DEF LogsRooted, Rooted
<1>4. LeadersHold(L)
  BY <1>2 DEF LeadersHold
<1>5. MessagesSound(L) /\ AcksSound(L) /\ IndicesSound
  BY <1>2 DEF MessagesSound, AcksSound, IndicesSound
<1> QED
  BY <1>1, <1>3, <1>4, <1>5 DEF LogInv, LogInvWith

\* In a cluster of an odd number of servers every log is, up to each of its entries, the log
\* of the leader of that entry's term; every AppendEntries, however old, is a piece of such a
\* log; every acknowledgement and every index of IndexManager is true.
THEOREM LogsFollowLeaders ==
    ASSUME Cardinality(Server) % 2 = 1
    PROVE  Spec => []LogInv
<1>1. TypeOK /\ TypeOK' /\ TimersMatchRole /\ LeaderInv /\ ElectionSafety /\ ElectionSafety'
        /\ LogInv /\ [Next]_vars => LogInv'
  BY NextLog
<1> QED
  BY <1>1, InitLog, TypeCorrect, TimersFollowRole, LeadersWereElected, OneLeaderPerTerm, PTL
     DEF Spec

-----------------------------------------------------------------------------
LEMMA AgreeSubSeq ==
    ASSUME NEW a \in Seq(Entry), NEW b \in Seq(Entry), NEW n \in Nat, Agree(a, b, n)
    PROVE  SubSeq(a, 1, n) = SubSeq(b, 1, n)
<1>1. n <= Len(a) /\ n <= Len(b) /\ \A k \in 1..n : a[k] = b[k]
  BY DEF Agree
<1>2. /\ SubSeq(a, 1, n) \in Seq(Entry) /\ Len(SubSeq(a, 1, n)) = n
      /\ \A k \in 1..n : SubSeq(a, 1, n)[k] = a[k]
  BY <1>1
<1>3. /\ SubSeq(b, 1, n) \in Seq(Entry) /\ Len(SubSeq(b, 1, n)) = n
      /\ \A k \in 1..n : SubSeq(b, 1, n)[k] = b[k]
  BY <1>1
<1> QED
  BY <1>1, <1>2, <1>3, SeqEqual

\* Two logs that hold an entry of the same term at the same index are equal up to it, in
\* every behaviour of an odd cluster, crashes and stale AppendEntries included.
THEOREM LogsMatch ==
    ASSUME Cardinality(Server) % 2 = 1
    PROVE  Spec => []LogMatching
<1>1. TypeOK /\ LogInv => LogMatching
  <2> SUFFICES ASSUME TypeOK, LogInv, NEW i \in Server, NEW j \in Server,
                      NEW k \in 1..Min({Len(log[i]), Len(log[j])}),
                      log[i][k].term = log[j][k].term
               PROVE  SubSeq(log[i], 1, k) = SubSeq(log[j], 1, k)
    BY DEF LogMatching
  <2>1. log[i] \in Seq(Entry) /\ log[j] \in Seq(Entry)
    BY DEF TypeOK
  <2>2. k \in DOMAIN log[i] \cap DOMAIN log[j] /\ k \in Nat
    <3>1. Len(log[i]) \in Nat /\ Len(log[j]) \in Nat
      BY <2>1
    <3>2. /\ Min({Len(log[i]), Len(log[j])}) \in Nat
          /\ Min({Len(log[i]), Len(log[j])}) <= Len(log[i])
          /\ Min({Len(log[i]), Len(log[j])}) <= Len(log[j])
      BY <3>1, MinOfTwo
    <3>3. k \in Nat /\ 1 <= k /\ k <= Len(log[i]) /\ k <= Len(log[j])
      BY <3>1, <3>2
    <3> QED
      BY <2>1, <3>1, <3>3
  <2>3. PICK L \in LeaderLogs : LogsRooted(L)
    BY DEF LogInv, LogInvWith
  <2>4. Agree(log[i], log[j], k)
    BY <2>1, <2>2, <2>3, RootedAgree DEF LogsRooted
  <2> QED
    BY <2>1, <2>2, <2>4, AgreeSubSeq
<1> QED
  BY <1>1, TypeCorrect, LogsFollowLeaders, PTL

\* A leader's match index tells the truth of every follower still in its term, whatever
\* replies were lost, repeated or reordered.
THEOREM MatchesAreTrue ==
    ASSUME Cardinality(Server) % 2 = 1
    PROVE  Spec => []MatchIndexSound
<1>1. TypeOK /\ LeaderInv /\ LogInv => MatchIndexSound
  <2> SUFFICES ASSUME TypeOK, LeaderInv, LogInv, NEW i \in Server, NEW j \in Server,
                      state[i] = Leader, term[j] = term[i]
               PROVE  /\ match[i][j] <= Len(log[i])
                      /\ match[i][j] <= Len(log[j])
                      /\ SubSeq(log[i], 1, match[i][j]) = SubSeq(log[j], 1, match[i][j])
    BY DEF MatchIndexSound
  <2>1. PICK L \in LeaderLogs : LogInvWith(L)
    BY DEF LogInv
  <2>2. log[i] = L[term[i]]
    BY <2>1, LeaderHasLog DEF LogInvWith
  <2>3. log[i] \in Seq(Entry) /\ log[j] \in Seq(Entry) /\ match[i] \in [Server -> Nat]
    BY DEF TypeOK
  <2>4. match[i][j] \in Nat
    BY <2>3
  <2>5. Agree(log[i], log[j], match[i][j])
    <3>1. CASE match[i][j] = 0
      BY <2>3, <3>1 DEF Agree
    <3>2. CASE match[i][j] # 0
      <4>1. PICK m \in messages :
               Acknowledges(m) /\ m.src = j /\ m.term = term[i] /\ Acked(m) = match[i][j]
        BY <2>1, <3>2 DEF LogInvWith, IndicesSound, IndexSound
      <4>2. AckSound(m, L)
        BY <2>1, <4>1 DEF LogInvWith, AcksSound
      <4>3. Agree(log[j], log[i], match[i][j])
        BY <2>2, <4>1, <4>2 DEF AckSound
      <4> QED
        BY <4>3, AgreeSym
    <3> QED
      BY <3>1, <3>2
  <2> QED
    BY <2>3, <2>4, <2>5, AgreeSubSeq DEF Agree
<1> QED
  BY <1>1, TypeCorrect, LeadersWereElected, LogsFollowLeaders, PTL
=============================================================================
