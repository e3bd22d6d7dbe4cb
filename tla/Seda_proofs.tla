------------------------------ MODULE Seda_proofs ------------------------------
(***************************************************************************)
(* What is proved of the threads of seda, for any number of threads,       *)
(* functors and ids and any size of the queues: the pool of work threads   *)
(* is a serial executor for each id, and a worker that is stopped has      *)
(* carried out what it had accepted by then.                               *)
(*                                                                         *)
(* The functors that wait at a worker, those of its batch that have not    *)
(* begun and then its queue, form its Line.  An id's functors are in the   *)
(* line of one worker, in the order in which they were accepted.  That is  *)
(* said with a rank: rank[k] is how many functors of the id were accepted  *)
(* up to the k-th place of the line, so that it starts at the number that  *)
(* have begun, ends at the number that were accepted, and grows by one at  *)
(* every place that holds a functor of the id.                             *)
(***************************************************************************)
EXTENDS MCSeda, SequenceTheorems, TLAPS

Items == Functors \cup {StopFunctor}

(* rank numbers the functors of id i in the line, from those that have     *)
(* begun (done) to all that were accepted; at most `due` of them were      *)
(* accepted before a stop functor that is still in the line.               *)
Ranks(rank, line, i, done, all, due) ==
  /\ rank \in [0..Len(line) -> Nat]
  /\ rank[0] = done
  /\ rank[Len(line)] = Len(all)
  /\ \A k \in 0..Len(line) : rank[k] <= Len(all)
  /\ \A k \in 1..Len(line) :
       IF line[k].stop \/ line[k].id # i
         THEN rank[k] = rank[k - 1]
         ELSE rank[k] = rank[k - 1] + 1 /\ all[rank[k]] = line[k]
  /\ \A k \in 1..Len(line) : line[k].stop => due <= rank[k]

Ranked(line, i, done, all, due) == \E rank : Ranks(rank, line, i, done, all, due)

-----------------------------------------------------------------------------
(* Lines.                                                                  *)

(* A functor is the stop functor or one of an id; the two are told apart   *)
(* by their field stop.                                                    *)
LEMMA ItemFacts ==
  /\ StopFunctor \in Items /\ StopFunctor.stop
  /\ \A f \in Functors : f \in Items /\ ~f.stop /\ f.id \in Ids
                         /\ f.pushes \in BOOLEAN
  /\ \A f \in Items : f.stop \in BOOLEAN
  /\ \A f \in Items : ~f.stop => f \in Functors
<1>1. StopFunctor \in Items BY DEF Items
<1>2. StopFunctor.stop = TRUE BY DEF StopFunctor
<1>3. \A f \in Functors : f.stop = FALSE /\ f.id \in Ids /\ f.pushes \in BOOLEAN
  BY DEF Functors
<1>4. \A f \in Functors : f \in Items BY DEF Items
<1>5. \A f \in Items : f \in Functors \/ f = StopFunctor BY DEF Items
<1>6. \A f \in Items : f.stop \in BOOLEAN BY <1>2, <1>3, <1>5
<1>7. \A f \in Items : ~f.stop => f \in Functors BY <1>2, <1>5
<1> QED BY <1>1, <1>2, <1>3, <1>4, <1>6, <1>7, Zenon

(* Two sequences joined: what is appended to the second is last, and what  *)
(* is taken from the first was first.                                      *)
LEMMA JoinAppend ==
  ASSUME NEW S, NEW b \in Seq(S), NEW q \in Seq(S), NEW f \in S
  PROVE  b \o Append(q, f) = Append(b \o q, f)
<1>1. <<f>> \in Seq(S) OBVIOUS
<1>2. b \o q \in Seq(S) BY ConcatProperties
<1>3. Append(q, f) = q \o <<f>> BY AppendIsConcat
<1>4. Append(b \o q, f) = (b \o q) \o <<f>> BY <1>2, AppendIsConcat
<1>5. (b \o q) \o <<f>> = b \o (q \o <<f>>) BY <1>1, ConcatAssociative
<1> QED BY <1>3, <1>4, <1>5

LEMMA JoinTail ==
  ASSUME NEW S, NEW b \in Seq(S), NEW q \in Seq(S), b # <<>>
  PROVE  /\ b \o q \in Seq(S) /\ b \o q # <<>>
         /\ (b \o q)[1] = Head(b)
         /\ Tail(b) \o q = Tail(b \o q)
<1> DEFINE m == Len(b)
           n == Len(q)
<1>1. m \in Nat /\ m >= 1 /\ n \in Nat BY EmptySeq
<1>2. /\ Tail(b) \in Seq(S) /\ Len(Tail(b)) = m - 1
      /\ \A k \in 1..(m - 1) : Tail(b)[k] = b[k + 1]
  BY HeadTailProperties
<1>3. /\ b \o q \in Seq(S) /\ Len(b \o q) = m + n
      /\ \A k \in 1..(m + n) : (b \o q)[k] = IF k <= m THEN b[k] ELSE q[k - m]
  BY ConcatProperties
<1>4. /\ Tail(b) \o q \in Seq(S) /\ Len(Tail(b) \o q) = (m - 1) + n
      /\ \A k \in 1..((m - 1) + n) :
           (Tail(b) \o q)[k] = IF k <= m - 1 THEN Tail(b)[k] ELSE q[k - (m - 1)]
  BY <1>2, ConcatProperties
<1> HIDE DEF m, n
<1>5. b \o q # <<>>
  <2>1. Len(b \o q) # 0 BY <1>1, <1>3
  <2> QED BY <2>1, EmptySeq
<1>6. (b \o q)[1] = Head(b)
  <2>1. 1 \in 1..(m + n) /\ 1 <= m BY <1>1
  <2>2. (b \o q)[1] = b[1] BY <2>1, <1>3
  <2> QED BY <2>2
<1>7. /\ Tail(b \o q) \in Seq(S) /\ Len(Tail(b \o q)) = (m + n) - 1
      /\ \A k \in 1..((m + n) - 1) : Tail(b \o q)[k] = (b \o q)[k + 1]
  BY <1>3, <1>5, HeadTailProperties
<1>8. ASSUME NEW k \in 1..((m - 1) + n) PROVE (Tail(b) \o q)[k] = Tail(b \o q)[k]
  <2>1. k \in 1..((m + n) - 1) /\ k + 1 \in 1..(m + n) BY <1>1
  <2>2. CASE k <= m - 1
    <3>1. k + 1 <= m /\ k \in 1..(m - 1) BY <2>2, <1>1
    <3> QED BY <1>2, <1>3, <1>4, <1>7, <2>1, <2>2, <3>1
  <2>3. CASE ~(k <= m - 1)
    <3>1. ~(k + 1 <= m) /\ (k + 1) - m = k - (m - 1) BY <2>3, <1>1
    <3> QED BY <1>3, <1>4, <1>7, <2>1, <2>3, <3>1
  <2> QED BY <2>2, <2>3
<1>9. (m - 1) + n = (m + n) - 1 BY <1>1
<1>10. Tail(b) \o q = Tail(b \o q) BY <1>4, <1>7, <1>8, <1>9, SeqEqual
<1> QED BY <1>3, <1>5, <1>6, <1>10

(* A functor of the id joins the end of the line when it is accepted.      *)
LEMMA RankedAccept ==
  ASSUME NEW line \in Seq(Items), NEW i \in Ids, NEW done \in Nat,
         NEW all \in Seq(Functors), NEW due \in Nat,
         Ranked(line, i, done, all, due), NEW f \in Functors, f.id = i
  PROVE  Ranked(Append(line, f), i, done, Append(all, f), due)
<1> PICK rank : Ranks(rank, line, i, done, all, due) BY DEF Ranked
<1> DEFINE n == Len(line)
           new == [k \in 0..(n + 1) |-> IF k = n + 1 THEN Len(all) + 1 ELSE rank[k]]
<1>1. n \in Nat /\ Len(all) \in Nat /\ rank \in [0..n -> Nat]
  BY DEF Ranks
<1>2. /\ Len(Append(line, f)) = n + 1
      /\ \A k \in 1..n : Append(line, f)[k] = line[k]
      /\ Append(line, f)[n + 1] = f
  OBVIOUS
<1>3. /\ Len(Append(all, f)) = Len(all) + 1
      /\ \A k \in 1..Len(all) : Append(all, f)[k] = all[k]
      /\ Append(all, f)[Len(all) + 1] = f
  OBVIOUS
<1>4. /\ new \in [0..(n + 1) -> Nat]
      /\ new[n + 1] = Len(all) + 1
      /\ \A k \in 0..n : new[k] = rank[k]
  BY <1>1
<1>5. /\ rank[0] = done /\ rank[n] = Len(all)
      /\ \A k \in 0..n : rank[k] \in Nat /\ rank[k] <= Len(all)
  BY <1>1 DEF Ranks
<1>6. ~f.stop BY ItemFacts
<1> HIDE DEF new, n
<1>7. ASSUME NEW k \in 1..(n + 1)
      PROVE  /\ IF Append(line, f)[k].stop \/ Append(line, f)[k].id # i
                  THEN new[k] = new[k - 1]
                  ELSE new[k] = new[k - 1] + 1 /\ Append(all, f)[new[k]] = Append(line, f)[k]
             /\ Append(line, f)[k].stop => due <= new[k]
  <2>1. CASE k = n + 1
    <3>1. k - 1 = n /\ n \in 0..n BY <1>1, <2>1
    <3> QED BY <1>1, <1>2, <1>3, <1>4, <1>5, <1>6, <2>1, <3>1
  <2>2. CASE k # n + 1
    <3>1. k \in 1..n /\ k - 1 \in 0..n /\ k \in 0..n BY <1>1, <2>2
    <3>2. /\ IF line[k].stop \/ line[k].id # i
               THEN rank[k] = rank[k - 1]
               ELSE rank[k] = rank[k - 1] + 1 /\ all[rank[k]] = line[k]
          /\ line[k].stop => due <= rank[k]
      BY <3>1 DEF Ranks, n
    <3>3. rank[k] = rank[k - 1] + 1 => rank[k] \in 1..Len(all)
      BY <3>1, <1>5, <1>1
    <3> QED BY <3>1, <3>2, <3>3, <1>2, <1>3, <1>4
  <2> QED BY <2>1, <2>2
<1>8. \A k \in 0..(n + 1) : new[k] <= Len(all) + 1
  <2> TAKE k \in 0..(n + 1)
  <2>1. CASE k = n + 1 BY <2>1, <1>4, <1>1
  <2>2. CASE k # n + 1
    <3>1. k \in 0..n BY <2>2, <1>1
    <3> QED BY <3>1, <1>4, <1>5, <1>1
  <2> QED BY <2>1, <2>2
<1>9. new[0] = done BY <1>1, <1>4, <1>5
<1>10. Ranks(new, Append(line, f), i, done, Append(all, f), due)
  BY <1>2, <1>3, <1>4, <1>7, <1>8, <1>9 DEF Ranks
<1> QED BY <1>10 DEF Ranked

(* A functor of another id, or a stop functor, joins the line: the first   *)
(* stop functor owes what has been accepted so far.                        *)
LEMMA RankedPass ==
  ASSUME NEW line \in Seq(Items), NEW i \in Ids, NEW done \in Nat,
         NEW all \in Seq(Functors), NEW due \in Nat, NEW owes \in Nat,
         Ranked(line, i, done, all, due), NEW f \in Items, f.stop \/ f.id # i,
         \/ owes = due /\ ~f.stop
         \/ owes = Len(all) /\ \A k \in 1..Len(line) : ~line[k].stop
  PROVE  Ranked(Append(line, f), i, done, all, owes)
<1> PICK rank : Ranks(rank, line, i, done, all, due) BY DEF Ranked
<1> DEFINE n == Len(line)
           new == [k \in 0..(n + 1) |-> IF k = n + 1 THEN Len(all) ELSE rank[k]]
<1>1. n \in Nat /\ Len(all) \in Nat /\ rank \in [0..n -> Nat]
  BY DEF Ranks
<1>2. /\ Len(Append(line, f)) = n + 1
      /\ \A k \in 1..n : Append(line, f)[k] = line[k]
      /\ Append(line, f)[n + 1] = f
  OBVIOUS
<1>4. /\ new \in [0..(n + 1) -> Nat]
      /\ new[n + 1] = Len(all)
      /\ \A k \in 0..n : new[k] = rank[k]
  BY <1>1
<1>5. /\ rank[0] = done /\ rank[n] = Len(all)
      /\ \A k \in 0..n : rank[k] \in Nat /\ rank[k] <= Len(all)
  BY <1>1 DEF Ranks
<1>6. \/ owes = due /\ ~f.stop
      \/ owes = Len(all) /\ \A k \in 1..n : ~line[k].stop
  OBVIOUS
<1> HIDE DEF new, n
<1>7. ASSUME NEW k \in 1..(n + 1)
      PROVE  /\ IF Append(line, f)[k].stop \/ Append(line, f)[k].id # i
                  THEN new[k] = new[k - 1]
                  ELSE new[k] = new[k - 1] + 1 /\ all[new[k]] = Append(line, f)[k]
             /\ Append(line, f)[k].stop => owes <= new[k]
  <2>1. CASE k = n + 1
    <3>1. k - 1 = n /\ n \in 0..n BY <1>1, <2>1
    <3>2. new[k] = Len(all) /\ new[k - 1] = Len(all) /\ Append(line, f)[k] = f
      BY <1>2, <1>4, <1>5, <2>1, <3>1
    <3> QED BY <3>2, <1>6, <1>1
  <2>2. CASE k # n + 1
    <3>1. k \in 1..n /\ k - 1 \in 0..n /\ k \in 0..n BY <1>1, <2>2
    <3>2. /\ IF line[k].stop \/ line[k].id # i
               THEN rank[k] = rank[k - 1]
               ELSE rank[k] = rank[k - 1] + 1 /\ all[rank[k]] = line[k]
          /\ line[k].stop => due <= rank[k]
      BY <3>1 DEF Ranks, n
    <3> QED BY <3>1, <3>2, <1>2, <1>4, <1>6
  <2> QED BY <2>1, <2>2
<1>8. \A k \in 0..(n + 1) : new[k] <= Len(all)
  <2> TAKE k \in 0..(n + 1)
  <2>1. CASE k = n + 1 BY <2>1, <1>4, <1>1
  <2>2. CASE k # n + 1
    <3>1. k \in 0..n BY <2>2, <1>1
    <3> QED BY <3>1, <1>4, <1>5, <1>1
  <2> QED BY <2>1, <2>2
<1>9. new[0] = done BY <1>1, <1>4, <1>5
<1>10. Ranks(new, Append(line, f), i, done, all, owes)
  BY <1>2, <1>4, <1>7, <1>8, <1>9 DEF Ranks
<1> QED BY <1>10 DEF Ranked

(* The first of the line is the next that was accepted of its id, leaves   *)
(* the ranks of other ids as they are, and if it is a stop functor what it *)
(* owes has begun.                                                         *)
LEMMA RankedHead ==
  ASSUME NEW line \in Seq(Items), line # <<>>, NEW i \in Ids, NEW done \in Nat,
         NEW all \in Seq(Functors), NEW due \in Nat,
         Ranked(line, i, done, all, due)
  PROVE  /\ line[1].stop => due <= done
         /\ line[1].stop \/ line[1].id # i => Ranked(Tail(line), i, done, all, due)
         /\ ~line[1].stop /\ line[1].id = i =>
              /\ done < Len(all)
              /\ all[done + 1] = line[1]
              /\ Ranked(Tail(line), i, done + 1, all, due)
<1> PICK rank : Ranks(rank, line, i, done, all, due) BY DEF Ranked
<1> DEFINE n == Len(line)
           new == [k \in 0..(n - 1) |-> rank[k + 1]]
<1>1. n \in Nat /\ n >= 1 /\ Len(all) \in Nat /\ rank \in [0..n -> Nat]
  BY EmptySeq DEF Ranks
<1>2. /\ Len(Tail(line)) = n - 1
      /\ \A k \in 1..(n - 1) : Tail(line)[k] = line[k + 1]
  BY HeadTailProperties
<1>4. /\ new \in [0..(n - 1) -> Nat]
      /\ \A k \in 0..(n - 1) : new[k] = rank[k + 1]
  BY <1>1
<1>5. /\ rank[0] = done /\ rank[n] = Len(all)
      /\ \A k \in 0..n : rank[k] \in Nat /\ rank[k] <= Len(all)
      /\ \A k \in 1..n : /\ IF line[k].stop \/ line[k].id # i
                              THEN rank[k] = rank[k - 1]
                              ELSE rank[k] = rank[k - 1] + 1 /\ all[rank[k]] = line[k]
                         /\ line[k].stop => due <= rank[k]
  BY <1>1 DEF Ranks
<1> HIDE DEF new, n
<1>6. 1 \in 1..n /\ 1 \in 0..n /\ 1 - 1 = 0 BY <1>1
<1>7. ASSUME NEW k \in 1..(n - 1)
      PROVE  /\ IF Tail(line)[k].stop \/ Tail(line)[k].id # i
                  THEN new[k] = new[k - 1]
                  ELSE new[k] = new[k - 1] + 1 /\ all[new[k]] = Tail(line)[k]
             /\ Tail(line)[k].stop => due <= new[k]
  <2>1. k + 1 \in 1..n /\ k \in 0..(n - 1) /\ k - 1 \in 0..(n - 1) /\ (k + 1) - 1 = k
        /\ (k - 1) + 1 = k
    BY <1>1
  <2>2. Tail(line)[k] = line[k + 1] /\ new[k] = rank[k + 1] /\ new[k - 1] = rank[k]
    BY <2>1, <1>2, <1>4
  <2> QED BY <2>1, <2>2, <1>5
<1>8. /\ \A k \in 0..(n - 1) : new[k] <= Len(all)
      /\ new[0] = rank[1]
      /\ new[n - 1] = Len(all)
  <2>1. \A k \in 0..(n - 1) : k + 1 \in 0..n BY <1>1
  <2>2. 0 \in 0..(n - 1) /\ n - 1 \in 0..(n - 1) /\ (n - 1) + 1 = n /\ 0 + 1 = 1 BY <1>1
  <2> QED BY <2>1, <2>2, <1>4, <1>5
<1>9. Ranks(new, Tail(line), i, rank[1], all, due)
  BY <1>2, <1>4, <1>7, <1>8 DEF Ranks
<1>10. Ranked(Tail(line), i, rank[1], all, due) BY <1>9 DEF Ranked
<1>11. /\ line[1].stop => due <= rank[1]
       /\ line[1].stop \/ line[1].id # i => rank[1] = done
       /\ ~line[1].stop /\ line[1].id = i => rank[1] = done + 1 /\ all[done + 1] = line[1]
       /\ rank[1] <= Len(all)
  BY <1>5, <1>6
<1>12. ~line[1].stop /\ line[1].id = i => done < Len(all) BY <1>11, <1>1
<1>13. line[1].stop => due <= done BY <1>11
<1> QED BY <1>10, <1>11, <1>12, <1>13

-----------------------------------------------------------------------------
(* The invariant of the pool.                                              *)

Calls == [at : {"lock", "asleep", "notify"}, t : Threads, f : Items]

PoolTypeOK ==
  /\ started \in [Threads -> BOOLEAN]
  /\ queue \in [Threads -> Seq(Items)]
  /\ batch \in [Threads -> Seq(Items)]
  /\ pc \in [Threads -> {"lock", "asleep", "notify", "work", "item", "ended"}]
  /\ call \in [Processes -> {NoCall} \cup Calls]
  /\ pushed \in [Processes -> Nat]
  /\ submitted \in [Ids -> Seq(Functors)]
  /\ ran \in [Ids -> Seq(Functors)]
  /\ owed \in [Threads -> [Ids -> Nat]]

(* The functors of the batch that have not begun, and all that have not.   *)
Rest(t) == IF pc[t] = "item" THEN Tail(batch[t]) ELSE batch[t]
Line(t) == Rest(t) \o queue[t]

(* What the place of a worker says of its batch.                           *)
BatchOK(t) ==
  /\ pc[t] \in {"lock", "asleep", "ended"} => batch[t] = <<>>
  /\ pc[t] = "item" => /\ batch[t] # <<>>
                       /\ ~Head(batch[t]).stop
                       /\ PartitionId(Head(batch[t]).id) = t
  /\ pc[t] = "ended" => ~started[t]

(* A functor is in, or on its way to, the line of the worker of its id.    *)
LineAtHome(t) ==
  \A k \in 1..Len(Line(t)) : ~Line(t)[k].stop => PartitionId(Line(t)[k].id) = t

CallAtHome(p) ==
  call[p] # NoCall =>
    IF call[p].f.stop
      THEN p = Stopper /\ call[p].t + 1 = pushed[Stopper]
      ELSE call[p].t = PartitionId(call[p].f.id)

(* Stop has yet to be pushed to the worker.                                *)
StopAhead(t) ==
  \/ t >= pushed[Stopper]
  \/ call[Stopper] # NoCall /\ call[Stopper].at # "notify" /\ call[Stopper].t = t

NoStopYet(t) == started[t] /\ \A k \in 1..Len(Line(t)) : ~Line(t)[k].stop

InOrder(i) ==
  Ranked(Line(PartitionId(i)), i, Len(ran[i]), submitted[i], owed[PartitionId(i)][i])

Drained(i) ==
  ~started[PartitionId(i)] => owed[PartitionId(i)][i] <= Len(ran[i])

PoolInv ==
  /\ PoolTypeOK
  /\ \A t \in Threads : BatchOK(t)
  /\ \A t \in Threads : LineAtHome(t)
  /\ \A p \in Processes : CallAtHome(p)
  /\ \A t \in Threads : StopAhead(t) => NoStopYet(t)
  /\ \A i \in Ids : InOrder(i)
  /\ \A i \in Ids : Drained(i)

-----------------------------------------------------------------------------

(* The worker of an id exists, and the threads have different numbers.     *)
LEMMA PoolFacts ==
  /\ \A i \in Ids : PartitionId(i) \in Threads
  /\ Stopper \in Processes /\ Stopper \notin Threads /\ Stopper \notin Producers
  /\ Threads \subseteq Processes /\ Threads \subseteq Nat
  /\ Producers \subseteq Processes
  /\ ThreadNum \in Nat /\ MaxPush \in Nat
<1>1. ThreadNum \in Nat \ {0} /\ MaxPush \in Nat /\ Ids \subseteq Nat
      /\ \A p \in Producers : p > ThreadNum
  BY PoolAssumption
<1>2. ASSUME NEW i \in Ids PROVE PartitionId(i) \in Threads
  <2>1. i \in Nat BY <1>1
  <2>2. i % ThreadNum \in 0..(ThreadNum - 1) BY <1>1, <2>1
  <2> QED BY <2>2 DEF PartitionId, Threads
<1>3. \A p \in Producers : p \in Nat BY PoolAssumption
<1>4. Stopper \notin Threads /\ Stopper \notin Producers
  BY <1>1, <1>3 DEF Stopper, Threads
<1> QED BY <1>1, <1>2, <1>4 DEF Processes, Threads

LEMMA PoolInit == (Init \/ Unused) => PoolInv
<1> SUFFICES ASSUME Init \/ Unused PROVE PoolInv OBVIOUS
<1>1. /\ started \in {[t \in Threads |-> TRUE], [t \in Threads |-> FALSE]}
      /\ queue = [t \in Threads |-> <<>>]
      /\ batch = [t \in Threads |-> <<>>]
      /\ call = [p \in Processes |-> NoCall]
      /\ submitted = [i \in Ids |-> <<>>]
      /\ ran = [i \in Ids |-> <<>>]
      /\ owed = [t \in Threads |-> [i \in Ids |-> 0]]
      /\ \/ /\ pc = [t \in Threads |-> "lock"]
            /\ started = [t \in Threads |-> TRUE]
            /\ pushed = [p \in Processes |-> 0]
         \/ /\ pc = [t \in Threads |-> "ended"]
            /\ started = [t \in Threads |-> FALSE]
            /\ pushed = [p \in Processes |-> MaxPush + ThreadNum]
  BY DEF Init, Unused
<1>2. PoolTypeOK
  <2>1. <<>> \in Seq(Items) /\ <<>> \in Seq(Functors) OBVIOUS
  <2>2. pc \in [Threads -> {"lock", "asleep", "notify", "work", "item", "ended"}]
    BY <1>1
  <2>3. pushed \in [Processes -> Nat] BY <1>1, PoolFacts
  <2> QED BY <2>1, <2>2, <2>3, <1>1 DEF PoolTypeOK
<1>3. ASSUME NEW t \in Threads
      PROVE  BatchOK(t) /\ Line(t) = <<>> /\ (StopAhead(t) => started[t])
  <2>1. batch[t] = <<>> /\ queue[t] = <<>> /\ pc[t] # "item" BY <1>1
  <2>2. BatchOK(t) BY <1>1, <2>1 DEF BatchOK
  <2>3. Line(t) = <<>> BY <2>1 DEF Line, Rest
  <2>4. call[Stopper] = NoCall BY <1>1, PoolFacts
  <2>5. CASE started = [u \in Threads |-> TRUE] BY <2>2, <2>3, <2>5
  <2>6. CASE started # [u \in Threads |-> TRUE]
    <3>1. pushed[Stopper] = MaxPush + ThreadNum BY <2>6, <1>1, PoolFacts
    <3>2. t < ThreadNum /\ t \in Nat BY PoolFacts DEF Threads
    <3> QED BY <2>2, <2>3, <2>4, <3>1, <3>2, PoolFacts DEF StopAhead
  <2> QED BY <2>5, <2>6
<1>4. \A t \in Threads : LineAtHome(t) /\ (StopAhead(t) => NoStopYet(t))
  BY <1>3 DEF LineAtHome, NoStopYet
<1>5. \A p \in Processes : CallAtHome(p) BY <1>1 DEF CallAtHome
<1>6. ASSUME NEW i \in Ids PROVE InOrder(i) /\ Drained(i)
  <2>1. PartitionId(i) \in Threads BY PoolFacts
  <2>2. Line(PartitionId(i)) = <<>> /\ ran[i] = <<>> /\ submitted[i] = <<>>
        /\ owed[PartitionId(i)][i] = 0
    BY <1>1, <1>3, <2>1
  <2>3. Ranks([k \in 0..0 |-> 0], <<>>, i, 0, <<>>, 0) BY DEF Ranks
  <2> QED BY <2>2, <2>3 DEF InOrder, Ranked, Drained
<1> QED BY <1>2, <1>3, <1>4, <1>5, <1>6 DEF PoolInv

-----------------------------------------------------------------------------
(* What the steps do to the lines.                                         *)

(* The line of a worker is a sequence of functors.                         *)
LEMMA LineType ==
  ASSUME PoolTypeOK, NEW t \in Threads, BatchOK(t)
  PROVE  Rest(t) \in Seq(Items) /\ Line(t) \in Seq(Items)
<1>1. batch[t] \in Seq(Items) /\ queue[t] \in Seq(Items) BY DEF PoolTypeOK
<1>2. Rest(t) \in Seq(Items)
  <2>1. CASE pc[t] = "item"
    BY <1>1, <2>1, HeadTailProperties DEF BatchOK, Rest
  <2>2. CASE pc[t] # "item" BY <1>1, <2>2 DEF Rest
  <2> QED BY <2>1, <2>2
<1> QED BY <1>1, <1>2, ConcatProperties DEF Line

(* Types, by action.                                                       *)
LEMMA PoolNextType ==
  ASSUME PoolInv, [Next]_vars
  PROVE  PoolTypeOK'
<1> USE DEF PoolTypeOK
<1>0. PoolTypeOK /\ \A t \in Threads : BatchOK(t) BY DEF PoolInv
<1>1. CASE UNCHANGED vars BY <1>0, <1>1 DEF vars
<1>2. ASSUME NEW p \in Producers, NEW i \in Ids, PoolPush(p, i) PROVE PoolTypeOK'
  <2>1. p \in Processes /\ PartitionId(i) \in Threads BY PoolFacts
  <2>2. Functor(p, i) \in Functors
    <3>1. pushed[p] \in Nat /\ pushed[p] < MaxPush BY <1>0, <1>2, <2>1 DEF PoolPush
    <3>2. pushed[p] + 1 \in 1..MaxPush BY <3>1, PoolFacts
    <3> QED BY <3>2 DEF Functor, Functors
  <2>3. [at |-> "lock", t |-> PartitionId(i), f |-> Functor(p, i)] \in Calls
    BY <2>1, <2>2, ItemFacts DEF Calls
  <2> QED BY <1>0, <1>2, <2>1, <2>3 DEF PoolPush, Begin
<1>3. CASE PoolStop
  <2>1. pushed[Stopper] \in Threads
    <3>1. pushed[Stopper] \in Nat /\ pushed[Stopper] < ThreadNum
      BY <1>0, <1>3, PoolFacts DEF PoolStop
    <3> QED BY <3>1, PoolFacts DEF Threads
  <2>2. [at |-> "lock", t |-> pushed[Stopper], f |-> StopFunctor] \in Calls
    BY <2>1, ItemFacts DEF Calls
  <2> QED BY <1>0, <1>3, <2>2, PoolFacts DEF PoolStop, Begin
<1>4. ASSUME NEW p \in Processes, LockAndPush(p) PROVE PoolTypeOK'
  <2>1. call[p] \in Calls
    <3>1. call[p] # NoCall BY <1>4 DEF LockAndPush, NoCall
    <3> QED BY <1>0, <3>1
  <2>2. call[p].t \in Threads /\ call[p].f \in Items BY <2>1 DEF Calls
  <2>3. /\ [call[p] EXCEPT !.at = "notify"] \in Calls
        /\ [call[p] EXCEPT !.at = "asleep"] \in Calls
    BY <2>1 DEF Calls
  <2>4. call' \in [Processes -> {NoCall} \cup Calls]
    BY <1>0, <1>4, <2>3 DEF LockAndPush
  <2>5. queue' \in [Threads -> Seq(Items)]
    <3>1. Append(queue[call[p].t], call[p].f) \in Seq(Items)
      BY <1>0, <2>2, AppendProperties
    <3> QED BY <1>0, <1>4, <3>1 DEF LockAndPush, PushBack
  <2>6. submitted' \in [Ids -> Seq(Functors)]
    <3>1. ~call[p].f.stop => /\ call[p].f \in Functors /\ call[p].f.id \in Ids
                             /\ Append(submitted[call[p].f.id], call[p].f) \in Seq(Functors)
      BY <1>0, <2>2, ItemFacts, AppendProperties
    <3> QED BY <1>0, <1>4, <3>1 DEF LockAndPush
  <2>7. owed' \in [Threads -> [Ids -> Nat]]
    <3>1. [i \in Ids |-> Len(submitted[i])] \in [Ids -> Nat] BY <1>0
    <3> QED BY <1>0, <1>4, <3>1 DEF LockAndPush
  <2>8. UNCHANGED <<started, batch, pc, pushed, ran>> BY <1>4 DEF LockAndPush
  <2> QED BY <1>0, <2>4, <2>5, <2>6, <2>7, <2>8
<1>5. ASSUME NEW p \in Processes, NotifyConsumer(p) PROVE PoolTypeOK'
  BY <1>0, <1>5 DEF NotifyConsumer, Woken
<1>6. ASSUME NEW t \in Threads, LockAndTake(t) PROVE PoolTypeOK'
  <2>1. queue[t] \in Seq(Items) /\ <<>> \in Seq(Items) BY <1>0
  <2>2. queue' \in [Threads -> Seq(Items)] /\ batch' \in [Threads -> Seq(Items)]
    BY <1>0, <1>6, <2>1 DEF LockAndTake, Taken
  <2>3. pc' \in [Threads -> {"lock", "asleep", "notify", "work", "item", "ended"}]
    BY <1>0, <1>6 DEF LockAndTake
  <2> QED BY <1>0, <1>6, <2>2, <2>3 DEF LockAndTake
<1>7. ASSUME NEW t \in Threads, NotifyProducers(t) PROVE PoolTypeOK'
  <2>1. ASSUME NEW p \in Processes, call[p].at = "asleep"
        PROVE  [call[p] EXCEPT !.at = "lock"] \in Calls
    <3>1. call[p] \in Calls BY <1>0, <2>1 DEF NoCall
    <3> QED BY <3>1 DEF Calls
  <2>2. call' \in [Processes -> {NoCall} \cup Calls]
    BY <1>0, <1>7, <2>1 DEF NotifyProducers, WakeProducers
  <2> QED BY <1>0, <1>7, <2>2 DEF NotifyProducers
<1>8. ASSUME NEW t \in Threads, BeginItem(t) PROVE PoolTypeOK'
  <2> DEFINE f == Head(batch[t])
  <2>1. batch[t] \in Seq(Items) /\ batch[t] # <<>> BY <1>0, <1>8 DEF BeginItem
  <2>2. f \in Items /\ Tail(batch[t]) \in Seq(Items)
    BY <2>1, HeadTailProperties
  <2>3. CASE f.stop
    BY <1>0, <1>8, <2>2, <2>3 DEF BeginItem
  <2>4. CASE ~f.stop
    <3>1. f \in Functors /\ f.id \in Ids BY <2>2, <2>4, ItemFacts
    <3>2. PartitionId(f.id) \in Threads /\ t \in Processes BY <3>1, PoolFacts
    <3>3. PushedBy(f) \in Functors BY <3>1 DEF PushedBy, Functors
    <3>4. [at |-> "lock", t |-> PartitionId(f.id), f |-> PushedBy(f)] \in Calls
      BY <3>2, <3>3, ItemFacts DEF Calls
    <3>5. Append(ran[f.id], f) \in Seq(Functors) BY <1>0, <3>1, AppendProperties
    <3>6. ran' \in [Ids -> Seq(Functors)] BY <1>0, <1>8, <2>4, <3>5 DEF BeginItem
    <3>7. call' \in [Processes -> {NoCall} \cup Calls] /\ pushed' \in [Processes -> Nat]
      <4>1. CASE f.pushes
        <5>1. Begin(t, PartitionId(f.id), PushedBy(f)) BY <1>8, <2>4, <4>1 DEF BeginItem
        <5> QED BY <1>0, <3>2, <3>4, <5>1 DEF Begin
      <4>2. CASE ~f.pushes BY <1>0, <1>8, <2>4, <4>2 DEF BeginItem
      <4> QED BY <4>1, <4>2
    <3>8. pc' = [pc EXCEPT ![t] = "item"]
          /\ UNCHANGED <<started, batch, queue, submitted, owed>>
      BY <1>8, <2>4 DEF BeginItem
    <3> QED BY <1>0, <3>6, <3>7, <3>8
  <2> QED BY <2>3, <2>4
<1>9. ASSUME NEW t \in Threads, EndItem(t) PROVE PoolTypeOK'
  <2>1. Tail(batch[t]) \in Seq(Items)
    BY <1>0, <1>9, HeadTailProperties DEF EndItem, BatchOK
  <2> QED BY <1>0, <1>9, <2>1 DEF EndItem
<1>10. ASSUME NEW t \in Threads, EndBatch(t) PROVE PoolTypeOK'
  BY <1>0, <1>10 DEF EndBatch
<1>11. ASSUME NEW p \in Processes, SpuriousProducer(p) PROVE PoolTypeOK'
  <2>1. [call[p] EXCEPT !.at = "lock"] \in Calls
    <3>1. call[p] \in Calls BY <1>0, <1>11 DEF NoCall, SpuriousProducer
    <3> QED BY <3>1 DEF Calls
  <2> QED BY <1>0, <1>11, <2>1 DEF SpuriousProducer
<1>12. ASSUME NEW t \in Threads, SpuriousConsumer(t) PROVE PoolTypeOK'
  BY <1>0, <1>12 DEF SpuriousConsumer
<1> QED BY <1>1, <1>2, <1>3, <1>4, <1>5, <1>6, <1>7, <1>8, <1>9, <1>10, <1>11, <1>12 DEF Next

(* Most steps move no functor: the lines are what they were, and a Stop    *)
(* that was pushed stays pushed.                                           *)
QuietStep ==
  /\ \A t \in Threads : Line(t)' = Line(t)
  /\ \A t \in Threads : BatchOK(t)'
  /\ \A p \in Processes : CallAtHome(p)'
  /\ \A t \in Threads : StopAhead(t)' => StopAhead(t)
  /\ UNCHANGED <<started, submitted, ran, owed>>

(* A call that ends, or only waits or wakes up, is where it was.           *)
LEMMA CallKept ==
  ASSUME PoolInv, UNCHANGED pushed,
         \A p \in Processes :
            \/ call'[p] = call[p]
            \/ call'[p] = NoCall
            \/ /\ call[p] \in Calls /\ call'[p] \in Calls
               /\ call'[p].t = call[p].t /\ call'[p].f = call[p].f
               /\ call[p].at # "notify"
  PROVE  /\ \A p \in Processes : CallAtHome(p)'
         /\ \A t \in Threads : StopAhead(t)' => StopAhead(t)
<1>1. \A c \in Calls : c # NoCall BY DEF Calls, NoCall
<1>2. ASSUME NEW p \in Processes PROVE CallAtHome(p)'
  <2>1. CallAtHome(p) BY DEF PoolInv
  <2> QED BY <1>1, <2>1 DEF CallAtHome
<1>3. ASSUME NEW t \in Threads, StopAhead(t)' PROVE StopAhead(t)
  <2>1. Stopper \in Processes BY PoolFacts
  <2> QED BY <1>1, <1>3, <2>1 DEF StopAhead
<1> QED BY <1>2, <1>3

LEMMA PoolPushQuiet ==
  ASSUME PoolInv, NEW p \in Producers, NEW i \in Ids, PoolPush(p, i)
  PROVE  QuietStep
<1>0. PoolTypeOK BY DEF PoolInv
<1>1. UNCHANGED <<started, queue, batch, pc, submitted, ran, owed>> BY DEF PoolPush
<1>2. p \in Processes /\ p # Stopper /\ Stopper \in Processes BY PoolFacts
<1>3. /\ call' = [call EXCEPT ![p] = [at |-> "lock", t |-> PartitionId(i), f |-> Functor(p, i)]]
      /\ pushed' = [pushed EXCEPT ![p] = @ + 1]
  BY DEF PoolPush, Begin
<1>4. ~Functor(p, i).stop /\ Functor(p, i).id = i BY DEF Functor
<1>5. call'[Stopper] = call[Stopper] /\ pushed'[Stopper] = pushed[Stopper]
  BY <1>0, <1>2, <1>3 DEF PoolTypeOK
<1>6. ASSUME NEW q \in Processes PROVE CallAtHome(q)'
  <2>1. CASE q = p
    <3>1. call'[q] = [at |-> "lock", t |-> PartitionId(i), f |-> Functor(p, i)]
      BY <1>0, <1>3, <2>1 DEF PoolTypeOK
    <3>2. call'[q].f = Functor(p, i) /\ call'[q].t = PartitionId(i) BY <3>1
    <3> QED BY <3>2, <1>4 DEF CallAtHome, PartitionId
  <2>2. CASE q # p
    <3>1. call'[q] = call[q] BY <1>0, <1>3, <2>2 DEF PoolTypeOK
    <3>2. CallAtHome(q) BY DEF PoolInv
    <3> QED BY <3>1, <3>2, <1>5 DEF CallAtHome, PartitionId
  <2> QED BY <2>1, <2>2
<1>7. \A t \in Threads : StopAhead(t)' => StopAhead(t) BY <1>5 DEF StopAhead
<1>8. \A t \in Threads : Line(t)' = Line(t) BY <1>1 DEF Line, Rest
<1>9. \A t \in Threads : BatchOK(t)' BY <1>1 DEF PoolInv, BatchOK
<1> QED BY <1>1, <1>6, <1>7, <1>8, <1>9 DEF QuietStep

LEMMA PoolStopQuiet ==
  ASSUME PoolInv, PoolStop
  PROVE  QuietStep
<1>0. PoolTypeOK BY DEF PoolInv
<1>1. UNCHANGED <<started, queue, batch, pc, submitted, ran, owed>> BY DEF PoolStop
<1>2. Stopper \in Processes BY PoolFacts
<1>3. /\ call' = [call EXCEPT ![Stopper] =
                     [at |-> "lock", t |-> pushed[Stopper], f |-> StopFunctor]]
      /\ pushed' = [pushed EXCEPT ![Stopper] = @ + 1]
  BY DEF PoolStop, Begin
<1>4. /\ call'[Stopper] = [at |-> "lock", t |-> pushed[Stopper], f |-> StopFunctor]
      /\ pushed'[Stopper] = pushed[Stopper] + 1
      /\ pushed[Stopper] \in Nat
  BY <1>0, <1>2, <1>3 DEF PoolTypeOK
<1>5. StopFunctor.stop BY ItemFacts
<1>6. ASSUME NEW q \in Processes PROVE CallAtHome(q)'
  <2>1. CASE q = Stopper
    <3>1. call'[q].f = StopFunctor /\ call'[q].t = pushed[Stopper] BY <1>4, <2>1
    <3> QED BY <3>1, <1>4, <1>5, <2>1 DEF CallAtHome
  <2>2. CASE q # Stopper
    <3>1. call'[q] = call[q] BY <1>0, <1>3, <2>2 DEF PoolTypeOK
    <3>2. CallAtHome(q) BY DEF PoolInv
    <3> QED BY <3>1, <3>2, <2>2 DEF CallAtHome
  <2> QED BY <2>1, <2>2
<1>7. ASSUME NEW t \in Threads, StopAhead(t)' PROVE StopAhead(t)
  <2>1. t \in Nat BY PoolFacts
  <2>2. t >= pushed[Stopper] + 1 \/ pushed[Stopper] = t BY <1>4, <1>7 DEF StopAhead
  <2> QED BY <2>1, <2>2, <1>4 DEF StopAhead
<1>8. \A t \in Threads : Line(t)' = Line(t) BY <1>1 DEF Line, Rest
<1>9. \A t \in Threads : BatchOK(t)' BY <1>1 DEF PoolInv, BatchOK
<1> QED BY <1>1, <1>6, <1>7, <1>8, <1>9 DEF QuietStep

(* The steps of a worker that move no functor, and what wakes it up.       *)
LEMMA WorkerQuiet ==
  ASSUME PoolInv, NEW t \in Threads,
         \/ LockAndTake(t) \/ NotifyProducers(t) \/ EndItem(t) \/ EndBatch(t)
         \/ SpuriousConsumer(t)
  PROVE  QuietStep
<1>0. PoolTypeOK /\ BatchOK(t) BY DEF PoolInv
<1>1. UNCHANGED <<started, submitted, ran, owed, pushed>>
  BY DEF LockAndTake, NotifyProducers, EndItem, EndBatch, SpuriousConsumer
<1>2. /\ batch[t] \in Seq(Items) /\ queue[t] \in Seq(Items)
      /\ pc \in [Threads -> {"lock", "asleep", "notify", "work", "item", "ended"}]
      /\ batch \in [Threads -> Seq(Items)] /\ queue \in [Threads -> Seq(Items)]
  BY <1>0 DEF PoolTypeOK
<1>3. \A u \in Threads \ {t} :
         batch'[u] = batch[u] /\ queue'[u] = queue[u] /\ pc'[u] = pc[u]
  BY <1>2 DEF LockAndTake, NotifyProducers, EndItem, EndBatch, SpuriousConsumer
<1>4. Line(t)' = Line(t) /\ BatchOK(t)'
  <2>1. CASE LockAndTake(t)
    <3>1. batch[t] = <<>> /\ pc[t] = "lock" BY <1>0, <2>1 DEF LockAndTake, BatchOK
    <3>2. CASE queue[t] = <<>>
      <4>1. batch'[t] = batch[t] /\ queue'[t] = queue[t] /\ pc'[t] = "asleep"
        BY <1>2, <2>1, <3>2 DEF LockAndTake
      <4> QED BY <3>1, <4>1 DEF Line, Rest, BatchOK
    <3>3. CASE queue[t] # <<>>
      <4>1. batch'[t] = queue[t] /\ queue'[t] = <<>> /\ pc'[t] = "notify"
        BY <1>2, <2>1, <3>3 DEF LockAndTake, Taken
      <4>2. <<>> \o queue[t] = queue[t] \o <<>> BY <1>2, ConcatEmptySeq
      <4>3. Line(t)' = Line(t) BY <3>1, <4>1, <4>2 DEF Line, Rest
      <4> QED BY <4>1, <4>3 DEF BatchOK
    <3> QED BY <3>2, <3>3
  <2>2. CASE NotifyProducers(t)
    <3>1. batch'[t] = batch[t] /\ queue'[t] = queue[t] /\ pc'[t] = "work" /\ pc[t] = "notify"
      BY <1>2, <2>2 DEF NotifyProducers
    <3> QED BY <3>1 DEF Line, Rest, BatchOK
  <2>3. CASE EndItem(t)
    <3>1. batch'[t] = Tail(batch[t]) /\ queue'[t] = queue[t] /\ pc'[t] = "work"
          /\ pc[t] = "item"
      BY <1>2, <2>3 DEF EndItem
    <3> QED BY <3>1 DEF Line, Rest, BatchOK
  <2>4. CASE EndBatch(t)
    <3>1. batch'[t] = <<>> /\ batch[t] = <<>> /\ queue'[t] = queue[t] /\ pc[t] = "work"
          /\ pc'[t] = IF started[t] THEN "lock" ELSE "ended"
      BY <1>2, <2>4 DEF EndBatch
    <3>2. Line(t)' = Line(t) BY <3>1 DEF Line, Rest
    <3>3. started'[t] = started[t] BY <1>1
    <3> QED BY <3>1, <3>2, <3>3 DEF BatchOK
  <2>5. CASE SpuriousConsumer(t)
    <3>1. batch'[t] = batch[t] /\ queue'[t] = queue[t] /\ pc[t] = "asleep" /\ pc'[t] = "lock"
      BY <1>2, <2>5 DEF SpuriousConsumer
    <3> QED BY <1>0, <3>1 DEF Line, Rest, BatchOK
  <2> QED BY <2>1, <2>2, <2>3, <2>4, <2>5
<1>5. ASSUME NEW u \in Threads PROVE Line(u)' = Line(u) /\ BatchOK(u)'
  <2>1. CASE u = t BY <1>4, <2>1
  <2>2. CASE u # t
    <3>1. batch'[u] = batch[u] /\ queue'[u] = queue[u] /\ pc'[u] = pc[u]
          /\ started'[u] = started[u]
      BY <1>1, <1>3, <2>2
    <3>2. BatchOK(u) BY DEF PoolInv
    <3> QED BY <3>1, <3>2 DEF Line, Rest, BatchOK, PartitionId
  <2> QED BY <2>1, <2>2
<1>6. ASSUME NEW p \in Processes
      PROVE  \/ call'[p] = call[p]
             \/ /\ call[p] \in Calls /\ call'[p] \in Calls
                /\ call'[p].t = call[p].t /\ call'[p].f = call[p].f
                /\ call[p].at # "notify"
  <2>1. CASE ~NotifyProducers(t)
    BY <2>1 DEF LockAndTake, EndItem, EndBatch, SpuriousConsumer
  <2>2. CASE NotifyProducers(t) /\ call[p].at = "asleep" /\ call[p].t = t
    <3>1. call[p] \in Calls BY <1>0, <2>2 DEF PoolTypeOK, NoCall
    <3>2. call'[p] = [call[p] EXCEPT !.at = "lock"]
      BY <2>2 DEF NotifyProducers, WakeProducers
    <3> QED BY <2>2, <3>1, <3>2 DEF Calls
  <2>3. CASE NotifyProducers(t) /\ ~(call[p].at = "asleep" /\ call[p].t = t)
    BY <2>3 DEF NotifyProducers, WakeProducers
  <2> QED BY <2>1, <2>2, <2>3
<1>7. /\ \A p \in Processes : CallAtHome(p)'
      /\ \A u \in Threads : StopAhead(u)' => StopAhead(u)
  BY <1>1, <1>6, CallKept
<1> QED BY <1>1, <1>5, <1>7 DEF QuietStep

(* A call that wakes the consumer and returns, one that is woken, and one  *)
(* that finds no room.                                                     *)
LEMMA CallerQuiet ==
  ASSUME PoolInv, NEW p \in Processes,
         \/ NotifyConsumer(p) \/ SpuriousProducer(p)
         \/ LockAndPush(p) /\ ~HasRoom(call[p].t)
  PROVE  QuietStep
<1>0. PoolTypeOK BY DEF PoolInv
<1>1. UNCHANGED <<started, queue, batch, submitted, ran, owed, pushed>>
  BY DEF NotifyConsumer, SpuriousProducer, LockAndPush
<1>2. \A u \in Threads : pc'[u] = pc[u] \/ (pc[u] = "asleep" /\ pc'[u] = "lock")
  BY <1>0 DEF NotifyConsumer, SpuriousProducer, LockAndPush, Woken, PoolTypeOK
<1>3. ASSUME NEW u \in Threads PROVE Line(u)' = Line(u) /\ BatchOK(u)'
  <2>1. BatchOK(u) BY DEF PoolInv
  <2> QED BY <1>1, <1>2, <2>1 DEF Line, Rest, BatchOK, PartitionId
<1>4. call[p] \in Calls
  BY <1>0 DEF NotifyConsumer, SpuriousProducer, LockAndPush, PoolTypeOK, NoCall
<1>5. /\ \A q \in Processes \ {p} : call'[q] = call[q]
      /\ \/ call'[p] = NoCall
         \/ /\ call[p].at # "notify"
            /\ \/ call'[p] = [call[p] EXCEPT !.at = "asleep"]
               \/ call'[p] = [call[p] EXCEPT !.at = "lock"]
  BY <1>0 DEF NotifyConsumer, SpuriousProducer, LockAndPush, PoolTypeOK
<1>6. ASSUME NEW q \in Processes
      PROVE  \/ call'[q] = call[q]
             \/ call'[q] = NoCall
             \/ /\ call[q] \in Calls /\ call'[q] \in Calls
                /\ call'[q].t = call[q].t /\ call'[q].f = call[q].f
                /\ call[q].at # "notify"
  <2>1. CASE q # p BY <1>5, <2>1
  <2>2. CASE q = p /\ call'[p] = NoCall BY <2>2
  <2>3. CASE q = p /\ call'[p] # NoCall
    BY <1>4, <1>5, <2>3 DEF Calls
  <2> QED BY <2>1, <2>2, <2>3
<1>7. /\ \A q \in Processes : CallAtHome(q)'
      /\ \A u \in Threads : StopAhead(u)' => StopAhead(u)
  BY <1>1, <1>6, CallKept
<1> QED BY <1>1, <1>3, <1>7 DEF QuietStep

(* A quiet step keeps the invariant.                                       *)
LEMMA QuietKeeps ==
  ASSUME PoolInv, PoolTypeOK', QuietStep
  PROVE  PoolInv'
<1>1. UNCHANGED <<started, submitted, ran, owed>> /\ \A t \in Threads : Line(t)' = Line(t)
  BY DEF QuietStep
<1>2. ASSUME NEW t \in Threads
      PROVE  LineAtHome(t)' /\ (StopAhead(t)' => NoStopYet(t)')
  <2>1. LineAtHome(t) /\ (StopAhead(t) => NoStopYet(t)) BY DEF PoolInv
  <2>2. StopAhead(t)' => StopAhead(t) BY DEF QuietStep
  <2>3. LineAtHome(t)' BY <1>1, <2>1 DEF LineAtHome, PartitionId
  <2>4. NoStopYet(t) => NoStopYet(t)' BY <1>1 DEF NoStopYet
  <2> QED BY <2>1, <2>2, <2>3, <2>4
<1>3. ASSUME NEW i \in Ids PROVE InOrder(i)' /\ Drained(i)'
  <2>1. PartitionId(i) \in Threads BY PoolFacts
  <2>2. InOrder(i) /\ Drained(i) BY DEF PoolInv
  <2>3. PICK t \in Threads : t = PartitionId(i) BY <2>1
  <2>4. Line(t)' = Line(t) BY <1>1
  <2>5. InOrder(i)'
    <3>1. Ranked(Line(t), i, Len(ran[i]), submitted[i], owed[t][i]) BY <2>2, <2>3 DEF InOrder
    <3>2. Ranked(Line(t), i, Len(ran[i]), submitted[i], owed[t][i])' BY <3>1, <2>4, <1>1
    <3> QED BY <3>2, <2>3 DEF InOrder, PartitionId
  <2>6. Drained(i)' BY <1>1, <2>2 DEF Drained, PartitionId
  <2> QED BY <2>5, <2>6
<1>4. (\A t \in Threads : BatchOK(t)') /\ (\A p \in Processes : CallAtHome(p)')
  BY DEF QuietStep
<1> QED BY <1>2, <1>3, <1>4 DEF PoolInv

-----------------------------------------------------------------------------
(* A Push finds room: the functor joins the line of its worker, as the     *)
(* last that was accepted.                                                 *)
LEMMA AcceptKeeps ==
  ASSUME PoolInv, PoolTypeOK', NEW p \in Processes, LockAndPush(p), HasRoom(call[p].t)
  PROVE  PoolInv'
<1>0. PoolTypeOK BY DEF PoolInv
<1>1. call[p] \in Calls /\ call[p] # NoCall /\ call[p].at = "lock"
  BY <1>0 DEF LockAndPush, PoolTypeOK, NoCall
<1>2. PICK t \in Threads, f \in Items : t = call[p].t /\ f = call[p].f
  BY <1>1 DEF Calls
<1>3. /\ queue' = [queue EXCEPT ![t] = Append(queue[t], f)]
      /\ call' = [call EXCEPT ![p].at = "notify"]
      /\ UNCHANGED <<started, batch, pc, pushed, ran>>
      /\ f.stop => /\ owed' = [owed EXCEPT ![t] = [i \in Ids |-> Len(submitted[i])]]
                   /\ UNCHANGED submitted
      /\ ~f.stop => /\ submitted' = [submitted EXCEPT ![f.id] = Append(@, f)]
                    /\ UNCHANGED owed
  BY <1>2 DEF LockAndPush, PushBack
<1>4. CallAtHome(p) /\ BatchOK(t) BY DEF PoolInv
<1>5. /\ f.stop => p = Stopper /\ StopAhead(t)
      /\ ~f.stop => f \in Functors /\ f.id \in Ids /\ t = PartitionId(f.id)
  BY <1>1, <1>2, <1>4, ItemFacts DEF CallAtHome, StopAhead
<1>6. \A u \in Threads \ {t} : Line(u)' = Line(u)
  BY <1>0, <1>3 DEF Line, Rest, PoolTypeOK
<1>7. Line(t)' = Append(Line(t), f)
  <2>1. Rest(t) \in Seq(Items) /\ queue[t] \in Seq(Items)
    BY <1>0, <1>4, LineType DEF PoolTypeOK
  <2>2. Rest(t) \o Append(queue[t], f) = Append(Rest(t) \o queue[t], f)
    BY <2>1, JoinAppend
  <2>3. queue'[t] = Append(queue[t], f) /\ Rest(t)' = Rest(t)
    BY <1>0, <1>3 DEF PoolTypeOK, Rest
  <2> QED BY <2>2, <2>3 DEF Line
<1>8. Line(t) \in Seq(Items) BY <1>0, <1>4, LineType
<1>9. /\ Len(Append(Line(t), f)) = Len(Line(t)) + 1
      /\ \A k \in 1..Len(Line(t)) : Append(Line(t), f)[k] = Line(t)[k]
      /\ Append(Line(t), f)[Len(Line(t)) + 1] = f
      /\ Len(Line(t)) \in Nat
      /\ \A k \in 1..(Len(Line(t)) + 1) : k = Len(Line(t)) + 1 \/ k \in 1..Len(Line(t))
  BY <1>8, AppendProperties
<1>10. ASSUME NEW u \in Threads PROVE BatchOK(u)' /\ LineAtHome(u)'
  <2>1. BatchOK(u) /\ LineAtHome(u) BY DEF PoolInv
  <2>2. BatchOK(u)' BY <1>3, <2>1 DEF BatchOK, PartitionId
  <2>3. CASE u # t
    <3>1. Line(u)' = Line(u) BY <1>6, <2>3
    <3> QED BY <2>1, <2>2, <3>1 DEF LineAtHome, PartitionId
  <2>4. CASE u = t
    <3>1. \A k \in 1..Len(Append(Line(t), f)) :
             ~Append(Line(t), f)[k].stop => PartitionId(Append(Line(t), f)[k].id) = t
      BY <1>5, <1>9, <2>1, <2>4 DEF LineAtHome
    <3> QED BY <1>7, <2>2, <2>4, <3>1 DEF LineAtHome, PartitionId
  <2> QED BY <2>3, <2>4
<1>11. /\ call'[p] \in Calls /\ call'[p].at = "notify"
       /\ call'[p].t = call[p].t /\ call'[p].f = call[p].f
       /\ \A q \in Processes \ {p} : call'[q] = call[q]
  BY <1>0, <1>1, <1>3 DEF PoolTypeOK, Calls
<1>12. ASSUME NEW q \in Processes PROVE CallAtHome(q)'
  <2>1. CallAtHome(q) BY DEF PoolInv
  <2> QED BY <1>1, <1>3, <1>11, <2>1 DEF CallAtHome, PartitionId
<1>13. ASSUME NEW u \in Threads, StopAhead(u)' PROVE NoStopYet(u)'
  <2>1. StopAhead(u)
    BY <1>3, <1>11, <1>13, PoolFacts DEF StopAhead
  <2>2. NoStopYet(u) BY <2>1 DEF PoolInv
  <2>3. CASE u # t
    <3>1. Line(u)' = Line(u) BY <1>6, <2>3
    <3> QED BY <1>3, <2>2, <3>1 DEF NoStopYet
  <2>4. CASE u = t
    <3>1. ~f.stop
      <4> SUFFICES ASSUME f.stop PROVE FALSE OBVIOUS
      <4>1. p = Stopper /\ call[p].t + 1 = pushed[Stopper]
        BY <1>1, <1>2, <1>4 DEF CallAtHome
      <4>2. t \in Nat /\ t + 1 = pushed[Stopper] BY <1>2, <4>1, PoolFacts
      <4>3. pushed'[Stopper] = t + 1 BY <1>3, <4>2
      <4> QED BY <1>11, <1>13, <2>4, <4>1, <4>2, <4>3 DEF StopAhead
    <3>2. \A k \in 1..Len(Append(Line(t), f)) : ~Append(Line(t), f)[k].stop
      BY <1>9, <2>2, <2>4, <3>1 DEF NoStopYet
    <3> QED BY <1>3, <1>7, <2>2, <2>4, <3>2 DEF NoStopYet
  <2> QED BY <2>3, <2>4
<1>14. ASSUME NEW i \in Ids PROVE InOrder(i)' /\ Drained(i)'
  <2>0. PICK u \in Threads : u = PartitionId(i) BY PoolFacts
  <2>1. Ranked(Line(u), i, Len(ran[i]), submitted[i], owed[u][i])
    BY <2>0 DEF PoolInv, InOrder
  <2>2. ~started[u] => owed[u][i] <= Len(ran[i]) BY <2>0 DEF PoolInv, Drained
  <2>3. /\ ran[i] \in Seq(Functors) /\ submitted[i] \in Seq(Functors) /\ owed[u][i] \in Nat
        /\ Len(ran[i]) \in Nat /\ Len(submitted[i]) \in Nat
    BY <1>0, SMTT(30) DEF PoolTypeOK
  <2>4. ran'[i] = ran[i] /\ started' = started BY <1>3
  <2>5. SUFFICES /\ Ranked(Line(u)', i, Len(ran[i]), submitted'[i], owed'[u][i])
                 /\ ~started[u] => owed'[u][i] <= Len(ran[i])
    BY <2>0, <2>4 DEF InOrder, Drained, PartitionId
  <2>6. CASE u # t
    <3>1. Line(u)' = Line(u) BY <1>6, <2>6
    <3>2. owed'[u][i] = owed[u][i] BY <1>0, <1>3, <2>6 DEF PoolTypeOK
    <3>3. submitted'[i] = submitted[i] BY <1>0, <1>3, <1>5, <2>0, <2>6 DEF PoolTypeOK
    <3> QED BY <2>1, <2>2, <3>1, <3>2, <3>3
  <2>7. CASE u = t /\ f.stop
    <3>1. NoStopYet(t) BY <1>5, <2>7 DEF PoolInv
    <3>2. owed'[t][i] = Len(submitted[i]) /\ submitted'[i] = submitted[i]
      BY <1>0, <1>3, <2>7 DEF PoolTypeOK
    <3>3. Ranked(Append(Line(t), f), i, Len(ran[i]), submitted[i], Len(submitted[i]))
      BY <1>8, <2>1, <2>3, <2>7, <3>1, RankedPass DEF NoStopYet
    <3> QED BY <1>7, <2>7, <3>1, <3>2, <3>3 DEF NoStopYet
  <2>8. CASE u = t /\ ~f.stop /\ f.id # i
    <3>1. owed'[t][i] = owed[t][i] /\ submitted'[i] = submitted[i]
      BY <1>0, <1>3, <2>8 DEF PoolTypeOK
    <3>2. Ranked(Append(Line(t), f), i, Len(ran[i]), submitted[i], owed[t][i])
      BY <1>8, <2>1, <2>3, <2>8, RankedPass
    <3> QED BY <1>7, <2>2, <2>8, <3>1, <3>2
  <2>9. CASE u = t /\ ~f.stop /\ f.id = i
    <3>1. owed'[t][i] = owed[t][i] /\ submitted'[i] = Append(submitted[i], f)
      BY <1>0, <1>3, <2>9 DEF PoolTypeOK
    <3>2. Ranked(Append(Line(t), f), i, Len(ran[i]), Append(submitted[i], f), owed[t][i])
      BY <1>5, <1>8, <2>1, <2>3, <2>9, RankedAccept
    <3> QED BY <1>7, <2>2, <2>9, <3>1, <3>2
  <2> QED BY <2>6, <2>7, <2>8, <2>9
<1> QED BY <1>10, <1>12, <1>13, <1>14 DEF PoolInv

-----------------------------------------------------------------------------
(* The functor that begins is the first of the line.                       *)
LEMMA BeginsFirst ==
  ASSUME PoolInv, NEW t \in Threads, BeginItem(t)
  PROVE  /\ Line(t) \in Seq(Items) /\ Line(t) # <<>>
         /\ Line(t)[1] = Head(batch[t])
         /\ Head(batch[t]) \in Items
         /\ Line(t)' = Tail(Line(t))
         /\ \A u \in Threads \ {t} : Line(u)' = Line(u)
<1>0. PoolTypeOK /\ BatchOK(t) BY DEF PoolInv
<1>1. /\ batch[t] \in Seq(Items) /\ queue[t] \in Seq(Items)
      /\ batch[t] # <<>> /\ pc[t] = "work"
  BY <1>0 DEF PoolTypeOK, BeginItem
<1>2. Head(batch[t]) \in Items BY <1>1, HeadTailProperties
<1>3. Line(t) = batch[t] \o queue[t] BY <1>1 DEF Line, Rest
<1>4. /\ Line(t) \in Seq(Items) /\ Line(t) # <<>>
      /\ Line(t)[1] = Head(batch[t])
      /\ Tail(batch[t]) \o queue[t] = Tail(Line(t))
  <2>1. /\ batch[t] \o queue[t] \in Seq(Items) /\ batch[t] \o queue[t] # <<>>
        /\ (batch[t] \o queue[t])[1] = Head(batch[t])
        /\ Tail(batch[t]) \o queue[t] = Tail(batch[t] \o queue[t])
    BY <1>1, JoinTail, Zenon
  <2> QED BY <1>3, <2>1
<1>7. Line(t)' = Tail(batch[t]) \o queue[t]
  <2>1. queue' = queue BY DEF BeginItem
  <2>2. CASE Head(batch[t]).stop
    <3>1. batch'[t] = Tail(batch[t]) /\ pc' = pc BY <1>0, <2>2 DEF BeginItem, PoolTypeOK
    <3> QED BY <1>1, <2>1, <3>1 DEF Line, Rest
  <2>3. CASE ~Head(batch[t]).stop
    <3>1. batch' = batch /\ pc'[t] = "item" BY <1>0, <2>3 DEF BeginItem, PoolTypeOK
    <3> QED BY <2>1, <3>1 DEF Line, Rest
  <2> QED BY <2>2, <2>3
<1>8. \A u \in Threads \ {t} : Line(u)' = Line(u)
  <2>1. \A u \in Threads \ {t} : queue'[u] = queue[u] /\ batch'[u] = batch[u] /\ pc'[u] = pc[u]
    BY <1>0 DEF BeginItem, PoolTypeOK
  <2> QED BY <2>1 DEF Line, Rest
<1> QED BY <1>2, <1>4, <1>7, <1>8

(* A functor, or the stop functor, begins.                                 *)
LEMMA BeginKeeps ==
  ASSUME PoolInv, PoolTypeOK', NEW t \in Threads, BeginItem(t)
  PROVE  PoolInv'
<1>0. PoolTypeOK BY DEF PoolInv
<1>1. PICK f \in Items : f = Head(batch[t]) BY BeginsFirst
<1>2. /\ Line(t) \in Seq(Items) /\ Line(t) # <<>> /\ Line(t)[1] = f
      /\ Line(t)' = Tail(Line(t))
      /\ \A u \in Threads \ {t} : Line(u)' = Line(u)
  BY <1>1, BeginsFirst
<1>3. /\ Len(Line(t)) \in Nat /\ Len(Line(t)) >= 1
      /\ Len(Tail(Line(t))) = Len(Line(t)) - 1
      /\ \A k \in 1..Len(Tail(Line(t))) :
           Tail(Line(t))[k] = Line(t)[k + 1] /\ k + 1 \in 1..Len(Line(t))
  BY <1>2, HeadTailProperties, EmptySeq
<1>4. UNCHANGED <<queue, submitted, owed>> /\ pc[t] = "work" BY DEF BeginItem
<1>5. /\ f.stop => /\ started' = [started EXCEPT ![t] = FALSE]
                   /\ batch' = [batch EXCEPT ![t] = Tail(@)]
                   /\ UNCHANGED <<pc, call, pushed, ran>>
      /\ ~f.stop => /\ pc' = [pc EXCEPT ![t] = "item"]
                    /\ ran' = [ran EXCEPT ![f.id] = Append(@, f)]
                    /\ UNCHANGED <<started, batch>>
  BY <1>1 DEF BeginItem
<1>6. ~f.stop => /\ f \in Functors /\ f.id \in Ids
                 /\ PartitionId(f.id) = t
  BY <1>2, <1>3, ItemFacts DEF PoolInv, LineAtHome
<1>7. ASSUME NEW u \in Threads PROVE BatchOK(u)' /\ LineAtHome(u)'
  <2>1. BatchOK(u) /\ LineAtHome(u) BY DEF PoolInv
  <2>2. CASE u # t
    <3>1. batch'[u] = batch[u] /\ pc'[u] = pc[u] /\ started'[u] = started[u]
          /\ Line(u)' = Line(u)
      BY <1>0, <1>2, <1>5, <2>2 DEF PoolTypeOK
    <3>2. BatchOK(u)' BY <2>1, <3>1 DEF BatchOK, PartitionId
    <3> QED BY <2>1, <3>1, <3>2 DEF LineAtHome, PartitionId
  <2>3. CASE u = t
    <3>1. LineAtHome(u)'
      <4>1. \A k \in 1..Len(Tail(Line(t))) :
              ~Tail(Line(t))[k].stop => PartitionId(Tail(Line(t))[k].id) = t
        BY <1>3, <2>1, <2>3 DEF LineAtHome
      <4> QED BY <1>2, <2>3, <4>1 DEF LineAtHome, PartitionId
    <3>2. CASE f.stop
      <4>1. pc'[u] = "work" BY <1>4, <1>5, <2>3, <3>2
      <4> QED BY <3>1, <4>1 DEF BatchOK
    <3>3. CASE ~f.stop
      <4>1. pc'[u] = "item" /\ batch'[u] = batch[t] /\ batch[t] # <<>>
        BY <1>0, <1>5, <2>3, <3>3 DEF PoolTypeOK, BeginItem
      <4> QED BY <1>1, <1>6, <2>3, <3>1, <3>3, <4>1 DEF BatchOK, PartitionId
    <3> QED BY <3>2, <3>3
  <2> QED BY <2>2, <2>3
<1>8. t # Stopper /\ Stopper \in Processes /\ t \in Processes BY PoolFacts
<1>9. \/ UNCHANGED <<call, pushed>>
      \/ /\ ~f.stop
         /\ call' = [call EXCEPT ![t] = [at |-> "lock", t |-> PartitionId(f.id), f |-> PushedBy(f)]]
         /\ pushed' = [pushed EXCEPT ![t] = @ + 1]
  <2>1. CASE f.stop BY <1>5, <2>1
  <2>2. CASE ~f.stop
    <3>1. IF f.pushes THEN Begin(t, PartitionId(f.id), PushedBy(f)) ELSE UNCHANGED <<call, pushed>>
      BY <1>1, <2>2 DEF BeginItem
    <3> QED BY <2>2, <3>1 DEF Begin
  <2> QED BY <2>1, <2>2
<1>10. call'[Stopper] = call[Stopper] /\ pushed'[Stopper] = pushed[Stopper]
  BY <1>0, <1>8, <1>9 DEF PoolTypeOK
<1>11. ASSUME NEW q \in Processes PROVE CallAtHome(q)'
  <2>1. CallAtHome(q) BY DEF PoolInv
  <2>2. CASE call'[q] = call[q] BY <1>10, <2>1, <2>2 DEF CallAtHome, PartitionId
  <2>3. CASE call'[q] # call[q]
    <3>1. /\ ~f.stop
          /\ call'[q] = [at |-> "lock", t |-> PartitionId(f.id), f |-> PushedBy(f)]
      BY <1>0, <1>9, <2>3 DEF PoolTypeOK
    <3>2. ~PushedBy(f).stop /\ PushedBy(f).id = f.id
      BY <1>6, <3>1 DEF PushedBy, Functors
    <3>3. call'[q].t = PartitionId(f.id) /\ call'[q].f = PushedBy(f) BY <3>1
    <3> QED BY <3>2, <3>3 DEF CallAtHome, PartitionId
  <2> QED BY <2>2, <2>3
<1>12. ASSUME NEW u \in Threads, StopAhead(u)' PROVE NoStopYet(u)'
  <2>1. NoStopYet(u) BY <1>10, <1>12 DEF StopAhead, PoolInv
  <2>2. CASE u # t
    <3>1. started'[u] = started[u] /\ Line(u)' = Line(u)
      BY <1>0, <1>2, <1>5, <2>2 DEF PoolTypeOK
    <3> QED BY <2>1, <3>1 DEF NoStopYet
  <2>3. CASE u = t
    <3>1. ~f.stop BY <1>2, <1>3, <2>1, <2>3 DEF NoStopYet
    <3>2. \A k \in 1..Len(Tail(Line(t))) : ~Tail(Line(t))[k].stop
      BY <1>3, <2>1, <2>3 DEF NoStopYet
    <3> QED BY <1>2, <1>5, <2>1, <2>3, <3>1, <3>2 DEF NoStopYet
  <2> QED BY <2>2, <2>3
<1>13. ASSUME NEW i \in Ids PROVE InOrder(i)' /\ Drained(i)'
  <2>0. PICK u \in Threads : u = PartitionId(i) BY PoolFacts
  <2>1. Ranked(Line(u), i, Len(ran[i]), submitted[i], owed[u][i])
    BY <2>0 DEF PoolInv, InOrder
  <2>2. ~started[u] => owed[u][i] <= Len(ran[i]) BY <2>0 DEF PoolInv, Drained
  <2>3. /\ ran[i] \in Seq(Functors) /\ submitted[i] \in Seq(Functors) /\ owed[u][i] \in Nat
        /\ Len(ran[i]) \in Nat /\ Len(submitted[i]) \in Nat
    BY <1>0 DEF PoolTypeOK
  <2>4. SUFFICES /\ Ranked(Line(u)', i, Len(ran'[i]), submitted[i], owed[u][i])
                 /\ ~started'[u] => owed[u][i] <= Len(ran'[i])
    BY <1>4, <2>0 DEF InOrder, Drained, PartitionId
  <2>5. CASE u # t
    <3>1. Line(u)' = Line(u) /\ started'[u] = started[u]
      BY <1>0, <1>2, <1>5, <2>5 DEF PoolTypeOK
    <3>2. ran'[i] = ran[i] BY <1>0, <1>5, <1>6, <2>0, <2>5 DEF PoolTypeOK
    <3> QED BY <2>1, <2>2, <3>1, <3>2
  <2>6. CASE u = t
    <3>1. /\ f.stop => owed[t][i] <= Len(ran[i])
          /\ f.stop \/ f.id # i => Ranked(Tail(Line(t)), i, Len(ran[i]), submitted[i], owed[t][i])
          /\ ~f.stop /\ f.id = i =>
               Ranked(Tail(Line(t)), i, Len(ran[i]) + 1, submitted[i], owed[t][i])
      BY <1>2, <2>1, <2>3, <2>6, RankedHead
    <3>2. CASE f.stop
      <4>1. ran'[i] = ran[i] BY <1>5, <3>2
      <4> QED BY <1>2, <2>6, <3>1, <3>2, <4>1
    <3>3. CASE ~f.stop /\ f.id # i
      <4>1. ran'[i] = ran[i] /\ started' = started BY <1>0, <1>5, <3>3 DEF PoolTypeOK
      <4> QED BY <1>2, <2>2, <2>6, <3>1, <3>3, <4>1
    <3>4. CASE ~f.stop /\ f.id = i
      <4>1. ran'[i] = Append(ran[i], f) /\ started' = started
        BY <1>0, <1>5, <3>4 DEF PoolTypeOK
      <4>2. Len(ran'[i]) = Len(ran[i]) + 1 BY <1>6, <2>3, <3>4, <4>1, AppendProperties
      <4>3. ~started'[u] => owed[u][i] <= Len(ran'[i]) BY <2>2, <2>3, <4>1, <4>2
      <4> QED BY <1>2, <2>6, <3>1, <3>4, <4>2, <4>3
    <3> QED BY <3>2, <3>3, <3>4
  <2> QED BY <2>5, <2>6
<1> QED BY <1>7, <1>11, <1>12, <1>13 DEF PoolInv

-----------------------------------------------------------------------------

LEMMA PoolNext == PoolInv /\ [Next]_vars => PoolInv'
<1> SUFFICES ASSUME PoolInv, [Next]_vars PROVE PoolInv' OBVIOUS
<1>0. PoolTypeOK' BY PoolNextType
<1>1. CASE UNCHANGED vars
  BY <1>1 DEF vars, PoolInv, PoolTypeOK, BatchOK, LineAtHome, Line, Rest, CallAtHome,
              StopAhead, NoStopYet, InOrder, Drained, PartitionId
<1>2. ASSUME NEW p \in Producers, NEW i \in Ids, PoolPush(p, i) PROVE PoolInv'
  BY <1>0, <1>2, PoolPushQuiet, QuietKeeps
<1>3. CASE PoolStop BY <1>0, <1>3, PoolStopQuiet, QuietKeeps
<1>4. ASSUME NEW p \in Processes, LockAndPush(p) PROVE PoolInv'
  <2>1. CASE HasRoom(call[p].t) BY <1>0, <1>4, <2>1, AcceptKeeps
  <2>2. CASE ~HasRoom(call[p].t) BY <1>0, <1>4, <2>2, CallerQuiet, QuietKeeps
  <2> QED BY <2>1, <2>2
<1>5. ASSUME NEW p \in Processes, NotifyConsumer(p) \/ SpuriousProducer(p) PROVE PoolInv'
  BY <1>0, <1>5, CallerQuiet, QuietKeeps
<1>6. ASSUME NEW t \in Threads,
             \/ LockAndTake(t) \/ NotifyProducers(t) \/ EndItem(t) \/ EndBatch(t)
             \/ SpuriousConsumer(t)
      PROVE  PoolInv'
  BY <1>0, <1>6, WorkerQuiet, QuietKeeps
<1>7. ASSUME NEW t \in Threads, BeginItem(t) PROVE PoolInv'
  BY <1>0, <1>7, BeginKeeps
<1> QED BY <1>1, <1>2, <1>3, <1>4, <1>5, <1>6, <1>7 DEF Next

(* The pool keeps its lines in the order of acceptance, whoever pushes and *)
(* whenever it is stopped.                                                 *)
THEOREM PoolKeepsOrder == Spec => []PoolInv
<1>1. Init => PoolInv BY PoolInit
<1>2. PoolInv /\ [Next]_vars => PoolInv' BY PoolNext
<1> QED BY <1>1, <1>2, PTL DEF Spec

LEMMA DrainedWhenEnded == PoolInv => StopDrains
<1> SUFFICES ASSUME PoolInv, NEW t \in Threads, pc[t] = "ended",
                    NEW i \in Ids, PartitionId(i) = t
             PROVE  Len(ran[i]) >= owed[t][i]
  BY DEF StopDrains
<1>1. ~started[t] BY DEF PoolInv, BatchOK
<1>2. owed[t][i] <= Len(ran[i]) BY <1>1 DEF PoolInv, Drained
<1>3. ran[i] \in Seq(Functors) /\ owed[t][i] \in Nat BY DEF PoolInv, PoolTypeOK
<1>4. Len(ran[i]) \in Nat BY <1>3
<1> QED BY <1>2, <1>3, <1>4

(* WorkThreadPool::Stop drains: when the Run of a worker has returned,     *)
(* everything accepted on it before its stop functor was carried out, for  *)
(* any number of threads that push, and functors that push others.         *)
THEOREM WorkersDrain == Spec => []StopDrains
<1>1. PoolInv => StopDrains BY DrainedWhenEnded
<1> QED BY <1>1, PoolKeepsOrder, PTL

-----------------------------------------------------------------------------
(* The pool implements Executor.                                           *)

(* Only its own worker runs a functor of an id.                            *)
LEMMA RunningAtHome ==
  ASSUME PoolInv, NEW i \in Ids
  PROVE  Running(i) <=> /\ pc[PartitionId(i)] = "item"
                        /\ Head(batch[PartitionId(i)]).id = i
<1>1. PartitionId(i) \in Threads BY PoolFacts
<1>2. ASSUME NEW t \in Threads, pc[t] = "item", Head(batch[t]).id = i
      PROVE  t = PartitionId(i)
  BY <1>2 DEF PoolInv, BatchOK
<1> QED BY <1>1, <1>2 DEF Running

LEMMA PoolInitRefines == (Init \/ Unused) => Promise!Init
<1> SUFFICES ASSUME Init \/ Unused PROVE Promise!Init OBVIOUS
<1>1. \A i \in Ids : Running(i) = FALSE
  BY DEF Running, Init, Unused
<1> QED BY <1>1 DEF Init, Unused, Promise!Init

(* A step that moves no functor, and ends none, is a stutter.              *)
LEMMA PoolStutters ==
  ASSUME UNCHANGED <<submitted, ran>>, \A i \in Ids : Running(i)' = Running(i)
  PROVE  UNCHANGED Promise!vars
BY DEF Promise!vars

LEMMA PoolNextRefines ==
  PoolInv /\ PoolInv' /\ [Next]_vars => [Promise!Next]_(Promise!vars)
<1> SUFFICES ASSUME PoolInv, PoolInv', [Next]_vars PROVE [Promise!Next]_(Promise!vars)
  OBVIOUS
<1>0. PoolTypeOK BY DEF PoolInv
<1>1. CASE UNCHANGED <<submitted, ran>> /\ \A t \in Threads :
             (pc[t] = "item" \/ pc'[t] = "item") => pc'[t] = pc[t] /\ batch'[t] = batch[t]
  <2>1. \A i \in Ids : Running(i)' = Running(i) BY <1>1 DEF Running
  <2> QED BY <1>1, <2>1, PoolStutters
<1>2. CASE UNCHANGED vars BY <1>1, <1>2 DEF vars
<1>3. ASSUME NEW p \in Producers, NEW i \in Ids, PoolPush(p, i)
      PROVE  [Promise!Next]_(Promise!vars)
  BY <1>1, <1>3 DEF PoolPush
<1>4. CASE PoolStop BY <1>1, <1>4 DEF PoolStop
<1>5. ASSUME NEW p \in Processes, NotifyConsumer(p) \/ SpuriousProducer(p)
      PROVE  [Promise!Next]_(Promise!vars)
  <2>1. UNCHANGED <<submitted, ran, batch>>
    BY <1>5 DEF NotifyConsumer, SpuriousProducer
  <2>2. \A t \in Threads : (pc[t] = "item" \/ pc'[t] = "item") => pc'[t] = pc[t]
    BY <1>0, <1>5 DEF NotifyConsumer, SpuriousProducer, Woken, PoolTypeOK
  <2> QED BY <1>1, <2>1, <2>2
<1>6. ASSUME NEW t \in Threads,
             LockAndTake(t) \/ NotifyProducers(t) \/ EndBatch(t) \/ SpuriousConsumer(t)
      PROVE  [Promise!Next]_(Promise!vars)
  <2>1. UNCHANGED <<submitted, ran>>
    BY <1>6 DEF LockAndTake, NotifyProducers, EndBatch, SpuriousConsumer
  <2>2. ASSUME NEW u \in Threads, pc[u] = "item" \/ pc'[u] = "item"
        PROVE  pc'[u] = pc[u] /\ batch'[u] = batch[u]
    BY <1>0, <1>6, <2>2
       DEF LockAndTake, NotifyProducers, EndBatch, SpuriousConsumer, PoolTypeOK
  <2> QED BY <1>1, <2>1, <2>2
<1>7. ASSUME NEW p \in Processes, LockAndPush(p) PROVE [Promise!Next]_(Promise!vars)
  <2>1. UNCHANGED <<batch, pc, ran>> BY <1>7 DEF LockAndPush
  <2>2. CASE UNCHANGED submitted BY <1>1, <2>1, <2>2
  <2>3. CASE submitted' # submitted
    <3>1. call[p] \in Calls BY <1>0, <1>7 DEF LockAndPush, PoolTypeOK, NoCall
    <3>2. PICK f \in Items : f = call[p].f BY <3>1 DEF Calls
    <3>3. ~f.stop /\ submitted' = [submitted EXCEPT ![f.id] = Append(@, f)]
      BY <1>7, <2>3, <3>2 DEF LockAndPush
    <3>4. f \in Functors /\ f.id \in Ids BY <3>2, <3>3, ItemFacts
    <3>5. \A i \in Ids : Running(i)' = Running(i) BY <2>1 DEF Running
    <3>6. Promise!Submit(f.id) BY <2>1, <3>3, <3>4, <3>5 DEF Promise!Submit
    <3> QED BY <3>4, <3>6 DEF Promise!Next
  <2> QED BY <2>2, <2>3
<1>8. ASSUME NEW t \in Threads, BeginItem(t) PROVE [Promise!Next]_(Promise!vars)
  <2>0. PICK f \in Items : f = Head(batch[t]) BY <1>8, BeginsFirst
  <2>1. CASE f.stop
    <3>1. UNCHANGED <<submitted, ran, pc>> /\ pc[t] = "work"
      BY <1>8, <2>0, <2>1 DEF BeginItem
    <3>2. \A u \in Threads \ {t} : batch'[u] = batch[u]
      BY <1>0, <1>8, <2>0, <2>1 DEF BeginItem, PoolTypeOK
    <3> QED BY <1>1, <3>1, <3>2
  <2>2. CASE ~f.stop
    <3>1. f \in Functors /\ f.id \in Ids BY <2>0, <2>2, ItemFacts
    <3>2. PICK i \in Ids : i = f.id BY <3>1
    <3>3. /\ Line(t) \in Seq(Items) /\ Line(t) # <<>> /\ Line(t)[1] = f
      BY <1>8, <2>0, BeginsFirst
    <3>4. Len(Line(t)) \in Nat /\ Len(Line(t)) >= 1 BY <3>3, EmptySeq
    <3>5. PartitionId(i) = t
      BY <2>2, <3>2, <3>3, <3>4 DEF PoolInv, LineAtHome
    <3>6. Ranked(Line(t), i, Len(ran[i]), submitted[i], owed[t][i])
      BY <3>5 DEF PoolInv, InOrder
    <3>7. ran[i] \in Seq(Functors) /\ submitted[i] \in Seq(Functors) /\ owed[t][i] \in Nat
          /\ Len(ran[i]) \in Nat
      BY <1>0 DEF PoolTypeOK
    <3>8. Len(ran[i]) < Len(submitted[i]) /\ submitted[i][Len(ran[i]) + 1] = f
      BY <2>2, <3>2, <3>3, <3>6, <3>7, RankedHead
    <3>9. /\ pc[t] = "work" /\ pc' = [pc EXCEPT ![t] = "item"]
          /\ ran' = [ran EXCEPT ![i] = Append(@, f)]
          /\ UNCHANGED <<batch, submitted>>
      BY <1>8, <2>0, <2>2, <3>2 DEF BeginItem
    <3>10. ~Running(i) BY <3>5, <3>9, RunningAtHome
    <3>11. ASSUME NEW j \in Ids PROVE Running(j)' = IF j = i THEN TRUE ELSE Running(j)
      <4>1. \A u \in Threads : (pc'[u] = "item") <=> (u = t \/ pc[u] = "item")
        BY <1>0, <3>9 DEF PoolTypeOK
      <4>2. Head(batch[t]).id = i /\ batch' = batch BY <2>0, <3>2, <3>9
      <4>3. Running(j)' <=> (j = i \/ Running(j))
        BY <4>1, <4>2 DEF Running
      <4>4. Running(j)' \in BOOLEAN /\ Running(j) \in BOOLEAN BY DEF Running
      <4> QED BY <4>3, <4>4
    <3>12. Promise!Begin(i) BY <3>8, <3>9, <3>10, <3>11 DEF Promise!Begin
    <3> QED BY <3>12 DEF Promise!Next
  <2> QED BY <2>1, <2>2
<1>9. ASSUME NEW t \in Threads, EndItem(t) PROVE [Promise!Next]_(Promise!vars)
  <2>1. /\ pc[t] = "item" /\ pc' = [pc EXCEPT ![t] = "work"]
        /\ batch' = [batch EXCEPT ![t] = Tail(@)]
        /\ UNCHANGED <<submitted, ran>>
    BY <1>9 DEF EndItem
  <2>2. Head(batch[t]) \in Items /\ ~Head(batch[t]).stop
    BY <1>0, <2>1, HeadTailProperties DEF PoolInv, BatchOK, PoolTypeOK
  <2>3. PICK i \in Ids : i = Head(batch[t]).id BY <2>2, ItemFacts
  <2>4. PartitionId(i) = t BY <2>1, <2>3 DEF PoolInv, BatchOK
  <2>5. Running(i) BY <2>1, <2>3 DEF Running
  <2>6. ASSUME NEW j \in Ids PROVE Running(j)' = IF j = i THEN FALSE ELSE Running(j)
    <3>1. \A u \in Threads : u # t => pc'[u] = pc[u] /\ batch'[u] = batch[u]
      BY <1>0, <2>1 DEF PoolTypeOK
    <3>2. pc'[t] = "work" BY <1>0, <2>1 DEF PoolTypeOK
    <3>3. CASE j = i
      <4>1. ~Running(i)'
        <5>1. ASSUME NEW u \in Threads, pc'[u] = "item", Head(batch'[u]).id = i PROVE FALSE
          <6>1. u # t BY <3>2, <5>1
          <6>2. pc[u] = "item" /\ Head(batch[u]).id = i BY <3>1, <5>1, <6>1
          <6>3. PartitionId(i) = u BY <6>2 DEF PoolInv, BatchOK
          <6> QED BY <2>4, <6>1, <6>3
        <5> QED BY <5>1 DEF Running
      <4>2. Running(i)' \in BOOLEAN BY DEF Running
      <4> QED BY <3>3, <4>1, <4>2
    <3>4. CASE j # i
      <4>1. Running(j)' <=> Running(j) BY <2>3, <3>1, <3>2, <3>4 DEF Running
      <4>2. Running(j)' \in BOOLEAN /\ Running(j) \in BOOLEAN BY DEF Running
      <4> QED BY <3>4, <4>1, <4>2
    <3> QED BY <3>3, <3>4
  <2>7. Promise!End(i) BY <2>1, <2>5, <2>6 DEF Promise!End
  <2> QED BY <2>7 DEF Promise!Next
<1> QED BY <1>2, <1>3, <1>4, <1>5, <1>6, <1>7, <1>8, <1>9 DEF Next

(* WorkThreadPool is a serial executor for each id: functors pushed under  *)
(* one id are carried out once each, in the order their Push was accepted, *)
(* and never two at a time, for any number of workers, producers and ids,  *)
(* any size of the queues, and whenever the pool is stopped.               *)
THEOREM PoolIsExecutor == Spec => ImplementsExecutor
<1>1. Init => Promise!Init BY PoolInitRefines
<1>2. PoolInv /\ PoolInv' /\ [Next]_vars => [Promise!Next]_(Promise!vars)
  BY PoolNextRefines
<1> QED BY <1>1, <1>2, PoolKeepsOrder, PTL DEF Spec, ImplementsExecutor, Promise!Spec

-----------------------------------------------------------------------------
(* The event loop.  What the queue accepted is what has run, then what the *)
(* callback has taken and not begun, then the queue.                       *)

LoopFunctors == EL!Functors
FunctorCalls == [at : {"inline", "push", "send", "faulted"}, f : LoopFunctors]
StopCalls == [at : {"close", "stop"}]
LoopCalls == {EL!NoCall} \cup FunctorCalls \cup StopCalls

LoopPhases ==
  {"created", "timers", "poll", "functors", "in functor", "stop", "closing", "ended"}

LoopTypeOK ==
  /\ wait_first \in BOOLEAN /\ tid \in BOOLEAN /\ closing \in BOOLEAN
  /\ functors_ \in BOOLEAN /\ stop_ \in BOOLEAN
  /\ queue_sent \in BOOLEAN /\ stop_sent \in BOOLEAN
  /\ off_loop \in BOOLEAN /\ late \in BOOLEAN /\ added_late \in BOOLEAN /\ fault \in BOOLEAN
  /\ phase \in LoopPhases
  /\ latch \in {0, 1}
  /\ loop_queue \in Seq(LoopFunctors) /\ todo \in Seq(LoopFunctors)
  /\ loop_submitted \in Seq(LoopFunctors) /\ loop_ran \in Seq(LoopFunctors)
  /\ loop_call \in [EL!Processes -> LoopCalls]
  /\ calls \in [EL!Processes -> Nat]

LoopRest == IF phase = "in functor" THEN Tail(todo) ELSE todo

LoopOrder ==
  /\ phase \in {"functors", "in functor"} <=> todo # <<>>
  /\ loop_submitted = loop_ran \o (LoopRest \o loop_queue)

(* A thread that has waited for the start finds tid_ set.                  *)
LoopStarted ==
  /\ tid <=> phase # "created"
  /\ latch = 0 => tid
  /\ wait_first => /\ ~off_loop
                   /\ \A p \in EL!Processes : loop_call[p].at \notin {"inline", "close"}

LoopInv == LoopTypeOK /\ LoopOrder /\ LoopStarted /\ EL!NothingStranded

LEMMA LoopCallFacts ==
  ASSUME NEW c \in LoopCalls
  PROVE  /\ c.at \in {"none", "inline", "push", "send", "faulted", "close", "stop"}
         /\ c.at = "none" <=> c = EL!NoCall
         /\ c.at \in {"inline", "push", "send", "faulted"} => c \in FunctorCalls
         /\ c.at \in {"close", "stop"} => c \in StopCalls
BY DEF LoopCalls, FunctorCalls, StopCalls, EL!NoCall

LEMMA LoopInit == (EL!Init \/ EL!Unused) => LoopInv
<1> SUFFICES ASSUME EL!Init \/ EL!Unused PROVE LoopInv OBVIOUS
<1>1. /\ loop_queue = <<>> /\ todo = <<>> /\ loop_submitted = <<>> /\ loop_ran = <<>>
      /\ loop_call = [p \in EL!Processes |-> EL!NoCall]
      /\ phase \in {"created", "ended"} /\ (tid <=> phase = "ended")
      /\ latch \in {0, 1} /\ (latch = 0 => tid)
      /\ off_loop = FALSE
  BY DEF EL!Init, EL!Unused
<1>2. LoopTypeOK
  <2>1. calls \in [EL!Processes -> Nat] BY LoopAssumption DEF EL!Init, EL!Unused
  <2>2. loop_call \in [EL!Processes -> LoopCalls] BY <1>1 DEF LoopCalls
  <2>3. phase \in LoopPhases BY <1>1 DEF LoopPhases
  <2>4. <<>> \in Seq(LoopFunctors) OBVIOUS
  <2> QED BY <1>1, <2>1, <2>2, <2>3, <2>4 DEF LoopTypeOK, EL!Init, EL!Unused
<1>3. LoopOrder
  <2>1. <<>> \o (<<>> \o <<>>) = <<>>
    <3>1. <<>> \in Seq(LoopFunctors) OBVIOUS
    <3> QED BY <3>1, ConcatEmptySeq
  <2>2. LoopRest = <<>> BY <1>1 DEF LoopRest
  <2> QED BY <1>1, <2>1, <2>2 DEF LoopOrder
<1>4. LoopStarted BY <1>1 DEF LoopStarted, EL!NoCall
<1>5. EL!NothingStranded BY <1>1 DEF EL!NothingStranded
<1> QED BY <1>2, <1>3, <1>4, <1>5 DEF LoopInv

(* What a functor, or a timer, may do to the flags of the loop.            *)
LEMMA EffectFacts ==
  ASSUME LoopTypeOK, NEW f, EL!Effect(f)
  PROVE  /\ closing' \in BOOLEAN /\ fault' \in BOOLEAN /\ late' \in BOOLEAN
         /\ added_late' \in BOOLEAN
         /\ closing' \/ closing' = closing
<1>1. CASE f.does = "timer" /\ EL!AddTimer(f) /\ UNCHANGED <<closing, closed, fault, late>>
  BY <1>1 DEF EL!AddTimer, LoopTypeOK
<1>2. CASE f.does = "stop" /\ EL!StopInside /\ UNCHANGED <<timers, added_late>>
  BY <1>2 DEF EL!StopInside, EL!Close, LoopTypeOK
<1>3. CASE f.does = "nothing" /\ UNCHANGED <<timers, EL!closeVars>>
  BY <1>3 DEF EL!closeVars, LoopTypeOK
<1> QED BY <1>1, <1>2, <1>3 DEF EL!Effect

LEMMA LoopNextType == LoopInv /\ [EL!Next]_(EL!vars) => LoopTypeOK'
<1> SUFFICES ASSUME LoopInv, [EL!Next]_(EL!vars) PROVE LoopTypeOK' OBVIOUS
<1>0. LoopTypeOK /\ LoopOrder BY DEF LoopInv
<1> USE DEF LoopTypeOK
<1>1. CASE UNCHANGED EL!vars BY <1>0, <1>1 DEF EL!vars
<1>2. ASSUME NEW p \in Callers, NEW does \in EL!Deeds, EL!RunFunctor(p, does)
      PROVE  LoopTypeOK'
  <2>1. p \in EL!Processes BY DEF EL!Processes
  <2>2. calls[p] \in Nat /\ calls[p] < MaxCalls BY <1>0, <1>2, <2>1 DEF EL!RunFunctor
  <2>3. [by |-> p, n |-> calls[p] + 1, does |-> does] \in LoopFunctors
    <3>1. calls[p] + 1 \in 1..MaxCalls BY <2>2, LoopAssumption
    <3> QED BY <3>1 DEF LoopFunctors, EL!Functors
  <2>4. loop_call' \in [EL!Processes -> LoopCalls]
    BY <1>0, <1>2, <2>1, <2>3 DEF EL!RunFunctor, LoopCalls, FunctorCalls
  <2>5. calls' \in [EL!Processes -> Nat]
    <3>1. calls' = [calls EXCEPT ![p] = @ + 1] BY <1>2 DEF EL!RunFunctor
    <3> QED BY <1>0, <2>1, <2>2, <3>1
  <2>6. late' \in BOOLEAN BY <1>2 DEF EL!RunFunctor
  <2> QED BY <1>0, <1>2, <2>4, <2>5, <2>6 DEF EL!RunFunctor, EL!loopVars
<1>3. ASSUME NEW p \in Callers, EL!CallInline(p) PROVE LoopTypeOK'
  <2>1. p \in EL!Processes BY DEF EL!Processes
  <2>2. loop_call' \in [EL!Processes -> LoopCalls]
    <3>1. \A at \in {"close", "stop"} : [at |-> at] \in LoopCalls
      BY DEF LoopCalls, StopCalls
    <3>2. \/ loop_call' = [loop_call EXCEPT ![p] = EL!NoCall]
          \/ \E at \in {"close", "stop"} : loop_call' = [loop_call EXCEPT ![p] = [at |-> at]]
      BY <1>3 DEF EL!CallInline, EL!Stopping
    <3> QED BY <1>0, <3>1, <3>2 DEF LoopCalls
  <2>3. late' \in BOOLEAN /\ added_late' \in BOOLEAN
    BY <1>0, <1>3 DEF EL!CallInline, EL!LateFor, EL!AddTimer
  <2>4. UNCHANGED <<wait_first, tid, phase, closing, functors_, stop_, todo, latch, loop_queue,
                    queue_sent, stop_sent, calls, loop_submitted, loop_ran, fault>>
        /\ off_loop' = TRUE
    BY <1>3 DEF EL!CallInline
  <2> QED BY <1>0, <2>2, <2>3, <2>4
<1>4. ASSUME NEW p \in Callers, EL!Push(p) PROVE LoopTypeOK'
  <2>1. p \in EL!Processes BY DEF EL!Processes
  <2>2. loop_call[p] \in LoopCalls /\ loop_call[p].at = "push"
    BY <1>0, <1>4, <2>1 DEF EL!Push
  <2>3. loop_call[p] \in FunctorCalls BY <2>2, LoopCallFacts
  <2>4. /\ loop_call[p].f \in LoopFunctors
        /\ [loop_call[p] EXCEPT !.at = "send"] \in FunctorCalls
        /\ [loop_call[p] EXCEPT !.at = "faulted"] \in FunctorCalls
    BY <2>3 DEF FunctorCalls
  <2>5. loop_call' \in [EL!Processes -> LoopCalls]
    BY <1>0, <1>4, <2>4 DEF EL!Push, LoopCalls
  <2>6. /\ Append(loop_queue, loop_call[p].f) \in Seq(LoopFunctors)
        /\ Append(loop_submitted, loop_call[p].f) \in Seq(LoopFunctors)
    BY <1>0, <2>4
  <2>7. loop_queue' \in Seq(LoopFunctors) /\ loop_submitted' \in Seq(LoopFunctors)
        /\ fault' \in BOOLEAN
    BY <1>0, <1>4, <2>6 DEF EL!Push, EL!Accepted
  <2> QED BY <1>0, <1>4, <2>5, <2>7 DEF EL!Push, EL!loopVars
<1>5. ASSUME NEW p \in Callers, EL!Send(p) PROVE LoopTypeOK'
  BY <1>0, <1>5 DEF EL!Send, EL!UvAsyncSend, LoopCalls, EL!loopVars
<1>6. ASSUME NEW p \in Stoppers, EL!Stop(p) PROVE LoopTypeOK'
  <2>1. p \in EL!Processes BY DEF EL!Processes
  <2>2. loop_call' \in [EL!Processes -> LoopCalls]
    <3>1. \E at \in {"close", "stop"} : loop_call' = [loop_call EXCEPT ![p] = [at |-> at]]
      BY <1>6 DEF EL!Stop, EL!Stopping
    <3>2. \A at \in {"close", "stop"} : [at |-> at] \in LoopCalls
      BY DEF LoopCalls, StopCalls
    <3> QED BY <1>0, <3>1, <3>2
  <2>3. calls' \in [EL!Processes -> Nat]
    <3>1. calls' = [calls EXCEPT ![p] = @ + 1] BY <1>6 DEF EL!Stop
    <3> QED BY <1>0, <2>1, <3>1
  <2>4. late' \in BOOLEAN BY <1>6 DEF EL!Stop, EL!LateFor
  <2> QED BY <1>0, <1>6, <2>2, <2>3, <2>4 DEF EL!Stop, EL!loopVars
<1>7. ASSUME NEW p \in EL!Processes, EL!Notify(p) PROVE LoopTypeOK'
  BY <1>0, <1>7 DEF EL!Notify, EL!UvAsyncSend, LoopCalls, EL!loopVars
<1>8. ASSUME NEW p \in EL!Processes, EL!CloseInline(p) PROVE LoopTypeOK'
  BY <1>0, <1>8 DEF EL!CloseInline, EL!Close, LoopCalls
<1>9. CASE EL!Loop BY <1>0, <1>9 DEF EL!Loop, EL!otherVars, EL!closeVars, LoopPhases
<1>10. CASE EL!RunTimers
  BY <1>0, <1>10 DEF EL!RunTimers, EL!StopInside, EL!Close, EL!otherVars, EL!closeVars, LoopPhases
<1>11. CASE EL!DoFunctor
  <2>1. <<>> \in Seq(LoopFunctors) OBVIOUS
  <2> QED BY <1>0, <1>11, <2>1 DEF EL!DoFunctor, EL!otherVars, EL!closeVars, LoopPhases
<1>12. CASE EL!CallFunctor
  <2>1. Head(todo) \in LoopFunctors
    BY <1>0, <1>12, HeadTailProperties DEF EL!CallFunctor
  <2>2. loop_ran' \in Seq(LoopFunctors)
    <3>1. loop_ran' = Append(loop_ran, Head(todo)) BY <1>12 DEF EL!CallFunctor
    <3> QED BY <1>0, <2>1, <3>1, AppendProperties
  <2>3. /\ closing' \in BOOLEAN /\ fault' \in BOOLEAN /\ late' \in BOOLEAN
        /\ added_late' \in BOOLEAN
    BY <1>0, <1>12, EffectFacts DEF EL!CallFunctor
  <2> QED BY <1>0, <1>12, <2>2, <2>3 DEF EL!CallFunctor, EL!otherVars, LoopPhases
<1>13. CASE EL!FunctorReturns
  <2>1. todo' \in Seq(LoopFunctors)
    BY <1>0, <1>13, HeadTailProperties DEF EL!FunctorReturns, LoopOrder
  <2> QED BY <1>0, <1>13, <2>1 DEF EL!FunctorReturns, EL!otherVars, EL!closeVars, LoopPhases
<1>14. CASE EL!StopLoop
  BY <1>0, <1>14 DEF EL!StopLoop, EL!Close, EL!otherVars, EL!closeVars, LoopPhases
<1>15. CASE EL!RunClosing
  BY <1>0, <1>15 DEF EL!RunClosing, EL!otherVars, EL!closeVars, LoopPhases
<1> QED BY <1>1, <1>2, <1>3, <1>4, <1>5, <1>6, <1>7, <1>8, <1>9, <1>10, <1>11, <1>12,
           <1>13, <1>14, <1>15 DEF EL!Next

(* A functor that begins goes from the front of what is left to the end    *)
(* of what has run.                                                        *)
LEMMA LoopMove ==
  ASSUME NEW a \in Seq(LoopFunctors), NEW b \in Seq(LoopFunctors),
         NEW q \in Seq(LoopFunctors), b # <<>>
  PROVE  Append(a, Head(b)) \o (Tail(b) \o q) = a \o (b \o q)
<1>1. Head(b) \in LoopFunctors /\ Tail(b) \in Seq(LoopFunctors) BY HeadTailProperties
<1>2. PICK h \in LoopFunctors : h = Head(b) BY <1>1
<1>3. PICK r \in Seq(LoopFunctors) : r = Tail(b) BY <1>1
<1>4. <<h>> \in Seq(LoopFunctors) OBVIOUS
<1>5. r \o q \in Seq(LoopFunctors) /\ <<h>> \o r \in Seq(LoopFunctors) BY <1>4, ConcatProperties
<1>6. b = <<h>> \o r
  <2>1. /\ Len(r) = Len(b) - 1 /\ Len(b) \in Nat /\ Len(b) >= 1
        /\ \A k \in 1..(Len(b) - 1) : r[k] = b[k + 1]
    BY <1>3, HeadTailProperties, EmptySeq
  <2>2. /\ Len(<<h>> \o r) = 1 + Len(r)
        /\ \A k \in 1..(1 + Len(r)) : (<<h>> \o r)[k] = IF k <= 1 THEN <<h>>[k] ELSE r[k - 1]
    <3>1. Len(<<h>>) = 1 OBVIOUS
    <3> QED BY <1>4, <3>1, ConcatProperties
  <2>3. <<h>>[1] = b[1] BY <1>2
  <2>4. ASSUME NEW k \in 1..Len(b) PROVE b[k] = (<<h>> \o r)[k]
    <3>1. k \in 1..(1 + Len(r)) BY <2>1
    <3>2. CASE k = 1 BY <2>2, <2>3, <3>1, <3>2
    <3>3. CASE k # 1
      <4>1. k - 1 \in 1..(Len(b) - 1) /\ (k - 1) + 1 = k /\ ~(k <= 1) BY <2>1, <3>3
      <4> QED BY <2>1, <2>2, <3>1, <4>1
    <3> QED BY <3>2, <3>3
  <2>5. Len(b) = Len(<<h>> \o r) BY <2>1, <2>2
  <2> QED BY <1>5, <2>4, <2>5, SeqEqual
<1>7. Append(a, h) = a \o <<h>> BY AppendIsConcat
<1>8. (a \o <<h>>) \o (r \o q) = a \o (<<h>> \o (r \o q)) BY <1>4, <1>5, ConcatAssociative, SMTT(30)
<1>9. <<h>> \o (r \o q) = (<<h>> \o r) \o q BY <1>4, ConcatAssociative, SMTT(30)
<1> QED BY <1>2, <1>3, <1>6, <1>7, <1>8, <1>9

(* The first of what is left comes after what has run.                     *)
LEMMA LoopFirst ==
  ASSUME NEW a \in Seq(LoopFunctors), NEW b \in Seq(LoopFunctors),
         NEW q \in Seq(LoopFunctors), b # <<>>
  PROVE  /\ Len(a) < Len(a \o (b \o q))
         /\ (a \o (b \o q))[Len(a) + 1] = Head(b)
<1> DEFINE c == b \o q
<1>1. c \in Seq(LoopFunctors) /\ c # <<>> /\ c[1] = Head(b) BY JoinTail
<1> HIDE DEF c
<1>2. Len(a) \in Nat /\ Len(c) \in Nat /\ Len(c) >= 1 BY <1>1, EmptySeq
<1>3. /\ Len(a \o c) = Len(a) + Len(c)
      /\ \A k \in 1..(Len(a) + Len(c)) :
           (a \o c)[k] = IF k <= Len(a) THEN a[k] ELSE c[k - Len(a)]
  BY <1>1, ConcatProperties
<1>4. Len(a) + 1 \in 1..(Len(a) + Len(c)) /\ ~(Len(a) + 1 <= Len(a))
      /\ (Len(a) + 1) - Len(a) = 1
  BY <1>2
<1>5. (a \o c)[Len(a) + 1] = c[1] BY <1>3, <1>4
<1>6. Len(a) < Len(a \o c) BY <1>2, <1>3
<1> QED BY <1>1, <1>5, <1>6 DEF c

(* The order of the functors: accepted last, begun first.                  *)
LEMMA LoopNextOrder == LoopInv /\ [EL!Next]_(EL!vars) => LoopOrder'
<1> SUFFICES ASSUME LoopInv, [EL!Next]_(EL!vars) PROVE LoopOrder' OBVIOUS
<1>0. LoopTypeOK /\ LoopOrder BY DEF LoopInv
<1>1. /\ loop_queue \in Seq(LoopFunctors) /\ todo \in Seq(LoopFunctors)
      /\ loop_submitted \in Seq(LoopFunctors) /\ loop_ran \in Seq(LoopFunctors)
  BY <1>0 DEF LoopTypeOK
<1>2. LoopRest \in Seq(LoopFunctors)
  BY <1>0, <1>1, HeadTailProperties DEF LoopRest, LoopOrder
<1>3. CASE /\ UNCHANGED <<loop_submitted, loop_ran, todo, loop_queue>>
           /\ (phase \in {"functors", "in functor"} \/ phase' \in {"functors", "in functor"})
                => phase' = phase
  BY <1>0, <1>3 DEF LoopOrder, LoopRest
<1>4. CASE UNCHANGED EL!vars BY <1>3, <1>4 DEF EL!vars
<1>5. ASSUME NEW p \in Callers, NEW does \in EL!Deeds, EL!RunFunctor(p, does)
      PROVE  LoopOrder'
  BY <1>3, <1>5 DEF EL!RunFunctor, EL!loopVars
<1>6. ASSUME NEW p \in Callers, EL!CallInline(p) PROVE LoopOrder'
  BY <1>3, <1>6 DEF EL!CallInline
<1>7. ASSUME NEW p \in Callers, EL!Push(p) PROVE LoopOrder'
  <2>1. UNCHANGED <<loop_ran, todo, phase>> BY <1>7 DEF EL!Push, EL!loopVars
  <2>2. CASE ~functors_ BY <1>3, <1>7, <2>1, <2>2 DEF EL!Push
  <2>3. CASE functors_
    <3>1. p \in EL!Processes BY DEF EL!Processes
    <3>2. loop_call[p] \in FunctorCalls
      BY <1>0, <1>7, <3>1, LoopCallFacts DEF EL!Push, LoopTypeOK
    <3>3. PICK f \in LoopFunctors : f = loop_call[p].f BY <3>2 DEF FunctorCalls
    <3>4. loop_queue' = Append(loop_queue, f) /\ loop_submitted' = Append(loop_submitted, f)
      BY <1>7, <2>3, <3>3 DEF EL!Push, EL!Accepted
    <3>5. LoopRest' = LoopRest BY <2>1 DEF LoopRest
    <3>6. LoopRest \o Append(loop_queue, f) = Append(LoopRest \o loop_queue, f)
          /\ LoopRest \o loop_queue \in Seq(LoopFunctors)
      BY <1>1, <1>2, JoinAppend, ConcatProperties
    <3>7. loop_ran \o Append(LoopRest \o loop_queue, f)
            = Append(loop_ran \o (LoopRest \o loop_queue), f)
      BY <1>1, <3>6, JoinAppend
    <3>8. loop_submitted' = loop_ran \o (LoopRest \o Append(loop_queue, f))
      BY <1>0, <3>4, <3>6, <3>7 DEF LoopOrder
    <3> QED BY <1>0, <2>1, <3>4, <3>5, <3>8 DEF LoopOrder
  <2> QED BY <2>2, <2>3
<1>8. ASSUME NEW p \in Callers, EL!Send(p) PROVE LoopOrder'
  BY <1>3, <1>8 DEF EL!Send, EL!loopVars
<1>9. ASSUME NEW p \in Stoppers, EL!Stop(p) PROVE LoopOrder'
  BY <1>3, <1>9 DEF EL!Stop, EL!loopVars
<1>10. ASSUME NEW p \in EL!Processes, EL!Notify(p) PROVE LoopOrder'
  BY <1>3, <1>10 DEF EL!Notify, EL!loopVars
<1>11. ASSUME NEW p \in EL!Processes, EL!CloseInline(p) PROVE LoopOrder'
  BY <1>3, <1>11 DEF EL!CloseInline
<1>12. CASE EL!Loop BY <1>3, <1>12 DEF EL!Loop, EL!otherVars, EL!closeVars
<1>13. CASE EL!RunTimers BY <1>3, <1>13 DEF EL!RunTimers, EL!otherVars, EL!closeVars
<1>14. CASE EL!DoFunctor
  <2>1. UNCHANGED <<loop_submitted, loop_ran>> /\ phase = "poll"
    BY <1>14 DEF EL!DoFunctor, EL!otherVars, EL!closeVars
  <2>2. todo = <<>> /\ LoopRest = <<>> BY <1>0, <2>1 DEF LoopOrder, LoopRest
  <2>3. CASE queue_sent /\ ~closing
    <3>1. /\ todo' = loop_queue /\ loop_queue' = <<>>
          /\ phase' = IF loop_queue = <<>> THEN "stop" ELSE "functors"
      BY <1>14, <2>3 DEF EL!DoFunctor
    <3>2. LoopRest' = loop_queue BY <3>1 DEF LoopRest
    <3>3. <<>> \o loop_queue = loop_queue \o <<>> BY <1>1, ConcatEmptySeq
    <3> QED BY <1>0, <2>1, <2>2, <3>1, <3>2, <3>3 DEF LoopOrder
  <2>4. CASE ~(queue_sent /\ ~closing)
    BY <1>3, <1>14, <2>1, <2>4 DEF EL!DoFunctor
  <2> QED BY <2>3, <2>4
<1>15. CASE EL!CallFunctor
  <2>1. /\ UNCHANGED <<loop_submitted, todo, loop_queue>>
        /\ phase = "functors" /\ phase' = "in functor" /\ todo # <<>>
        /\ loop_ran' = Append(loop_ran, Head(todo))
    BY <1>15 DEF EL!CallFunctor, EL!otherVars, EL!closeVars
  <2>2. LoopRest = todo /\ LoopRest' = Tail(todo) BY <2>1 DEF LoopRest
  <2>3. Append(loop_ran, Head(todo)) \o (Tail(todo) \o loop_queue)
          = loop_ran \o (todo \o loop_queue)
    BY <1>1, <2>1, LoopMove
  <2> QED BY <1>0, <2>1, <2>2, <2>3 DEF LoopOrder
<1>16. CASE EL!FunctorReturns
  <2>1. /\ UNCHANGED <<loop_submitted, loop_ran, loop_queue>>
        /\ phase = "in functor" /\ todo' = Tail(todo)
        /\ phase' = IF todo' = <<>> THEN "stop" ELSE "functors"
    BY <1>16 DEF EL!FunctorReturns, EL!otherVars, EL!closeVars
  <2>2. LoopRest' = LoopRest BY <2>1 DEF LoopRest
  <2> QED BY <1>0, <2>1, <2>2 DEF LoopOrder
<1>17. CASE EL!StopLoop BY <1>3, <1>17 DEF EL!StopLoop, EL!otherVars, EL!closeVars
<1>18. CASE EL!RunClosing BY <1>3, <1>18 DEF EL!RunClosing, EL!otherVars, EL!closeVars
<1> QED BY <1>4, <1>5, <1>6, <1>7, <1>8, <1>9, <1>10, <1>11, <1>12, <1>13, <1>14, <1>15,
           <1>16, <1>17, <1>18 DEF EL!Next

(* A thread that waits for the start is told that it is not the loop's.    *)
LEMMA WaitedOutside ==
  ASSUME LoopInv, wait_first, EL!MayCall
  PROVE  \A inside \in EL!IsInLoopThread : inside = FALSE
BY DEF LoopInv, LoopTypeOK, LoopStarted, EL!MayCall, EL!IsInLoopThread

LEMMA LoopNextStarted == LoopInv /\ [EL!Next]_(EL!vars) => LoopStarted'
<1> SUFFICES ASSUME LoopInv, [EL!Next]_(EL!vars) PROVE LoopStarted' OBVIOUS
<1>0. LoopTypeOK /\ LoopStarted BY DEF LoopInv
<1>1. loop_call \in [EL!Processes -> LoopCalls] /\ EL!NoCall.at = "none"
  BY <1>0 DEF LoopTypeOK, EL!NoCall
<1>2. CASE UNCHANGED EL!vars BY <1>0, <1>2 DEF EL!vars, LoopStarted
<1>3. ASSUME NEW p \in Callers, NEW does \in EL!Deeds, EL!RunFunctor(p, does)
      PROVE  LoopStarted'
  <2>1. UNCHANGED <<wait_first, tid, phase, latch, off_loop>>
    BY <1>3 DEF EL!RunFunctor, EL!loopVars
  <2>2. ASSUME wait_first, NEW q \in EL!Processes
        PROVE  loop_call'[q].at \notin {"inline", "close"}
    <3>1. PICK inside \in EL!IsInLoopThread :
             loop_call' = [loop_call EXCEPT ![p] =
                   [at |-> IF inside THEN "inline" ELSE "push",
                    f |-> [by |-> p, n |-> calls[p] + 1, does |-> does]]]
      BY <1>3 DEF EL!RunFunctor
    <3>2. inside = FALSE BY <1>3, <2>2, WaitedOutside DEF EL!RunFunctor
    <3> QED BY <1>0, <1>1, <2>2, <3>1, <3>2 DEF LoopStarted
  <2> QED BY <1>0, <2>1, <2>2 DEF LoopStarted
<1>4. ASSUME NEW p \in Callers, EL!CallInline(p) PROVE LoopStarted'
  <2>1. UNCHANGED <<wait_first, tid, phase, latch>> BY <1>4 DEF EL!CallInline
  <2>2. p \in EL!Processes BY DEF EL!Processes
  <2>3. ~wait_first BY <1>0, <1>4, <2>2 DEF EL!CallInline, LoopStarted
  <2> QED BY <1>0, <2>1, <2>3 DEF LoopStarted
<1>5. ASSUME NEW p \in Callers, EL!Push(p) PROVE LoopStarted'
  <2>1. UNCHANGED <<wait_first, tid, phase, latch, off_loop>>
    BY <1>5 DEF EL!Push, EL!loopVars
  <2>2. p \in EL!Processes BY DEF EL!Processes
  <2>3. loop_call[p] \in FunctorCalls BY <1>1, <1>5, <2>2, LoopCallFacts DEF EL!Push
  <2>4. \E at \in {"send", "faulted"} :
           loop_call' = [loop_call EXCEPT ![p] = [loop_call[p] EXCEPT !.at = at]]
    BY <1>5 DEF EL!Push
  <2>5. \A at \in {"send", "faulted"} : [loop_call[p] EXCEPT !.at = at].at = at
    BY <2>3 DEF FunctorCalls
  <2>6. \A q \in EL!Processes :
           loop_call'[q] = loop_call[q] \/ loop_call'[q].at \in {"send", "faulted"}
    BY <1>1, <2>4, <2>5
  <2> QED BY <1>0, <2>1, <2>6 DEF LoopStarted
<1>6. ASSUME NEW p \in Callers, EL!Send(p) PROVE LoopStarted'
  <2>1. UNCHANGED <<wait_first, tid, phase, latch, off_loop>>
    BY <1>6 DEF EL!Send, EL!loopVars
  <2>2. \A q \in EL!Processes : loop_call'[q] = loop_call[q] \/ loop_call'[q].at = "none"
    BY <1>1, <1>6 DEF EL!Send
  <2> QED BY <1>0, <2>1, <2>2 DEF LoopStarted
<1>7. ASSUME NEW p \in Stoppers, EL!Stop(p) PROVE LoopStarted'
  <2>1. UNCHANGED <<wait_first, tid, phase, latch, off_loop>>
    BY <1>7 DEF EL!Stop, EL!loopVars
  <2>2. ASSUME wait_first, NEW q \in EL!Processes
        PROVE  loop_call'[q].at \notin {"inline", "close"}
    <3>1. PICK inside \in EL!IsInLoopThread :
             loop_call' = [loop_call EXCEPT ![p] = [at |-> IF inside THEN "close" ELSE "stop"]]
      BY <1>7 DEF EL!Stop, EL!Stopping
    <3>2. inside = FALSE BY <1>7, <2>2, WaitedOutside DEF EL!Stop
    <3> QED BY <1>0, <1>1, <2>2, <3>1, <3>2 DEF LoopStarted
  <2> QED BY <1>0, <2>1, <2>2 DEF LoopStarted
<1>8. ASSUME NEW p \in EL!Processes, EL!Notify(p) PROVE LoopStarted'
  <2>1. UNCHANGED <<wait_first, tid, phase, latch, off_loop>>
    BY <1>8 DEF EL!Notify, EL!loopVars
  <2>2. \A q \in EL!Processes : loop_call'[q] = loop_call[q] \/ loop_call'[q].at = "none"
    BY <1>1, <1>8 DEF EL!Notify
  <2> QED BY <1>0, <2>1, <2>2 DEF LoopStarted
<1>9. ASSUME NEW p \in EL!Processes, EL!CloseInline(p) PROVE LoopStarted'
  <2>1. UNCHANGED <<wait_first, tid, phase, latch>> BY <1>9 DEF EL!CloseInline
  <2>2. p \in EL!Processes BY DEF EL!Processes
  <2>3. ~wait_first BY <1>0, <1>9, <2>2 DEF EL!CloseInline, LoopStarted
  <2> QED BY <1>0, <2>1, <2>3 DEF LoopStarted
<1>10. CASE EL!Loop BY <1>0, <1>10 DEF EL!Loop, EL!otherVars, EL!closeVars, LoopStarted
<1>11. CASE EL!RunTimers BY <1>0, <1>11 DEF EL!RunTimers, EL!otherVars, EL!closeVars, LoopStarted
<1>12. CASE EL!DoFunctor BY <1>0, <1>12 DEF EL!DoFunctor, EL!otherVars, EL!closeVars, LoopStarted
<1>13. CASE EL!CallFunctor BY <1>0, <1>13 DEF EL!CallFunctor, EL!otherVars, EL!closeVars, LoopStarted
<1>14. CASE EL!FunctorReturns BY <1>0, <1>14 DEF EL!FunctorReturns, EL!otherVars, EL!closeVars, LoopStarted
<1>15. CASE EL!StopLoop BY <1>0, <1>15 DEF EL!StopLoop, EL!otherVars, EL!closeVars, LoopStarted
<1>16. CASE EL!RunClosing BY <1>0, <1>16 DEF EL!RunClosing, EL!otherVars, EL!closeVars, LoopStarted
<1> QED BY <1>2, <1>3, <1>4, <1>5, <1>6, <1>7, <1>8, <1>9, <1>10, <1>11, <1>12, <1>13,
           <1>14, <1>15, <1>16 DEF EL!Next

(* A queue that is not empty has its callback due, or a thread about to    *)
(* send for it.                                                            *)
LEMMA LoopNextStranded == LoopInv /\ [EL!Next]_(EL!vars) => EL!NothingStranded'
<1> SUFFICES ASSUME LoopInv, [EL!Next]_(EL!vars) PROVE EL!NothingStranded' OBVIOUS
<1>0. LoopTypeOK /\ EL!NothingStranded BY DEF LoopInv
<1>1. loop_call \in [EL!Processes -> LoopCalls] /\ EL!NoCall.at = "none"
      /\ Callers \subseteq EL!Processes
  BY <1>0 DEF LoopTypeOK, EL!NoCall, EL!Processes
<1>2. CASE /\ UNCHANGED <<loop_queue, queue_sent>>
           /\ closing' \/ closing' = closing
           /\ \A q \in Callers : loop_call[q].at = "send" => loop_call'[q].at = "send"
  BY <1>0, <1>2 DEF EL!NothingStranded
<1>3. CASE UNCHANGED EL!vars BY <1>2, <1>3 DEF EL!vars
<1>4. ASSUME NEW p \in Callers, NEW does \in EL!Deeds, EL!RunFunctor(p, does)
      PROVE  EL!NothingStranded'
  <2>1. UNCHANGED <<loop_queue, queue_sent, closing>> BY <1>4 DEF EL!RunFunctor, EL!loopVars
  <2>2. \A q \in Callers : loop_call[q].at = "send" => loop_call'[q].at = "send"
    BY <1>1, <1>4 DEF EL!RunFunctor
  <2> QED BY <1>2, <2>1, <2>2
<1>5. ASSUME NEW p \in Callers, EL!CallInline(p) PROVE EL!NothingStranded'
  <2>1. UNCHANGED <<loop_queue, queue_sent, closing>> BY <1>5 DEF EL!CallInline
  <2>2. \A q \in Callers : loop_call[q].at = "send" => loop_call'[q].at = "send"
    BY <1>1, <1>5 DEF EL!CallInline, EL!NoCall
  <2> QED BY <1>2, <2>1, <2>2
<1>6. ASSUME NEW p \in Callers, EL!Push(p) PROVE EL!NothingStranded'
  <2>1. UNCHANGED <<queue_sent, closing>> BY <1>6 DEF EL!Push, EL!loopVars
  <2>2. loop_call[p] \in FunctorCalls BY <1>1, <1>6, LoopCallFacts DEF EL!Push
  <2>3. CASE functors_
    <3>1. loop_call' = [loop_call EXCEPT ![p] = [loop_call[p] EXCEPT !.at = "send"]]
      BY <1>6, <2>3 DEF EL!Push
    <3>2. loop_call'[p].at = "send" BY <1>1, <2>2, <3>1 DEF FunctorCalls
    <3> QED BY <3>2 DEF EL!NothingStranded
  <2>4. CASE ~functors_
    <3>1. UNCHANGED loop_queue
          /\ loop_call' = [loop_call EXCEPT ![p] = [loop_call[p] EXCEPT !.at = "faulted"]]
          /\ loop_call[p].at = "push"
      BY <1>6, <2>4 DEF EL!Push
    <3>2. \A q \in Callers : loop_call[q].at = "send" => loop_call'[q].at = "send"
      BY <1>1, <3>1
    <3> QED BY <1>2, <2>1, <3>1, <3>2
  <2> QED BY <2>3, <2>4
<1>7. ASSUME NEW p \in Callers, EL!Send(p) PROVE EL!NothingStranded'
  BY <1>7 DEF EL!Send, EL!UvAsyncSend, EL!NothingStranded
<1>8. ASSUME NEW p \in Stoppers, EL!Stop(p) PROVE EL!NothingStranded'
  <2>1. UNCHANGED <<loop_queue, queue_sent, closing>> BY <1>8 DEF EL!Stop, EL!loopVars
  <2>2. \A q \in Callers : loop_call[q].at = "send" => loop_call'[q].at = "send"
    BY <1>1, <1>8 DEF EL!Stop
  <2> QED BY <1>2, <2>1, <2>2
<1>9. ASSUME NEW p \in EL!Processes, EL!Notify(p) PROVE EL!NothingStranded'
  <2>1. UNCHANGED <<loop_queue, queue_sent, closing>> BY <1>9 DEF EL!Notify, EL!loopVars
  <2>2. \A q \in Callers : loop_call[q].at = "send" => loop_call'[q].at = "send"
    BY <1>1, <1>9 DEF EL!Notify
  <2> QED BY <1>2, <2>1, <2>2
<1>10. ASSUME NEW p \in EL!Processes, EL!CloseInline(p) PROVE EL!NothingStranded'
  BY <1>10 DEF EL!CloseInline, EL!Close, EL!NothingStranded
<1>11. CASE EL!Loop BY <1>2, <1>11 DEF EL!Loop, EL!otherVars, EL!closeVars
<1>12. CASE EL!RunTimers
  BY <1>2, <1>12 DEF EL!RunTimers, EL!StopInside, EL!Close, EL!otherVars, EL!closeVars
<1>13. CASE EL!DoFunctor
  <2>1. CASE queue_sent /\ ~closing BY <1>13, <2>1 DEF EL!DoFunctor, EL!NothingStranded
  <2>2. CASE ~(queue_sent /\ ~closing) BY <1>2, <1>13, <2>2 DEF EL!DoFunctor, EL!otherVars, EL!closeVars
  <2> QED BY <2>1, <2>2
<1>14. CASE EL!CallFunctor
  <2>1. closing' \/ closing' = closing BY <1>0, <1>14, EffectFacts DEF EL!CallFunctor
  <2> QED BY <1>2, <1>14, <2>1 DEF EL!CallFunctor, EL!otherVars
<1>15. CASE EL!FunctorReturns BY <1>2, <1>15 DEF EL!FunctorReturns, EL!otherVars, EL!closeVars
<1>16. CASE EL!StopLoop BY <1>2, <1>16 DEF EL!StopLoop, EL!Close, EL!otherVars, EL!closeVars
<1>17. CASE EL!RunClosing BY <1>2, <1>17 DEF EL!RunClosing, EL!otherVars, EL!closeVars
<1> QED BY <1>3, <1>4, <1>5, <1>6, <1>7, <1>8, <1>9, <1>10, <1>11, <1>12, <1>13, <1>14,
           <1>15, <1>16, <1>17 DEF EL!Next

LEMMA LoopNext == LoopInv /\ [EL!Next]_(EL!vars) => LoopInv'
BY LoopNextType, LoopNextOrder, LoopNextStarted, LoopNextStranded DEF LoopInv

-----------------------------------------------------------------------------
(* The loop implements Executor.                                           *)

LEMMA LoopInitRefines == (EL!Init \/ EL!Unused) => EL!Promise!Init
BY DEF EL!Init, EL!Unused, EL!Promise!Init

LEMMA LoopNextRefines ==
  LoopInv /\ [EL!Next]_(EL!vars) => [EL!Promise!Next]_(EL!Promise!vars)
<1> SUFFICES ASSUME LoopInv, [EL!Next]_(EL!vars)
             PROVE  [EL!Promise!Next]_(EL!Promise!vars)
  OBVIOUS
<1>0. LoopTypeOK /\ LoopOrder BY DEF LoopInv
<1>1. CASE /\ UNCHANGED <<loop_submitted, loop_ran>>
           /\ (phase' = "in functor") = (phase = "in functor")
  BY <1>1 DEF EL!Promise!vars
<1>2. CASE UNCHANGED EL!vars BY <1>1, <1>2 DEF EL!vars
<1>3. ASSUME NEW p \in Callers, NEW does \in EL!Deeds, EL!RunFunctor(p, does)
      PROVE  [EL!Promise!Next]_(EL!Promise!vars)
  BY <1>1, <1>3 DEF EL!RunFunctor, EL!loopVars
<1>4. ASSUME NEW p \in Callers, EL!CallInline(p)
      PROVE  [EL!Promise!Next]_(EL!Promise!vars)
  BY <1>1, <1>4 DEF EL!CallInline
<1>5. ASSUME NEW p \in Callers, EL!Push(p)
      PROVE  [EL!Promise!Next]_(EL!Promise!vars)
  <2>1. UNCHANGED <<phase, loop_ran>> BY <1>5 DEF EL!Push, EL!loopVars
  <2>2. CASE ~functors_ BY <1>1, <1>5, <2>1, <2>2 DEF EL!Push
  <2>3. CASE functors_
    <3>1. p \in EL!Processes BY DEF EL!Processes
    <3>2. loop_call[p] \in FunctorCalls
      BY <1>0, <1>5, <3>1, LoopCallFacts DEF EL!Push, LoopTypeOK
    <3>3. PICK f \in EL!Functors : f = loop_call[p].f
      BY <3>2 DEF FunctorCalls, LoopFunctors
    <3>4. loop_submitted' = Append(loop_submitted, f) BY <1>5, <2>3, <3>3 DEF EL!Push
    <3>5. EL!Promise!Submit("loop")
      BY <2>1, <3>3, <3>4 DEF EL!Promise!Submit, EL!TheLoop
    <3> QED BY <3>5 DEF EL!Promise!Next, EL!TheLoop
  <2> QED BY <2>2, <2>3
<1>6. ASSUME NEW p \in Callers, EL!Send(p)
      PROVE  [EL!Promise!Next]_(EL!Promise!vars)
  BY <1>1, <1>6 DEF EL!Send, EL!loopVars
<1>7. ASSUME NEW p \in Stoppers, EL!Stop(p)
      PROVE  [EL!Promise!Next]_(EL!Promise!vars)
  BY <1>1, <1>7 DEF EL!Stop, EL!loopVars
<1>8. ASSUME NEW p \in EL!Processes, EL!Notify(p)
      PROVE  [EL!Promise!Next]_(EL!Promise!vars)
  BY <1>1, <1>8 DEF EL!Notify, EL!loopVars
<1>9. ASSUME NEW p \in EL!Processes, EL!CloseInline(p)
      PROVE  [EL!Promise!Next]_(EL!Promise!vars)
  BY <1>1, <1>9 DEF EL!CloseInline
<1>10. CASE EL!Loop BY <1>1, <1>10 DEF EL!Loop, EL!otherVars, EL!closeVars
<1>11. CASE EL!RunTimers BY <1>1, <1>11 DEF EL!RunTimers, EL!otherVars, EL!closeVars
<1>12. CASE EL!DoFunctor BY <1>1, <1>12 DEF EL!DoFunctor, EL!otherVars, EL!closeVars
<1>13. CASE EL!CallFunctor
  <2>1. /\ UNCHANGED loop_submitted
        /\ phase = "functors" /\ phase' = "in functor" /\ todo # <<>>
        /\ loop_ran' = Append(loop_ran, Head(todo))
    BY <1>13 DEF EL!CallFunctor, EL!otherVars, EL!closeVars
  <2>2. /\ loop_queue \in Seq(LoopFunctors) /\ todo \in Seq(LoopFunctors)
        /\ loop_ran \in Seq(LoopFunctors)
    BY <1>0 DEF LoopTypeOK
  <2>3. loop_submitted = loop_ran \o (todo \o loop_queue)
    BY <1>0, <2>1 DEF LoopOrder, LoopRest
  <2>4. Len(loop_ran) < Len(loop_submitted) /\ loop_submitted[Len(loop_ran) + 1] = Head(todo)
    BY <2>1, <2>2, <2>3, LoopFirst
  <2>5. EL!Promise!Begin("loop")
    BY <2>1, <2>4 DEF EL!Promise!Begin, EL!TheLoop
  <2> QED BY <2>5 DEF EL!Promise!Next, EL!TheLoop
<1>14. CASE EL!FunctorReturns
  <2>1. /\ UNCHANGED <<loop_submitted, loop_ran>>
        /\ phase = "in functor" /\ phase' # "in functor"
    BY <1>14 DEF EL!FunctorReturns, EL!otherVars, EL!closeVars
  <2>2. EL!Promise!End("loop") BY <2>1 DEF EL!Promise!End, EL!TheLoop
  <2> QED BY <2>2 DEF EL!Promise!Next, EL!TheLoop
<1>15. CASE EL!StopLoop BY <1>1, <1>15 DEF EL!StopLoop, EL!otherVars, EL!closeVars
<1>16. CASE EL!RunClosing BY <1>1, <1>16 DEF EL!RunClosing, EL!otherVars, EL!closeVars
<1> QED BY <1>2, <1>3, <1>4, <1>5, <1>6, <1>7, <1>8, <1>9, <1>10, <1>11, <1>12, <1>13,
           <1>14, <1>15, <1>16 DEF EL!Next

(* The pool and the loop are serial executors: what threads hand to the    *)
(* queue of a worker or of a loop is carried out once, in the order of its *)
(* acceptance and one functor of an id at a time, for any number of        *)
(* threads, workers, ids and calls, while they start and while they stop.  *)
THEOREM SedaIsExecutor == SedaSpec => SedaImplementsExecutor
<1>1. SedaInit => /\ PoolInv /\ LoopInv /\ Promise!Init /\ EL!Promise!Init
  BY PoolInit, LoopInit, PoolInitRefines, LoopInitRefines DEF SedaInit
<1>2. [SedaNext]_<<vars, loopVars>> => [Next]_vars /\ [EL!Next]_(EL!vars)
  BY DEF SedaNext, loopVars, EL!vars
<1>3. PoolInv /\ [Next]_vars => PoolInv' BY PoolNext
<1>4. LoopInv /\ [EL!Next]_(EL!vars) => LoopInv' BY LoopNext
<1>5. PoolInv /\ PoolInv' /\ [Next]_vars => [Promise!Next]_(Promise!vars)
  BY PoolNextRefines
<1>6. LoopInv /\ [EL!Next]_(EL!vars) => [EL!Promise!Next]_(EL!Promise!vars)
  BY LoopNextRefines
<1> QED BY <1>1, <1>2, <1>3, <1>4, <1>5, <1>6, PTL
        DEF SedaSpec, SedaImplementsExecutor, ImplementsExecutor, EL!ImplementsExecutor,
            Promise!Spec, EL!Promise!Spec

-----------------------------------------------------------------------------
(* The end of the loop, when every thread waits for its start.  Nothing is *)
(* closed before Stop is called; if no call is late, none is under way     *)
(* from then on but the Stop itself.                                       *)

Idle(p) == loop_call[p] = EL!NoCall

Alone ==
  /\ ~fault
  /\ closing \/ stop_sent => EL!StopCalled /\ \A p \in EL!Processes : Idle(p)
  /\ \A p \in Callers : ~Idle(p) => ~EL!StopCalled
  /\ \A p \in Stoppers :
       ~Idle(p) => calls[p] > 0 /\ \A q \in EL!Processes : q # p => Idle(q)

StopInv ==
  wait_first =>
    /\ EL!StopCalled => tid
    /\ ~functors_ \/ ~stop_ => closing
    /\ closing /\ ~added_late => timers \subseteq closed
    /\ phase = "ended" => ~functors_ /\ ~stop_ /\ (timers = {} \/ added_late)
    /\ \A p \in Callers : loop_call[p].at # "stop"
    /\ ~late => Alone

LEMMA StopInit ==
  ASSUME EL!Init \/ EL!Unused
  PROVE  StopInv
<1>1. \A p \in EL!Processes : Idle(p) BY DEF EL!Init, EL!Unused, Idle
<1>2. \A p \in Callers : loop_call[p].at # "stop"
  BY <1>1 DEF Idle, EL!Processes, EL!NoCall
<1>3. CASE EL!Init
  <2>1. ~EL!StopCalled BY <1>3 DEF EL!Init, EL!StopCalled, EL!Processes
  <2> QED BY <1>1, <1>2, <1>3, <2>1 DEF EL!Init, StopInv, Alone, EL!Processes
<1>4. CASE EL!Unused
  <2>1. EL!StopCalled BY <1>4 DEF EL!Unused, EL!StopCalled
  <2> QED BY <1>1, <1>2, <1>4, <2>1 DEF EL!Unused, StopInv, Alone, EL!Processes
<1> QED BY <1>3, <1>4

(* A step that leaves the calls, the handles and the timers alone.         *)
LEMMA StopQuiet ==
  ASSUME StopInv,
         UNCHANGED <<wait_first, closing, closed, functors_, stop_, timers, stop_sent, loop_call,
                     calls, late, added_late, fault>>,
         tid => tid', phase' = "ended" => phase = "ended"
  PROVE  StopInv'
<1>1. EL!StopCalled' <=> EL!StopCalled BY DEF EL!StopCalled
<1>2. Alone => Alone' BY <1>1 DEF Alone, Idle
<1> QED BY <1>1, <1>2 DEF StopInv

(* Stop in the loop thread.                                                *)
LEMMA StopInsideKeeps ==
  ASSUME LoopInv, StopInv, EL!StopInside,
         UNCHANGED <<wait_first, tid, functors_, stop_, timers, stop_sent, loop_call, calls,
                     added_late>>,
         phase # "created", phase # "ended", phase' # "ended"
  PROVE  StopInv'
<1> SUFFICES ASSUME wait_first PROVE StopInv' BY DEF StopInv
<1>1. /\ closing' = TRUE /\ closed' = timers /\ fault' = (fault \/ closing)
      /\ late' = (late \/ EL!StopCalled \/ \E q \in EL!Processes : loop_call[q] # EL!NoCall)
  BY DEF EL!StopInside, EL!Close
<1>2. tid BY DEF LoopInv, LoopStarted
<1>3. EL!StopCalled' BY <1>1 DEF EL!StopCalled
<1>4. ASSUME ~late' PROVE Alone'
  <2>1. ~late /\ ~EL!StopCalled /\ \A q \in EL!Processes : Idle(q) BY <1>1, <1>4 DEF Idle
  <2>2. ~closing BY <2>1 DEF EL!StopCalled
  <2>3. ~fault' BY <1>1, <2>1, <2>2 DEF StopInv, Alone
  <2>4. \A q \in EL!Processes : Idle(q)' BY <2>1 DEF Idle
  <2> QED BY <1>3, <2>3, <2>4 DEF Alone, EL!Processes
<1> QED BY <1>1, <1>2, <1>3, <1>4 DEF StopInv

LEMMA StopNext ==
  ASSUME LoopInv, StopInv, [EL!Next]_(EL!vars)
  PROVE  StopInv'
<1>0. LoopTypeOK /\ LoopStarted BY DEF LoopInv
<1>1. /\ loop_call \in [EL!Processes -> LoopCalls] /\ calls \in [EL!Processes -> Nat]
      /\ EL!NoCall.at = "none"
      /\ Stoppers \subseteq EL!Processes /\ Callers \subseteq EL!Processes
      /\ Callers \cap Stoppers = {}
  BY <1>0, LoopAssumption DEF LoopTypeOK, EL!NoCall, EL!Processes
<1>2. CASE UNCHANGED EL!vars BY <1>2, StopQuiet DEF EL!vars
<1>3. ASSUME NEW p \in Callers, NEW does \in EL!Deeds, EL!RunFunctor(p, does)
      PROVE  StopInv'
  <2>1. /\ UNCHANGED <<wait_first, tid, phase, closing, closed, functors_, stop_, timers,
                       added_late, stop_sent, fault>>
        /\ late' = (late \/ EL!StopCalled)
        /\ Idle(p)
    BY <1>3 DEF EL!RunFunctor, EL!loopVars, Idle
  <2>2. /\ \A q \in EL!Processes : q # p => loop_call'[q] = loop_call[q] /\ calls'[q] = calls[q]
        /\ loop_call'[p].at # "stop"
    BY <1>1, <1>3 DEF EL!RunFunctor
  <2>3. EL!StopCalled' <=> EL!StopCalled BY <1>1, <2>1, <2>2 DEF EL!StopCalled
  <2>4. ASSUME ~late', ~late => Alone PROVE Alone'
    <3>1. ~late /\ Alone /\ ~EL!StopCalled BY <2>1, <2>4
    <3>2. ~closing /\ ~stop_sent BY <3>1 DEF Alone
    <3>3. \A q \in Stoppers : Idle(q) BY <3>1, <1>1 DEF Alone, EL!StopCalled
    <3>4. \A q \in Stoppers : Idle(q)' BY <1>1, <2>2, <3>3 DEF Idle
    <3> QED BY <2>1, <2>3, <3>1, <3>2, <3>4 DEF Alone
  <2> QED BY <1>1, <2>1, <2>2, <2>3, <2>4 DEF StopInv
<1>4. ASSUME NEW p \in Callers, EL!CallInline(p) PROVE StopInv'
  <2>1. ~wait_first BY <1>0, <1>1, <1>4 DEF EL!CallInline, LoopStarted
  <2> QED BY <1>4, <2>1 DEF EL!CallInline, StopInv
<1>5. ASSUME NEW p \in Callers, EL!Push(p) PROVE StopInv'
  <2> SUFFICES ASSUME wait_first PROVE StopInv' BY <1>5 DEF EL!Push, EL!loopVars, StopInv
  <2>1. UNCHANGED <<wait_first, tid, phase, closing, closed, functors_, stop_, timers, added_late,
                    stop_sent, calls, late>>
    BY <1>5 DEF EL!Push, EL!loopVars
  <2>2. loop_call[p] \in FunctorCalls /\ ~Idle(p)
    BY <1>1, <1>5, LoopCallFacts DEF EL!Push, Idle
  <2>3. PICK at \in {"send", "faulted"} :
           loop_call' = [loop_call EXCEPT ![p] = [loop_call[p] EXCEPT !.at = at]]
    BY <1>5 DEF EL!Push
  <2>4. [loop_call[p] EXCEPT !.at = at].at = at BY <2>2 DEF FunctorCalls
  <2>5. /\ \A q \in EL!Processes : q # p => loop_call'[q] = loop_call[q]
        /\ loop_call'[p].at # "stop"
    BY <1>1, <2>3, <2>4
  <2>6. EL!StopCalled' <=> EL!StopCalled BY <2>1 DEF EL!StopCalled
  <2>7. ASSUME ~late', Alone PROVE Alone'
    <3>1. ~EL!StopCalled /\ ~closing BY <2>2, <2>7 DEF Alone, EL!StopCalled
    <3>2. functors_ BY <3>1 DEF StopInv
    <3>3. UNCHANGED fault BY <1>5, <3>2 DEF EL!Push
    <3>4. \A q \in Stoppers : Idle(q) /\ Idle(q)' BY <1>1, <2>2, <2>5, <2>7 DEF Alone, Idle
    <3>5. ~stop_sent BY <3>1, <2>7 DEF Alone
    <3> QED BY <2>1, <2>6, <2>7, <3>1, <3>3, <3>4, <3>5 DEF Alone
  <2> QED BY <1>1, <2>1, <2>5, <2>6, <2>7 DEF StopInv
<1>6. ASSUME NEW p \in Callers, EL!Send(p) PROVE StopInv'
  <2>1. /\ UNCHANGED <<wait_first, tid, phase, closing, closed, functors_, stop_, timers,
                       added_late, stop_sent, calls, late, fault>>
        /\ loop_call' = [loop_call EXCEPT ![p] = EL!NoCall]
    BY <1>6 DEF EL!Send, EL!loopVars
  <2>2. \A q \in EL!Processes : loop_call'[q] \in {loop_call[q], EL!NoCall} BY <1>1, <2>1
  <2>3. EL!StopCalled' <=> EL!StopCalled BY <2>1 DEF EL!StopCalled
  <2>4. \A q \in EL!Processes : Idle(q) => Idle(q)' BY <2>2 DEF Idle
  <2>5. Alone => Alone' BY <1>1, <2>1, <2>3, <2>4 DEF Alone
  <2> QED BY <1>1, <2>1, <2>2, <2>3, <2>5 DEF StopInv
<1>7. ASSUME NEW p \in Stoppers, EL!Stop(p) PROVE StopInv'
  <2> SUFFICES ASSUME wait_first PROVE StopInv' BY <1>7 DEF EL!Stop, EL!loopVars, StopInv
  <2>1. /\ UNCHANGED <<wait_first, tid, phase, closing, closed, functors_, stop_, timers,
                       added_late, stop_sent, fault>>
        /\ EL!MayCall
        /\ calls' = [calls EXCEPT ![p] = @ + 1]
        /\ late' = (late \/ EL!StopCalled
                      \/ \E q \in EL!Processes \ {p} : loop_call[q] # EL!NoCall)
    BY <1>7 DEF EL!Stop, EL!loopVars, EL!LateFor
  <2>2. calls'[p] > 0 BY <1>1, <2>1
  <2>3. \A q \in EL!Processes : q # p => loop_call'[q] = loop_call[q] BY <1>1, <1>7 DEF EL!Stop
  <2>4. tid BY <1>0, <2>1 DEF EL!MayCall, LoopStarted
  <2>5. p \notin Callers BY <1>1
  <2>6. ASSUME ~late', ~late => Alone PROVE Alone'
    <3>1. ~late /\ Alone /\ ~EL!StopCalled /\ \A q \in EL!Processes : q # p => Idle(q)
      BY <2>1, <2>6 DEF Idle
    <3>2. ~closing /\ ~stop_sent BY <3>1 DEF Alone
    <3>3. \A q \in EL!Processes : q # p => Idle(q)' BY <2>3, <3>1 DEF Idle
    <3> QED BY <1>1, <2>1, <2>2, <2>5, <3>1, <3>2, <3>3 DEF Alone
  <2> QED BY <1>1, <2>1, <2>3, <2>4, <2>5, <2>6 DEF StopInv
<1>8. ASSUME NEW p \in EL!Processes, EL!Notify(p) PROVE StopInv'
  <2> SUFFICES ASSUME wait_first PROVE StopInv' BY <1>8 DEF EL!Notify, EL!loopVars, StopInv
  <2>1. /\ UNCHANGED <<wait_first, tid, phase, closing, closed, functors_, stop_, timers,
                       added_late, calls, late>>
        /\ loop_call[p].at = "stop"
        /\ fault' = (fault \/ ~stop_)
        /\ loop_call' = [loop_call EXCEPT ![p] = EL!NoCall]
    BY <1>8 DEF EL!Notify, EL!loopVars
  <2>2. ~Idle(p) /\ p \in Stoppers BY <1>1, <2>1 DEF Idle, StopInv, EL!Processes
  <2>3. \A q \in EL!Processes : loop_call'[q] \in {loop_call[q], EL!NoCall} BY <1>1, <2>1
  <2>4. EL!StopCalled' <=> EL!StopCalled BY <2>1 DEF EL!StopCalled
  <2>5. ASSUME Alone PROVE Alone'
    <3>1. calls[p] > 0 /\ \A q \in EL!Processes : q # p => Idle(q) BY <2>2, <2>5 DEF Alone
    <3>2. \A q \in EL!Processes : Idle(q)' BY <1>1, <2>1, <2>3, <3>1 DEF Idle
    <3>3. EL!StopCalled BY <2>2, <3>1 DEF EL!StopCalled
    <3>4. ~closing BY <2>2, <2>5 DEF Alone
    <3>5. stop_ BY <3>4 DEF StopInv
    <3> QED BY <1>1, <2>1, <2>4, <2>5, <3>2, <3>3, <3>5 DEF Alone
  <2> QED BY <1>1, <2>1, <2>3, <2>4, <2>5 DEF StopInv
<1>9. ASSUME NEW p \in EL!Processes, EL!CloseInline(p) PROVE StopInv'
  <2>1. ~wait_first BY <1>0, <1>9 DEF EL!CloseInline, LoopStarted
  <2> QED BY <1>9, <2>1 DEF EL!CloseInline, StopInv
<1>10. CASE EL!Loop
  <2> SUFFICES ASSUME wait_first PROVE StopInv' BY <1>10 DEF EL!Loop, EL!otherVars, StopInv
  <2>1. /\ UNCHANGED <<wait_first, closing, closed, functors_, stop_, timers, stop_sent, calls,
                       loop_call, late, added_late, fault>>
        /\ tid' = TRUE /\ phase = "created"
        /\ phase' = IF closing THEN "ended" ELSE "timers"
    BY <1>10 DEF EL!Loop, EL!otherVars, EL!closeVars
  <2>2. ~tid BY <1>0, <2>1 DEF LoopStarted
  <2>3. ~closing BY <2>2 DEF StopInv, EL!StopCalled
  <2>4. phase' # "ended" BY <2>1, <2>3
  <2> QED BY <2>1, <2>4, StopQuiet
<1>11. CASE EL!RunTimers
  <2>1. /\ UNCHANGED <<wait_first, tid, functors_, stop_, timers, stop_sent, loop_call, calls>>
        /\ phase = "timers" /\ phase' = "poll"
    BY <1>11 DEF EL!RunTimers, EL!otherVars
  <2>2. CASE UNCHANGED EL!closeVars BY <2>1, <2>2, StopQuiet DEF EL!closeVars
  <2>3. CASE EL!StopInside /\ UNCHANGED added_late BY <2>1, <2>3, StopInsideKeeps
  <2> QED BY <1>11, <2>2, <2>3 DEF EL!RunTimers
<1>12. CASE EL!DoFunctor
  <2>1. /\ UNCHANGED <<wait_first, tid, closing, closed, functors_, stop_, timers, stop_sent, calls,
                       loop_call, late, added_late, fault>>
        /\ phase' # "ended"
    BY <1>12 DEF EL!DoFunctor, EL!otherVars, EL!closeVars
  <2> QED BY <2>1, StopQuiet
<1>13. CASE EL!CallFunctor
  <2>1. /\ UNCHANGED <<wait_first, tid, functors_, stop_, stop_sent, loop_call, calls>>
        /\ phase = "functors" /\ phase' = "in functor"
    BY <1>13 DEF EL!CallFunctor, EL!otherVars
  <2>0. PICK f : EL!Effect(f) BY <1>13 DEF EL!CallFunctor
  <2>2. CASE EL!AddTimer(f) /\ UNCHANGED <<closing, closed, fault, late>>
    <3>1. EL!StopCalled' <=> EL!StopCalled BY <2>1, <2>2 DEF EL!StopCalled
    <3>2. Alone => Alone' BY <2>1, <2>2, <3>1 DEF Alone, Idle
    <3>3. (closing /\ ~added_late') => FALSE BY <2>2 DEF EL!AddTimer
    <3>4. added_late => added_late' BY <2>2 DEF EL!AddTimer
    <3> QED BY <2>1, <2>2, <3>1, <3>2, <3>3, <3>4 DEF StopInv
  <2>3. CASE EL!StopInside /\ UNCHANGED <<timers, added_late>>
    BY <2>1, <2>3, StopInsideKeeps
  <2>4. CASE UNCHANGED <<timers, EL!closeVars>>
    BY <2>1, <2>4, StopQuiet DEF EL!closeVars
  <2> QED BY <2>0, <2>2, <2>3, <2>4 DEF EL!Effect
<1>14. CASE EL!FunctorReturns
  <2>1. /\ UNCHANGED <<wait_first, tid, closing, closed, functors_, stop_, timers, stop_sent, calls,
                       loop_call, late, added_late, fault>>
        /\ phase' # "ended"
    BY <1>14 DEF EL!FunctorReturns, EL!otherVars, EL!closeVars
  <2> QED BY <2>1, StopQuiet
<1>15. CASE EL!StopLoop
  <2>1. /\ UNCHANGED <<wait_first, tid, functors_, stop_, timers, calls, loop_call, late, added_late>>
        /\ phase' = "closing" /\ stop_sent' = FALSE
    BY <1>15 DEF EL!StopLoop, EL!otherVars
  <2>2. CASE stop_sent /\ ~closing
    <3>1. closing' = TRUE /\ closed' = timers /\ fault' = fault
      BY <1>0, <1>15, <2>2 DEF EL!StopLoop, EL!Close, LoopTypeOK
    <3>2. EL!StopCalled' BY <3>1 DEF EL!StopCalled
    <3>3. tid BY <1>0, <1>15 DEF EL!StopLoop, LoopStarted
    <3>4. ASSUME Alone PROVE Alone'
      <4>1. \A q \in EL!Processes : Idle(q)' BY <2>1, <2>2, <3>4 DEF Alone, Idle
      <4> QED BY <1>1, <3>1, <3>2, <3>4, <4>1 DEF Alone
    <3> QED BY <2>1, <3>1, <3>2, <3>3, <3>4 DEF StopInv
  <2>3. CASE ~(stop_sent /\ ~closing)
    <3>1. UNCHANGED <<closing, closed, fault>> BY <1>15, <2>3 DEF EL!StopLoop
    <3>2. EL!StopCalled' <=> EL!StopCalled BY <2>1, <3>1 DEF EL!StopCalled
    <3>3. Alone => Alone' BY <2>1, <3>1, <3>2 DEF Alone, Idle
    <3> QED BY <2>1, <3>1, <3>2, <3>3 DEF StopInv
  <2> QED BY <2>2, <2>3
<1>16. CASE EL!RunClosing
  <2>1. UNCHANGED <<wait_first, tid, closing, closed, stop_sent, calls, loop_call, late,
                    added_late, fault>>
    BY <1>16 DEF EL!RunClosing, EL!otherVars, EL!closeVars
  <2>4. EL!StopCalled' <=> EL!StopCalled BY <2>1 DEF EL!StopCalled
  <2>5. Alone => Alone' BY <2>1, <2>4 DEF Alone, Idle
  <2>2. CASE closing
    <3>1. timers' = timers \ closed /\ functors_' = FALSE /\ stop_' = FALSE
      BY <1>16, <2>2 DEF EL!RunClosing, EL!TimersAfterClose
    <3>2. ASSUME timers \subseteq closed PROVE timers' = {} BY <3>1, <3>2
    <3> QED BY <2>1, <2>2, <2>4, <2>5, <3>1, <3>2 DEF StopInv
  <2>3. CASE ~closing
    <3>1. UNCHANGED <<timers, functors_, stop_>> /\ phase' # "ended"
      BY <1>16, <2>3 DEF EL!RunClosing
    <3> QED BY <2>1, <3>1, StopQuiet
  <2> QED BY <2>2, <2>3
<1> QED BY <1>2, <1>3, <1>4, <1>5, <1>6, <1>7, <1>8, <1>9, <1>10, <1>11, <1>12, <1>13,
           <1>14, <1>15, <1>16 DEF EL!Next

(* An EventLoop whose users call WaitStarted first does its work in its    *)
(* own thread and leaves no functor in its queue without a callback due.   *)
(* If Stop is called once, by any thread, by a functor or by a timer, with *)
(* every other call returned and none after it, no handle is used after    *)
(* its close, and the loop ends with none open, except a timer that a      *)
(* functor adds to the loop after it was closed.                           *)
THEOREM LoopsAreSafe == SedaSpec => []LoopSafe
<1>1. SedaInit => LoopInv /\ StopInv BY LoopInit, StopInit DEF SedaInit
<1>2. [SedaNext]_<<vars, loopVars>> => [EL!Next]_(EL!vars)
  BY DEF SedaNext, loopVars, EL!vars
<1>3. LoopInv /\ [EL!Next]_(EL!vars) => LoopInv' BY LoopNext
<1>4. LoopInv /\ StopInv /\ [EL!Next]_(EL!vars) => StopInv' BY StopNext
<1>5. LoopInv /\ StopInv => LoopSafe
  BY DEF LoopSafe, LoopInv, LoopStarted, StopInv, Alone, EL!FunctorsOnLoopThread, EL!EndsClean
<1> QED BY <1>1, <1>2, <1>3, <1>4, <1>5, PTL DEF SedaSpec
=============================================================================
