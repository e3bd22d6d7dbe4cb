------------------------------ MODULE WorkThread ------------------------------
(***************************************************************************)
(* WorkThreadPool and WorkThread: bounded queues between the threads that  *)
(* push functors and the worker threads that carry them out, with one      *)
(* mutex and two condition variables for each worker.                      *)
(*                                                                         *)
(* A step is a critical section, a notification, or a step of a functor.   *)
(* Waiting on a condition variable is being asleep; a notification or a    *)
(* spurious wake-up ends the sleep, and the predicate is then evaluated    *)
(* again under the lock.  `call` holds the Push each process is in: the    *)
(* producers, the thread that stops the pool, and the workers themselves   *)
(* when a functor pushes another.                                          *)
(***************************************************************************)
EXTENDS Naturals, Sequences

CONSTANTS Producers,  \* the threads that push functors
          Pushing,    \* those whose functors push another functor
          ThreadNum,  \* workers in the pool
          Ids,        \* the ids functors are pushed under
          MaxQueue,   \* max_queue_size_
          MaxPush     \* bound: functors each producer pushes

ASSUME PoolAssumption ==
  /\ ThreadNum \in Nat \ {0}
  /\ MaxQueue \in Nat \ {0}
  /\ MaxPush \in Nat
  /\ Ids \subseteq Nat
  /\ Producers \subseteq Nat
  /\ Pushing \subseteq Producers
  /\ \A p \in Producers : p > ThreadNum

Threads == 0..(ThreadNum - 1)
Stopper == ThreadNum
Processes == Producers \cup Threads \cup {Stopper}

VARIABLES
  started,   \* started_, by thread
  queue,     \* functors_, by thread
  batch,     \* tmp_functors of Run, by thread
  pc,        \* where Run is, by thread
  call,      \* the Push a process is in
  pushed,    \* how many Pushes a process has begun
  submitted, ran,  \* history, by id: what was accepted and what was carried out
  owed       \* history, by thread: what was accepted before the Stop, by id

vars == <<started, queue, batch, pc, call, pushed, submitted, ran, owed>>

NoCall == [at |-> "none"]

(* The functor that stops a worker; those a producer pushes, and those     *)
(* that they push in turn.                                                 *)
StopFunctor == [stop |-> TRUE]
Functor(p, i) ==
  [stop |-> FALSE, by |-> p, n |-> pushed[p] + 1, id |-> i, pushes |-> p \in Pushing]
PushedBy(f) == [f EXCEPT !.pushes = FALSE]
Functors ==
  [stop : {FALSE}, by : Producers, n : 1..MaxPush, id : Ids, pushes : BOOLEAN]

\* Mutant: whichever worker is next takes the functor
PartitionNext(id) == (id + Len(submitted[id])) % ThreadNum

PartitionId(id) == id % ThreadNum

(* WorkThreadPool::Start; the threads of the pool have been created.       *)
Init ==
  /\ started = [t \in Threads |-> TRUE]
  /\ queue = [t \in Threads |-> <<>>]
  /\ batch = [t \in Threads |-> <<>>]
  /\ pc = [t \in Threads |-> "lock"]
  /\ call = [p \in Processes |-> NoCall]
  /\ pushed = [p \in Processes |-> 0]
  /\ submitted = [i \in Ids |-> <<>>]
  /\ ran = [i \in Ids |-> <<>>]
  /\ owed = [t \in Threads |-> [i \in Ids |-> 0]]

-----------------------------------------------------------------------------
(* Push, by any process.                                                   *)

Begin(p, t, f) ==
  /\ call[p] = NoCall
  /\ call' = [call EXCEPT ![p] = [at |-> "lock", t |-> t, f |-> f]]
  /\ pushed' = [pushed EXCEPT ![p] = @ + 1]

PoolPush(p, i) ==
  /\ pushed[p] < MaxPush
  /\ Begin(p, PartitionId(i), Functor(p, i))
  /\ UNCHANGED <<started, queue, batch, pc, submitted, ran, owed>>

(* WorkThreadPool::Stop goes through the threads and pushes to each the    *)
(* functor that clears started_.                                           *)
PoolStop ==
  /\ pushed[Stopper] < ThreadNum
  /\ Begin(Stopper, pushed[Stopper], StopFunctor)
  /\ UNCHANGED <<started, queue, batch, pc, submitted, ran, owed>>

HasRoom(t) == Len(queue[t]) < MaxQueue

PushBack(t, f) == Append(queue[t], f)

(* The critical section of Push: append the functor, or wait for room.     *)
LockAndPush(p) ==
  /\ call[p].at = "lock"
  /\ LET t == call[p].t
         f == call[p].f
     IN  IF HasRoom(t)
           THEN /\ queue' = [queue EXCEPT ![t] = PushBack(t, f)]
                /\ call' = [call EXCEPT ![p].at = "notify"]
                /\ IF f.stop
                     THEN /\ owed' = [owed EXCEPT ![t] = [i \in Ids |-> Len(submitted[i])]]
                          /\ UNCHANGED submitted
                     ELSE /\ submitted' = [submitted EXCEPT ![f.id] = Append(@, f)]
                          /\ UNCHANGED owed
           ELSE /\ call' = [call EXCEPT ![p].at = "asleep"]
                /\ UNCHANGED <<queue, submitted, owed>>
  /\ UNCHANGED <<started, batch, pc, pushed, ran>>

\* Mutant: the consumer is not notified
NotWoken(t) == pc

Woken(t) == IF pc[t] = "asleep" THEN [pc EXCEPT ![t] = "lock"] ELSE pc

(* consumer_cv_.notify_one, outside the lock.                              *)
NotifyConsumer(p) ==
  /\ call[p].at = "notify"
  /\ pc' = Woken(call[p].t)
  /\ call' = [call EXCEPT ![p] = NoCall]
  /\ UNCHANGED <<started, queue, batch, pushed, submitted, ran, owed>>

-----------------------------------------------------------------------------
(* Run, by a worker.                                                       *)

\* Mutant: only the newest functor is taken, the others are lost
TakenNewest(t) == <<queue[t][Len(queue[t])]>>

Taken(t) == queue[t]

(* The critical section of Run: take the whole queue, or wait.             *)
LockAndTake(t) ==
  /\ pc[t] = "lock"
  /\ IF queue[t] = <<>>
       THEN /\ pc' = [pc EXCEPT ![t] = "asleep"]
            /\ UNCHANGED <<queue, batch>>
       ELSE /\ batch' = [batch EXCEPT ![t] = Taken(t)]
            /\ queue' = [queue EXCEPT ![t] = <<>>]
            /\ pc' = [pc EXCEPT ![t] = "notify"]
  /\ UNCHANGED <<started, call, pushed, submitted, ran, owed>>

\* Mutant: the producers are not notified
WakeNobody(t) == call

(* producer_cv_.notify_all.                                                *)
WakeProducers(t) ==
  [p \in Processes |->
     IF call[p].at = "asleep" /\ call[p].t = t THEN [call[p] EXCEPT !.at = "lock"]
                                               ELSE call[p]]

NotifyProducers(t) ==
  /\ pc[t] = "notify"
  /\ call' = WakeProducers(t)
  /\ pc' = [pc EXCEPT ![t] = "work"]
  /\ UNCHANGED <<started, queue, batch, pushed, submitted, ran, owed>>

(* The next functor of the batch starts: the stop functor, a functor, or a *)
(* functor that pushes another under its own id.                           *)
BeginItem(t) ==
  /\ pc[t] = "work"
  /\ batch[t] # <<>>
  /\ LET f == Head(batch[t])
     IN  IF f.stop
           THEN /\ started' = [started EXCEPT ![t] = FALSE]
                /\ batch' = [batch EXCEPT ![t] = Tail(@)]
                /\ UNCHANGED <<pc, call, pushed, ran>>
           ELSE /\ pc' = [pc EXCEPT ![t] = "item"]
                /\ ran' = [ran EXCEPT ![f.id] = Append(@, f)]
                /\ IF f.pushes
                     THEN Begin(t, PartitionId(f.id), PushedBy(f))
                     ELSE UNCHANGED <<call, pushed>>
                /\ UNCHANGED <<started, batch>>
  /\ UNCHANGED <<queue, submitted, owed>>

EndItem(t) ==
  /\ pc[t] = "item"
  /\ call[t] = NoCall
  /\ batch' = [batch EXCEPT ![t] = Tail(@)]
  /\ pc' = [pc EXCEPT ![t] = "work"]
  /\ UNCHANGED <<started, queue, call, pushed, submitted, ran, owed>>

(* The condition of the loop of Run; only the worker itself writes it.     *)
EndBatch(t) ==
  /\ pc[t] = "work"
  /\ batch[t] = <<>>
  /\ pc' = [pc EXCEPT ![t] = IF started[t] THEN "lock" ELSE "ended"]
  /\ UNCHANGED <<started, queue, batch, call, pushed, submitted, ran, owed>>

-----------------------------------------------------------------------------

SpuriousProducer(p) ==
  /\ call[p].at = "asleep"
  /\ call' = [call EXCEPT ![p].at = "lock"]
  /\ UNCHANGED <<started, queue, batch, pc, pushed, submitted, ran, owed>>

SpuriousConsumer(t) ==
  /\ pc[t] = "asleep"
  /\ pc' = [pc EXCEPT ![t] = "lock"]
  /\ UNCHANGED <<started, queue, batch, call, pushed, submitted, ran, owed>>

RunStep(t) ==
  \/ LockAndTake(t) \/ NotifyProducers(t)
  \/ BeginItem(t) \/ EndItem(t) \/ EndBatch(t)

Next ==
  \/ \E p \in Producers, i \in Ids : PoolPush(p, i)
  \/ PoolStop
  \/ \E p \in Processes : LockAndPush(p)
  \/ \E p \in Processes : NotifyConsumer(p)
  \/ \E t \in Threads : LockAndTake(t)
  \/ \E t \in Threads : NotifyProducers(t)
  \/ \E t \in Threads : BeginItem(t)
  \/ \E t \in Threads : EndItem(t)
  \/ \E t \in Threads : EndBatch(t)
  \/ \E p \in Processes : SpuriousProducer(p)
  \/ \E t \in Threads : SpuriousConsumer(t)

(* The operating system runs every thread that can run; std::mutex is not  *)
(* fair, so a process that competes for a lock is only served if it asks   *)
(* again and again.  Nobody is obliged to stop the pool, but Stop goes on  *)
(* to the next thread.  A spurious wake-up is never owed.                  *)
Fairness ==
  /\ \A p \in Processes : WF_vars(LockAndPush(p)) /\ WF_vars(NotifyConsumer(p))
  /\ \A t \in Threads : WF_vars(RunStep(t))
  /\ WF_vars(pushed[Stopper] > 0 /\ PoolStop)

Spec == Init /\ [][Next]_vars /\ Fairness

(* A pool that was started and stopped, and never used.                    *)
Unused ==
  /\ started = [t \in Threads |-> FALSE]
  /\ queue = [t \in Threads |-> <<>>]
  /\ batch = [t \in Threads |-> <<>>]
  /\ pc = [t \in Threads |-> "ended"]
  /\ call = [p \in Processes |-> NoCall]
  /\ pushed = [p \in Processes |-> MaxPush + ThreadNum]
  /\ submitted = [i \in Ids |-> <<>>]
  /\ ran = [i \in Ids |-> <<>>]
  /\ owed = [t \in Threads |-> [i \in Ids |-> 0]]

-----------------------------------------------------------------------------

Running(i) == \E t \in Threads : pc[t] = "item" /\ Head(batch[t]).id = i

Promise == INSTANCE Executor WITH running <- [i \in Ids |-> Running(i)]

(* "Messages with the same RaftId are always processed by the same thread" *)
(* and a work thread processes them "sequentially": the pool is a per-id   *)
(* serial executor, whatever threads push and stop it.                     *)
ImplementsExecutor == Promise!Spec

(* A worker that has ended has carried out everything that was accepted on *)
(* it before its Stop was.                                                 *)
StopDrains ==
  \A t \in Threads : pc[t] = "ended" =>
     \A i \in Ids : PartitionId(i) = t => Len(ran[i]) >= owed[t][i]

Stopped == pushed[Stopper] > 0

(* A functor waits for room in the queue of the worker that runs it: Push  *)
(* is declared "call in any thread", but this one never returns.           *)
WaitsForItself == \E t \in Threads : call[t].at = "asleep"

(* Whoever calls Push returns from it, the thread that stops the pool      *)
(* included, with two exceptions: a functor that pushes to its own worker  *)
(* when the queue is full takes everybody with it, and a worker that has   *)
(* been stopped makes no room any more.                                    *)
PushReturns ==
  \A p \in Producers \cup {Stopper} :
     (call[p] # NoCall) ~> \/ call[p] = NoCall
                           \/ ~started[call[p].t]
                           \/ WaitsForItself

(* Everything accepted is carried out in the end, with the same exceptions.*)
EverythingRuns ==
  \A i \in Ids :
     (ran[i] # submitted[i]) ~> \/ ran[i] = submitted[i]
                               \/ ~started[PartitionId(i)]
                               \/ WaitsForItself

(* A pool that is stopped ends, whatever is pushed meanwhile: Join returns,*)
(* unless a functor waits for itself.                                      *)
StopEndsThreads ==
  Stopped ~> ((\A t \in Threads : pc[t] = "ended") \/ WaitsForItself)
==============================================================================
