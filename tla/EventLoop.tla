------------------------------- MODULE EventLoop -------------------------------
(***************************************************************************)
(* LoopThread, EventLoop, AsyncQueue, AsyncStop, CountDownLatch and the    *)
(* life of a Timer: a libuv loop in a thread of its own, and the threads   *)
(* that hand it functors and stop it.                                      *)
(*                                                                         *)
(* The loop's phases are those of uv_run: timers, the callback of the      *)
(* functor queue, the callback of the stop handle, the callbacks of the    *)
(* handles that were closed.  uv_async_send sets a flag, so several sends  *)
(* before the callback make one call of it.                                *)
(***************************************************************************)
EXTENDS Naturals, Sequences

CONSTANTS Callers,    \* threads that call RunFunctor
          Stoppers,   \* threads that call Stop
          MaxCalls    \* bound: calls of RunFunctor by each caller

Processes == Callers \cup Stoppers

VARIABLES
  wait_first,  \* whether the threads call WaitStarted before anything else
  tid,       \* tid_ is set
  phase,     \* where the loop thread is
  closing,   \* Close has been called (and uv_stop)
  closed,    \* timers2: the timers it has closed
  functors_, stop_,      \* the two pointers: open, or reset to null
  queue, todo,           \* AsyncQueue::functors_, todo_queue of DoFunctor
  queue_sent, stop_sent, \* the pending flags of the two uv_async_t
  timers,    \* timers_
  latch,     \* latch_
  call,      \* the RunFunctor or Stop a thread is in
  calls,     \* how many it has made
  submitted, ran,  \* history: what the queue accepted, what the loop carried out
  off_loop,  \* history: some other thread did the loop's work
  late,      \* history: a RunFunctor or Stop of another thread had not returned
             \*   when Stop was called
  added_late, \* history: a functor added a timer after Close
  fault      \* history: a pointer that was reset, or a handle that was closed, was used

loopVars == <<wait_first, tid, phase, closing, closed, functors_, stop_, todo, timers, latch,
              added_late>>
vars == <<wait_first, tid, phase, closing, closed, functors_, stop_, queue, todo, queue_sent,
          stop_sent, timers, latch, call, calls, submitted, ran, off_loop, late, added_late, fault>>

NoCall == [at |-> "none"]
StartTimer == [by |-> "start", n |-> 0, does |-> "timer"]

(* What a functor does to the loop: it may add a timer, which has the      *)
(* functor's name here, or call Stop.                                      *)
Deeds == {"nothing", "timer", "stop"}
Functors == [by : Callers, n : 1..MaxCalls, does : Deeds]

(* The constructors of LoopThread and EventLoop, and EventLoop::Init; the  *)
(* thread is about to run Loop.                                            *)
Init ==
  /\ wait_first \in BOOLEAN
  /\ tid = FALSE
  /\ phase = "created"
  /\ closing = FALSE /\ closed = {}
  /\ functors_ = TRUE /\ stop_ = TRUE
  /\ queue = <<>> /\ todo = <<>>
  /\ queue_sent = FALSE /\ stop_sent = FALSE
  /\ timers = {StartTimer}
  /\ latch = 1
  /\ call = [p \in Processes |-> NoCall]
  /\ calls = [p \in Processes |-> 0]
  /\ submitted = <<>> /\ ran = <<>>
  /\ off_loop = FALSE /\ late = FALSE /\ added_late = FALSE /\ fault = FALSE

(* What IsInLoopThread answers to another thread: yes, as long as tid_ is  *)
(* 0.  tid_ is a plain int, so a thread that has not synchronised with the *)
(* loop (WaitStarted) may still read 0 later.                              *)
IsInLoopThread == IF wait_first THEN {~tid} ELSE {~tid, TRUE}

\* Mutant: the latch is down from the beginning
MayCallAtOnce == TRUE

(* WaitStarted returns when the latch is down.                             *)
MayCall == ~wait_first \/ latch = 0

-----------------------------------------------------------------------------
(* RunFunctor, by another thread.                                          *)

StopCalled == closing \/ \E p \in Stoppers : calls[p] > 0

RunFunctor(p, does) ==
  /\ call[p] = NoCall
  /\ calls[p] < MaxCalls
  /\ MayCall
  /\ calls' = [calls EXCEPT ![p] = @ + 1]
  /\ \E inside \in IsInLoopThread :
        call' = [call EXCEPT ![p] =
                   [at |-> IF inside THEN "inline" ELSE "push",
                    f |-> [by |-> p, n |-> calls[p] + 1, does |-> does]]]
  /\ late' = (late \/ StopCalled)
  /\ UNCHANGED <<loopVars, queue, queue_sent, stop_sent, submitted, ran, off_loop, fault>>

AddTimer(f) ==
  /\ timers' = timers \cup {f}
  /\ added_late' = (added_late \/ closing)

(* Where a Stop goes on: Close if it is called in the loop thread, or so   *)
(* it seems, else Notify.                                                  *)
Stopping(inside) == [at |-> IF inside THEN "close" ELSE "stop"]

LateFor(p) == late \/ StopCalled \/ \E q \in Processes \ {p} : call[q] # NoCall

(* The functor is called by the caller.                                    *)
CallInline(p) ==
  /\ call[p].at = "inline"
  /\ off_loop' = TRUE
  /\ IF call[p].f.does = "stop"
       THEN /\ \E inside \in IsInLoopThread : call' = [call EXCEPT ![p] = Stopping(inside)]
            /\ late' = LateFor(p)
       ELSE call' = [call EXCEPT ![p] = NoCall] /\ UNCHANGED late
  /\ IF call[p].f.does = "timer" THEN AddTimer(call[p].f) ELSE UNCHANGED <<timers, added_late>>
  /\ UNCHANGED <<wait_first, tid, phase, closing, closed, functors_, stop_, todo, latch, queue,
                 queue_sent, stop_sent, calls, submitted, ran, fault>>

\* Mutant: the newest functor goes first
AcceptedFirst(f) == <<f>> \o queue

Accepted(f) == Append(queue, f)

\* Mutant: the loop is not told
NotSent(pending) == pending

UvAsyncSend(pending) == TRUE

(* AsyncQueue::Push: the critical section, then uv_async_send.             *)
Push(p) ==
  /\ call[p].at = "push"
  /\ IF functors_
       THEN /\ queue' = Accepted(call[p].f)
            /\ submitted' = Append(submitted, call[p].f)
            /\ call' = [call EXCEPT ![p].at = "send"]
            /\ UNCHANGED fault
       ELSE /\ fault' = TRUE
            /\ call' = [call EXCEPT ![p].at = "faulted"]
            /\ UNCHANGED <<queue, submitted>>
  /\ UNCHANGED <<loopVars, queue_sent, stop_sent, calls, ran, off_loop, late>>

Send(p) ==
  /\ call[p].at = "send"
  /\ queue_sent' = UvAsyncSend(queue_sent)
  /\ call' = [call EXCEPT ![p] = NoCall]
  /\ UNCHANGED <<loopVars, queue, stop_sent, calls, submitted, ran, off_loop, late, fault>>

-----------------------------------------------------------------------------
(* Stop, by another thread.                                                *)

Stop(p) ==
  /\ call[p] = NoCall
  /\ calls[p] < 1
  /\ MayCall
  /\ calls' = [calls EXCEPT ![p] = @ + 1]
  /\ \E inside \in IsInLoopThread : call' = [call EXCEPT ![p] = Stopping(inside)]
  /\ late' = LateFor(p)
  /\ UNCHANGED <<loopVars, queue, queue_sent, stop_sent, submitted, ran, off_loop, fault>>

(* AsyncStop::Notify.                                                      *)
Notify(p) ==
  /\ call[p].at = "stop"
  /\ stop_sent' = IF stop_ THEN UvAsyncSend(stop_sent) ELSE stop_sent
  /\ fault' = (fault \/ ~stop_)
  /\ call' = [call EXCEPT ![p] = NoCall]
  /\ UNCHANGED <<loopVars, queue, queue_sent, calls, submitted, ran, off_loop, late>>

(* EventLoop::Close: the timers there are, the two handles, and uv_stop.   *)
(* libuv takes a second uv_close of a handle for a fault.                  *)
Close ==
  /\ closing' = TRUE
  /\ closed' = timers
  /\ fault' = (fault \/ closing)

CloseInline(p) ==
  /\ call[p].at = "close"
  /\ Close
  /\ off_loop' = TRUE
  /\ call' = [call EXCEPT ![p] = NoCall]
  /\ UNCHANGED <<wait_first, tid, phase, functors_, stop_, todo, timers, latch, queue,
                 queue_sent, stop_sent, calls, submitted, ran, late, added_late>>

-----------------------------------------------------------------------------
(* The loop thread.                                                        *)

otherVars == <<wait_first, call, calls, submitted, off_loop>>
closeVars == <<closing, closed, fault, late, added_late>>

(* Stop, in the loop thread.                                               *)
StopInside ==
  /\ Close
  /\ late' = (late \/ StopCalled \/ \E q \in Processes : call[q] # NoCall)

(* Loop; uv_run returns at once if the loop has been stopped already.      *)
Loop ==
  /\ phase = "created"
  /\ tid' = TRUE
  /\ phase' = IF closing THEN "ended" ELSE "timers"
  /\ UNCHANGED <<closeVars, functors_, stop_, queue, todo, queue_sent, stop_sent,
                 timers, latch, ran, otherVars>>

(* The start timer is due in the first iteration: Started.  The callback   *)
(* of another timer may call Stop.                                         *)
RunTimers ==
  /\ phase = "timers"
  /\ latch' = 0
  /\ phase' = "poll"
  /\ \/ UNCHANGED closeVars
     \/ timers \ (closed \cup {StartTimer}) # {} /\ StopInside /\ UNCHANGED added_late
  /\ UNCHANGED <<tid, functors_, stop_, queue, todo, queue_sent, stop_sent,
                 timers, ran, otherVars>>

(* AsyncQueueCb and DoFunctor: take the whole queue.  A handle that was    *)
(* closed is not called back any more.                                     *)
DoFunctor ==
  /\ phase = "poll"
  /\ IF queue_sent /\ ~closing
       THEN /\ queue_sent' = FALSE
            /\ todo' = queue
            /\ queue' = <<>>
            /\ phase' = IF queue = <<>> THEN "stop" ELSE "functors"
       ELSE /\ phase' = "stop"
            /\ UNCHANGED <<queue_sent, todo, queue>>
  /\ UNCHANGED <<tid, closeVars, functors_, stop_, stop_sent, timers, latch, ran, otherVars>>

Effect(f) ==
  \/ f.does = "timer" /\ AddTimer(f) /\ UNCHANGED <<closing, closed, fault, late>>
  \/ f.does = "stop" /\ StopInside /\ UNCHANGED <<timers, added_late>>
  \/ f.does = "nothing" /\ UNCHANGED <<timers, closeVars>>

(* The functors behind one that has called Stop are called all the same.   *)
CallFunctor ==
  /\ phase = "functors"
  /\ todo # <<>>
  /\ phase' = "in functor"
  /\ ran' = Append(ran, Head(todo))
  /\ Effect(Head(todo))
  /\ UNCHANGED <<tid, functors_, stop_, queue, todo, queue_sent, stop_sent, latch, otherVars>>

FunctorReturns ==
  /\ phase = "in functor"
  /\ todo' = Tail(todo)
  /\ phase' = IF todo' = <<>> THEN "stop" ELSE "functors"
  /\ UNCHANGED <<tid, closeVars, functors_, stop_, queue, queue_sent, stop_sent,
                 timers, latch, ran, otherVars>>

(* The callback of the stop handle.                                        *)
StopLoop ==
  /\ phase = "stop"
  /\ stop_sent' = FALSE
  /\ IF stop_sent /\ ~closing THEN Close ELSE UNCHANGED <<closing, closed, fault>>
  /\ phase' = "closing"
  /\ UNCHANGED <<tid, functors_, stop_, queue, todo, queue_sent, timers, latch, late,
                 added_late, ran, otherVars>>

\* Mutant: Close stops the start timer only
ButStartTimer == timers \ {StartTimer}

TimersAfterClose == timers \ closed

(* The callbacks of the handles that were closed: TimerCloseCb removes the *)
(* timer, AsyncQueueCloseCb and AsyncStopCloseCb reset the pointers.  Then *)
(* uv_run returns if the loop was stopped, else iterates when there is     *)
(* something to do: a callback is due, or a timer that a functor added.    *)
RunClosing ==
  /\ phase = "closing"
  /\ IF closing
       THEN /\ timers' = TimersAfterClose
            /\ functors_' = FALSE /\ stop_' = FALSE
            /\ phase' = "ended"
       ELSE /\ queue_sent \/ stop_sent \/ timers \ {StartTimer} # {}
            /\ phase' = "timers"
            /\ UNCHANGED <<timers, functors_, stop_>>
  /\ UNCHANGED <<tid, closeVars, queue, todo, queue_sent, stop_sent, latch, ran, otherVars>>

-----------------------------------------------------------------------------

LoopStep ==
  \/ Loop \/ RunTimers \/ DoFunctor \/ CallFunctor \/ FunctorReturns
  \/ StopLoop \/ RunClosing

Next ==
  \/ \E p \in Callers, does \in Deeds : RunFunctor(p, does)
  \/ \E p \in Callers : CallInline(p)
  \/ \E p \in Callers : Push(p)
  \/ \E p \in Callers : Send(p)
  \/ \E p \in Stoppers : Stop(p)
  \/ \E p \in Processes : Notify(p)
  \/ \E p \in Processes : CloseInline(p)
  \/ Loop \/ RunTimers \/ DoFunctor \/ CallFunctor \/ FunctorReturns
  \/ StopLoop \/ RunClosing

(* Every thread that can run is run; a functor returns.  Nobody is obliged *)
(* to call RunFunctor or Stop, but a call goes on.                         *)
Fairness ==
  /\ WF_vars(LoopStep)
  /\ \A p \in Callers : WF_vars(CallInline(p) \/ Push(p) \/ Send(p))
  /\ \A p \in Processes : WF_vars(Notify(p) \/ CloseInline(p))

Spec == Init /\ [][Next]_vars /\ Fairness

(* A loop that was stopped before anybody used it.                         *)
Unused ==
  /\ wait_first = TRUE
  /\ tid = TRUE
  /\ phase = "ended"
  /\ closing = TRUE /\ closed = {}
  /\ functors_ = FALSE /\ stop_ = FALSE
  /\ queue = <<>> /\ todo = <<>>
  /\ queue_sent = FALSE /\ stop_sent = FALSE
  /\ timers = {}
  /\ latch = 0
  /\ call = [p \in Processes |-> NoCall]
  /\ calls = [p \in Processes |-> MaxCalls]
  /\ submitted = <<>> /\ ran = <<>>
  /\ off_loop = FALSE /\ late = FALSE /\ added_late = FALSE /\ fault = FALSE

-----------------------------------------------------------------------------

TheLoop == {"loop"}

Promise == INSTANCE Executor WITH
  Ids <- TheLoop,
  submitted <- [i \in TheLoop |-> submitted],
  ran <- [i \in TheLoop |-> ran],
  running <- [i \in TheLoop |-> phase = "in functor"]

(* Functors handed to a loop by several threads are carried out once each, *)
(* one at a time, in the order the queue accepted them, whether the loop   *)
(* has started or is being stopped.                                        *)
ImplementsExecutor == Promise!Spec

(* Threads that call WaitStarted first never do the loop's work: a functor *)
(* runs, and the loop is closed, in the loop thread.  (Before tid_ is set  *)
(* IsInLoopThread says yes to every thread.)                               *)
FunctorsOnLoopThread == wait_first => ~off_loop

(* uv_loop_close in ~EventLoop finds no open handle: when the loop thread  *)
(* has ended the timers that functors added are gone too, and nobody has   *)
(* used a handle that was closed or a pointer that was reset.  It takes    *)
(* threads that wait for the start, and one Stop, by any thread or by a    *)
(* functor or a timer of the loop, with every other call returned and none *)
(* after it.  A timer that a functor adds behind a Stop in the same batch  *)
(* is not closed (eventloop.cc:150-154) and stays open.                    *)
EndsClean ==
  wait_first /\ ~late =>
     /\ ~fault
     /\ phase = "ended" => (timers = {} \/ added_late) /\ ~functors_ /\ ~stop_

(* A functor is never left behind in the queue: if the queue is not empty  *)
(* the callback is due, or the thread that pushed has yet to send for it.  *)
(* This holds for calls at any time, also before the loop has started.     *)
NothingStranded ==
  queue # <<>> /\ ~closing => queue_sent \/ \E p \in Callers : call[p].at = "send"

(* Every functor the queue accepted is carried out in the end, although    *)
(* several uv_async_sends make one callback, unless the loop is closed.    *)
EverythingRuns == (ran # submitted) ~> (ran = submitted \/ closing)

(* After Stop the loop thread ends and Join returns, unless some thread    *)
(* did the loop's work: then the stop may have been lost.                  *)
StopEndsLoop == StopCalled ~> (phase = "ended" \/ off_loop)
==============================================================================
