-------------------------------- MODULE MCSeda --------------------------------
(***************************************************************************)
(* The two ways seda carries out functors, a pool of work threads and an   *)
(* event loop, checked together.  They share no state, so a behaviour      *)
(* starts one of them and leaves the other stopped.                        *)
(***************************************************************************)
EXTENDS WorkThread

CONSTANTS Callers, Stoppers, MaxCalls

ASSUME LoopAssumption ==
  /\ Callers \cap Stoppers = {}
  /\ MaxCalls \in Nat \ {0}

VARIABLES wait_first, tid, phase, closing, closed, functors_, stop_, loop_queue, todo,
          queue_sent, stop_sent, timers, latch, loop_call, calls,
          loop_submitted, loop_ran, off_loop, late, added_late, fault

EL == INSTANCE EventLoop WITH
  queue <- loop_queue, call <- loop_call, submitted <- loop_submitted, ran <- loop_ran

loopVars == <<wait_first, tid, phase, closing, closed, functors_, stop_, loop_queue, todo,
              queue_sent, stop_sent, timers, latch, loop_call, calls,
              loop_submitted, loop_ran, off_loop, late, added_late, fault>>

SedaInit == (Init /\ EL!Unused) \/ (Unused /\ EL!Init)

SedaNext ==
  \/ Next /\ UNCHANGED loopVars
  \/ EL!Next /\ UNCHANGED vars

SedaSpec ==
  SedaInit /\ [][SedaNext]_<<vars, loopVars>> /\ Fairness /\ EL!Fairness

-----------------------------------------------------------------------------

(* The pool and the loop implement Executor: the functors that several     *)
(* threads hand to either are carried out once each, in the order they     *)
(* were accepted and never two of one id at a time, whether it has just    *)
(* started or is being stopped.                                            *)
SedaImplementsExecutor == ImplementsExecutor /\ EL!ImplementsExecutor

(* Every Push returns and everything that was accepted is carried out, but *)
(* for a functor that waits for room in its own worker's queue, and for a  *)
(* worker that was stopped.                                                *)
PoolProgress == PushReturns /\ EverythingRuns

(* Every functor the queue of the loop accepted is carried out in the end, *)
(* unless the loop is closed; after Stop the loop thread ends.             *)
LoopProgress == EL!EverythingRuns /\ EL!StopEndsLoop

(* With threads that call WaitStarted first the loop's work is done in the *)
(* loop thread; no functor is left in the queue without a callback due,    *)
(* although uv_async_send coalesces; and a loop that was used in time ends *)
(* with no handle open, none of them used after it was closed.             *)
LoopSafe == EL!FunctorsOnLoopThread /\ EL!NothingStranded /\ EL!EndsClean
==============================================================================
