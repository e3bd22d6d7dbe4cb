-------------------------------- MODULE MCNet --------------------------------
(***************************************************************************)
(* The three layers between two servers, checked together: the bytes a     *)
(* message is made of (Codec), how they are framed on a connection         *)
(* (Stream), and the life of the connections of a server (TcpServer).      *)
(* Each leaves the others' state alone, so a behaviour starts one of them. *)
(***************************************************************************)
EXTENDS Stream

CONSTANTS Servers, Peers, MaxAccepts, MaxWrites, Lengths, Counts

VARIABLES handle, freed, server, peer, connections_, held, writes, phase,
          closing, functors, stop_, stopper, fault

TCP == INSTANCE TcpServer

tcpVars == <<handle, freed, server, peer, connections_, held, writes, phase,
             closing, functors, stop_, stopper, fault>>

(* A connection is no server, and every client has an address.             *)
ASSUME NetAssumption ==
  /\ MaxAccepts \in Nat /\ IsFiniteSet(Servers)
  /\ Servers \cap TCP!Connections = {}
  /\ TCP!Nobody \notin Peers

VARIABLES kind, count, code_phase, todo, wire, got, size, furthest

Code == INSTANCE Codec WITH phase <- code_phase

codeVars == <<kind, count, code_phase, todo, wire, got, size, furthest>>

NetInit ==
  \/ Init /\ TCP!Unused /\ Code!Unused
  \/ Unused /\ TCP!Init /\ Code!Unused
  \/ Unused /\ TCP!Unused /\ Code!Init

NetNext ==
  \/ Next /\ UNCHANGED <<tcpVars, codeVars>>
  \/ TCP!Next /\ UNCHANGED <<vars, codeVars>>
  \/ Code!Next /\ UNCHANGED <<vars, tcpVars>>

NetSpec ==
  NetInit /\ [][NetNext]_<<vars, tcpVars, codeVars>> /\ Fairness /\ TCP!Fairness

-----------------------------------------------------------------------------

(* Every message of a vectordb client that waits for its answers reaches   *)
(* its handler, and every message of a raft peer, unless a read ended      *)
(* inside a body and raft's loop spins, or a read that filled the buffer   *)
(* was followed by one that found nothing; vectordb's handler always comes *)
(* back to the loop.                                                       *)
StreamProgress == EveryMessageDelivered /\ VectordbReturns

(* No handle is closed twice, libuv holds none whose memory the server has *)
(* freed, but for a connection that could not be accepted, and when the    *)
(* loop of a stopped server has ended no connection is left.               *)
HandlesSound == TCP!ClosedOnce /\ TCP!NoFreedHandle /\ TCP!NothingLeft

(* ServerThread::Stop returns, unless a failed write stops the process.    *)
StopReturns == TCP!StopReturns

(* FromString reads back, field by field, what ToString wrote, as long as  *)
(* no string of 128 bytes or more is followed by another field, and says   *)
(* how long the message was when all strings are shorter.                  *)
RoundTrip == Code!FieldsIntact /\ Code!SizeExact

(* What ToString writes fits the MaxBytes the caller allocated, whatever   *)
(* the lengths, and FromString looks at no byte past the message it is     *)
(* given, TimeoutNow's apart, as long as a string of 128 bytes or more is  *)
(* the last field.                                                         *)
WithinBuffer == Code!WithinMaxBytes /\ Code!ReadsWithinMessage
==============================================================================
