------------------------------ MODULE TcpServer ------------------------------
(***************************************************************************)
(* ServerThread with its TcpServers, their Acceptors and TcpConnections:   *)
(* the life of every uv_tcp_t from accept or listen to its close callback, *)
(* who holds the memory of it, and ServerThread::Stop in another thread.   *)
(*                                                                         *)
(* libuv runs the callbacks of a poll, then the close callbacks of the     *)
(* handles closed in it, the last closed first.  A closed handle is not    *)
(* read any more, its completed writes are reported and its queued ones    *)
(* are reported as cancelled.  A handle must not be closed twice and its   *)
(* memory must outlive the close callback.                                 *)
(*                                                                         *)
(* A connection is named by the address of its peer.  What is in the       *)
(* messages is left to Stream.                                             *)
(***************************************************************************)
EXTENDS Naturals, Sequences, FiniteSets, SequencesExt

CONSTANTS Servers,       \* servers_ of the ServerThread
          Peers,         \* addresses clients connect from
          MaxAccepts,    \* bound on connections accepted
          MaxWrites      \* bound on the writes under way on a connection

Connections == 1..MaxAccepts
Handles == Connections \cup Servers   \* a server's handle is its acceptor's

VARIABLES
  handle,        \* uv_tcp_t: "none", "open", "closing" or "closed"
  freed,         \* handles whose memory has been freed
  server, peer,  \* of a connection
  connections_,  \* TcpServer::connections_: peer -> connection
  held,          \* connections a pending reply keeps a TcpConnectionSPtr of
  writes,        \* of a connection: "done", "queued" or "failed"
  phase,         \* of the loop: "poll" or "closing"
  closing,       \* libuv's list of handles to call back
  functors,      \* TcpServer::Close calls handed to the loop
  stop_,         \* the latch of ServerThread
  stopper,       \* the thread in ServerThread::Stop
  fault          \* the assertion that stopped the process, or "no"

conns == <<server, peer, held>>
thread == <<functors, stop_, stopper>>
vars == <<handle, freed, conns, connections_, writes, phase, closing, thread, fault>>

NoFunction == [x \in {} |-> x]
With(f, x, y) == [z \in DOMAIN f \cup {x} |-> IF z = x THEN y ELSE f[z]]

Nobody == "nobody"   \* the peer of a connection that was not accepted

Running == fault = "no"
Polling == Running /\ phase = "poll"

Init ==
  /\ handle = [h \in Handles |-> IF h \in Servers THEN "open" ELSE "none"]
  /\ freed = {}
  /\ server = NoFunction /\ peer = NoFunction /\ held = {}
  /\ connections_ = [s \in Servers |-> NoFunction]
  /\ writes = [c \in Connections |-> <<>>]
  /\ phase = "poll" /\ closing = <<>>
  /\ functors = {} /\ stop_ = Cardinality(Servers) /\ stopper = "running"
  /\ fault = "no"

-----------------------------------------------------------------------------

(* uv_close on the handles hs in turn, which must all be open.             *)
UvClose(hs) ==
  IF \E h \in ToSet(hs) : handle[h] # "open"
    THEN fault' = "uv_close" /\ UNCHANGED <<handle, closing, writes>>
    ELSE /\ handle' = [h \in Handles |-> IF h \in ToSet(hs) THEN "closing" ELSE handle[h]]
         /\ closing' = Reverse(hs) \o closing
         /\ writes' = [c \in Connections |->
                         IF c \in ToSet(hs)
                           THEN [i \in DOMAIN writes[c] |->
                                   IF writes[c][i] = "queued" THEN "failed" ELSE writes[c][i]]
                           ELSE writes[c]]
         /\ UNCHANGED fault

\* Mutant: closes whatever its state
CloseUnguarded(cs, s) == UvClose(SetToSeq(cs) \o <<s>>)

Open(hs) == {h \in hs : handle[h] = "open"}

(* TcpConnection::Close for each of cs, then Acceptor::Close: not if       *)
(* already closing.                                                        *)
Close(cs, s) == UvClose(SetToSeq(Open(cs)) \o SetToSeq(Open({s})))

-----------------------------------------------------------------------------

NextConnection == Cardinality(DOMAIN peer) + 1

(* No client comes back from the same address before the close callback of *)
(* its last connection (it would take a reset and a reused port within one *)
(* poll; the name would then stand for two handles).                       *)
Free(s, p) == \A c \in DOMAIN peer : (server[c] = s /\ peer[c] = p) => handle[c] = "closed"

(* AcceptorHandleRead and NewConnection: the connection is entered under   *)
(* the name of its peer and read from.                                     *)
Accept(s, p) ==
  /\ Polling
  /\ handle[s] = "open"
  /\ NextConnection \in Connections
  /\ Free(s, p)
  /\ LET c == NextConnection
     IN  /\ handle' = [handle EXCEPT ![c] = "open"]
         /\ server' = With(server, c, s)
         /\ peer' = With(peer, c, p)
         /\ connections_' = [connections_ EXCEPT ![s] = With(@, p, c)]
  /\ UNCHANGED <<freed, held, writes, phase, closing, thread, fault>>

(* uv_accept fails: the new handle is closed without a callback and freed  *)
(* on the way out of the function.                                         *)
AcceptFailed(s) ==
  /\ Polling
  /\ handle[s] = "open"
  /\ NextConnection \in Connections
  /\ LET c == NextConnection
     IN  /\ handle' = [handle EXCEPT ![c] = "closing"]
         /\ closing' = <<c>> \o closing
         /\ server' = With(server, c, s)
         /\ peer' = With(peer, c, Nobody)
         /\ freed' = freed \cup {c}
  /\ UNCHANGED <<held, connections_, writes, phase, thread, fault>>

(* TcpConnectionHandleRead with data: the callback may keep the connection *)
(* to answer later.                                                        *)
Receive(c) ==
  /\ Polling
  /\ handle[c] = "open"
  /\ c \notin held
  /\ held' = held \cup {c}
  /\ UNCHANGED <<handle, freed, server, peer, connections_, writes, phase, closing, thread, fault>>

(* The same at the end of the stream or with an error.                     *)
ReadError(c) ==
  /\ Polling
  /\ handle[c] = "open"
  /\ UvClose(<<c>>)
  /\ UNCHANGED <<freed, conns, connections_, phase, thread>>

\* Mutant: connections_ keeps no reference
InMapNever(c) == FALSE

InMap(c) == c \in UNION {Range(connections_[s]) : s \in Servers}

(* The reply: CopySend if the connection is still open, and the reference  *)
(* goes.                                                                   *)
Reply(c) ==
  /\ Polling
  /\ c \in held
  /\ held' = held \ {c}
  /\ freed' = IF InMap(c) THEN freed ELSE freed \cup {c}
  /\ IF handle[c] = "open"
       THEN /\ Len(writes[c]) < MaxWrites
            /\ \E w \in {"done", "queued", "failed"} :
                 writes' = [writes EXCEPT ![c] = Append(@, w)]
       ELSE UNCHANGED writes
  /\ UNCHANGED <<handle, server, peer, connections_, phase, closing, thread, fault>>

(* The socket takes a queued write after all.                              *)
Flush(c) ==
  /\ Polling
  /\ handle[c] = "open"
  /\ writes[c] # <<>> /\ Head(writes[c]) = "queued"
  /\ writes' = [writes EXCEPT ![c][1] = "done"]
  /\ UNCHANGED <<handle, freed, conns, connections_, phase, closing, thread, fault>>

(* BufWriteComplete asserts that the write succeeded.                      *)
BufWriteComplete(c) ==
  /\ Polling
  /\ writes[c] # <<>> /\ Head(writes[c]) # "queued"
  /\ fault' = IF Head(writes[c]) = "failed" THEN "write" ELSE fault
  /\ writes' = [writes EXCEPT ![c] = Tail(@)]
  /\ UNCHANGED <<handle, freed, conns, connections_, phase, closing, thread>>

-----------------------------------------------------------------------------

\* Mutant: the connections are left to their peers
ClosedByNone(s) == {}

(* What TcpServer::Close closes before the acceptor: every connection.     *)
ClosedBy(s) == Range(connections_[s])

(* TcpServer::Close, handed to the loop by TcpServer::Stop.                *)
CloseServer(s) ==
  /\ Polling
  /\ s \in functors
  /\ functors' = functors \ {s}
  /\ Close(ClosedBy(s), s)
  /\ UNCHANGED <<freed, conns, connections_, phase, stop_, stopper>>

(* The poll is over; the close callbacks come.                             *)
RunClosing ==
  /\ Polling
  /\ closing # <<>>
  /\ phase' = "closing"
  /\ UNCHANGED <<handle, freed, conns, connections_, writes, closing, thread, fault>>

(* A completed or cancelled write of a closed handle is reported first.    *)
Reported(c) ==
  IF "failed" \in ToSet(writes[c]) THEN fault' = "write" ELSE UNCHANGED fault

(* RemoveConnection: what is erased is the name.                           *)
RemoveConnection(c) ==
  connections_' = [connections_ EXCEPT ![server[c]] =
                     [p \in DOMAIN @ \ {peer[c]} |-> @[p]]]

(* HandleClientClose: the connection leaves connections_, and with the     *)
(* last reference its memory goes.                                         *)
HandleClientClose ==
  /\ Running /\ phase = "closing"
  /\ closing # <<>> /\ Head(closing) \in Connections
  /\ LET c == Head(closing)
     IN  /\ Reported(c)
         /\ handle' = [handle EXCEPT ![c] = "closed"]
         /\ writes' = [writes EXCEPT ![c] = <<>>]
         /\ IF c \in freed
              THEN UNCHANGED <<connections_, freed>>
              ELSE /\ RemoveConnection(c)
                   /\ freed' = IF c \in held THEN freed ELSE freed \cup {c}
  /\ closing' = Tail(closing)
  /\ UNCHANGED <<conns, phase, thread>>

\* Mutant: the acceptor's close callback is not set
CountDownNot == UNCHANGED stop_

CountDown == stop_' = stop_ - 1

(* AcceptorCloseCb calls ServerCloseCountDown.                             *)
AcceptorCloseCb ==
  /\ Running /\ phase = "closing"
  /\ closing # <<>> /\ Head(closing) \in Servers
  /\ handle' = [handle EXCEPT ![Head(closing)] = "closed"]
  /\ CountDown
  /\ closing' = Tail(closing)
  /\ UNCHANGED <<freed, conns, connections_, writes, phase, functors, stopper, fault>>

EndClosing ==
  /\ Running /\ phase = "closing"
  /\ closing = <<>>
  /\ phase' = "poll"
  /\ UNCHANGED <<handle, freed, conns, connections_, writes, closing, thread, fault>>

-----------------------------------------------------------------------------

(* ServerThread::Stop in a thread of its own: TcpServer::Stop for every    *)
(* server, WaitServerClose, LoopThread::Stop.                              *)
Stop ==
  /\ Running
  /\ stopper = "running"
  /\ functors' = Servers
  /\ stopper' = "waiting"
  /\ UNCHANGED <<handle, freed, conns, connections_, writes, phase, closing, stop_, fault>>

WaitServerClose ==
  /\ Running
  /\ stopper = "waiting"
  /\ stop_ = 0
  /\ stopper' = "stop loop"
  /\ UNCHANGED <<handle, freed, conns, connections_, writes, phase, closing, functors, stop_, fault>>

(* The loop's callback for the stop; its own handles are EventLoop's.      *)
StopLoop ==
  /\ Polling
  /\ stopper = "stop loop"
  /\ stopper' = "stopped"
  /\ UNCHANGED <<handle, freed, conns, connections_, writes, phase, closing, functors, stop_, fault>>

Next ==
  \/ \E s \in Servers, p \in Peers : Accept(s, p)
  \/ \E s \in Servers : AcceptFailed(s)
  \/ \E c \in Connections :
       Receive(c) \/ ReadError(c) \/ Reply(c) \/ Flush(c) \/ BufWriteComplete(c)
  \/ \E s \in Servers : CloseServer(s)
  \/ RunClosing \/ HandleClientClose \/ AcceptorCloseCb \/ EndClosing
  \/ Stop \/ WaitServerClose \/ StopLoop

(* The loop runs the functors it is given and ends its polls; the stopping *)
(* thread is scheduled.  Nothing is assumed of the peers.                  *)
Fairness ==
  /\ \A s \in Servers : WF_vars(CloseServer(s))
  /\ \A c \in Connections : WF_vars(BufWriteComplete(c))
  /\ WF_vars(RunClosing) /\ WF_vars(HandleClientClose)
  /\ WF_vars(AcceptorCloseCb) /\ WF_vars(EndClosing)
  /\ WF_vars(WaitServerClose) /\ WF_vars(StopLoop)

Spec == Init /\ [][Next]_vars /\ Fairness

(* A ServerThread that has been stopped, and never had a client.           *)
Unused ==
  /\ handle = [h \in Handles |-> IF h \in Servers THEN "closed" ELSE "none"]
  /\ freed = {}
  /\ server = NoFunction /\ peer = NoFunction /\ held = {}
  /\ connections_ = [s \in Servers |-> NoFunction]
  /\ writes = [c \in Connections |-> <<>>]
  /\ phase = "poll" /\ closing = <<>>
  /\ functors = {} /\ stop_ = 0 /\ stopper = "stopped"
  /\ fault = "no"

-----------------------------------------------------------------------------

(* libuv never holds a handle whose memory the program has freed, whatever *)
(* the order of read errors, replies, stops and close callbacks.  The one  *)
(* exception is the handle of a connection that could not be accepted:     *)
(* NewConnection closes it and frees it on its way out.                    *)
NoFreedHandle ==
  \A c \in freed : handle[c] = "closed" \/ peer[c] = Nobody

(* uv_close's own assertion, that a handle is closed once, never fails:    *)
(* not when a read error and a stop close the same connection, nor when    *)
(* its handle is in the middle of closing.                                 *)
ClosedOnce == fault # "uv_close"

(* When the loop is stopped, the servers have no connection left: every    *)
(* handle is closed and every name erased.                                 *)
NothingLeft ==
  stopper = "stopped" =>
    /\ \A h \in Handles : handle[h] \in {"none", "closed"}
    /\ \A s \in Servers : DOMAIN connections_[s] = {}

(* ServerThread::Stop returns, unless the assertion of BufWriteComplete    *)
(* stopped the process (it takes a failed write, and a write that close    *)
(* cancels is one).                                                        *)
StopReturns == (stopper = "waiting") ~> (stopper = "stopped" \/ ~Running)
==============================================================================
