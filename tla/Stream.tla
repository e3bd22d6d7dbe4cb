-------------------------------- MODULE Stream --------------------------------
(***************************************************************************)
(* Messages on a TCP connection: what a sender writes as header and body,  *)
(* the pieces the network delivers, the Buffer they are read into, and the *)
(* loop that takes messages out of it (RaftServer::OnMessage for raft,     *)
(* VectorDB::OnMessage and VdbConsole::OnMessage for vectordb).            *)
(*                                                                         *)
(* A byte is its place in the stream, so that what a message is made of    *)
(* can be compared with what was sent; a message is its place and length.  *)
(***************************************************************************)
EXTENDS Naturals, Sequences, SequencesExt

CONSTANTS Uses,         \* the connections looked at, see Init
          HeaderBytes,  \* sizeof(MsgHeader)
          Capacity,     \* bytes reserved in buf_ (BUF_INIT_BYTES)
          MaxWaste,     \* max_waste_bytes_
          Bodies,       \* the lengths a body may have
          MaxMessages   \* bound: messages sent

ASSUME StreamAssumption ==
  /\ HeaderBytes \in Nat \ {0}
  /\ MaxWaste \in Nat \ {0}
  /\ Capacity \in Nat
  /\ Capacity > MaxWaste
  /\ Bodies \subseteq Nat
  /\ Uses \subseteq {"raft", "vectordb", "client"}

VARIABLES
  use,          \* whose connection it is
  sent,         \* the messages sent
  arrived,      \* bytes of the stream read from the socket
  mem,          \* the Buffer's memory, by index
  read_index, write_index,
  at,           \* "poll", "on_message", "closed"
  last_read,    \* what libuv reported last: see HandleRead, HandleReadError
  peer_closed,  \* the other side has closed the connection
  delivered     \* the messages taken out, as the bytes they were made of

vars == <<use, sent, arrived, mem, read_index, write_index, at, last_read,
          peer_closed, delivered>>
bufVars == <<mem, read_index, write_index>>

-----------------------------------------------------------------------------
(* The stream.  A message takes the bytes after those before it.           *)

Message(from, body) == [from |-> from, body |-> body]
EndOf(m) == m.from + HeaderBytes + m.body

(* How many bytes there are to read.                                       *)
StreamEnd == IF sent = <<>> THEN 0 ELSE EndOf(Last(sent))

BytesOf(k) == [i \in 1..(HeaderBytes + sent[k].body) |-> sent[k].from + i]

ReadableBytes == write_index - read_index
WritableBytes == Capacity - write_index
Byte(i) == mem[read_index + i]

(* PeekInt32 at the front of the buffer, which is meant to be a header.    *)
PeekBody ==
  LET here == {k \in DOMAIN sent : sent[k].from + 1 = Byte(1)}
  IN  IF here = {} THEN 0 ELSE sent[CHOOSE k \in here : TRUE].body

-----------------------------------------------------------------------------

(* A raft peer, a vectordb client that does not wait for answers, or one   *)
(* that does (VectorDBClient, the console).                                *)
Init ==
  /\ use \in Uses
  /\ sent = <<>>
  /\ arrived = 0
  /\ mem = [i \in 1..Capacity |-> 0]
  /\ read_index = 0 /\ write_index = 0
  /\ at = "poll" /\ last_read = "none"
  /\ peer_closed = FALSE
  /\ delivered = <<>>

(* Another message is written to the connection.                           *)
Write(body) ==
  /\ Len(sent) < MaxMessages
  /\ ~peer_closed
  /\ use = "client" => Len(delivered) = Len(sent)
  /\ sent' = Append(sent, Message(StreamEnd, body))
  /\ UNCHANGED <<use, arrived, bufVars, at, last_read, peer_closed, delivered>>

PeerCloses ==
  /\ ~peer_closed
  /\ peer_closed' = TRUE
  /\ UNCHANGED <<use, sent, arrived, bufVars, at, last_read, delivered>>

(* TcpConnectionHandleRead: as many bytes as TCP has are read to where     *)
(* Append copies them, the free end of the buffer, and the callback is     *)
(* called.                                                                 *)
HandleRead(n) ==
  /\ at = "poll"
  /\ n <= WritableBytes
  /\ n <= StreamEnd - arrived
  /\ mem' = [i \in 1..Capacity |->
               IF i \in (write_index + 1)..(write_index + n)
                 THEN arrived + i - write_index ELSE mem[i]]
  /\ write_index' = write_index + n
  /\ arrived' = arrived + n
  /\ at' = "on_message"
  /\ last_read' = IF n = WritableBytes THEN "filled" ELSE "partial"
  /\ UNCHANGED <<use, sent, read_index, peer_closed, delivered>>

(* TcpConnectionHandleRead for every nread <= 0: the connection is closed. *)
(* The buffer has no room (ENOBUFS); the stream has ended; or libuv, which *)
(* reads again after a read that filled the buffer, finds nothing yet and  *)
(* reports 0 (EAGAIN).                                                     *)
HandleReadError ==
  /\ at = "poll"
  /\ \/ WritableBytes = 0 /\ last_read' = "ENOBUFS"
     \/ WritableBytes > 0 /\ peer_closed /\ arrived = StreamEnd /\ last_read' = "EOF"
     \/ WritableBytes > 0 /\ last_read = "filled" /\ last_read' = "EAGAIN"
  /\ at' = "closed"
  /\ UNCHANGED <<use, sent, arrived, bufVars, peer_closed, delivered>>

\* Mutant: write_index_ stays when the rest is moved
RetrievedUnshrunk(buf, len) ==
  LET r == buf.r + len
      rest == buf.w - r
  IN  IF r = buf.w THEN [m |-> buf.m, r |-> 0, w |-> 0]
      ELSE IF r > MaxWaste
        THEN [m |-> [i \in 1..Capacity |-> IF i <= rest THEN buf.m[r + i] ELSE buf.m[i]],
              r |-> 0, w |-> buf.w]
        ELSE [buf EXCEPT !.r = r]

\* Mutant: the rest is never moved
RetrievedUnmoved(buf, len) ==
  IF buf.r + len = buf.w THEN [m |-> buf.m, r |-> 0, w |-> 0]
                         ELSE [buf EXCEPT !.r = @ + len]

(* Retrieve: advance, then start over at 0 if all was read, or move the    *)
(* rest to the front when too much in front of it is wasted.               *)
Retrieved(buf, len) ==
  LET r == buf.r + len
      rest == buf.w - r
  IN  IF r = buf.w THEN [m |-> buf.m, r |-> 0, w |-> 0]
      ELSE IF r > MaxWaste
        THEN [m |-> [i \in 1..Capacity |-> IF i <= rest THEN buf.m[r + i] ELSE buf.m[i]],
              r |-> 0, w |-> rest]
        ELSE [buf EXCEPT !.r = r]

Content(buf, len) == [i \in 1..len |-> buf.m[buf.r + i]]

HasHeader == ReadableBytes >= HeaderBytes

\* Mutant: off by one
HasMoreThanMessage == HasHeader /\ ReadableBytes > HeaderBytes + PeekBody

HasMessage == HasHeader /\ ReadableBytes >= HeaderBytes + PeekBody

AfterMessage == IF use = "raft" THEN "on_message" ELSE "poll"

\* Mutant: the handler waits for the rest of the body
AfterIncompleteWait == "on_message"

AfterIncomplete == IF use = "raft" THEN "on_message" ELSE "poll"

(* One message: the header is retrieved, then the body is decoded and      *)
(* retrieved, and its handler called.                                      *)
TakeMessage ==
  /\ at = "on_message"
  /\ HasMessage
  /\ LET body == PeekBody
         buf0 == [m |-> mem, r |-> read_index, w |-> write_index]
         buf1 == Retrieved(buf0, HeaderBytes)
         buf2 == Retrieved(buf1, body)
     IN  /\ delivered' = Append(delivered,
                                Content(buf0, HeaderBytes) \o Content(buf1, body))
         /\ mem' = buf2.m /\ read_index' = buf2.r /\ write_index' = buf2.w
  /\ at' = AfterMessage
  /\ UNCHANGED <<use, sent, arrived, last_read, peer_closed>>

(* A header without all of its body: raft's `while` tries again, with      *)
(* nothing changed; vectordb's `if` returns.                               *)
BodyIncomplete ==
  /\ at = "on_message"
  /\ HasHeader /\ ~HasMessage
  /\ at' = AfterIncomplete
  /\ UNCHANGED <<use, sent, arrived, bufVars, last_read, peer_closed, delivered>>

NoHeader ==
  /\ at = "on_message"
  /\ ~HasHeader
  /\ at' = "poll"
  /\ UNCHANGED <<use, sent, arrived, bufVars, last_read, peer_closed, delivered>>

Next ==
  \/ \E body \in Bodies : Write(body)
  \/ PeerCloses
  \/ \E n \in 1..Capacity : HandleRead(n)
  \/ HandleReadError
  \/ TakeMessage
  \/ BodyIncomplete
  \/ NoHeader

(* The loop thread goes on, and what was sent arrives.                     *)
Fairness ==
  /\ WF_vars(TakeMessage) /\ WF_vars(BodyIncomplete) /\ WF_vars(NoHeader)
  /\ WF_vars(HandleReadError)
  /\ WF_vars(\E n \in 1..Capacity : HandleRead(n))

Spec == Init /\ [][Next]_vars /\ Fairness

(* A connection that was opened and closed, and never used.                *)
Unused ==
  /\ use = CHOOSE u \in Uses : TRUE
  /\ sent = <<>>
  /\ arrived = 0
  /\ mem = [i \in 1..Capacity |-> 0]
  /\ read_index = 0 /\ write_index = 0
  /\ at = "closed" /\ last_read = "EOF"
  /\ peer_closed = TRUE
  /\ delivered = <<>>

-----------------------------------------------------------------------------

(* However the stream was cut, and wherever the buffer was moved, message  *)
(* k that a handler gets is message k that was sent, byte for byte.        *)
FramingIntact ==
  \A k \in DOMAIN delivered : k <= Len(sent) /\ delivered[k] = BytesOf(k)

(* Where every message leaves MaxWaste bytes of the buffer free: there is  *)
(* no room for the next read only when a whole message is waiting in the   *)
(* buffer already (vectordb takes one with each read), and the connection  *)
(* of a client that waits for its answers is closed by nothing but the end *)
(* of the stream, whatever has been read and moved before.  (One that is   *)
(* sent more may fill the buffer, and is closed when libuv reads again and *)
(* finds nothing yet.)                                                     *)
ClosedOnlyWithBacklog ==
  ((\A body \in Bodies : HeaderBytes + body <= Capacity - MaxWaste) /\ at = "closed") =>
     /\ last_read = "ENOBUFS" => HasMessage
     /\ use = "client" => last_read = "EOF"

(* The `while` of RaftServer::OnMessage goes round with nothing to take.   *)
Spinning == use = "raft" /\ at = "on_message" /\ HasHeader /\ ~HasMessage

(* Every message of a vectordb client that waits for each answer reaches   *)
(* its handler; so does every message of a raft peer, unless a read ended  *)
(* in the middle of a body, or filled the buffer and was the last for now. *)
EveryMessageDelivered ==
  \A k \in 1..MaxMessages :
     (use # "vectordb" /\ Len(sent) >= k) ~>
        (Len(delivered) >= k \/ Spinning \/ (use = "raft" /\ last_read = "EAGAIN"))

(* The handler of vectordb always comes back to the loop, wherever the     *)
(* stream was cut.                                                         *)
VectordbReturns ==
  (use # "raft" /\ at = "on_message") ~> (at # "on_message")

(* The loop thread comes back to wait for events: it is "used to respond   *)
(* to events (Raft messages, timer events, etc...)".  It does not.         *)
LoopResponds == (at = "on_message") ~> (at # "on_message")
==============================================================================
