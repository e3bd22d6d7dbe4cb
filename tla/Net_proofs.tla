------------------------------ MODULE Net_proofs ------------------------------
(***************************************************************************)
(* Proofs about MCNet: what a connection's handler gets is what was sent,  *)
(* a buffer has no room only with a message waiting in it, a client that   *)
(* waits for its answers is not closed while it is there, and the handles  *)
(* of a server are closed once and outlive their close callbacks.          *)
(***************************************************************************)
EXTENDS MCNet, FiniteSetTheorems, SequenceTheorems, TLAPS

-----------------------------------------------------------------------------
(* The buffer.                                                             *)

Buffers == [m : [1..Capacity -> Nat], r : Nat, w : Nat]

(* What is to be read of buffer b are the bytes of the stream behind base. *)
Holds(b, base) ==
  /\ b.r <= b.w /\ b.w <= Capacity /\ b.r <= MaxWaste
  /\ \A i \in 1..(b.w - b.r) : b.m[b.r + i] = base + i

(* Retrieve takes len bytes from the front, wherever the rest ends up.     *)
LEMMA RetrievedHolds ==
  ASSUME NEW b \in Buffers, NEW base \in Nat, Holds(b, base),
         NEW len \in Nat, len <= b.w - b.r,
         NEW c, c = Retrieved(b, len)
  PROVE  /\ c \in Buffers
         /\ Holds(c, base + len)
         /\ c.w - c.r = (b.w - b.r) - len
         /\ c.w = c.r => c.r = 0
<1>a. PICK m, br, bw : m = b.m /\ br = b.r /\ bw = b.w
  OBVIOUS
<1>b. m \in [1..Capacity -> Nat] /\ br \in Nat /\ bw \in Nat /\ len <= bw - br
  BY <1>a DEF Buffers
<1>c. PICK r, rest : r = br + len /\ rest = bw - r
  OBVIOUS
<1>1. /\ Capacity \in Nat /\ MaxWaste \in Nat \ {0} /\ MaxWaste < Capacity
      /\ r \in Nat /\ rest \in Nat /\ r <= bw /\ rest = (bw - br) - len
  <2>1. Capacity \in Nat /\ MaxWaste \in Nat \ {0} /\ MaxWaste < Capacity
    BY StreamAssumption
  <2>2. r \in Nat /\ rest \in Nat /\ r <= bw /\ rest = (bw - br) - len
    BY <1>b, <1>c
  <2> QED
    BY <2>1, <2>2
<1>2. /\ br <= bw /\ bw <= Capacity /\ br <= MaxWaste
      /\ \A i \in 1..(bw - br) : m[br + i] = base + i
  BY <1>a DEF Holds
<1>3. CASE r = bw
  <2>1. c = [m |-> m, r |-> 0, w |-> 0]
    BY <1>a, <1>c, <1>3 DEF Retrieved
  <2>2. c.m = m /\ c.r = 0 /\ c.w = 0 /\ c \in Buffers
    BY <1>b, <2>1 DEF Buffers
  <2>3. 0 = (bw - br) - len
    BY <1>b, <1>c, <1>1, <1>3
  <2> QED
    BY <1>a, <1>b, <1>1, <1>2, <2>2, <2>3 DEF Holds
<1>4. CASE r # bw /\ r > MaxWaste
  <2>1. PICK moved : moved = [i \in 1..Capacity |-> IF i <= rest THEN m[r + i] ELSE m[i]]
    OBVIOUS
  <2>2. c = [m |-> moved, r |-> 0, w |-> rest]
    BY <1>a, <1>c, <1>4, <2>1 DEF Retrieved
  <2>3. \A i \in 1..Capacity : i <= rest => r + i \in 1..Capacity
    BY <1>b, <1>c, <1>1, <1>2
  <2>4. moved \in [1..Capacity -> Nat]
    BY <1>b, <2>1, <2>3
  <2>5. ASSUME NEW i \in 1..rest
        PROVE  moved[i] = (base + len) + i
    <3>1. i \in 1..Capacity /\ i <= rest /\ len + i \in 1..(bw - br) /\ r + i = br + (len + i)
      BY <1>b, <1>c, <1>1, <1>2
    <3>2. m[br + (len + i)] = base + (len + i)
      BY <1>2, <3>1
    <3>3. moved[i] = m[r + i]
      BY <2>1, <3>1
    <3>4. base + (len + i) = (base + len) + i
      BY <3>1
    <3> QED
      BY <3>1, <3>2, <3>3, <3>4
  <2>6. /\ c.m = moved /\ c.r = 0 /\ c.w = rest /\ c \in Buffers
    BY <1>1, <2>2, <2>4 DEF Buffers
  <2>7. rest <= Capacity /\ rest - 0 = rest /\ 0 <= rest /\ 0 <= MaxWaste
    BY <1>b, <1>c, <1>1, <1>2
  <2>8. \A i \in 1..(c.w - c.r) : c.m[c.r + i] = (base + len) + i
    <3> SUFFICES ASSUME NEW i \in 1..(c.w - c.r)
                 PROVE  c.m[c.r + i] = (base + len) + i
      OBVIOUS
    <3>1. i \in 1..rest /\ c.r + i = i
      BY <2>6, <2>7, <1>1
    <3> QED
      BY <2>5, <2>6, <3>1
  <2> QED
    BY <1>a, <1>1, <2>6, <2>7, <2>8 DEF Holds
<1>5. CASE r # bw /\ ~(r > MaxWaste)
  <2>1. c = [b EXCEPT !.r = r]
    BY <1>a, <1>c, <1>5 DEF Retrieved
  <2>2. c.m = m /\ c.r = r /\ c.w = bw /\ c \in Buffers
    BY <1>a, <1>1, <2>1 DEF Buffers
  <2>3. \A i \in 1..(c.w - c.r) : c.m[c.r + i] = (base + len) + i
    <3> SUFFICES ASSUME NEW i \in 1..(c.w - c.r)
                 PROVE  c.m[c.r + i] = (base + len) + i
      OBVIOUS
    <3>0. i \in 1..(bw - r)
      BY <2>2
    <3>1. len + i \in 1..(bw - br) /\ r + i = br + (len + i)
      BY <1>b, <1>c, <1>1, <3>0
    <3>2. m[br + (len + i)] = base + (len + i)
      BY <1>2, <3>1
    <3>3. base + (len + i) = (base + len) + i
      BY <3>0, <1>1, <1>b
    <3> QED
      BY <2>2, <3>1, <3>2, <3>3
  <2>4. r <= bw /\ bw <= Capacity /\ r <= MaxWaste /\ bw - r = (bw - br) - len
    BY <1>b, <1>c, <1>1, <1>2, <1>5
  <2>5. Holds(c, base + len) /\ c.w - c.r = (b.w - b.r) - len
    BY <1>a, <2>2, <2>3, <2>4 DEF Holds
  <2> QED
    BY <1>5, <2>2, <2>5
<1> QED
  BY <1>3, <1>4, <1>5

(* What is read is what is behind base.                                    *)
LEMMA ContentHolds ==
  ASSUME NEW b \in Buffers, NEW base \in Nat, Holds(b, base),
         NEW len \in Nat, len <= b.w - b.r
  PROVE  Content(b, len) = [i \in 1..len |-> base + i]
<1>1. \A i \in 1..len : b.m[b.r + i] = base + i
  BY DEF Holds, Buffers
<1> QED
  BY <1>1 DEF Content

-----------------------------------------------------------------------------
(* The connection.                                                         *)

StreamTypes ==
  /\ sent \in Seq([from : Nat, body : Bodies])
  /\ delivered \in Seq(Seq(Nat))
  /\ arrived \in Nat /\ mem \in [1..Capacity -> Nat]
  /\ read_index \in Nat /\ write_index \in Nat

(* The messages follow each other without a gap.                           *)
SentInOrder ==
  /\ sent # <<>> => sent[1].from = 0
  /\ \A k \in 2..Len(sent) : sent[k].from = EndOf(sent[k - 1])
  /\ \A j, k \in 1..Len(sent) : j < k => EndOf(sent[j]) <= sent[k].from

TheBuffer == [m |-> mem, r |-> read_index, w |-> write_index]

(* Where the first message that was not taken out starts.                  *)
NextStart ==
  IF Len(delivered) < Len(sent) THEN sent[Len(delivered) + 1].from ELSE StreamEnd

(* The buffer has what arrived of the messages that were not taken out.    *)
BufferHoldsNext ==
  /\ Len(delivered) <= Len(sent)
  /\ Holds(TheBuffer, NextStart)
  /\ arrived = NextStart + (write_index - read_index)
  /\ arrived <= StreamEnd

Fits == \A body \in Bodies : HeaderBytes + body <= Capacity - MaxWaste

ClosedForReason ==
  at = "closed" => /\ last_read \in {"EOF", "ENOBUFS", "EAGAIN"}
                   /\ last_read = "ENOBUFS" => write_index = Capacity

(* A client that waits has one message on its way at most, and what is     *)
(* there of it is at the front of the buffer.                              *)
ClientWaits ==
  use = "client" => Len(sent) <= Len(delivered) + 1 /\ read_index = 0

(* If messages fit, its reads never fill the buffer.                       *)
ClientLeavesRoom ==
  (use = "client" /\ Fits) => last_read \notin {"filled", "EAGAIN", "ENOBUFS"}

StreamInvariant ==
  /\ StreamTypes
  /\ SentInOrder
  /\ BufferHoldsNext
  /\ FramingIntact
  /\ ClosedForReason
  /\ ClientWaits
  /\ ClientLeavesRoom

(* Where messages start and end.                                           *)
LEMMA SentBounds ==
  ASSUME StreamTypes, SentInOrder
  PROVE  /\ Len(sent) \in Nat /\ DOMAIN sent = 1..Len(sent)
         /\ HeaderBytes \in Nat \ {0} /\ Bodies \subseteq Nat
         /\ \A k \in 1..Len(sent) : /\ sent[k].from \in Nat /\ sent[k].body \in Bodies
                                    /\ EndOf(sent[k]) \in Nat
                                    /\ EndOf(sent[k]) = sent[k].from + (HeaderBytes + sent[k].body)
                                    /\ EndOf(sent[k]) <= StreamEnd
         /\ StreamEnd \in Nat
         /\ Len(sent) > 0 => StreamEnd = EndOf(sent[Len(sent)])
<1>1. /\ Len(sent) \in Nat /\ DOMAIN sent = 1..Len(sent)
      /\ \A k \in 1..Len(sent) : sent[k].from \in Nat /\ sent[k].body \in Bodies
  <2>1. PICK Messages : Messages = [from : Nat, body : Bodies]
    OBVIOUS
  <2>2. sent \in Seq(Messages)
    BY <2>1 DEF StreamTypes
  <2>3. \A k \in 1..Len(sent) : sent[k] \in Messages
    BY <2>2
  <2>4. \A m \in Messages : m.from \in Nat /\ m.body \in Bodies
    BY <2>1
  <2> QED
    BY <2>2, <2>3, <2>4
<1>2. HeaderBytes \in Nat \ {0} /\ Bodies \subseteq Nat
  BY StreamAssumption
<1>3. \A k \in 1..Len(sent) : /\ EndOf(sent[k]) \in Nat
                              /\ EndOf(sent[k]) = sent[k].from + (HeaderBytes + sent[k].body)
  <2> SUFFICES ASSUME NEW k \in 1..Len(sent)
               PROVE  /\ EndOf(sent[k]) \in Nat
                      /\ EndOf(sent[k]) = sent[k].from + (HeaderBytes + sent[k].body)
    OBVIOUS
  <2>1. PICK f, b : f = sent[k].from /\ b = sent[k].body
    OBVIOUS
  <2>2. f \in Nat /\ b \in Nat
    BY <1>1, <1>2, <2>1
  <2>3. EndOf(sent[k]) = f + HeaderBytes + b
    BY <2>1 DEF EndOf
  <2> QED
    BY <1>2, <2>1, <2>2, <2>3, SMTT(30)
<1>4. sent = <<>> <=> Len(sent) = 0
  BY DEF StreamTypes
<1>5. Len(sent) > 0 => StreamEnd = EndOf(sent[Len(sent)])
  BY <1>4 DEF StreamEnd, Last
<1>6. StreamEnd \in Nat
  BY <1>1, <1>3, <1>4, <1>5 DEF StreamEnd
<1>7. ASSUME NEW k \in 1..Len(sent)
      PROVE  EndOf(sent[k]) <= StreamEnd
  <2>0. PICK n : n = Len(sent)
    OBVIOUS
  <2>1. n \in 1..Len(sent) /\ n > 0 /\ (k = n \/ k < n)
    <3>1. n \in Nat /\ k \in 1..n
      BY <1>1, <2>0
    <3>2. n \in 1..n /\ n > 0 /\ (k = n \/ k < n)
      BY <3>1
    <3> QED
      BY <2>0, <3>2
  <2>2. k < n => EndOf(sent[k]) <= sent[n].from
    BY <2>1 DEF SentInOrder
  <2>3. sent[n].from \in Nat /\ sent[n].body \in Nat
        /\ EndOf(sent[n]) = sent[n].from + (HeaderBytes + sent[n].body)
        /\ EndOf(sent[k]) \in Nat
    BY <1>1, <1>2, <1>3, <2>1
  <2>4. sent[n].from <= EndOf(sent[n])
    BY <1>2, <2>3
  <2> QED
    BY <1>5, <1>6, <2>0, <2>1, <2>2, <2>3, <2>4
<1> QED
  BY <1>1, <1>2, <1>3, <1>5, <1>6, <1>7

(* What a client that waits has sent and not seen answered fits.           *)
LEMMA ClientFits ==
  ASSUME StreamInvariant, use = "client", Fits
  PROVE  /\ NextStart \in Nat /\ StreamEnd \in Nat
         /\ StreamEnd - NextStart < Capacity
<1>1. StreamTypes /\ SentInOrder /\ BufferHoldsNext /\ ClientWaits
  BY DEF StreamInvariant
<1>2. PICK n, d : n = Len(sent) /\ d = Len(delivered)
  OBVIOUS
<1>3. n \in Nat /\ d \in Nat /\ d <= n /\ n <= d + 1
  BY <1>1, <1>2, SentBounds DEF StreamTypes, BufferHoldsNext, ClientWaits
<1>4. /\ Capacity \in Nat /\ MaxWaste \in Nat \ {0} /\ Capacity > MaxWaste
      /\ HeaderBytes \in Nat /\ Bodies \subseteq Nat
  BY StreamAssumption
<1>5. CASE n = d
  <2>1. NextStart = StreamEnd /\ StreamEnd \in Nat
    BY <1>1, <1>2, <1>3, <1>5, SentBounds DEF NextStart
  <2> QED
    BY <1>4, <2>1
<1>6. CASE n = d + 1
  <2>1. n \in 1..n /\ n > 0 /\ d < n
    BY <1>3, <1>6
  <2>2. NextStart = sent[n].from
    BY <1>2, <1>6, <2>1 DEF NextStart
  <2>3. PICK b, f : b = sent[n].body /\ f = sent[n].from
    OBVIOUS
  <2>4. f \in Nat /\ b \in Bodies /\ StreamEnd \in Nat /\ StreamEnd = f + (HeaderBytes + b)
    BY <1>1, <1>2, <2>1, <2>3, SentBounds
  <2>5. HeaderBytes + b <= Capacity - MaxWaste /\ b \in Nat
    BY <1>4, <2>4 DEF Fits
  <2> QED
    BY <1>4, <2>2, <2>3, <2>4, <2>5
<1> QED
  BY <1>3, <1>5, <1>6

(* The front of the buffer is the header of the next message.              *)
LEMMA PeekNext ==
  ASSUME StreamInvariant, ReadableBytes >= 1
  PROVE  /\ Len(delivered) + 1 \in 1..Len(sent)
         /\ NextStart = sent[Len(delivered) + 1].from
         /\ PeekBody = sent[Len(delivered) + 1].body
<1> DEFINE d == Len(delivered) + 1
<1>1. StreamTypes /\ SentInOrder /\ BufferHoldsNext
  BY DEF StreamInvariant
<1>2. /\ read_index \in Nat /\ write_index \in Nat /\ arrived \in Nat
      /\ Len(delivered) \in Nat
  BY <1>1 DEF StreamTypes
<1>3. Len(sent) \in Nat /\ StreamEnd \in Nat
  BY <1>1, SentBounds
<1>4. NextStart \in Nat
  BY <1>1, <1>2, <1>3, SentBounds DEF NextStart
<1>5. write_index - read_index >= 1 /\ arrived = NextStart + (write_index - read_index)
      /\ arrived <= StreamEnd /\ Len(delivered) <= Len(sent)
  BY <1>1 DEF ReadableBytes, BufferHoldsNext
<1>6. NextStart # StreamEnd
  BY <1>2, <1>3, <1>4, <1>5
<1>7. Len(delivered) < Len(sent) /\ NextStart = sent[d].from
  BY <1>6 DEF NextStart
<1>8. d \in 1..Len(sent)
  BY <1>2, <1>3, <1>7
<1>9. Byte(1) = sent[d].from + 1
  <2>1. Holds(TheBuffer, NextStart)
    BY <1>1 DEF BufferHoldsNext
  <2>2. TheBuffer.m = mem /\ TheBuffer.r = read_index /\ TheBuffer.w = write_index
    BY DEF TheBuffer
  <2>3. \A i \in 1..(write_index - read_index) : mem[read_index + i] = NextStart + i
    BY <2>1, <2>2 DEF Holds
  <2>4. 1 \in 1..(write_index - read_index)
    BY <1>2, <1>5
  <2> QED
    BY <1>7, <2>3, <2>4 DEF Byte
<1>10. ASSUME NEW k \in DOMAIN sent, sent[k].from + 1 = Byte(1)
       PROVE  k = d
  <2>1. k \in 1..Len(sent) /\ k \in Nat
    BY <1>1, SentBounds
  <2>2. /\ sent[k].from \in Nat /\ sent[k].body \in Nat /\ sent[d].from \in Nat /\ sent[d].body \in Nat
        /\ EndOf(sent[k]) = sent[k].from + (HeaderBytes + sent[k].body)
        /\ EndOf(sent[d]) = sent[d].from + (HeaderBytes + sent[d].body)
        /\ HeaderBytes \in Nat \ {0}
    BY <1>1, <1>8, <2>1, SentBounds
  <2>3. sent[k].from = sent[d].from
    BY <1>9, <1>10, <2>2, SMTT(30)
  <2>4. k < d => EndOf(sent[k]) <= sent[d].from
    BY <1>1, <1>8, <2>1 DEF SentInOrder
  <2>5. d < k => EndOf(sent[d]) <= sent[k].from
    BY <1>1, <1>8, <2>1 DEF SentInOrder
  <2>6. ~(k < d)
    BY <2>2, <2>3, <2>4
  <2>7. ~(d < k)
    BY <2>2, <2>3, <2>5
  <2> QED
    BY <1>8, <2>1, <2>6, <2>7
<1>11. PICK here : here = {k \in DOMAIN sent : sent[k].from + 1 = Byte(1)}
  OBVIOUS
<1>12. here = {d}
  <2>1. d \in DOMAIN sent
    BY <1>1, <1>8, SentBounds
  <2> QED
    BY <1>9, <1>10, <1>11, <2>1
<1>13. (CHOOSE k \in here : TRUE) = d
  BY <1>12
<1>14. PeekBody = IF here = {} THEN 0 ELSE sent[CHOOSE k \in here : TRUE].body
  BY <1>11 DEF PeekBody
<1> QED
  BY <1>7, <1>8, <1>12, <1>13, <1>14

LEMMA StreamStarts ==
  ASSUME Init \/ Unused
  PROVE  StreamInvariant
<1>1. /\ sent = <<>> /\ delivered = <<>> /\ arrived = 0
      /\ mem = [i \in 1..Capacity |-> 0] /\ read_index = 0 /\ write_index = 0
      /\ at = "closed" => last_read = "EOF"
      /\ last_read \in {"none", "EOF"}
  BY DEF Init, Unused
<1>2. Capacity \in Nat /\ MaxWaste \in Nat
  BY StreamAssumption
<1>3. StreamTypes
  BY <1>1, <1>2 DEF StreamTypes
<1>4. SentInOrder
  BY <1>1 DEF SentInOrder
<1>5. NextStart = 0 /\ StreamEnd = 0
  BY <1>1 DEF NextStart, StreamEnd
<1>6. BufferHoldsNext
  <2>1. TheBuffer.m = mem /\ TheBuffer.r = 0 /\ TheBuffer.w = 0
    BY <1>1 DEF TheBuffer
  <2>2. Holds(TheBuffer, NextStart)
    BY <1>2, <2>1 DEF Holds
  <2> QED
    BY <1>1, <1>5, <2>2 DEF BufferHoldsNext
<1>7. FramingIntact
  BY <1>1 DEF FramingIntact
<1>8. ClosedForReason /\ ClientLeavesRoom
  BY <1>1 DEF ClosedForReason, ClientLeavesRoom
<1>9. ClientWaits
  BY <1>1 DEF ClientWaits
<1> QED
  BY <1>3, <1>4, <1>6, <1>7, <1>8, <1>9 DEF StreamInvariant

(* Write.                                                                  *)
LEMMA WriteKeeps ==
  ASSUME StreamInvariant, NEW body \in Bodies, Write(body)
  PROVE  StreamInvariant'
<1>1. StreamTypes /\ SentInOrder /\ BufferHoldsNext /\ FramingIntact
  BY DEF StreamInvariant
<1>2. PICK n, e, m : n = Len(sent) /\ e = StreamEnd /\ m = Message(e, body)
  OBVIOUS
<1>3. n \in Nat /\ e \in Nat /\ HeaderBytes \in Nat \ {0} /\ Bodies \subseteq Nat
      /\ Len(delivered) \in Nat
  BY <1>1, <1>2, SentBounds DEF StreamTypes
<1>4. m.from = e /\ m.body = body /\ m \in [from : Nat, body : Bodies]
  BY <1>2, <1>3 DEF Message
<1>5. EndOf(m) = e + (HeaderBytes + body) /\ EndOf(m) \in Nat
  <2>1. EndOf(m) = e + HeaderBytes + body /\ body \in Nat
    BY <1>3, <1>4 DEF EndOf
  <2> QED
    BY <1>3, <2>1
<1>6. sent' = Append(sent, m)
      /\ UNCHANGED <<use, arrived, mem, read_index, write_index, at, last_read, delivered>>
  BY <1>2 DEF Write, bufVars
<1>7. /\ sent' \in Seq([from : Nat, body : Bodies])
      /\ Len(sent') = n + 1 /\ sent'[n + 1] = m
      /\ \A k \in 1..n : sent'[k] = sent[k]
  <2>1. PICK Messages : Messages = [from : Nat, body : Bodies]
    OBVIOUS
  <2>2. sent \in Seq(Messages) /\ m \in Messages
    BY <1>1, <1>4, <2>1 DEF StreamTypes
  <2>3. sent' \in Seq(Messages) /\ Len(sent') = n + 1 /\ sent'[n + 1] = m
        /\ \A k \in 1..n : sent'[k] = sent[k]
    BY <1>2, <1>6, <2>2
  <2> QED
    BY <2>1, <2>3
<1>8. StreamTypes'
  BY <1>1, <1>6, <1>7 DEF StreamTypes
<1>9. StreamEnd' = EndOf(m) /\ e <= StreamEnd'
  <2>1. sent' # <<>>
    BY <1>3, <1>7
  <2>2. StreamEnd' = EndOf(m)
    BY <1>7, <2>1 DEF StreamEnd, Last, EndOf
  <2> QED
    BY <1>3, <1>5, <2>2
<1>10. SentInOrder'
  <2>1. sent'[1].from = 0
    <3>1. CASE n = 0
      <4>0. StreamTypes
        BY <1>1
      <4>1. sent = <<>>
        <5>1. sent = <<>> <=> Len(sent) = 0
          BY <4>0 DEF StreamTypes
        <5> QED
          BY <1>2, <3>1, <5>1
      <4>2. e = 0
        BY <1>2, <4>1 DEF StreamEnd
      <4> QED
        BY <1>4, <1>7, <3>1, <4>2
    <3>2. CASE n # 0
      <4>1. 1 \in 1..n /\ sent # <<>>
        BY <1>2, <1>3, <3>2
      <4> QED
        BY <1>1, <1>7, <4>1 DEF SentInOrder
    <3> QED
      BY <3>1, <3>2
  <2>2. ASSUME NEW k \in 2..Len(sent')
        PROVE  sent'[k].from = EndOf(sent'[k - 1])
    <3>1. k \in 2..(n + 1) /\ k - 1 \in 1..n
      BY <1>3, <1>7
    <3>2. CASE k = n + 1
      <4>1. n > 0 /\ k - 1 = n
        BY <1>3, <3>1, <3>2
      <4>2. e = EndOf(sent[n])
        BY <1>1, <1>2, <4>1, SentBounds
      <4> QED
        BY <1>4, <1>7, <3>1, <3>2, <4>1, <4>2
    <3>3. CASE k # n + 1
      <4>1. k \in 2..n /\ k \in 1..n
        BY <1>3, <3>1, <3>3
      <4> QED
        BY <1>1, <1>2, <1>7, <3>1, <4>1 DEF SentInOrder
    <3> QED
      BY <3>2, <3>3
  <2>3. ASSUME NEW j \in 1..Len(sent'), NEW k \in 1..Len(sent'), j < k
        PROVE  EndOf(sent'[j]) <= sent'[k].from
    <3>1. j \in 1..n /\ (k = n + 1 \/ k \in 1..n)
      BY <1>3, <1>7, <2>3
    <3>2. CASE k = n + 1
      <4>1. EndOf(sent[j]) <= e
        BY <1>1, <1>2, <3>1, SentBounds
      <4> QED
        BY <1>4, <1>7, <3>1, <3>2, <4>1
    <3>3. CASE k \in 1..n
      BY <1>1, <1>2, <1>7, <2>3, <3>1, <3>3 DEF SentInOrder
    <3> QED
      BY <3>1, <3>2, <3>3
  <2> QED
    BY <2>1, <2>2, <2>3 DEF SentInOrder, EndOf
<1>11. NextStart' = NextStart
  <2>1. Len(delivered) <= n
    BY <1>1, <1>2 DEF BufferHoldsNext
  <2>2. CASE Len(delivered) < n
    <3>1. Len(delivered) + 1 \in 1..n /\ Len(delivered) < n + 1
      BY <1>3, <2>2
    <3> QED
      BY <1>2, <1>6, <1>7, <2>2, <3>1 DEF NextStart
  <2>3. CASE ~(Len(delivered) < n)
    <3>1. Len(delivered) + 1 = n + 1 /\ Len(delivered) < n + 1
      BY <1>3, <2>1, <2>3
    <3>2. NextStart = e
      BY <1>2, <2>3 DEF NextStart
    <3>3. NextStart' = sent'[n + 1].from
      BY <1>6, <1>7, <3>1 DEF NextStart
    <3> QED
      BY <1>4, <1>7, <3>2, <3>3
  <2> QED
    BY <2>2, <2>3
<1>12. BufferHoldsNext'
  <2>1. TheBuffer' = TheBuffer
    BY <1>6 DEF TheBuffer
  <2>2. Holds(TheBuffer, NextStart) /\ arrived = NextStart + (write_index - read_index)
        /\ arrived <= e /\ Len(delivered) <= n
    BY <1>1, <1>2 DEF BufferHoldsNext
  <2>3. Holds(TheBuffer, NextStart)'
    BY <1>11, <2>1, <2>2 DEF Holds
  <2>4. arrived \in Nat /\ arrived <= StreamEnd'
    BY <1>1, <1>3, <1>5, <1>9, <2>2 DEF StreamTypes
  <2>5. Len(delivered)' <= Len(sent)'
    BY <1>3, <1>6, <1>7, <2>2
  <2> QED
    BY <1>6, <1>11, <2>2, <2>3, <2>4, <2>5 DEF BufferHoldsNext
<1>13. FramingIntact'
  <2> SUFFICES ASSUME NEW k \in DOMAIN delivered
               PROVE  k <= Len(sent') /\ delivered[k] = BytesOf(k)'
    BY <1>6 DEF FramingIntact
  <2>1. k <= n /\ delivered[k] = BytesOf(k)
    BY <1>1, <1>2 DEF FramingIntact
  <2>2. k \in 1..n /\ k <= n + 1
    BY <1>1, <1>3, <2>1 DEF StreamTypes
  <2>3. BytesOf(k)' = BytesOf(k)
    BY <1>7, <2>2 DEF BytesOf
  <2> QED
    BY <1>7, <2>1, <2>2, <2>3
<1>14. ClosedForReason' /\ ClientLeavesRoom'
  BY <1>6 DEF StreamInvariant, ClosedForReason, ClientLeavesRoom, Fits
<1>15. ClientWaits'
  <2>1. use = "client" => Len(delivered) = n
    BY <1>2 DEF Write
  <2>2. use = "client" => read_index = 0
    BY DEF StreamInvariant, ClientWaits
  <2> QED
    BY <1>3, <1>6, <1>7, <2>1, <2>2 DEF ClientWaits
<1> QED
  BY <1>8, <1>10, <1>12, <1>13, <1>14, <1>15 DEF StreamInvariant

(* TcpConnectionHandleRead.                                                *)
LEMMA HandleReadKeeps ==
  ASSUME StreamInvariant, NEW n \in 1..Capacity, HandleRead(n)
  PROVE  StreamInvariant'
<1>1. StreamTypes /\ SentInOrder /\ BufferHoldsNext /\ FramingIntact
  BY DEF StreamInvariant
<1>2. PICK r, w, base : r = read_index /\ w = write_index /\ base = NextStart
  OBVIOUS
<1>3. /\ r \in Nat /\ w \in Nat /\ arrived \in Nat /\ n \in Nat /\ Capacity \in Nat
      /\ mem \in [1..Capacity -> Nat] /\ Len(delivered) \in Nat
      /\ MaxWaste \in Nat
  <2>1. Capacity \in Nat /\ MaxWaste \in Nat
    BY StreamAssumption
  <2>2. n \in Nat
    BY <2>1
  <2>3. r \in Nat /\ w \in Nat /\ arrived \in Nat /\ Len(delivered) \in Nat
        /\ mem \in [1..Capacity -> Nat]
    BY <1>1, <1>2 DEF StreamTypes
  <2> QED
    BY <2>1, <2>2, <2>3
<1>4. base \in Nat /\ StreamEnd \in Nat
  BY <1>1, <1>2, <1>3, SentBounds DEF NextStart
<1>5. /\ r <= w /\ w <= Capacity /\ r <= MaxWaste
      /\ \A i \in 1..(w - r) : mem[r + i] = base + i
      /\ arrived = base + (w - r)
      /\ arrived <= StreamEnd /\ Len(delivered) <= Len(sent)
  <2>1. TheBuffer.m = mem /\ TheBuffer.r = r /\ TheBuffer.w = w
    BY <1>2 DEF TheBuffer
  <2> QED
    BY <1>1, <1>2, <2>1 DEF BufferHoldsNext, Holds
<1>6. /\ w + n <= Capacity /\ arrived + n <= StreamEnd
      /\ write_index' = w + n /\ arrived' = arrived + n /\ at' = "on_message"
      /\ UNCHANGED <<sent, read_index, delivered>>
  <2>1. n <= Capacity - w /\ n <= StreamEnd - arrived
    BY <1>2 DEF HandleRead, WritableBytes
  <2>2. w + n <= Capacity /\ arrived + n <= StreamEnd
    BY <1>3, <1>4, <2>1
  <2> QED
    BY <1>2, <2>2 DEF HandleRead
<1>m. mem' = [i \in 1..Capacity |->
                IF i \in (w + 1)..(w + n) THEN arrived + i - w ELSE mem[i]]
  BY <1>2 DEF HandleRead
<1>7. NextStart' = base /\ StreamEnd' = StreamEnd
  BY <1>2, <1>6 DEF NextStart, StreamEnd, EndOf
<1>8. StreamTypes'
  <2>1. ASSUME NEW i \in 1..Capacity
        PROVE  mem'[i] \in Nat
    <3>1. i \in (w + 1)..(w + n) => arrived + i - w \in Nat
      BY <1>3
    <3>2. mem[i] \in Nat
      BY <1>3
    <3> QED
      BY <1>m, <3>1, <3>2
  <2>2. mem' \in [1..Capacity -> Nat]
    BY <1>m, <2>1
  <2>3. arrived' \in Nat /\ write_index' \in Nat
    <3>1. arrived + n \in Nat /\ w + n \in Nat
      BY <1>3
    <3> QED
      BY <1>6, <3>1
  <2> QED
    BY <1>1, <1>6, <2>2, <2>3 DEF StreamTypes
<1>9. SentInOrder'
  BY <1>1, <1>6 DEF SentInOrder, EndOf
<1>10. BufferHoldsNext'
  <2>1. TheBuffer'.m = mem' /\ TheBuffer'.r = r /\ TheBuffer'.w = w + n
    BY <1>2, <1>6 DEF TheBuffer
  <2>2. ASSUME NEW i \in 1..((w + n) - r)
        PROVE  mem'[r + i] = base + i
    <3>1. r + i \in 1..Capacity
      <4>1. r \in Nat /\ w \in Nat /\ n \in Nat /\ Capacity \in Nat /\ r <= w
        BY <1>3, <1>5
      <4>2. w + n <= Capacity
        BY <1>6
      <4>3. i \in Nat /\ 1 <= i /\ i <= (w + n) - r
        BY <4>1
      <4> QED
        BY <4>1, <4>2, <4>3
    <3>2. CASE i \in 1..(w - r)
      <4>1. r + i \notin (w + 1)..(w + n)
        BY <1>3, <3>2
      <4> QED
        BY <1>5, <1>m, <3>1, <3>2, <4>1
    <3>3. CASE i \notin 1..(w - r)
      <4>1. r + i \in (w + 1)..(w + n)
        BY <1>3, <1>5, <3>3
      <4>2. mem'[r + i] = arrived + (r + i) - w
        BY <1>m, <3>1, <4>1
      <4> QED
        BY <1>3, <1>4, <1>5, <4>2
    <3> QED
      BY <3>2, <3>3
  <2>3. r <= w + n /\ arrived + n = base + ((w + n) - r)
    BY <1>3, <1>4, <1>5
  <2>4. Holds(TheBuffer, NextStart)'
    BY <1>5, <1>6, <1>7, <2>1, <2>2, <2>3 DEF Holds
  <2> QED
    BY <1>2, <1>5, <1>6, <1>7, <2>3, <2>4 DEF BufferHoldsNext
<1>11. FramingIntact'
  BY <1>1, <1>6 DEF FramingIntact, BytesOf
<1>12. ClosedForReason'
  BY <1>6 DEF ClosedForReason
<1>13. use' = use /\ last_read' \in {"filled", "partial"}
       /\ (last_read' = "filled" => n = Capacity - w)
  BY <1>2 DEF HandleRead, WritableBytes
<1>14. ClientWaits'
  BY <1>6, <1>13 DEF StreamInvariant, ClientWaits
<1>15. ClientLeavesRoom'
  <2> SUFFICES ASSUME use = "client", Fits, last_read' = "filled"
               PROVE  FALSE
    BY <1>13 DEF ClientLeavesRoom, Fits
  <2>1. StreamEnd - base < Capacity /\ r = 0
    BY <1>2, ClientFits DEF StreamInvariant, ClientWaits
  <2>2. n = Capacity - w
    BY <1>13
  <2> QED
    BY <1>3, <1>4, <1>5, <1>6, <2>1, <2>2
<1> QED
  BY <1>8, <1>9, <1>10, <1>11, <1>12, <1>14, <1>15 DEF StreamInvariant

(* The header and the body read one after the other are the message.       *)
LEMMA HeaderAndBody ==
  ASSUME NEW base \in Nat, NEW h \in Nat, NEW body \in Nat,
         NEW x, x = [i \in 1..h |-> base + i],
         NEW y, y = [i \in 1..body |-> (base + h) + i]
  PROVE  x \o y = [i \in 1..(h + body) |-> base + i]
<1>1. x \in Seq(Nat) /\ Len(x) = h
  OBVIOUS
<1>2. y \in Seq(Nat) /\ Len(y) = body
  OBVIOUS
<1>3. PICK z, w : z = x \o y /\ w = [i \in 1..(h + body) |-> base + i]
  OBVIOUS
<1>4. z \in Seq(Nat) /\ Len(z) = h + body
  BY <1>1, <1>2, <1>3
<1>5. w \in Seq(Nat) /\ Len(w) = h + body
  BY <1>3
<1>6. ASSUME NEW i \in 1..(h + body)
      PROVE  z[i] = w[i]
  <2>1. CASE i <= h
    <3>1. i \in 1..h
      BY <2>1
    <3>2. z[i] = x[i]
      BY <1>1, <1>2, <1>3, <3>1
    <3> QED
      BY <1>3, <3>1, <3>2
  <2>2. CASE ~(i <= h)
    <3>1. i - h \in 1..body /\ (base + h) + (i - h) = base + i
      BY <2>2
    <3>2. z[i] = y[i - h]
      BY <1>1, <1>2, <1>3, <2>2
    <3>3. y[i - h] = (base + h) + (i - h)
      BY <3>1
    <3> QED
      BY <1>3, <3>1, <3>2, <3>3
  <2> QED
    BY <2>1, <2>2
<1> QED
  BY <1>3, <1>4, <1>5, <1>6

(* The handler takes the next message, whole.                              *)
LEMMA TakeMessageKeeps ==
  ASSUME StreamInvariant, TakeMessage
  PROVE  StreamInvariant'
<1>1. StreamTypes /\ SentInOrder /\ BufferHoldsNext /\ FramingIntact
  BY DEF StreamInvariant
<1>2. HeaderBytes \in Nat \ {0} /\ Bodies \subseteq Nat
  BY StreamAssumption
<1>3. ReadableBytes >= HeaderBytes /\ ReadableBytes >= HeaderBytes + PeekBody
  BY DEF TakeMessage, HasMessage, HasHeader
<1>4. read_index \in Nat /\ write_index \in Nat /\ arrived \in Nat /\ Len(delivered) \in Nat
      /\ mem \in [1..Capacity -> Nat]
  BY <1>1 DEF StreamTypes
<1>5. ReadableBytes >= 1 /\ ReadableBytes = write_index - read_index
  BY <1>2, <1>3, <1>4 DEF ReadableBytes
<1>6. PICK d, base, body, b0 :
        d = Len(delivered) + 1 /\ base = NextStart /\ body = PeekBody /\ b0 = TheBuffer
  OBVIOUS
<1>7. d \in 1..Len(sent) /\ base = sent[d].from /\ body = sent[d].body
  BY <1>5, <1>6, PeekNext
<1>8. /\ base \in Nat /\ body \in Nat /\ Len(sent) \in Nat /\ StreamEnd \in Nat
      /\ EndOf(sent[d]) = base + (HeaderBytes + body)
      /\ EndOf(sent[d]) <= StreamEnd
  BY <1>1, <1>2, <1>7, SentBounds
<1>9. /\ b0.m = mem /\ b0.r = read_index /\ b0.w = write_index
      /\ b0 \in Buffers /\ Holds(b0, base)
  BY <1>1, <1>4, <1>6 DEF TheBuffer, Buffers, BufferHoldsNext
<1>10. b0.w - b0.r >= HeaderBytes + body
  BY <1>3, <1>5, <1>6, <1>9
<1>11. PICK b1 : b1 = Retrieved(b0, HeaderBytes)
  OBVIOUS
<1>12. HeaderBytes \in Nat /\ HeaderBytes <= b0.w - b0.r
  <2>1. b0.w - b0.r \in Int
    BY <1>4, <1>9
  <2> QED
    BY <1>2, <1>8, <1>10, <2>1
<1>13. /\ b1 \in Buffers /\ Holds(b1, base + HeaderBytes)
       /\ b1.w - b1.r = (b0.w - b0.r) - HeaderBytes
  BY <1>8, <1>9, <1>11, <1>12, RetrievedHolds
<1>14. PICK b2 : b2 = Retrieved(b1, body)
  OBVIOUS
<1>15. body <= b1.w - b1.r /\ base + HeaderBytes \in Nat
  <2>1. b0.w - b0.r \in Int
    BY <1>4, <1>9
  <2> QED
    BY <1>2, <1>8, <1>10, <1>13, <2>1
<1>16. /\ b2 \in Buffers /\ Holds(b2, (base + HeaderBytes) + body)
       /\ b2.w - b2.r = (b1.w - b1.r) - body
       /\ b2.w = b2.r => b2.r = 0
  BY <1>8, <1>13, <1>14, <1>15, RetrievedHolds
<1>17. /\ delivered' = Append(delivered, Content(b0, HeaderBytes) \o Content(b1, body))
       /\ mem' = b2.m /\ read_index' = b2.r /\ write_index' = b2.w
       /\ UNCHANGED <<use, sent, arrived, last_read>>
       /\ at' # "closed"
  BY <1>6, <1>11, <1>14 DEF TakeMessage, TheBuffer, AfterMessage
<1>18. PICK x, y : x = Content(b0, HeaderBytes) /\ y = Content(b1, body)
  OBVIOUS
<1>19. x = [i \in 1..HeaderBytes |-> base + i]
  BY <1>8, <1>9, <1>12, <1>18, ContentHolds
<1>20. y = [i \in 1..body |-> (base + HeaderBytes) + i]
  BY <1>8, <1>13, <1>15, <1>18, ContentHolds
<1>21. PICK z : z = x \o y
  OBVIOUS
<1>22. z = [i \in 1..(HeaderBytes + body) |-> base + i]
  BY <1>8, <1>12, <1>19, <1>20, <1>21, HeaderAndBody
<1>23. z \in Seq(Nat)
  BY <1>8, <1>12, <1>22
<1>24. BytesOf(d) = z
  BY <1>7, <1>22 DEF BytesOf
<1>25. /\ delivered' \in Seq(Seq(Nat)) /\ Len(delivered') = d
       /\ delivered'[d] = z
       /\ \A k \in 1..Len(delivered) : delivered'[k] = delivered[k]
       /\ DOMAIN delivered = 1..Len(delivered) /\ DOMAIN delivered' = 1..d
  <2>1. PICK S : S = Seq(Nat)
    OBVIOUS
  <2>2. delivered \in Seq(S) /\ z \in S /\ delivered' = Append(delivered, z)
    BY <1>1, <1>17, <1>18, <1>21, <1>23, <2>1 DEF StreamTypes
  <2>3. /\ delivered' \in Seq(S) /\ Len(delivered') = Len(delivered) + 1
        /\ delivered'[Len(delivered) + 1] = z
        /\ \A k \in 1..Len(delivered) : delivered'[k] = delivered[k]
        /\ DOMAIN delivered = 1..Len(delivered)
        /\ DOMAIN delivered' = 1..Len(delivered')
    BY <2>2
  <2> QED
    BY <1>6, <2>1, <2>3
<1>26. b2.m \in [1..Capacity -> Nat] /\ b2.r \in Nat /\ b2.w \in Nat
  BY <1>16 DEF Buffers
<1>27. StreamTypes'
  BY <1>1, <1>17, <1>25, <1>26 DEF StreamTypes
<1>28. SentInOrder'
  BY <1>1, <1>17 DEF SentInOrder, EndOf
<1>29. StreamEnd' = StreamEnd
  BY <1>17 DEF StreamEnd, EndOf
<1>30. NextStart' = (base + HeaderBytes) + body
  <2>1. (base + HeaderBytes) + body = EndOf(sent[d])
    BY <1>8, <1>12
  <2>2. CASE d < Len(sent)
    <3>1. NextStart' = sent[d + 1].from
      BY <1>17, <1>25, <2>2 DEF NextStart
    <3>2. d + 1 \in 2..Len(sent) /\ (d + 1) - 1 = d
      BY <1>7, <1>8, <2>2
    <3>3. sent[d + 1].from = EndOf(sent[(d + 1) - 1])
      BY <1>1, <3>2 DEF SentInOrder
    <3> QED
      BY <2>1, <3>1, <3>2, <3>3
  <2>3. CASE ~(d < Len(sent))
    <3>1. d = Len(sent) /\ Len(sent) > 0
      BY <1>7, <1>8, <2>3
    <3>2. StreamEnd = EndOf(sent[d])
      BY <1>1, <3>1, SentBounds
    <3>3. NextStart' = StreamEnd'
      BY <1>17, <1>25, <2>3 DEF NextStart
    <3> QED
      BY <1>29, <2>1, <3>2, <3>3
  <2> QED
    BY <2>2, <2>3
<1>31. BufferHoldsNext'
  <2>1. TheBuffer' = [m |-> b2.m, r |-> b2.r, w |-> b2.w]
    BY <1>17 DEF TheBuffer
  <2>2. TheBuffer'.m = b2.m /\ TheBuffer'.r = b2.r /\ TheBuffer'.w = b2.w
    BY <2>1
  <2>3. Holds(TheBuffer, NextStart)'
    BY <1>16, <1>30, <2>2 DEF Holds
  <2>4. arrived = base + (write_index - read_index) /\ arrived <= StreamEnd
    BY <1>1, <1>6 DEF BufferHoldsNext
  <2>5. b2.w - b2.r = ((write_index - read_index) - HeaderBytes) - body
    BY <1>9, <1>13, <1>16
  <2>6. arrived = ((base + HeaderBytes) + body) + (b2.w - b2.r)
    BY <1>4, <1>8, <1>12, <1>26, <2>4, <2>5
  <2>7. d <= Len(sent)
    BY <1>7, <1>8
  <2> QED
    BY <1>17, <1>25, <1>29, <1>30, <2>3, <2>4, <2>6, <2>7 DEF BufferHoldsNext
<1>32. FramingIntact'
  <2> SUFFICES ASSUME NEW k \in 1..d
               PROVE  k <= Len(sent') /\ delivered'[k] = BytesOf(k)'
    BY <1>25 DEF FramingIntact
  <2>1. BytesOf(k)' = BytesOf(k) /\ Len(sent') = Len(sent)
    BY <1>17 DEF BytesOf
  <2>2. CASE k = d
    BY <1>7, <1>24, <1>25, <2>1, <2>2
  <2>3. CASE k # d
    <3>1. k \in 1..Len(delivered)
      BY <1>4, <1>6, <2>3
    <3> QED
      BY <1>1, <1>25, <2>1, <3>1 DEF FramingIntact
  <2> QED
    BY <2>2, <2>3
<1>33. ClosedForReason' /\ ClientLeavesRoom'
  BY <1>17 DEF ClosedForReason, StreamInvariant, ClientLeavesRoom, Fits
<1>34. ClientWaits'
  <2> SUFFICES ASSUME use = "client"
               PROVE  Len(sent) <= d + 1 /\ b2.r = 0
    BY <1>17, <1>25 DEF ClientWaits
  <2>1. Len(sent) <= Len(delivered) + 1
    BY DEF StreamInvariant, ClientWaits
  <2>2. Len(sent) = d
    BY <1>4, <1>6, <1>7, <1>8, <2>1
  <2>3. StreamEnd = base + (HeaderBytes + body)
    BY <1>1, <1>7, <1>8, <2>2, SentBounds
  <2>4. arrived = base + (write_index - read_index) /\ arrived <= StreamEnd
    BY <1>1, <1>6 DEF BufferHoldsNext
  <2>5. b2.w - b2.r = ((write_index - read_index) - HeaderBytes) - body
    BY <1>9, <1>13, <1>16
  <2>6. b2.r <= b2.w
    BY <1>16 DEF Holds
  <2>7. b2.w = b2.r
    BY <1>4, <1>8, <1>12, <1>26, <2>3, <2>4, <2>5, <2>6
  <2> QED
    BY <1>8, <1>16, <2>2, <2>7
<1> QED
  BY <1>27, <1>28, <1>31, <1>32, <1>33, <1>34 DEF StreamInvariant

(* The other steps leave the stream and the buffer alone.                  *)
LEMMA RestKeeps ==
  ASSUME StreamInvariant,
         UNCHANGED <<use, sent, arrived, mem, read_index, write_index, delivered>>,
         ClosedForReason', ClientLeavesRoom'
  PROVE  StreamInvariant'
<1>1. NextStart' = NextStart /\ StreamEnd' = StreamEnd /\ TheBuffer' = TheBuffer
  BY DEF NextStart, StreamEnd, EndOf, TheBuffer
<1>2. StreamTypes' /\ SentInOrder' /\ FramingIntact'
  BY DEF StreamInvariant, StreamTypes, SentInOrder, FramingIntact, EndOf, BytesOf
<1>3. Holds(TheBuffer, NextStart)'
  BY <1>1 DEF StreamInvariant, BufferHoldsNext, Holds
<1>4. BufferHoldsNext'
  BY <1>1, <1>3 DEF StreamInvariant, BufferHoldsNext
<1>5. ClientWaits'
  BY DEF StreamInvariant, ClientWaits
<1> QED
  BY <1>2, <1>4, <1>5 DEF StreamInvariant

LEMMA StreamStep ==
  ASSUME StreamInvariant, [Next]_vars
  PROVE  StreamInvariant'
<1>a. ClosedForReason /\ ClientLeavesRoom
  BY DEF StreamInvariant
<1>b. ASSUME UNCHANGED <<use, last_read, write_index>>, at' = at \/ at' # "closed"
      PROVE  ClosedForReason' /\ ClientLeavesRoom'
  BY <1>a, <1>b DEF ClosedForReason, ClientLeavesRoom, Fits
<1>1. ASSUME NEW body \in Bodies, Write(body)
      PROVE  StreamInvariant'
  BY <1>1, WriteKeeps
<1>2. CASE PeerCloses
  BY <1>2, <1>b, RestKeeps DEF PeerCloses, bufVars
<1>3. ASSUME NEW n \in 1..Capacity, HandleRead(n)
      PROVE  StreamInvariant'
  BY <1>3, HandleReadKeeps
<1>4. CASE HandleReadError
  <2>1. write_index \in Nat /\ Capacity \in Nat
    BY StreamAssumption DEF StreamInvariant, StreamTypes
  <2>2. /\ UNCHANGED <<use, sent, arrived, mem, read_index, write_index, delivered>>
        /\ last_read' \in {"EOF", "ENOBUFS", "EAGAIN"}
        /\ last_read' = "ENOBUFS" => Capacity - write_index = 0
        /\ last_read' = "EAGAIN" => last_read = "filled"
    BY <1>4 DEF HandleReadError, WritableBytes, bufVars
  <2>3. ClosedForReason'
    BY <2>1, <2>2 DEF ClosedForReason
  <2>4. ASSUME use = "client", Fits
        PROVE  last_read' = "EOF"
    <3>1. last_read # "filled"
      BY <1>a, <2>4 DEF ClientLeavesRoom
    <3>2. NextStart \in Nat /\ StreamEnd \in Nat /\ StreamEnd - NextStart < Capacity
      BY <2>4, ClientFits
    <3>3. /\ read_index = 0 /\ arrived \in Nat
          /\ arrived = NextStart + (write_index - read_index) /\ arrived <= StreamEnd
      BY <2>4 DEF StreamInvariant, StreamTypes, ClientWaits, BufferHoldsNext
    <3>4. write_index # Capacity
      BY <2>1, <3>2, <3>3
    <3> QED
      BY <2>1, <2>2, <3>1, <3>4
  <2>5. ClientLeavesRoom'
    BY <2>2, <2>4 DEF ClientLeavesRoom, Fits
  <2> QED
    BY <2>2, <2>3, <2>5, RestKeeps
<1>5. CASE TakeMessage
  BY <1>5, TakeMessageKeeps
<1>6. CASE BodyIncomplete
  BY <1>6, <1>b, RestKeeps DEF BodyIncomplete, AfterIncomplete, bufVars
<1>7. CASE NoHeader
  BY <1>7, <1>b, RestKeeps DEF NoHeader, bufVars
<1>8. CASE UNCHANGED vars
  BY <1>8, <1>b, RestKeeps DEF vars
<1> QED
  BY <1>1, <1>2, <1>3, <1>4, <1>5, <1>6, <1>7, <1>8 DEF Next

(* A full buffer holds the next message, if it is of a size that fits.     *)
LEMMA FullHasMessage ==
  ASSUME StreamInvariant
  PROVE  ClosedOnlyWithBacklog
<1> SUFFICES ASSUME \A body \in Bodies : HeaderBytes + body <= Capacity - MaxWaste,
                    at = "closed"
             PROVE  /\ last_read = "ENOBUFS" => HasMessage
                    /\ use = "client" => last_read = "EOF"
  BY DEF ClosedOnlyWithBacklog
<1>c. use = "client" => last_read = "EOF"
  BY DEF StreamInvariant, ClosedForReason, ClientLeavesRoom, Fits
<1> SUFFICES ASSUME last_read = "ENOBUFS"
             PROVE  HasMessage
  BY <1>c
<1>1. write_index = Capacity
  BY DEF StreamInvariant, ClosedForReason
<1>2. StreamTypes /\ SentInOrder /\ BufferHoldsNext
  BY DEF StreamInvariant
<1>3. /\ Capacity \in Nat /\ MaxWaste \in Nat /\ Capacity > MaxWaste
      /\ HeaderBytes \in Nat /\ Bodies \subseteq Nat
  BY StreamAssumption
<1>4. read_index \in Nat
  BY <1>2 DEF StreamTypes
<1>5. read_index <= MaxWaste
  BY <1>2 DEF BufferHoldsNext, Holds, TheBuffer
<1>6. ReadableBytes = Capacity - read_index
  BY <1>1 DEF ReadableBytes
<1>7. ReadableBytes >= 1 /\ ReadableBytes >= Capacity - MaxWaste /\ ReadableBytes \in Int
  BY <1>3, <1>4, <1>5, <1>6
<1>8. PICK d : d = Len(delivered) + 1
  OBVIOUS
<1>9. d \in 1..Len(sent) /\ PeekBody = sent[d].body
  BY <1>7, <1>8, PeekNext
<1>10. PeekBody \in Bodies
  BY <1>2, <1>9, SentBounds
<1>11. HeaderBytes + PeekBody <= Capacity - MaxWaste /\ PeekBody \in Nat
  BY <1>3, <1>10
<1> QED
  BY <1>3, <1>7, <1>11 DEF HasMessage, HasHeader

(* However TCP cuts the stream and wherever Retrieve moves what is left in *)
(* the Buffer, message k that OnMessage hands on is message k that was     *)
(* sent, byte for byte: for every buffer and header size, and all bodies.  *)
THEOREM Framing == NetSpec => []FramingIntact
<1>1. NetInit => StreamInvariant
  BY StreamStarts DEF NetInit
<1>2. StreamInvariant /\ [NetNext]_<<vars, tcpVars, codeVars>> => StreamInvariant'
  BY StreamStep DEF NetNext
<1>3. StreamInvariant => FramingIntact
  BY DEF StreamInvariant
<1> QED
  BY <1>1, <1>2, <1>3, PTL DEF NetSpec

(* If messages leave max_waste_bytes_ of the buffer free: a read finds no  *)
(* room (ENOBUFS) only when a whole message is waiting in the buffer, and  *)
(* TcpConnectionHandleRead closes the connection of a client that waits    *)
(* for its answers at the end of the stream only; for any capacity, any    *)
(* sizes and any cut of the stream.                                        *)
THEOREM RoomForNext == NetSpec => []ClosedOnlyWithBacklog
<1>1. NetInit => StreamInvariant
  BY StreamStarts DEF NetInit
<1>2. StreamInvariant /\ [NetNext]_<<vars, tcpVars, codeVars>> => StreamInvariant'
  BY StreamStep DEF NetNext
<1>3. StreamInvariant => ClosedOnlyWithBacklog
  BY FullHasMessage
<1> QED
  BY <1>1, <1>2, <1>3, PTL DEF NetSpec

-----------------------------------------------------------------------------
(* Lists of handles.                                                       *)

(* Sequence q has every element of S, once.                                *)
Lists(q, S) ==
  /\ q \in Seq(S)
  /\ \A i, j \in DOMAIN q : q[i] = q[j] => i = j
  /\ \A x \in S : \E i \in DOMAIN q : q[i] = x

LEMMA SetToSeqLists ==
  ASSUME NEW S, IsFiniteSet(S), NEW q, q = SetToSeq(S)
  PROVE  Lists(q, S)
<1>1. PICK n : n = Cardinality(S)
  OBVIOUS
<1>2. n \in Nat /\ ExistsBijection(1..n, S)
  BY <1>1, FS_CardinalityType
<1>3. PICK f \in Bijection(1..n, S) : TRUE
  BY <1>2 DEF ExistsBijection
<1>4. f \in [1..n -> S] /\ IsInjective(f)
  BY <1>3 DEF Bijection, Injection
<1>5. q = CHOOSE g \in [1..n -> S] : IsInjective(g)
  BY <1>1 DEF SetToSeq
<1>6. q \in [1..n -> S] /\ IsInjective(q)
  BY <1>4, <1>5
<1>7. q \in Injection(1..n, S)
  BY <1>6 DEF Injection
<1>8. IsFiniteSet(1..n) /\ Cardinality(1..n) = n
  BY <1>2, FS_Interval
<1>9. q \in Surjection(1..n, S)
  BY <1>1, <1>7, <1>8, FS_Injection
<1>10. q \in Seq(S) /\ DOMAIN q = 1..n
  BY <1>2, <1>6
<1>11. \A x \in S : \E i \in 1..n : q[i] = x
  BY <1>9 DEF Surjection
<1>12. \A i, j \in DOMAIN q : q[i] = q[j] => i = j
  BY <1>6 DEF IsInjective
<1> QED
  BY <1>10, <1>11, <1>12 DEF Lists

(* The server's operators of the library are the library's.                *)
LEMMA SameLibrary ==
  /\ \A S : TCP!Cardinality(S) = Cardinality(S)
  /\ \A q : TCP!ToSet(q) = ToSet(q)
  /\ \A q : TCP!Reverse(q) = Reverse(q)
  /\ \A f : TCP!Range(f) = Range(f)
<1>1. \A S : TCP!Cardinality(S) = Cardinality(S)
  BY DEF TCP!Cardinality, Cardinality
<1>2. \A q : TCP!ToSet(q) = ToSet(q)
  BY DEF TCP!ToSet, ToSet
<1>3. \A q : TCP!Reverse(q) = Reverse(q)
  BY DEF TCP!Reverse, Reverse
<1>4. \A f : TCP!Range(f) = Range(f)
  BY DEF TCP!Range, Range
<1> QED
  BY <1>1, <1>2, <1>3, <1>4

LEMMA SameSetToSeq ==
  \A S : TCP!SetToSeq(S) = SetToSeq(S)
<1>1. \A S : TCP!Cardinality(S) = Cardinality(S)
  BY SameLibrary
<1> QED
  BY <1>1 DEF TCP!SetToSeq, SetToSeq, TCP!IsInjective, IsInjective

LEMMA ListsElements ==
  ASSUME NEW S, NEW q, Lists(q, S)
  PROVE  /\ ToSet(q) = S
         /\ q = <<>> <=> S = {}
<1>1. q \in Seq(S) /\ DOMAIN q = 1..Len(q) /\ Len(q) \in Nat
  BY DEF Lists
<1>2. \A i \in DOMAIN q : q[i] \in S
  BY <1>1
<1>3. ToSet(q) = S
  BY <1>2 DEF Lists, ToSet
<1>4. q = <<>> => S = {}
  BY DEF Lists
<1>5. S = {} => q = <<>>
  <2> SUFFICES ASSUME S = {}
               PROVE  q = <<>>
    OBVIOUS
  <2>1. DOMAIN q = {}
    BY <1>2
  <2>2. Len(q) = 0
    BY <1>1, <2>1
  <2> QED
    BY <1>1, <2>2
<1> QED
  BY <1>3, <1>4, <1>5

LEMMA ListsOne ==
  ASSUME NEW x, NEW q, q = <<x>>
  PROVE  Lists(q, {x})
<1>1. q \in Seq({x}) /\ DOMAIN q = {1} /\ q[1] = x
  OBVIOUS
<1> QED
  BY <1>1 DEF Lists

LEMMA ListsReverse ==
  ASSUME NEW S, NEW q, Lists(q, S), NEW t, t = Reverse(q)
  PROVE  Lists(t, S)
<1>1. PICK n : n = Len(q)
  OBVIOUS
<1>2. q \in Seq(S) /\ n \in Nat /\ DOMAIN q = 1..n
  BY <1>1 DEF Lists
<1>3. t = [i \in 1..n |-> q[(n - i) + 1]]
  BY <1>1 DEF Reverse
<1>4. \A i \in 1..n : (n - i) + 1 \in 1..n /\ (n - ((n - i) + 1)) + 1 = i
  BY <1>2
<1>5. \A i \in 1..n : q[(n - i) + 1] \in S
  BY <1>2, <1>4
<1>6. t \in Seq(S) /\ DOMAIN t = 1..n
  BY <1>2, <1>3, <1>5
<1>7. ASSUME NEW i \in 1..n, NEW j \in 1..n, t[i] = t[j]
      PROVE  i = j
  <2>1. q[(n - i) + 1] = q[(n - j) + 1]
    BY <1>3, <1>7
  <2>2. (n - i) + 1 = (n - j) + 1
    BY <1>2, <1>4, <2>1 DEF Lists
  <2> QED
    BY <1>2, <2>2
<1>8. ASSUME NEW x \in S
      PROVE  \E i \in 1..n : t[i] = x
  <2>1. PICK j \in 1..n : q[j] = x
    BY <1>2 DEF Lists
  <2>2. (n - j) + 1 \in 1..n /\ (n - ((n - j) + 1)) + 1 = j
    BY <1>4
  <2>3. t[(n - j) + 1] = q[(n - ((n - j) + 1)) + 1]
    BY <1>3, <2>2
  <2> QED
    BY <2>1, <2>2, <2>3
<1> QED
  BY <1>6, <1>7, <1>8 DEF Lists

LEMMA ListsConcat ==
  ASSUME NEW S, NEW T, S \cap T = {}, NEW q, NEW t, Lists(q, S), Lists(t, T),
         NEW z, z = q \o t, NEW U, U = S \cup T
  PROVE  Lists(z, U)
<1>1. PICK n, m : n = Len(q) /\ m = Len(t)
  OBVIOUS
<1>2. q \in Seq(S) /\ t \in Seq(T)
  BY DEF Lists
<1>3. q \in Seq(U) /\ t \in Seq(U)
  BY <1>2
<1>4. n \in Nat /\ m \in Nat /\ DOMAIN q = 1..n /\ DOMAIN t = 1..m
  BY <1>1, <1>3
<1>5. z \in Seq(U) /\ Len(z) = n + m /\ DOMAIN z = 1..(n + m)
  BY <1>1, <1>3, <1>4
<1>6. ASSUME NEW i \in 1..(n + m)
      PROVE  \/ i \in 1..n /\ z[i] = q[i] /\ z[i] \in S
             \/ ~(i <= n) /\ i - n \in 1..m /\ z[i] = t[i - n] /\ z[i] \in T
  <2>1. CASE i <= n
    <3>1. i \in 1..n
      BY <1>4, <2>1
    <3>2. z[i] = q[i]
      BY <1>1, <1>3, <3>1
    <3>3. q[i] \in S
      BY <1>2, <1>4, <3>1
    <3> QED
      BY <3>1, <3>2, <3>3
  <2>2. CASE ~(i <= n)
    <3>1. i - n \in 1..m
      BY <1>4, <2>2
    <3>2. z[i] = t[i - n]
      BY <1>1, <1>3, <1>4, <2>2
    <3>3. t[i - n] \in T
      BY <1>2, <1>4, <3>1
    <3> QED
      BY <2>2, <3>1, <3>2, <3>3
  <2> QED
    BY <2>1, <2>2
<1>7. ASSUME NEW i \in 1..(n + m), NEW j \in 1..(n + m), z[i] = z[j]
      PROVE  i = j
  <2>1. CASE i \in 1..n /\ j \in 1..n
    <3>1. z[i] = q[i] /\ z[j] = q[j]
      BY <1>4, <1>6, <2>1
    <3> QED
      BY <1>4, <1>7, <2>1, <3>1 DEF Lists
  <2>2. CASE ~(i \in 1..n) /\ ~(j \in 1..n)
    <3>1. /\ i - n \in 1..m /\ z[i] = t[i - n]
          /\ j - n \in 1..m /\ z[j] = t[j - n]
      BY <1>6, <2>2
    <3>2. i - n = j - n
      BY <1>4, <1>7, <3>1 DEF Lists
    <3> QED
      BY <1>4, <3>2
  <2>3. CASE i \in 1..n /\ ~(j \in 1..n)
    <3>1. z[i] \in S /\ z[j] \in T
      BY <1>4, <1>6, <2>3
    <3> QED
      BY <1>7, <3>1
  <2>4. CASE ~(i \in 1..n) /\ j \in 1..n
    <3>1. z[i] \in T /\ z[j] \in S
      BY <1>4, <1>6, <2>4
    <3> QED
      BY <1>7, <3>1
  <2> QED
    BY <2>1, <2>2, <2>3, <2>4
<1>8. ASSUME NEW x \in U
      PROVE  \E i \in 1..(n + m) : z[i] = x
  <2>1. CASE x \in S
    <3>1. PICK j \in 1..n : q[j] = x
      BY <1>4, <2>1 DEF Lists
    <3>2. j \in 1..(n + m) /\ j <= n
      BY <1>4
    <3>3. z[j] = q[j]
      BY <1>4, <1>6, <3>2
    <3> QED
      BY <3>1, <3>2, <3>3
  <2>2. CASE x \in T
    <3>1. PICK j \in 1..m : t[j] = x
      BY <1>4, <2>2 DEF Lists
    <3>2. n + j \in 1..(n + m) /\ ~(n + j <= n) /\ (n + j) - n = j /\ n + j \notin 1..n
      BY <1>4
    <3>3. z[n + j] = t[(n + j) - n]
      BY <1>6, <3>2
    <3> QED
      BY <3>1, <3>2, <3>3
  <2> QED
    BY <2>1, <2>2
<1> QED
  BY <1>5, <1>7, <1>8 DEF Lists

LEMMA FunctionIsSeq ==
  ASSUME NEW T, NEW k \in Nat, NEW t \in [1..k -> T]
  PROVE  t \in Seq(T)
OBVIOUS

LEMMA ListsTail ==
  ASSUME NEW S, NEW q, Lists(q, S), q # <<>>,
         NEW x, x = Head(q), NEW t, t = Tail(q), NEW T, T = S \ {x}
  PROVE  x \in S /\ Lists(t, T)
<1>1. PICK n : n = Len(q)
  OBVIOUS
<1>2. q \in Seq(S) /\ n \in Nat /\ n # 0 /\ DOMAIN q = 1..n
  BY <1>1 DEF Lists
<1>3. x = q[1] /\ 1 \in 1..n /\ x \in S
  BY <1>2
<1>4. t \in Seq(S) /\ Len(t) = n - 1 /\ DOMAIN t = 1..(n - 1)
  BY <1>1, <1>2
<1>5. \A i \in 1..(n - 1) : t[i] = q[i + 1] /\ i + 1 \in 1..n /\ i + 1 # 1
  BY <1>1, <1>2
<1>6. ASSUME NEW i \in 1..(n - 1)
      PROVE  t[i] \in T
  <2>1. t[i] = q[i + 1] /\ i + 1 \in 1..n /\ i + 1 # 1
    BY <1>5
  <2>2. q[i + 1] # q[1]
    BY <1>2, <1>3, <2>1 DEF Lists
  <2>3. q[i + 1] \in S
    BY <1>2, <2>1
  <2> QED
    BY <1>3, <2>1, <2>2, <2>3
<1>7. t \in Seq(T)
  <2>1. PICK k : k = n - 1
    OBVIOUS
  <2>2. k \in Nat /\ Len(t) = k /\ \A i \in 1..k : t[i] \in T
    BY <1>2, <1>4, <1>6, <2>1
  <2>3. t \in [1..Len(t) -> S]
    BY <1>4, LenProperties
  <2>4. t \in [1..k -> T]
    BY <2>2, <2>3
  <2> QED
    BY <2>2, <2>4, FunctionIsSeq
<1>8. ASSUME NEW i \in 1..(n - 1), NEW j \in 1..(n - 1), t[i] = t[j]
      PROVE  i = j
  <2>1. q[i + 1] = q[j + 1] /\ i + 1 \in 1..n /\ j + 1 \in 1..n
    BY <1>5, <1>8
  <2>2. i + 1 = j + 1
    BY <1>2, <2>1 DEF Lists
  <2> QED
    BY <1>2, <2>2
<1>9. ASSUME NEW y \in T
      PROVE  \E i \in 1..(n - 1) : t[i] = y
  <2>1. PICK j \in 1..n : q[j] = y
    BY <1>2 DEF Lists
  <2>2. j # 1
    BY <1>3, <2>1
  <2>3. j - 1 \in 1..(n - 1) /\ (j - 1) + 1 = j
    BY <1>2, <2>2
  <2>4. t[j - 1] = q[(j - 1) + 1]
    BY <1>5, <2>3
  <2> QED
    BY <2>1, <2>3, <2>4
<1> QED
  BY <1>3, <1>4, <1>7, <1>8, <1>9 DEF Lists

-----------------------------------------------------------------------------
(* The handles of a server.                                                *)

Connections == TCP!Connections
Handles == TCP!Handles
Nobody == TCP!Nobody

HandleTypes ==
  /\ handle \in [Handles -> {"none", "open", "closing", "closed"}]
  /\ \E n \in 0..MaxAccepts : DOMAIN peer = 1..n /\ server \in [1..n -> Servers]
  /\ DOMAIN connections_ = Servers
  /\ functors \subseteq Servers

(* A handle is there from its accept on; a server's always.                *)
HandleOfConnection ==
  /\ \A c \in Connections : handle[c] = "none" <=> c \notin DOMAIN peer
  /\ \A s \in Servers : handle[s] # "none"

Closing == {h \in Handles : handle[h] = "closing"}

(* libuv's list has every closing handle, once.                            *)
ClosingListed == Lists(closing, Closing)

Live(c) == handle[c] \in {"open", "closing"}

Names(s, p, c) == c \in DOMAIN peer /\ server[c] = s /\ peer[c] = p /\ p # Nobody /\ Live(c)

(* connections_ names the connections that were accepted and whose close   *)
(* callback has not come, and no others.                                   *)
MapIsLive ==
  /\ \A s \in Servers : \A p \in DOMAIN connections_[s] : Names(s, p, connections_[s][p])
  /\ \A c \in DOMAIN peer : (Live(c) /\ peer[c] # Nobody) =>
       /\ peer[c] \in DOMAIN connections_[server[c]]
       /\ connections_[server[c]][peer[c]] = c

(* What was not accepted is closed and freed; nobody waits for an answer   *)
(* on it; and what else is freed has had its close callback.               *)
FreedIsClosed ==
  /\ \A c \in DOMAIN peer : peer[c] = Nobody => (handle[c] # "open" /\ c \in freed)
  /\ \A c \in held : c \in DOMAIN peer /\ peer[c] # Nobody
  /\ \A c \in freed : c \in DOMAIN peer /\ (handle[c] = "closed" \/ peer[c] = Nobody)

Unclosed == {s \in Servers : handle[s] # "closed"}

(* A server that was closed has closed its connections, and the latch      *)
(* opens in the closing phase, which ends with all of them called back.    *)
StopInOrder ==
  /\ \A c \in DOMAIN peer : handle[server[c]] # "open" => handle[c] # "open"
  /\ stop_ = Cardinality(Unclosed)
  /\ (Unclosed = {} /\ phase = "poll") => closing = <<>>
  /\ stopper \in {"stop loop", "stopped"} => stop_ = 0
  /\ stopper = "stopped" => phase = "poll"

TcpInvariant ==
  /\ HandleTypes
  /\ HandleOfConnection
  /\ ClosingListed
  /\ MapIsLive
  /\ FreedIsClosed
  /\ StopInOrder
  /\ fault # "uv_close"

LEMMA HandleFacts ==
  ASSUME HandleTypes
  PROVE  /\ Handles = Connections \cup Servers /\ Connections \cap Servers = {}
         /\ IsFiniteSet(Connections) /\ IsFiniteSet(Servers)
         /\ DOMAIN handle = Handles
         /\ \A c \in DOMAIN peer : c \in Connections /\ server[c] \in Servers
<1>1. MaxAccepts \in Nat /\ IsFiniteSet(Servers)
  BY NetAssumption
<1>2. Connections = 1..MaxAccepts /\ Handles = Connections \cup Servers
  BY DEF Connections, Handles, TCP!Connections, TCP!Handles
<1>3. Connections \cap Servers = {}
  BY NetAssumption DEF Connections
<1>4. IsFiniteSet(Connections)
  BY <1>1, <1>2, FS_Interval
<1>5. PICK n \in 0..MaxAccepts : DOMAIN peer = 1..n /\ server \in [1..n -> Servers]
  BY DEF HandleTypes
<1>6. ASSUME NEW c \in 1..n
      PROVE  c \in 1..MaxAccepts /\ server[c] \in Servers
  <2>1. n \in Nat /\ n <= MaxAccepts
    BY <1>1
  <2> QED
    BY <1>1, <1>5, <2>1
<1>7. \A c \in DOMAIN peer : c \in Connections /\ server[c] \in Servers
  BY <1>2, <1>5, <1>6
<1>8. DOMAIN handle = Handles
  BY DEF HandleTypes
<1> QED
  BY <1>1, <1>2, <1>3, <1>4, <1>7, <1>8

(* Once all servers are closed no handle is open.                          *)
LEMMA NothingOpen ==
  ASSUME TcpInvariant, Unclosed = {}, NEW h \in Handles
  PROVE  handle[h] # "open"
<1>1. HandleTypes /\ HandleOfConnection /\ StopInOrder
  BY DEF TcpInvariant
<1>2. \A s \in Servers : handle[s] = "closed"
  BY DEF Unclosed
<1>3. CASE h \in Servers
  BY <1>2, <1>3
<1>4. CASE h \in DOMAIN peer
  <2>1. server[h] \in Servers
    BY <1>1, <1>4, HandleFacts
  <2>2. handle[server[h]] # "open"
    BY <1>2, <2>1
  <2> QED
    BY <1>1, <1>4, <2>2 DEF StopInOrder
<1>5. CASE h \in Connections /\ h \notin DOMAIN peer
  BY <1>1, <1>5 DEF HandleOfConnection
<1> QED
  BY <1>1, <1>3, <1>4, <1>5, HandleFacts

(* When the loop has stopped, nothing is left.                             *)
LEMMA InvariantSound ==
  ASSUME TcpInvariant
  PROVE  HandlesSound
<1>1. /\ HandleTypes /\ HandleOfConnection /\ ClosingListed /\ MapIsLive
      /\ FreedIsClosed /\ StopInOrder
  BY DEF TcpInvariant
<1>2. TCP!ClosedOnce
  BY DEF TcpInvariant, TCP!ClosedOnce
<1>3. TCP!NoFreedHandle
  BY <1>1 DEF FreedIsClosed, TCP!NoFreedHandle, Nobody
<1>4. ASSUME stopper = "stopped"
      PROVE  /\ \A h \in Handles : handle[h] \in {"none", "closed"}
             /\ \A s \in Servers : DOMAIN connections_[s] = {}
  <2>1. Cardinality(Unclosed) = 0 /\ phase = "poll"
    BY <1>1, <1>4 DEF StopInOrder
  <2>2. Unclosed = {}
    <3>1. IsFiniteSet(Servers) /\ Unclosed \subseteq Servers
      BY <1>1, HandleFacts DEF Unclosed
    <3>2. IsFiniteSet(Unclosed)
      BY <3>1, FS_Subset
    <3> QED
      BY <2>1, <3>2, FS_EmptySet
  <2>3. closing = <<>>
    BY <1>1, <2>1, <2>2 DEF StopInOrder
  <2>4. Closing = {}
    BY <1>1, <2>3, ListsElements DEF ClosingListed
  <2>5. ASSUME NEW h \in Handles
        PROVE  handle[h] \in {"none", "closed"}
    <3>1. handle[h] # "closing"
      BY <2>4 DEF Closing
    <3>2. handle[h] # "open"
      BY <2>2, NothingOpen
    <3>3. handle[h] \in {"none", "open", "closing", "closed"}
      BY <1>1 DEF HandleTypes
    <3> QED
      BY <3>1, <3>2, <3>3
  <2>6. ASSUME NEW s \in Servers, NEW p \in DOMAIN connections_[s]
        PROVE  FALSE
    <3>1. PICK c : c = connections_[s][p]
      OBVIOUS
    <3>2. c \in DOMAIN peer /\ handle[c] \in {"open", "closing"}
      BY <1>1, <3>1 DEF MapIsLive, Names, Live
    <3>3. c \in Handles
      BY <1>1, <3>2, HandleFacts
    <3> QED
      BY <2>5, <3>2, <3>3
  <2> QED
    BY <2>5, <2>6
<1>5. TCP!NothingLeft
  BY <1>4 DEF TCP!NothingLeft, Handles
<1> QED
  BY <1>2, <1>3, <1>5 DEF HandlesSound

LEMMA TcpStarts ==
  ASSUME TCP!Init \/ TCP!Unused
  PROVE  TcpInvariant
<1>1. PICK st \in {"open", "closed"} :
        handle = [h \in Handles |-> IF h \in Servers THEN st ELSE "none"]
  BY DEF TCP!Init, TCP!Unused, Handles
<1>2. /\ freed = {} /\ held = {} /\ peer = TCP!NoFunction /\ server = TCP!NoFunction
      /\ connections_ = [s \in Servers |-> TCP!NoFunction]
      /\ closing = <<>> /\ functors = {} /\ phase = "poll" /\ fault = "no"
  BY DEF TCP!Init, TCP!Unused
<1>3. DOMAIN peer = {} /\ DOMAIN server = {} /\ DOMAIN TCP!NoFunction = {}
  BY <1>2 DEF TCP!NoFunction
<1>4. HandleTypes
  <2>1. handle \in [Handles -> {"none", "open", "closing", "closed"}]
    BY <1>1
  <2>2. 0 \in 0..MaxAccepts /\ 1..0 = {}
    BY NetAssumption
  <2>3. server \in [{} -> Servers]
    BY <1>2, <1>3 DEF TCP!NoFunction
  <2>4. DOMAIN peer = 1..0 /\ server \in [1..0 -> Servers]
    BY <1>3, <2>2, <2>3
  <2> QED
    BY <1>2, <2>1, <2>2, <2>4 DEF HandleTypes
<1>5. \A c \in Connections : c \in Handles /\ c \notin Servers
  BY <1>4, HandleFacts
<1>6. \A s \in Servers : s \in Handles
  BY <1>4, HandleFacts
<1>7. HandleOfConnection
  BY <1>1, <1>3, <1>5, <1>6 DEF HandleOfConnection
<1>8. ClosingListed
  <2>1. Closing = {}
    BY <1>1 DEF Closing
  <2>2. <<>> \in Seq({}) /\ DOMAIN <<>> = {}
    OBVIOUS
  <2> QED
    BY <1>2, <2>1, <2>2 DEF ClosingListed, Lists
<1>9. MapIsLive
  BY <1>2, <1>3 DEF MapIsLive
<1>10. FreedIsClosed
  BY <1>2, <1>3 DEF FreedIsClosed
<1>11. StopInOrder
  <2>1. CASE TCP!Init
    <3>1. \A s \in Servers : handle[s] = "open"
      BY <1>6, <2>1 DEF TCP!Init, Handles
    <3>2. Unclosed = Servers
      BY <3>1 DEF Unclosed
    <3>3. stop_ = Cardinality(Servers) /\ stopper = "running"
      BY <2>1, SameLibrary DEF TCP!Init
    <3> QED
      BY <1>2, <1>3, <3>2, <3>3 DEF StopInOrder
  <2>2. CASE TCP!Unused
    <3>1. \A s \in Servers : handle[s] = "closed"
      BY <1>6, <2>2 DEF TCP!Unused, Handles
    <3>2. Unclosed = {}
      BY <3>1 DEF Unclosed
    <3>3. Cardinality({}) = 0
      BY FS_EmptySet
    <3>4. stop_ = 0 /\ stopper = "stopped"
      BY <2>2 DEF TCP!Unused
    <3> QED
      BY <1>2, <1>3, <3>2, <3>3, <3>4 DEF StopInOrder
  <2> QED
    BY <2>1, <2>2
<1> QED
  BY <1>2, <1>4, <1>7, <1>8, <1>9, <1>10, <1>11 DEF TcpInvariant

(* uv_close of open handles q, given that a server goes with all of its    *)
(* connections.                                                            *)
LEMMA ClosesKeep ==
  ASSUME TcpInvariant, NEW S \in SUBSET Handles, NEW q, Lists(q, S),
         \A h \in S : handle[h] = "open",
         \A c \in DOMAIN peer : (server[c] \in S /\ handle[c] = "open") => c \in S,
         TCP!UvClose(q),
         UNCHANGED <<freed, server, peer, held, connections_, phase, stop_, stopper>>,
         functors' \subseteq Servers
  PROVE  TcpInvariant'
<1>1. /\ HandleTypes /\ HandleOfConnection /\ ClosingListed /\ MapIsLive
      /\ FreedIsClosed /\ StopInOrder /\ fault # "uv_close"
  BY DEF TcpInvariant
<1>2. TCP!ToSet(q) = S
  BY ListsElements, SameLibrary
<1>3. /\ handle' = [h \in Handles |-> IF h \in S THEN "closing" ELSE handle[h]]
      /\ closing' = Reverse(q) \o closing
      /\ fault' = fault
  BY <1>2, SameLibrary DEF TCP!UvClose, Handles
<1>4. /\ Handles = Connections \cup Servers
      /\ \A c \in DOMAIN peer : c \in Connections /\ server[c] \in Servers
  BY <1>1, HandleFacts
<1>5. /\ \A h \in S : handle[h] = "open" /\ handle'[h] = "closing"
      /\ \A h \in Handles \ S : handle'[h] = handle[h]
  BY <1>3
<1>6. HandleTypes'
  <2>1. handle' \in [Handles -> {"none", "open", "closing", "closed"}]
    BY <1>1, <1>3 DEF HandleTypes
  <2> QED
    BY <1>1, <2>1 DEF HandleTypes, Handles
<1>7. HandleOfConnection'
  <2>1. \A h \in Handles : handle'[h] = "none" <=> handle[h] = "none"
    BY <1>5
  <2> QED
    BY <1>1, <1>4, <2>1 DEF HandleOfConnection, Connections
<1>8. ClosingListed'
  <2>1. PICK r : r = Reverse(q)
    OBVIOUS
  <2>2. Lists(r, S)
    BY <2>1, ListsReverse
  <2>3. S \cap Closing = {}
    BY <1>5 DEF Closing
  <2>4. PICK U : U = S \cup Closing
    OBVIOUS
  <2>5. Lists(closing, Closing)
    BY <1>1 DEF ClosingListed
  <2>6. closing' = r \o closing
    BY <1>3, <2>1
  <2>7. PICK z : z = r \o closing
    OBVIOUS
  <2>8. Lists(z, U)
    BY <2>2, <2>3, <2>4, <2>5, <2>7, ListsConcat
  <2>9. Closing' = U
    BY <1>5, <2>4 DEF Closing, Handles
  <2>10. closing' = z
    BY <2>6, <2>7
  <2>11. Lists(closing', Closing')
    BY <2>8, <2>9, <2>10
  <2> QED
    BY <2>11 DEF ClosingListed, Lists
<1>9. \A c \in DOMAIN peer : handle'[c] \in {"open", "closing"} <=> handle[c] \in {"open", "closing"}
  BY <1>4, <1>5
<1>10. MapIsLive'
  BY <1>1, <1>9 DEF MapIsLive, Names, Live, Nobody
<1>11. FreedIsClosed'
  <2>1. \A c \in DOMAIN peer : /\ handle'[c] = "open" => handle[c] = "open"
                               /\ handle[c] = "closed" => handle'[c] = "closed"
    BY <1>4, <1>5
  <2> QED
    BY <1>1, <2>1 DEF FreedIsClosed, Nobody
<1>12. StopInOrder'
  <2>1. ASSUME NEW c \in DOMAIN peer, handle'[server[c]] # "open"
        PROVE  handle'[c] # "open"
    <3>1. c \in Handles /\ server[c] \in Handles
      BY <1>4
    <3>2. CASE server[c] \in S
      BY <1>5, <3>1, <3>2
    <3>3. CASE server[c] \notin S
      <4>1. handle[c] # "open"
        BY <1>1, <1>5, <2>1, <3>1, <3>3 DEF StopInOrder
      <4> QED
        BY <1>5, <3>1, <4>1
    <3> QED
      BY <3>2, <3>3
  <2>2. Unclosed' = Unclosed
    <3>1. \A s \in Servers : handle'[s] = "closed" <=> handle[s] = "closed"
      BY <1>4, <1>5
    <3> QED
      BY <3>1 DEF Unclosed
  <2>3. ASSUME Unclosed = {}, phase = "poll"
        PROVE  closing' = <<>>
    <3>1. S = {}
      BY <2>3, NothingOpen
    <3>2. PICK r : r = Reverse(q)
      OBVIOUS
    <3>3. Lists(r, S)
      BY <3>2, ListsReverse
    <3>4. r = <<>>
      BY <3>1, <3>3, ListsElements
    <3>5. closing = <<>>
      BY <1>1, <2>3 DEF StopInOrder
    <3> QED
      BY <1>3, <3>2, <3>4, <3>5
  <2> QED
    BY <1>1, <2>1, <2>2, <2>3 DEF StopInOrder
<1> QED
  BY <1>1, <1>3, <1>6, <1>7, <1>8, <1>10, <1>11, <1>12 DEF TcpInvariant

LEMMA ReadErrorKeeps ==
  ASSUME TcpInvariant, NEW c \in Connections, TCP!ReadError(c)
  PROVE  TcpInvariant'
<1>1. PICK S, q : S = {c} /\ q = <<c>>
  OBVIOUS
<1>2. HandleTypes
  BY DEF TcpInvariant
<1>3. c \in Handles /\ c \notin Servers
  BY <1>2, HandleFacts
<1>4. Lists(q, S)
  BY <1>1, ListsOne
<1>5. \A h \in S : handle[h] = "open"
  BY <1>1 DEF TCP!ReadError
<1>6. \A d \in DOMAIN peer : (server[d] \in S /\ handle[d] = "open") => d \in S
  BY <1>1, <1>2, <1>3, HandleFacts
<1>7. TCP!UvClose(q) /\ UNCHANGED <<freed, server, peer, held, connections_, phase, stop_, stopper>>
  BY <1>1 DEF TCP!ReadError, TCP!conns, TCP!thread
<1>8. functors' \subseteq Servers
  BY <1>2 DEF TCP!ReadError, TCP!thread, HandleTypes
<1>9. S \in SUBSET Handles
  BY <1>1, <1>3
<1> QED
  BY <1>4, <1>5, <1>6, <1>7, <1>8, <1>9, ClosesKeep

LEMMA CloseServerKeeps ==
  ASSUME TcpInvariant, NEW s \in Servers, TCP!CloseServer(s)
  PROVE  TcpInvariant'
<1>1. HandleTypes /\ MapIsLive /\ FreedIsClosed
  BY DEF TcpInvariant
<1>2. PICK C, A : C = TCP!Open(TCP!ClosedBy(s)) /\ A = TCP!Open({s})
  OBVIOUS
<1>3. PICK S, q, x, y : S = C \cup A /\ x = SetToSeq(C) /\ y = SetToSeq(A) /\ q = x \o y
  OBVIOUS
<1>4. TCP!UvClose(q) /\ UNCHANGED <<freed, server, peer, held, connections_, phase, stop_, stopper>>
  BY <1>2, <1>3, SameSetToSeq DEF TCP!CloseServer, TCP!Close, TCP!conns
<1>5. functors' \subseteq Servers
  BY <1>1 DEF TCP!CloseServer, HandleTypes
<1>6. /\ Handles = Connections \cup Servers /\ Connections \cap Servers = {}
      /\ IsFiniteSet(Connections) /\ IsFiniteSet(Servers)
      /\ \A c \in DOMAIN peer : c \in Connections /\ server[c] \in Servers
  BY <1>1, HandleFacts
<1>7. \A c : c \in C <=> handle[c] = "open" /\ \E p \in DOMAIN connections_[s] : connections_[s][p] = c
  BY <1>2, SameLibrary DEF TCP!Open, TCP!ClosedBy, Range
<1>8. \A h : h \in A <=> h = s /\ handle[s] = "open"
  BY <1>2 DEF TCP!Open
<1>9. C \subseteq Connections
  <2>1. \A p \in DOMAIN connections_[s] : connections_[s][p] \in DOMAIN peer
    BY <1>1 DEF MapIsLive, Names
  <2> QED
    BY <1>6, <1>7, <2>1
<1>10. A \subseteq Servers
  BY <1>8
<1>11. IsFiniteSet(C) /\ IsFiniteSet(A)
  BY <1>6, <1>9, <1>10, FS_Subset
<1>12. Lists(x, C) /\ Lists(y, A)
  BY <1>3, <1>11, SetToSeqLists
<1>13. C \cap A = {}
  BY <1>6, <1>9, <1>10
<1>14. Lists(q, S)
  BY <1>3, <1>12, <1>13, ListsConcat
<1>15. \A h \in S : handle[h] = "open"
  BY <1>3, <1>7, <1>8
<1>16. ASSUME NEW c \in DOMAIN peer, server[c] \in S, handle[c] = "open"
       PROVE  c \in S
  <2>1. server[c] = s
    BY <1>3, <1>6, <1>8, <1>9, <1>16
  <2>2. peer[c] # Nobody
    BY <1>1, <1>16 DEF FreedIsClosed
  <2>3. peer[c] \in DOMAIN connections_[s] /\ connections_[s][peer[c]] = c
    BY <1>1, <1>16, <2>1, <2>2 DEF MapIsLive, Live
  <2> QED
    BY <1>3, <1>7, <1>16, <2>3
<1>17. S \in SUBSET Handles
  BY <1>3, <1>6, <1>9, <1>10
<1> QED
  BY <1>4, <1>5, <1>14, <1>15, <1>16, <1>17, ClosesKeep

(* A new connection c, from p at server s, in state st.                    *)
NewHandle(c, s, p, st) ==
  /\ c = TCP!NextConnection
  /\ handle' = [handle EXCEPT ![c] = st]
  /\ server' = TCP!With(server, c, s)
  /\ peer' = TCP!With(peer, c, p)

LEMMA NewHandleFacts ==
  ASSUME TcpInvariant, NEW c \in Connections, NEW s \in Servers, NEW p,
         NEW st \in {"open", "closing"}, NewHandle(c, s, p, st),
         DOMAIN connections_' = Servers, functors' = functors
  PROVE  /\ HandleTypes' /\ HandleOfConnection' /\ Unclosed' = Unclosed
         /\ c \in Handles /\ c \notin DOMAIN peer /\ c \notin Servers /\ handle[c] = "none"
         /\ DOMAIN peer' = DOMAIN peer \cup {c} /\ peer'[c] = p /\ server'[c] = s
         /\ \A d \in DOMAIN peer : /\ peer'[d] = peer[d] /\ server'[d] = server[d]
                                   /\ handle'[d] = handle[d]
         /\ handle'[c] = st /\ \A h \in Handles \ {c} : handle'[h] = handle[h]
         /\ \A t \in Servers : handle'[t] = handle[t]
<1>1. HandleTypes /\ HandleOfConnection
  BY DEF TcpInvariant
<1>2. PICK n \in 0..MaxAccepts : DOMAIN peer = 1..n /\ server \in [1..n -> Servers]
  BY <1>1 DEF HandleTypes
<1>3. n \in Nat /\ MaxAccepts \in Nat /\ Connections = 1..MaxAccepts
  BY NetAssumption DEF Connections, TCP!Connections
<1>4. c = n + 1
  <2>1. Cardinality(1..n) = n
    BY <1>3, FS_Interval
  <2>2. c = Cardinality(1..n) + 1
    BY <1>2, SameLibrary DEF NewHandle, TCP!NextConnection
  <2> QED
    BY <2>1, <2>2
<1>5. n + 1 \in 0..MaxAccepts /\ 1..(n + 1) = (1..n) \cup {c} /\ c \notin 1..n
  BY <1>3, <1>4
<1>6. /\ Handles = Connections \cup Servers /\ Connections \cap Servers = {}
      /\ \A d \in DOMAIN peer : d \in Connections
  BY <1>1, HandleFacts
<1>7. c \in Handles /\ c \notin DOMAIN peer /\ c \notin Servers /\ handle[c] = "none"
  BY <1>1, <1>2, <1>5, <1>6 DEF HandleOfConnection
<1>8. DOMAIN peer' = DOMAIN peer \cup {c} /\ peer'[c] = p
      /\ \A d \in DOMAIN peer : peer'[d] = peer[d]
  BY <1>7 DEF NewHandle, TCP!With
<1>9. DOMAIN server = DOMAIN peer
  BY <1>2
<1>10. DOMAIN server' = DOMAIN peer \cup {c} /\ server'[c] = s
       /\ \A d \in DOMAIN peer : server'[d] = server[d]
  BY <1>7, <1>9 DEF NewHandle, TCP!With
<1>11. handle \in [Handles -> {"none", "open", "closing", "closed"}]
  BY <1>1 DEF HandleTypes
<1>12. handle' = [handle EXCEPT ![c] = st]
  BY DEF NewHandle
<1>13. handle' \in [Handles -> {"none", "open", "closing", "closed"}]
       /\ handle'[c] = st /\ \A h \in Handles \ {c} : handle'[h] = handle[h]
  BY <1>7, <1>11, <1>12
<1>14. \A t \in Servers : handle'[t] = handle[t]
  BY <1>6, <1>7, <1>13
<1>15. \A d \in DOMAIN peer : handle'[d] = handle[d]
  BY <1>6, <1>7, <1>13
<1>16. HandleTypes'
  <2>1. server' \in [1..(n + 1) -> Servers]
    <3>1. \A d \in 1..(n + 1) : server'[d] \in Servers
      BY <1>2, <1>5, <1>10
    <3>2. server' = [d \in DOMAIN server' |-> server'[d]]
      <4>1. server' = [z \in DOMAIN server \cup {c} |-> IF z = c THEN s ELSE server[z]]
        BY DEF NewHandle, TCP!With
      <4> QED
        BY <4>1
    <3>3. DOMAIN server' = 1..(n + 1)
      BY <1>2, <1>5, <1>10
    <3> QED
      BY <3>1, <3>2, <3>3
  <2>2. DOMAIN peer' = 1..(n + 1)
    BY <1>2, <1>5, <1>8
  <2>3. \E m \in 0..MaxAccepts : DOMAIN peer' = 1..m /\ server' \in [1..m -> Servers]
    BY <1>5, <2>1, <2>2
  <2> QED
    BY <1>1, <1>13, <2>3 DEF HandleTypes, Handles
<1>17. HandleOfConnection'
  <2>1. ASSUME NEW d \in Connections
        PROVE  handle'[d] = "none" <=> d \notin DOMAIN peer'
    BY <1>1, <1>6, <1>8, <1>13 DEF HandleOfConnection
  <2>2. \A t \in Servers : handle'[t] # "none"
    BY <1>1, <1>14 DEF HandleOfConnection
  <2> QED
    BY <2>1, <2>2 DEF HandleOfConnection, Connections
<1>18. Unclosed' = Unclosed
  BY <1>14 DEF Unclosed
<1> QED
  BY <1>7, <1>8, <1>10, <1>13, <1>14, <1>15, <1>16, <1>17, <1>18

(* NewConnection: Free says the name was not taken.                        *)
LEMMA AcceptKeeps ==
  ASSUME TcpInvariant, NEW s \in Servers, NEW p \in Peers, TCP!Accept(s, p)
  PROVE  TcpInvariant'
<1>1. /\ HandleTypes /\ HandleOfConnection /\ ClosingListed /\ MapIsLive
      /\ FreedIsClosed /\ StopInOrder /\ fault # "uv_close"
  BY DEF TcpInvariant
<1>2. PICK c : c = TCP!NextConnection
  OBVIOUS
<1>3. /\ handle[s] = "open" /\ c \in Connections /\ TCP!Free(s, p)
      /\ handle' = [handle EXCEPT ![c] = "open"]
      /\ server' = TCP!With(server, c, s) /\ peer' = TCP!With(peer, c, p)
      /\ connections_' = [connections_ EXCEPT ![s] = TCP!With(connections_[s], p, c)]
      /\ UNCHANGED <<freed, held, phase, closing, functors, stop_, stopper, fault>>
  BY <1>2 DEF TCP!Accept, Connections, TCP!thread
<1>4. NewHandle(c, s, p, "open")
  BY <1>2, <1>3 DEF NewHandle
<1>5. PICK m : m = TCP!With(connections_[s], p, c)
  OBVIOUS
<1>6. /\ DOMAIN connections_' = Servers /\ connections_'[s] = m
      /\ \A t \in Servers \ {s} : connections_'[t] = connections_[t]
  BY <1>1, <1>3, <1>5 DEF HandleTypes
<1>7. /\ DOMAIN m = DOMAIN connections_[s] \cup {p} /\ m[p] = c
      /\ \A x \in DOMAIN connections_[s] \ {p} : m[x] = connections_[s][x]
  BY <1>5 DEF TCP!With
<1>8. "open" \in {"open", "closing"} /\ functors' = functors
  BY <1>3
<1>9. /\ HandleTypes' /\ HandleOfConnection' /\ Unclosed' = Unclosed
      /\ c \in Handles /\ c \notin DOMAIN peer /\ c \notin Servers /\ handle[c] = "none"
      /\ DOMAIN peer' = DOMAIN peer \cup {c} /\ peer'[c] = p /\ server'[c] = s
      /\ \A d \in DOMAIN peer : /\ peer'[d] = peer[d] /\ server'[d] = server[d]
                                /\ handle'[d] = handle[d]
      /\ handle'[c] = "open" /\ \A h \in Handles \ {c} : handle'[h] = handle[h]
      /\ \A t \in Servers : handle'[t] = handle[t]
  BY <1>3, <1>4, <1>6, <1>8, NewHandleFacts
<1>10. p # Nobody
  BY NetAssumption DEF Nobody
<1>11. p \notin DOMAIN connections_[s]
  <2> SUFFICES ASSUME p \in DOMAIN connections_[s]
               PROVE  FALSE
    OBVIOUS
  <2>1. PICK d : d = connections_[s][p]
    OBVIOUS
  <2>2. d \in DOMAIN peer /\ server[d] = s /\ peer[d] = p /\ handle[d] \in {"open", "closing"}
    BY <1>1, <2>1 DEF MapIsLive, Names, Live
  <2> QED
    BY <1>3, <2>2 DEF TCP!Free
<1>12. ClosingListed'
  <2>1. Closing' = Closing
    BY <1>9 DEF Closing, Handles
  <2> QED
    BY <1>1, <1>3, <2>1 DEF ClosingListed, Lists
<1>13. MapIsLive'
  <2>1. ASSUME NEW t \in Servers, NEW x \in DOMAIN connections_'[t]
        PROVE  Names(t, x, connections_[t][x])'
    <3>1. CASE t = s /\ x = p
      BY <1>6, <1>7, <1>9, <1>10, <3>1 DEF Names, Live, Nobody
    <3>2. CASE ~(t = s /\ x = p)
      <4>1. x \in DOMAIN connections_[t] /\ connections_'[t][x] = connections_[t][x]
        BY <1>6, <1>7, <3>2
      <4>2. Names(t, x, connections_[t][x])
        BY <1>1, <4>1 DEF MapIsLive
      <4> QED
        BY <1>9, <4>1, <4>2 DEF Names, Live, Nobody
    <3> QED
      BY <3>1, <3>2
  <2>2. ASSUME NEW d \in DOMAIN peer', Live(d)', peer'[d] # Nobody
        PROVE  /\ peer'[d] \in DOMAIN connections_'[server'[d]]
               /\ connections_'[server'[d]][peer'[d]] = d
    <3>1. CASE d = c
      BY <1>6, <1>7, <1>9, <3>1
    <3>2. CASE d # c
      <4>1. d \in DOMAIN peer /\ peer'[d] = peer[d] /\ server'[d] = server[d] /\ Live(d)
        BY <1>9, <2>2, <3>2 DEF Live
      <4>2. PICK t, x : t = server[d] /\ x = peer[d]
        OBVIOUS
      <4>3. t \in Servers /\ x \in DOMAIN connections_[t] /\ connections_[t][x] = d
        BY <1>1, <2>2, <4>1, <4>2, HandleFacts DEF MapIsLive
      <4>4. x \in DOMAIN connections_'[t] /\ connections_'[t][x] = d
        <5>1. CASE t = s
          BY <1>6, <1>7, <1>11, <4>3, <5>1
        <5>2. CASE t # s
          BY <1>6, <4>3, <5>2
        <5> QED
          BY <5>1, <5>2
      <4> QED
        BY <4>1, <4>2, <4>4
    <3> QED
      BY <3>1, <3>2
  <2> QED
    BY <2>1, <2>2 DEF MapIsLive, Nobody
<1>14. FreedIsClosed'
  BY <1>1, <1>3, <1>9, <1>10 DEF FreedIsClosed, Nobody
<1>15. StopInOrder'
  <2>1. ASSUME NEW d \in DOMAIN peer', handle'[server'[d]] # "open"
        PROVE  handle'[d] # "open"
    <3>1. CASE d = c
      BY <1>3, <1>9, <2>1, <3>1
    <3>2. CASE d # c
      <4>1. d \in DOMAIN peer /\ server'[d] = server[d] /\ handle'[d] = handle[d]
        BY <1>9, <3>2
      <4>2. server[d] \in Servers
        BY <1>1, <4>1, HandleFacts
      <4>3. handle'[server[d]] = handle[server[d]]
        BY <1>9, <4>2
      <4> QED
        BY <1>1, <2>1, <4>1, <4>3 DEF StopInOrder
    <3> QED
      BY <3>1, <3>2
  <2> QED
    BY <1>1, <1>3, <1>9, <2>1 DEF StopInOrder
<1> QED
  BY <1>1, <1>3, <1>9, <1>12, <1>13, <1>14, <1>15 DEF TcpInvariant

LEMMA AcceptFailedKeeps ==
  ASSUME TcpInvariant, NEW s \in Servers, TCP!AcceptFailed(s)
  PROVE  TcpInvariant'
<1>1. /\ HandleTypes /\ HandleOfConnection /\ ClosingListed /\ MapIsLive
      /\ FreedIsClosed /\ StopInOrder /\ fault # "uv_close"
  BY DEF TcpInvariant
<1>2. PICK c : c = TCP!NextConnection
  OBVIOUS
<1>3. /\ handle[s] = "open" /\ c \in Connections
      /\ handle' = [handle EXCEPT ![c] = "closing"]
      /\ server' = TCP!With(server, c, s) /\ peer' = TCP!With(peer, c, Nobody)
      /\ closing' = <<c>> \o closing /\ freed' = freed \cup {c}
      /\ UNCHANGED <<held, connections_, phase, functors, stop_, stopper, fault>>
  BY <1>2 DEF TCP!AcceptFailed, Connections, Nobody, TCP!thread
<1>4. PICK p : p = Nobody
  OBVIOUS
<1>5. NewHandle(c, s, p, "closing")
  BY <1>2, <1>3, <1>4 DEF NewHandle
<1>6. "closing" \in {"open", "closing"} /\ functors' = functors /\ DOMAIN connections_' = Servers
  BY <1>1, <1>3 DEF HandleTypes
<1>7. /\ HandleTypes' /\ HandleOfConnection' /\ Unclosed' = Unclosed
      /\ c \in Handles /\ c \notin DOMAIN peer /\ c \notin Servers /\ handle[c] = "none"
      /\ DOMAIN peer' = DOMAIN peer \cup {c} /\ peer'[c] = p /\ server'[c] = s
      /\ \A d \in DOMAIN peer : /\ peer'[d] = peer[d] /\ server'[d] = server[d]
                                /\ handle'[d] = handle[d]
      /\ handle'[c] = "closing" /\ \A h \in Handles \ {c} : handle'[h] = handle[h]
      /\ \A t \in Servers : handle'[t] = handle[t]
  BY <1>3, <1>5, <1>6, NewHandleFacts
<1>8. ClosingListed'
  <2>1. PICK q, S, U, z : q = <<c>> /\ S = {c} /\ U = S \cup Closing /\ z = q \o closing
    OBVIOUS
  <2>2. Lists(q, S)
    BY <2>1, ListsOne
  <2>3. S \cap Closing = {}
    BY <1>7, <2>1 DEF Closing
  <2>4. Lists(closing, Closing)
    BY <1>1 DEF ClosingListed
  <2>5. Lists(z, U)
    BY <2>1, <2>2, <2>3, <2>4, ListsConcat
  <2>6. Closing' = U
    BY <1>7, <2>1 DEF Closing, Handles
  <2>7. closing' = z
    BY <1>3, <2>1
  <2>8. Lists(closing', Closing')
    BY <2>5, <2>6, <2>7
  <2> QED
    BY <2>8 DEF ClosingListed, Lists
<1>9. MapIsLive'
  <2>1. ASSUME NEW t \in Servers, NEW x \in DOMAIN connections_[t]
        PROVE  Names(t, x, connections_[t][x])'
    <3>1. Names(t, x, connections_[t][x])
      BY <1>1 DEF MapIsLive
    <3> QED
      BY <1>3, <1>7, <3>1 DEF Names, Live, Nobody
  <2>2. ASSUME NEW d \in DOMAIN peer', Live(d)', peer'[d] # Nobody
        PROVE  /\ peer'[d] \in DOMAIN connections_[server'[d]]
               /\ connections_[server'[d]][peer'[d]] = d
    <3>1. d # c
      BY <1>4, <1>7, <2>2
    <3>2. d \in DOMAIN peer /\ peer'[d] = peer[d] /\ server'[d] = server[d] /\ Live(d)
      BY <1>7, <2>2, <3>1 DEF Live
    <3> QED
      BY <1>1, <2>2, <3>2 DEF MapIsLive
  <2> QED
    BY <1>3, <2>1, <2>2 DEF MapIsLive, Nobody
<1>10. FreedIsClosed'
  <2>1. \A d \in DOMAIN peer' : peer'[d] = Nobody => (handle'[d] # "open" /\ d \in freed')
    BY <1>1, <1>3, <1>7 DEF FreedIsClosed
  <2>2. \A d \in held : d \in DOMAIN peer' /\ peer'[d] # Nobody
    BY <1>1, <1>7 DEF FreedIsClosed
  <2>3. \A d \in freed' : d \in DOMAIN peer' /\ (handle'[d] = "closed" \/ peer'[d] = Nobody)
    BY <1>1, <1>3, <1>4, <1>7 DEF FreedIsClosed
  <2> QED
    BY <1>3, <2>1, <2>2, <2>3 DEF FreedIsClosed, Nobody
<1>11. StopInOrder'
  <2>1. ASSUME NEW d \in DOMAIN peer', handle'[server'[d]] # "open"
        PROVE  handle'[d] # "open"
    <3>1. CASE d = c
      BY <1>7, <3>1
    <3>2. CASE d # c
      <4>1. d \in DOMAIN peer /\ server'[d] = server[d] /\ handle'[d] = handle[d]
        BY <1>7, <3>2
      <4>2. server[d] \in Servers
        BY <1>1, <4>1, HandleFacts
      <4>3. handle'[server[d]] = handle[server[d]]
        BY <1>7, <4>2
      <4> QED
        BY <1>1, <2>1, <4>1, <4>3 DEF StopInOrder
    <3> QED
      BY <3>1, <3>2
  <2>2. Unclosed # {}
    BY <1>3 DEF Unclosed
  <2> QED
    BY <1>1, <1>3, <1>7, <2>1, <2>2 DEF StopInOrder
<1> QED
  BY <1>1, <1>3, <1>7, <1>8, <1>9, <1>10, <1>11 DEF TcpInvariant

(* Steps that change no handle and no list.                                *)
LEMMA QuietKeeps ==
  ASSUME TcpInvariant,
         UNCHANGED <<handle, server, peer, connections_, closing, stop_>>,
         functors' \subseteq Servers,
         FreedIsClosed',
         fault' # "uv_close",
         Unclosed = {} /\ phase' = "poll" => closing = <<>>,
         stopper' \in {"stop loop", "stopped"} => stop_ = 0,
         stopper' = "stopped" => phase' = "poll"
  PROVE  TcpInvariant'
<1>1. /\ HandleTypes /\ HandleOfConnection /\ ClosingListed /\ MapIsLive /\ StopInOrder
  BY DEF TcpInvariant
<1>2. HandleTypes'
  BY <1>1 DEF HandleTypes, Handles
<1>3. HandleOfConnection'
  BY <1>1 DEF HandleOfConnection, Connections
<1>4. Closing' = Closing /\ Unclosed' = Unclosed
  BY DEF Closing, Unclosed, Handles
<1>5. ClosingListed'
  BY <1>1, <1>4 DEF ClosingListed, Lists
<1>6. MapIsLive'
  <2>1. handle' = handle /\ server' = server /\ peer' = peer /\ connections_' = connections_
    OBVIOUS
  <2>2. ASSUME NEW u \in Servers, NEW x \in DOMAIN connections_[u]
        PROVE  Names(u, x, connections_[u][x])'
    <3>1. Names(u, x, connections_[u][x])
      BY <1>1 DEF MapIsLive
    <3> QED
      BY <2>1, <3>1 DEF Names, Live, Nobody
  <2>3. ASSUME NEW d \in DOMAIN peer, Live(d)', peer[d] # Nobody
        PROVE  /\ peer[d] \in DOMAIN connections_[server[d]]
               /\ connections_[server[d]][peer[d]] = d
    BY <1>1, <2>1, <2>3 DEF MapIsLive, Live
  <2> QED
    BY <2>1, <2>2, <2>3 DEF MapIsLive, Nobody
<1>7. StopInOrder'
  BY <1>1, <1>4 DEF StopInOrder
<1> QED
  BY <1>2, <1>3, <1>5, <1>6, <1>7 DEF TcpInvariant

LEMMA ReceiveKeeps ==
  ASSUME TcpInvariant, NEW c \in Connections, TCP!Receive(c)
  PROVE  TcpInvariant'
<1>1. HandleTypes /\ HandleOfConnection /\ FreedIsClosed /\ StopInOrder /\ fault # "uv_close"
  BY DEF TcpInvariant
<1>2. /\ handle[c] = "open" /\ held' = held \cup {c}
      /\ UNCHANGED <<handle, freed, server, peer, connections_, phase, closing,
                     functors, stop_, stopper, fault>>
  BY DEF TCP!Receive, TCP!thread
<1>3. c \in DOMAIN peer
  BY <1>1, <1>2 DEF HandleOfConnection
<1>4. peer[c] # Nobody
  BY <1>1, <1>2, <1>3 DEF FreedIsClosed
<1>5. FreedIsClosed'
  BY <1>1, <1>2, <1>3, <1>4 DEF FreedIsClosed, Nobody
<1>6. functors' \subseteq Servers
  BY <1>1, <1>2 DEF HandleTypes
<1> QED
  BY <1>1, <1>2, <1>5, <1>6, QuietKeeps DEF StopInOrder

(* The reply: what is not in connections_ any more has been called back.   *)
LEMMA ReplyKeeps ==
  ASSUME TcpInvariant, NEW c \in Connections, TCP!Reply(c)
  PROVE  TcpInvariant'
<1>1. /\ HandleTypes /\ HandleOfConnection /\ MapIsLive /\ FreedIsClosed
      /\ StopInOrder /\ fault # "uv_close"
  BY DEF TcpInvariant
<1>2. /\ c \in held /\ held' = held \ {c}
      /\ freed' = IF TCP!InMap(c) THEN freed ELSE freed \cup {c}
      /\ UNCHANGED <<handle, server, peer, connections_, phase, closing,
                     functors, stop_, stopper, fault>>
  BY DEF TCP!Reply, TCP!thread
<1>3. c \in DOMAIN peer /\ peer[c] # Nobody
  BY <1>1, <1>2 DEF FreedIsClosed
<1>4. ASSUME ~TCP!InMap(c)
      PROVE  handle[c] = "closed"
  <2>1. PICK s, p : s = server[c] /\ p = peer[c]
    OBVIOUS
  <2>2. s \in Servers /\ c \in Handles
    BY <1>1, <1>3, <2>1, HandleFacts
  <2>3. ~(p \in DOMAIN connections_[s] /\ connections_[s][p] = c)
    <3>1. p \in DOMAIN connections_[s] /\ connections_[s][p] = c => c \in Range(connections_[s])
      BY DEF Range
    <3>2. c \in Range(connections_[s]) => TCP!InMap(c)
      BY <2>2, SameLibrary DEF TCP!InMap
    <3> QED
      BY <1>4, <3>1, <3>2
  <2>4. ~Live(c)
    BY <1>1, <1>3, <2>1, <2>3 DEF MapIsLive
  <2>5. handle[c] \in {"none", "open", "closing", "closed"}
    BY <1>1, <2>2 DEF HandleTypes
  <2>6. handle[c] # "none"
    BY <1>1, <1>3 DEF HandleOfConnection
  <2> QED
    BY <2>4, <2>5, <2>6 DEF Live
<1>5. \A d \in freed' : d \in freed \/ (d = c /\ handle[c] = "closed")
  BY <1>2, <1>4
<1>6. freed \subseteq freed'
  BY <1>2
<1>7. FreedIsClosed'
  BY <1>1, <1>2, <1>3, <1>5, <1>6 DEF FreedIsClosed, Nobody
<1>8. functors' \subseteq Servers
  BY <1>1, <1>2 DEF HandleTypes
<1> QED
  BY <1>1, <1>2, <1>7, <1>8, QuietKeeps DEF StopInOrder

(* HandleClientClose: what leaves connections_ is this connection.         *)
LEMMA HandleClientCloseKeeps ==
  ASSUME TcpInvariant, TCP!HandleClientClose
  PROVE  TcpInvariant'
<1>1. /\ HandleTypes /\ HandleOfConnection /\ ClosingListed /\ MapIsLive
      /\ FreedIsClosed /\ StopInOrder /\ fault # "uv_close"
  BY DEF TcpInvariant
<1>2. PICK c : c = Head(closing)
  OBVIOUS
<1>3. /\ c \in Connections /\ closing # <<>> /\ phase = "closing"
      /\ handle' = [handle EXCEPT ![c] = "closed"]
      /\ closing' = Tail(closing)
      /\ fault' \in {"write", fault}
      /\ UNCHANGED <<server, peer, held, phase, functors, stop_, stopper>>
  BY <1>2 DEF TCP!HandleClientClose, TCP!Reported, Connections, TCP!conns, TCP!thread
<1>4. /\ c \in freed => UNCHANGED <<connections_, freed>>
      /\ c \notin freed => /\ TCP!RemoveConnection(c)
                           /\ freed' = IF c \in held THEN freed ELSE freed \cup {c}
  BY <1>2 DEF TCP!HandleClientClose
<1>5. PICK T, t : T = Closing \ {c} /\ t = Tail(closing)
  OBVIOUS
<1>6. c \in Closing /\ Lists(t, T)
  BY <1>1, <1>2, <1>3, <1>5, ListsTail DEF ClosingListed
<1>7. /\ Handles = Connections \cup Servers /\ Connections \cap Servers = {}
      /\ \A d \in DOMAIN peer : d \in Connections /\ server[d] \in Servers
  BY <1>1, HandleFacts
<1>8. /\ c \in Handles /\ c \notin Servers /\ handle[c] = "closing" /\ c \in DOMAIN peer
  BY <1>1, <1>3, <1>6, <1>7 DEF Closing, HandleOfConnection
<1>9. /\ handle' \in [Handles -> {"none", "open", "closing", "closed"}]
      /\ handle'[c] = "closed" /\ \A h \in Handles \ {c} : handle'[h] = handle[h]
  BY <1>1, <1>3, <1>8 DEF HandleTypes
<1>10. \A s \in Servers : handle'[s] = handle[s]
  BY <1>7, <1>8, <1>9
<1>11. peer[c] = Nobody <=> c \in freed
  BY <1>1, <1>8 DEF FreedIsClosed
<1>12. PICK s, p : s = server[c] /\ p = peer[c]
  OBVIOUS
<1>13. s \in Servers
  BY <1>7, <1>8, <1>12
<1>14. DOMAIN connections_' = Servers
  BY <1>1, <1>4 DEF TCP!RemoveConnection, HandleTypes
(* In connections_ only the entry of c goes.                               *)
<1>15. ASSUME NEW u \in Servers, NEW x
       PROVE  /\ x \in DOMAIN connections_'[u] <=>
                   (x \in DOMAIN connections_[u] /\ connections_[u][x] # c)
              /\ x \in DOMAIN connections_'[u] => connections_'[u][x] = connections_[u][x]
  <2>1. ASSUME x \in DOMAIN connections_[u], connections_[u][x] = c
        PROVE  u = s /\ x = p /\ p # Nobody
    BY <1>1, <1>12, <2>1 DEF MapIsLive, Names
  <2>2. CASE c \in freed
    <3>1. connections_' = connections_
      BY <1>4, <2>2
    <3>2. p = Nobody
      BY <1>11, <1>12, <2>2
    <3> QED
      BY <2>1, <3>1, <3>2
  <2>3. CASE c \notin freed
    <3>1. p # Nobody
      BY <1>11, <1>12, <2>3
    <3>2. p \in DOMAIN connections_[s] /\ connections_[s][p] = c
      BY <1>1, <1>8, <1>12, <3>1 DEF MapIsLive, Live
    <3>3. connections_' = [connections_ EXCEPT ![s] =
                             [y \in DOMAIN connections_[s] \ {p} |-> connections_[s][y]]]
      BY <1>4, <1>12, <2>3 DEF TCP!RemoveConnection
    <3>4. DOMAIN connections_ = Servers
      BY <1>1 DEF HandleTypes
    <3>5. CASE u = s
      <4>1. connections_'[u] = [y \in DOMAIN connections_[s] \ {p} |-> connections_[s][y]]
        BY <1>13, <3>3, <3>4, <3>5
      <4>2. x \in DOMAIN connections_'[u] <=> x \in DOMAIN connections_[u] /\ x # p
        BY <3>5, <4>1
      <4>3. x \in DOMAIN connections_'[u] => connections_'[u][x] = connections_[u][x]
        BY <3>5, <4>1
      <4> QED
        BY <2>1, <3>2, <3>5, <4>2, <4>3
    <3>6. CASE u # s
      <4>1. connections_'[u] = connections_[u]
        BY <3>3, <3>4, <3>6
      <4> QED
        BY <2>1, <3>6, <4>1
    <3> QED
      BY <3>5, <3>6
  <2> QED
    BY <2>2, <2>3
<1>16. HandleTypes'
  BY <1>1, <1>3, <1>9, <1>14 DEF HandleTypes, Handles
<1>17. HandleOfConnection'
  <2>1. \A d \in Connections : handle'[d] = "none" <=> handle[d] = "none"
    BY <1>7, <1>8, <1>9
  <2> QED
    BY <1>1, <1>3, <1>10, <2>1 DEF HandleOfConnection, Connections
<1>18. ClosingListed'
  <2>1. Closing' = T
    BY <1>5, <1>9 DEF Closing, Handles
  <2>2. closing' = t
    BY <1>3, <1>5
  <2>3. Lists(closing', Closing')
    BY <1>6, <2>1, <2>2
  <2> QED
    BY <2>3 DEF ClosingListed, Lists
<1>19. MapIsLive'
  <2>1. ASSUME NEW u \in Servers, NEW x \in DOMAIN connections_'[u]
        PROVE  Names(u, x, connections_[u][x])'
    <3>1. PICK d : d = connections_[u][x]
      OBVIOUS
    <3>2. x \in DOMAIN connections_[u] /\ d # c /\ connections_'[u][x] = d
      BY <1>15, <3>1
    <3>3. Names(u, x, d)
      BY <1>1, <3>1, <3>2 DEF MapIsLive
    <3>4. handle'[d] = handle[d]
      BY <1>7, <1>9, <3>2, <3>3 DEF Names
    <3> QED
      BY <1>3, <3>2, <3>3, <3>4 DEF Names, Live, Nobody
  <2>2. ASSUME NEW d \in DOMAIN peer, Live(d)', peer[d] # Nobody
        PROVE  /\ peer[d] \in DOMAIN connections_'[server[d]]
               /\ connections_'[server[d]][peer[d]] = d
    <3>1. d # c
      BY <1>9, <2>2 DEF Live
    <3>2. Live(d) /\ server[d] \in Servers
      BY <1>7, <1>9, <2>2, <3>1 DEF Live
    <3>3. PICK u, x : u = server[d] /\ x = peer[d]
      OBVIOUS
    <3>4. u \in Servers /\ x \in DOMAIN connections_[u] /\ connections_[u][x] = d
      BY <1>1, <2>2, <3>2, <3>3 DEF MapIsLive
    <3>5. x \in DOMAIN connections_'[u] /\ connections_'[u][x] = d
      BY <1>15, <3>1, <3>4
    <3> QED
      BY <3>3, <3>5
  <2> QED
    BY <1>3, <2>1, <2>2 DEF MapIsLive, Nobody
<1>20. FreedIsClosed'
  <2>1. freed \subseteq freed' /\ \A d \in freed' : d \in freed \/ d = c
    BY <1>4
  <2>2. \A d \in DOMAIN peer : /\ handle'[d] = "open" => handle[d] = "open"
                               /\ handle[d] = "closed" => handle'[d] = "closed"
    BY <1>7, <1>9
  <2> QED
    BY <1>1, <1>3, <1>8, <1>9, <2>1, <2>2 DEF FreedIsClosed, Nobody
<1>21. StopInOrder'
  <2>1. Unclosed' = Unclosed
    BY <1>10 DEF Unclosed
  <2>2. ASSUME NEW d \in DOMAIN peer, handle'[server[d]] # "open"
        PROVE  handle'[d] # "open"
    <3>1. handle[server[d]] # "open" /\ d \in Handles
      BY <1>7, <1>10, <2>2
    <3>2. handle[d] # "open"
      BY <1>1, <3>1 DEF StopInOrder
    <3> QED
      BY <1>9, <3>1, <3>2
  <2> QED
    BY <1>1, <1>3, <2>1, <2>2 DEF StopInOrder
<1> QED
  BY <1>1, <1>3, <1>16, <1>17, <1>18, <1>19, <1>20, <1>21 DEF TcpInvariant

(* AcceptorCloseCb: one server fewer to wait for.                          *)
LEMMA AcceptorCloseCbKeeps ==
  ASSUME TcpInvariant, TCP!AcceptorCloseCb
  PROVE  TcpInvariant'
<1>1. /\ HandleTypes /\ HandleOfConnection /\ ClosingListed /\ MapIsLive
      /\ FreedIsClosed /\ StopInOrder /\ fault # "uv_close"
  BY DEF TcpInvariant
<1>2. PICK s : s = Head(closing)
  OBVIOUS
<1>3. /\ s \in Servers /\ closing # <<>> /\ phase = "closing"
      /\ handle' = [handle EXCEPT ![s] = "closed"]
      /\ closing' = Tail(closing) /\ stop_' = stop_ - 1
      /\ UNCHANGED <<freed, server, peer, held, connections_, phase, functors, stopper, fault>>
  BY <1>2 DEF TCP!AcceptorCloseCb, TCP!CountDown, TCP!conns
<1>4. PICK T, t : T = Closing \ {s} /\ t = Tail(closing)
  OBVIOUS
<1>5. s \in Closing /\ Lists(t, T)
  BY <1>1, <1>2, <1>3, <1>4, ListsTail DEF ClosingListed
<1>6. /\ Handles = Connections \cup Servers /\ Connections \cap Servers = {}
      /\ IsFiniteSet(Servers)
      /\ \A d \in DOMAIN peer : d \in Connections /\ server[d] \in Servers
  BY <1>1, HandleFacts
<1>7. s \in Handles /\ handle[s] = "closing" /\ s \notin Connections
  BY <1>3, <1>5, <1>6 DEF Closing
<1>8. /\ handle' \in [Handles -> {"none", "open", "closing", "closed"}]
      /\ handle'[s] = "closed" /\ \A h \in Handles \ {s} : handle'[h] = handle[h]
  BY <1>1, <1>3, <1>7 DEF HandleTypes
<1>9. \A d \in Connections : handle'[d] = handle[d]
  BY <1>6, <1>7, <1>8
<1>10. HandleTypes'
  BY <1>1, <1>3, <1>8 DEF HandleTypes, Handles
<1>11. HandleOfConnection'
  <2>1. \A u \in Servers : handle'[u] # "none"
    BY <1>1, <1>6, <1>8 DEF HandleOfConnection
  <2> QED
    BY <1>1, <1>3, <1>9, <2>1 DEF HandleOfConnection, Connections
<1>12. ClosingListed'
  <2>1. Closing' = T
    BY <1>4, <1>8 DEF Closing, Handles
  <2>2. closing' = t
    BY <1>3, <1>4
  <2>3. Lists(closing', Closing')
    BY <1>5, <2>1, <2>2
  <2> QED
    BY <2>3 DEF ClosingListed, Lists
<1>13. MapIsLive'
  BY <1>1, <1>3, <1>6, <1>9 DEF MapIsLive, Names, Live, Nobody
<1>14. FreedIsClosed'
  BY <1>1, <1>3, <1>6, <1>9 DEF FreedIsClosed, Nobody
<1>15. StopInOrder'
  <2>1. s \in Unclosed /\ Unclosed' = Unclosed \ {s}
    BY <1>3, <1>6, <1>7, <1>8 DEF Unclosed
  <2>2. IsFiniteSet(Unclosed)
    <3>1. Unclosed \subseteq Servers
      BY DEF Unclosed
    <3> QED
      BY <1>6, <3>1, FS_Subset
  <2>3. Cardinality(Unclosed \ {s}) = Cardinality(Unclosed) - 1
    BY <2>1, <2>2, FS_RemoveElement
  <2>4. stop_' = Cardinality(Unclosed')
    BY <1>1, <1>3, <2>1, <2>3 DEF StopInOrder
  <2>5. stop_ # 0
    BY <1>1, <2>1, <2>2, FS_EmptySet DEF StopInOrder
  <2>6. ASSUME NEW d \in DOMAIN peer, handle'[server[d]] # "open"
        PROVE  handle'[d] # "open"
    <3>1. d \in Connections /\ server[d] \in Handles
      BY <1>6
    <3>2. handle[server[d]] # "open"
      BY <1>7, <1>8, <2>6, <3>1
    <3>3. handle[d] # "open"
      BY <1>1, <3>2 DEF StopInOrder
    <3> QED
      BY <1>9, <3>1, <3>3
  <2>7. stopper \notin {"stop loop", "stopped"}
    BY <1>1, <2>5 DEF StopInOrder
  <2> QED
    BY <1>3, <2>4, <2>6, <2>7 DEF StopInOrder
<1> QED
  BY <1>1, <1>3, <1>10, <1>11, <1>12, <1>13, <1>14, <1>15 DEF TcpInvariant

LEMMA TcpStep ==
  ASSUME TcpInvariant, TCP!Next \/ UNCHANGED tcpVars
  PROVE  TcpInvariant'
<1>1. HandleTypes /\ FreedIsClosed /\ StopInOrder /\ fault # "uv_close"
  BY DEF TcpInvariant
<1>2. ASSUME NEW s \in Servers, NEW p \in Peers, TCP!Accept(s, p)
      PROVE  TcpInvariant'
  BY <1>2, AcceptKeeps
<1>3. ASSUME NEW s \in Servers, TCP!AcceptFailed(s)
      PROVE  TcpInvariant'
  BY <1>3, AcceptFailedKeeps
<1>4. ASSUME NEW c \in Connections, TCP!Receive(c)
      PROVE  TcpInvariant'
  BY <1>4, ReceiveKeeps
<1>5. ASSUME NEW c \in Connections, TCP!ReadError(c)
      PROVE  TcpInvariant'
  BY <1>5, ReadErrorKeeps
<1>6. ASSUME NEW c \in Connections, TCP!Reply(c)
      PROVE  TcpInvariant'
  BY <1>6, ReplyKeeps
<1>7. ASSUME NEW c \in Connections, TCP!Flush(c)
      PROVE  TcpInvariant'
  <2>1. UNCHANGED <<handle, freed, server, peer, held, connections_, phase, closing,
                    functors, stop_, stopper, fault>>
    BY <1>7 DEF TCP!Flush, TCP!conns, TCP!thread
  <2>2. FreedIsClosed' /\ functors' \subseteq Servers
    BY <1>1, <2>1 DEF FreedIsClosed, Nobody, HandleTypes
  <2> QED
    BY <1>1, <2>1, <2>2, QuietKeeps DEF StopInOrder
<1>8. ASSUME NEW c \in Connections, TCP!BufWriteComplete(c)
      PROVE  TcpInvariant'
  <2>1. /\ UNCHANGED <<handle, freed, server, peer, held, connections_, phase, closing,
                       functors, stop_, stopper>>
        /\ fault' \in {"write", fault}
    BY <1>8 DEF TCP!BufWriteComplete, TCP!conns, TCP!thread
  <2>2. FreedIsClosed' /\ functors' \subseteq Servers /\ fault' # "uv_close"
    BY <1>1, <2>1 DEF FreedIsClosed, Nobody, HandleTypes
  <2> QED
    BY <1>1, <2>1, <2>2, QuietKeeps DEF StopInOrder
<1>9. ASSUME NEW s \in Servers, TCP!CloseServer(s)
      PROVE  TcpInvariant'
  BY <1>9, CloseServerKeeps
<1>10. CASE TCP!RunClosing
  <2>1. /\ UNCHANGED <<handle, freed, server, peer, held, connections_, closing,
                       functors, stop_, stopper, fault>>
        /\ phase = "poll" /\ phase' = "closing" /\ closing # <<>>
    BY <1>10 DEF TCP!RunClosing, TCP!Polling, TCP!conns, TCP!thread
  <2>2. FreedIsClosed' /\ functors' \subseteq Servers
    BY <1>1, <2>1 DEF FreedIsClosed, Nobody, HandleTypes
  <2>3. stopper # "stopped"
    <3> SUFFICES ASSUME stopper = "stopped"
                 PROVE  FALSE
      OBVIOUS
    <3>1. Cardinality(Unclosed) = 0 /\ Unclosed \subseteq Servers
      BY <1>1 DEF StopInOrder, Unclosed
    <3>2. IsFiniteSet(Unclosed)
      BY <1>1, <3>1, HandleFacts, FS_Subset
    <3>3. Unclosed = {}
      BY <3>1, <3>2, FS_EmptySet
    <3> QED
      BY <1>1, <2>1, <3>3 DEF StopInOrder
  <2> QED
    BY <1>1, <2>1, <2>2, <2>3, QuietKeeps DEF StopInOrder
<1>11. CASE TCP!HandleClientClose
  BY <1>11, HandleClientCloseKeeps
<1>12. CASE TCP!AcceptorCloseCb
  BY <1>12, AcceptorCloseCbKeeps
<1>13. CASE TCP!EndClosing
  <2>1. /\ UNCHANGED <<handle, freed, server, peer, held, connections_, closing,
                       functors, stop_, stopper, fault>>
        /\ phase' = "poll" /\ closing = <<>>
    BY <1>13 DEF TCP!EndClosing, TCP!conns, TCP!thread
  <2>2. FreedIsClosed' /\ functors' \subseteq Servers
    BY <1>1, <2>1 DEF FreedIsClosed, Nobody, HandleTypes
  <2> QED
    BY <1>1, <2>1, <2>2, QuietKeeps DEF StopInOrder
<1>14. CASE TCP!Stop
  <2>1. /\ UNCHANGED <<handle, freed, server, peer, held, connections_, phase, closing, stop_, fault>>
        /\ functors' = Servers /\ stopper' = "waiting"
    BY <1>14 DEF TCP!Stop, TCP!conns
  <2>2. FreedIsClosed' /\ functors' \subseteq Servers
    BY <1>1, <2>1 DEF FreedIsClosed, Nobody
  <2> QED
    BY <1>1, <2>1, <2>2, QuietKeeps DEF StopInOrder
<1>15. CASE TCP!WaitServerClose
  <2>1. /\ UNCHANGED <<handle, freed, server, peer, held, connections_, phase, closing,
                       functors, stop_, fault>>
        /\ stop_ = 0 /\ stopper' = "stop loop"
    BY <1>15 DEF TCP!WaitServerClose, TCP!conns
  <2>2. FreedIsClosed' /\ functors' \subseteq Servers
    BY <1>1, <2>1 DEF FreedIsClosed, Nobody, HandleTypes
  <2> QED
    BY <1>1, <2>1, <2>2, QuietKeeps DEF StopInOrder
<1>16. CASE TCP!StopLoop
  <2>1. /\ UNCHANGED <<handle, freed, server, peer, held, connections_, phase, closing,
                       functors, stop_, fault>>
        /\ phase = "poll" /\ stopper = "stop loop" /\ stopper' = "stopped"
    BY <1>16 DEF TCP!StopLoop, TCP!Polling, TCP!conns
  <2>2. FreedIsClosed' /\ functors' \subseteq Servers
    BY <1>1, <2>1 DEF FreedIsClosed, Nobody, HandleTypes
  <2> QED
    BY <1>1, <2>1, <2>2, QuietKeeps DEF StopInOrder
<1>17. CASE UNCHANGED tcpVars
  <2>1. UNCHANGED <<handle, freed, server, peer, held, connections_, phase, closing,
                    functors, stop_, stopper, fault>>
    BY <1>17 DEF tcpVars
  <2>2. FreedIsClosed' /\ functors' \subseteq Servers
    BY <1>1, <2>1 DEF FreedIsClosed, Nobody, HandleTypes
  <2> QED
    BY <1>1, <2>1, <2>2, QuietKeeps DEF StopInOrder
<1> QED
  BY <1>2, <1>3, <1>4, <1>5, <1>6, <1>7, <1>8, <1>9, <1>10, <1>11, <1>12, <1>13,
     <1>14, <1>15, <1>16, <1>17 DEF TCP!Next, Connections

(* Whatever the order of read errors, replies, TcpServer::Close and close  *)
(* callbacks: no handle is closed twice, libuv holds no handle whose       *)
(* memory a server has freed, but for a connection that could not be       *)
(* accepted, and when the loop of a stopped ServerThread has ended, all    *)
(* handles are closed and connections_ is empty; for any number of         *)
(* servers, peers and connections.                                         *)
THEOREM HandlesAreSound == NetSpec => []HandlesSound
<1>1. NetInit => TcpInvariant
  BY TcpStarts DEF NetInit
<1>2. TcpInvariant /\ [NetNext]_<<vars, tcpVars, codeVars>> => TcpInvariant'
  BY TcpStep DEF NetNext
<1>3. TcpInvariant => HandlesSound
  BY InvariantSound
<1> QED
  BY <1>1, <1>2, <1>3, PTL DEF NetSpec
=============================================================================
