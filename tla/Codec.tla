------------------------------- MODULE Codec -------------------------------
(***************************************************************************)
(* How vraft, vstore and vectordb turn messages and records into bytes and *)
(* back: for every class with ToString and FromString, the fields in the   *)
(* order each of the two takes them, and what MaxBytes reserves.  One      *)
(* behaviour writes one message field by field and then reads it back.     *)
(*                                                                         *)
(* The bytes are abstracted to field boundaries: the wire is the sequence  *)
(* of the fields written with their lengths, the reader has an offset into *)
(* it, and a read that does not start where its own field starts yields    *)
(* Garbled.  What is decoded after that depends on the values and is not   *)
(* followed.                                                               *)
(***************************************************************************)
EXTENDS Naturals, Sequences, SequencesExt

CONSTANTS Lengths,   \* the lengths a string of a message may have
          Counts     \* the numbers of elements a list of a message may have

VARIABLES kind,      \* the class of the message
          count,     \* elements of its lists
          phase,     \* "write", "read", "done" or "garbled"
          todo,      \* the fields still to write, or still to read
          wire,      \* the fields written
          got,       \* the fields read back
          size,      \* bytes the reader says it has consumed
          furthest   \* how far into the buffer the reader has looked

vars == <<kind, count, phase, todo, wire, got, size, furthest>>

-----------------------------------------------------------------------------
(* The kinds of field.  `take` is how many bytes a read touches, which is  *)
(* not always how far it moves.                                            *)

Fixed(name, w) == [t |-> "fixed", name |-> name, w |-> w, take |-> w]

\* Mutant: every flag is decoded as 64 bits
U8AsU64(name) == [Fixed(name, 1) EXCEPT !.take = 8]

U8(name)  == Fixed(name, 1)
U16(name) == Fixed(name, 2)
U32(name) == Fixed(name, 4)
U64(name) == Fixed(name, 8)
Float(name) == Fixed(name, 4)
Str(name) == [t |-> "str", name |-> name]
List(fields) == [t |-> "list", of |-> fields]

(* write: the order of ToString; read: the order of FromString; fixed,     *)
(* each: what MaxBytes adds for the fixed part and for a list's element.   *)
(* Every string adds 2 * sizeof(int32_t) and its length to that.           *)
Class(write, read, fixed, each) ==
  [write |-> write, read |-> read, fixed |-> fixed, each |-> each]

AddrPair == <<U64("src"), U64("dest")>>
Stamps == <<U32("uid"), U64("send_ts"), U64("elapse")>>
RpcPrefix == AddrPair \o <<U64("term")>> \o Stamps

RaftAddr ==
  Class(<<U32("ip"), U16("port"), U16("id")>>,
        <<U32("ip"), U16("port"), U16("id")>>, 8, 0)

MsgHeader ==
  Class(<<U32("body_bytes"), U32("type")>>, <<U32("body_bytes"), U32("type")>>, 8, 0)

Ping == Class(AddrPair \o Stamps \o <<Str("msg")>>,
              AddrPair \o Stamps \o <<Str("msg")>>, 8 + 8 + 4 + 8 + 8, 0)

PingReply == Class(AddrPair \o Stamps \o <<Str("msg")>>,
                   AddrPair \o Stamps \o <<Str("msg")>>, 8 + 8 + 4 + 8 + 8, 0)

RequestVote ==
  Class(RpcPrefix \o <<U32("last_log_index"), U64("last_log_term"),
                       U8("leader_transfer"), U8("pre_vote")>>,
        RpcPrefix \o <<U32("last_log_index"), U64("last_log_term"),
                       U8("leader_transfer"), U8("pre_vote")>>,
        8 + 8 + 8 + 4 + 8 + 8 + 8 + 4 + 1 + 1, 0)

\* Mutant: log_ok and pre_vote are read in the wrong order
RequestVoteReplySwapped ==
  Class(RpcPrefix \o <<U8("granted"), U8("log_ok"), U8("pre_vote"),
                       U8("interval_ok"), U64("req_term")>>,
        RpcPrefix \o <<U8("granted"), U8("pre_vote"), U8("log_ok"),
                       U8("interval_ok"), U64("req_term")>>,
        8 + 8 + 8 + 4 + 8 + 8 + 1 + 1 + 1 + 1 + 8, 0)

RequestVoteReply ==
  Class(RpcPrefix \o <<U8("granted"), U8("log_ok"), U8("pre_vote"),
                       U8("interval_ok"), U64("req_term")>>,
        RpcPrefix \o <<U8("granted"), U8("log_ok"), U8("pre_vote"),
                       U8("interval_ok"), U64("req_term")>>,
        8 + 8 + 8 + 4 + 8 + 8 + 1 + 1 + 1 + 1 + 8, 0)

LogEntry ==
  Class(<<U32("index"), U32("chk_ths"), U32("chk_all"), U64("term"),
          U32("type"), Str("value")>>,
        <<U32("index"), U32("chk_ths"), U32("chk_all"), U64("term"),
          U32("type"), Str("value")>>,
        4 + 4 + 4 + 4 + 8 + 4, 0)

AppendEntries ==
  Class(RpcPrefix \o <<U32("pre_log_index"), U64("pre_log_term"),
                       U32("commit_index"), U32("entries_size"), List(LogEntry.write)>>,
        RpcPrefix \o <<U32("pre_log_index"), U64("pre_log_term"),
                       U32("commit_index"), U32("entries_size"), List(LogEntry.read)>>,
        8 + 8 + 8 + 4 + 8 + 8 + 4 + 8 + 4 + 2 * 4, 4 + 4 + 4 + 4 + 8 + 4)

AppendEntriesReply ==
  Class(RpcPrefix \o <<U8("success"), U32("last_log_index"), U32("req_pre_index"),
                       U32("req_num_entries"), U64("req_term")>>,
        RpcPrefix \o <<U8("success"), U32("last_log_index"), U32("req_pre_index"),
                       U32("req_num_entries"), U64("req_term")>>,
        8 + 8 + 8 + 4 + 8 + 8 + 1 + 4 + 4 + 4 + 8, 0)

InstallSnapshot ==
  Class(RpcPrefix \o <<U32("last_index"), U64("last_term"), U32("offset"),
                       Str("data"), U8("done")>>,
        RpcPrefix \o <<U32("last_index"), U64("last_term"), U32("offset"),
                       Str("data"), U8("done")>>,
        8 + 8 + 8 + 4 + 8 + 8 + 4 + 8 + 4 + 1, 0)

InstallSnapshotReply ==
  Class(RpcPrefix \o <<U32("stored"), U64("req_term")>>,
        RpcPrefix \o <<U32("stored"), U64("req_term")>>,
        8 + 8 + 8 + 4 + 8 + 8 + 4 + 8, 0)

\* Mutant: MaxBytes forgets the byte of force
TimeoutNowShort ==
  Class(RpcPrefix \o <<U32("last_log_index"), U64("last_log_term"), U8("force")>>,
        RpcPrefix \o <<U32("last_log_index"), U64("last_log_term"), U8("force")>>,
        8 + 8 + 8 + 4 + 8 + 8 + 8 + 4, 0)

(* FromString takes force, one byte of the message, with DecodeFixed64.    *)
TimeoutNow ==
  Class(RpcPrefix \o <<U32("last_log_index"), U64("last_log_term"), U8("force")>>,
        RpcPrefix \o <<U32("last_log_index"), U64("last_log_term"),
                       [U8("force") EXCEPT !.take = 8]>>,
        8 + 8 + 8 + 4 + 8 + 8 + 8 + 4 + 1, 0)

ClientRequest == Class(<<U32("uid"), U32("cmd"), Str("data")>>,
                       <<U32("uid"), U32("cmd"), Str("data")>>, 4 + 4, 0)

ClientRequestReply ==
  Class(<<U32("uid"), U32("code"), Str("msg"), Str("data")>>,
        <<U32("uid"), U32("code"), Str("msg"), Str("data")>>, 4 + 4, 0)

KV == Class(<<Str("key"), Str("value")>>, <<Str("key"), Str("value")>>, 0, 0)

RaftConfig ==
  Class(<<U64("me"), U32("peers_size"), List(<<U64("peer")>>)>>,
        <<U64("me"), U32("peers_size"), List(<<U64("peer")>>)>>, 8 + 4 * 2, 8)

MetaValue ==
  Class(<<U64("term"), U32("type"), U32("pre_chk_all"), U32("chk_ths"), U32("chk_all")>>,
        <<U64("term"), U32("type"), U32("pre_chk_all"), U32("chk_ths"), U32("chk_all")>>,
        8 + 4 * 4, 0)

ZeroValue == Class(<<U32("append"), U32("checksum")>>,
                   <<U32("append"), U32("checksum")>>, 4 + 4, 0)

VstoreGet == Class(<<U32("uid"), Str("key")>>, <<U32("uid"), Str("key")>>, 4, 0)

VstoreGetReply == Class(<<U32("uid"), Str("value")>>, <<U32("uid"), Str("value")>>, 4, 0)

Names == Class(<<U32("table_num"), List(<<Str("table_name")>>)>>,
               <<U32("table_num"), List(<<Str("table_name")>>)>>, 4, 0)

Replica ==
  Class(<<U32("id"), Str("name"), Str("path"), U32("dim"), U64("uid"),
          Str("table_name"), U64("table_uid"),
          Str("partition_name"), U64("partition_uid")>>,
        <<U32("id"), Str("name"), Str("path"), U32("dim"), U64("uid"),
          Str("table_name"), U64("table_uid"),
          Str("partition_name"), U64("partition_uid")>>,
        4 + 4 + 8 + 8 + 8, 0)

Partition ==
  Class(<<U32("id"), Str("name"), Str("path"), U32("replica_num"), U32("dim"),
          U64("uid"), Str("table_name"), U64("table_uid"),
          List(<<U32("replica_id")>>), List(<<Str("replica_name")>>)>>,
        <<U32("id"), Str("name"), Str("path"), U32("replica_num"), U32("dim"),
          U64("uid"), Str("table_name"), U64("table_uid"),
          List(<<U32("replica_id")>>), List(<<Str("replica_name")>>)>>,
        4 + 4 + 4 + 8 + 8 + 4 + 4, 4)

Table ==
  Class(<<Str("name"), Str("path"), U32("partition_num"), U32("replica_num"),
          U32("dim"), U64("uid"),
          List(<<U32("partition_id")>>), List(<<Str("partition_name")>>)>>,
        <<Str("name"), Str("path"), U32("partition_num"), U32("replica_num"),
          U32("dim"), U64("uid"),
          List(<<U32("partition_id")>>), List(<<Str("partition_name")>>)>>,
        4 + 4 + 4 + 8 + 4 + 4, 4)

Vec == Class(<<U32("size"), List(<<Float("data")>>)>>,
             <<U32("size"), List(<<Float("data")>>)>>, 4, 4)

VecValue == Class(Vec.write \o <<Str("attach_value")>>,
                  Vec.read \o <<Str("attach_value")>>, Vec.fixed, Vec.each)

VecObj == Class(<<Str("key")>> \o VecValue.write,
                <<Str("key")>> \o VecValue.read, VecValue.fixed, VecValue.each)

VIndexParam ==
  Class(<<Str("path"), U64("timestamp"), U32("dim"), U8("index_type"),
          U8("distance_type"), U32("annoy_tree_num")>>,
        <<Str("path"), U64("timestamp"), U32("dim"), U8("index_type"),
          U8("distance_type"), U32("annoy_tree_num")>>,
        8 + 4 + 1 + 1 + 4, 0)

MsgVersion == Class(<<U64("seqid")>>, <<U64("seqid")>>, 8, 0)

MsgVersionReply == Class(<<U64("seqid"), Str("version")>>,
                         <<U64("seqid"), Str("version")>>, 8, 0)

Classes ==
  [RaftAddr |-> RaftAddr, MsgHeader |-> MsgHeader, Ping |-> Ping,
   PingReply |-> PingReply, RequestVote |-> RequestVote,
   RequestVoteReply |-> RequestVoteReply, LogEntry |-> LogEntry,
   AppendEntries |-> AppendEntries, AppendEntriesReply |-> AppendEntriesReply,
   InstallSnapshot |-> InstallSnapshot,
   InstallSnapshotReply |-> InstallSnapshotReply, TimeoutNow |-> TimeoutNow,
   ClientRequest |-> ClientRequest, ClientRequestReply |-> ClientRequestReply,
   KV |-> KV, RaftConfig |-> RaftConfig, MetaValue |-> MetaValue,
   ZeroValue |-> ZeroValue, VstoreGet |-> VstoreGet,
   VstoreGetReply |-> VstoreGetReply, Names |-> Names, Replica |-> Replica,
   Partition |-> Partition, Table |-> Table, Vec |-> Vec,
   VecValue |-> VecValue, VecObj |-> VecObj, VIndexParam |-> VIndexParam,
   MsgVersion |-> MsgVersion, MsgVersionReply |-> MsgVersionReply]

-----------------------------------------------------------------------------

(* The length prefix of a string: 7 bits of the length to a byte.          *)
VarintBytes(len) == CASE len < 2^7  -> 1
                      [] len < 2^14 -> 2
                      [] len < 2^21 -> 3
                      [] len < 2^28 -> 4
                      [] OTHER      -> 5

\* Mutant: the length prefix is not counted
DecodeString2ReturnsLength(len) == len

(* What DecodeString2 returns for a string of the given length: `bytes` is *)
(* the result of DecodeVarint32, a bool.                                   *)
DecodeString2Returns(len) == 1 + len

Unroll(fields, n) ==
  FlattenSeq([i \in DOMAIN fields |->
                IF fields[i].t = "list"
                  THEN FlattenSeq([j \in 1..n |-> fields[i].of])
                  ELSE <<fields[i]>>])

(* A field on the wire: how many bytes it takes, and the length of its     *)
(* value when it is a string.                                              *)
Cell(field, len) ==
  [name |-> field.name, str |-> field.t = "str", len |-> len,
   bytes |-> IF field.t = "str" THEN VarintBytes(len) + len ELSE len]

TotalBytes(cells) == FoldSeq(LAMBDA c, total : total + c.bytes, 0, cells)

Start(i) == TotalBytes(SubSeq(wire, 1, i - 1))

MaxBytes ==
  Classes[kind].fixed + count * Classes[kind].each
    + FoldSeq(LAMBDA c, total : total + IF c.str THEN 2 * 4 + c.len ELSE 0, 0, wire)

(* The field of the wire that a read of `field` at the current offset      *)
(* finds.                                                                  *)
Found(field) ==
  {i \in DOMAIN wire : /\ Start(i) = size
                       /\ wire[i].name = field.name
                       /\ wire[i].str = (field.t = "str")}

-----------------------------------------------------------------------------

Init ==
  /\ kind \in DOMAIN Classes
  /\ count \in Counts
  /\ phase = "write"
  /\ todo = Unroll(Classes[kind].write, count)
  /\ wire = <<>>
  /\ got = <<>>
  /\ size = 0
  /\ furthest = 0

EncodeFixed ==
  /\ phase = "write"
  /\ todo # <<>>
  /\ Head(todo).t = "fixed"
  /\ wire' = Append(wire, Cell(Head(todo), Head(todo).w))
  /\ todo' = Tail(todo)
  /\ UNCHANGED <<kind, count, phase, got, size, furthest>>

EncodeString2(len) ==
  /\ phase = "write"
  /\ todo # <<>>
  /\ Head(todo).t = "str"
  /\ wire' = Append(wire, Cell(Head(todo), len))
  /\ todo' = Tail(todo)
  /\ UNCHANGED <<kind, count, phase, got, size, furthest>>

(* ToString returns; the bytes reach FromString, complete and unchanged.   *)
FromString ==
  /\ phase = "write"
  /\ todo = <<>>
  /\ phase' = "read"
  /\ todo' = Unroll(Classes[kind].read, count)
  /\ UNCHANGED <<kind, count, wire, got, size, furthest>>

(* A read takes its bytes from the offset and moves the offset on.         *)
Read(field, consumed, looked) ==
  /\ furthest' = IF size + looked > furthest THEN size + looked ELSE furthest
  /\ IF Found(field) = {}
       THEN phase' = "garbled" /\ UNCHANGED <<got, size>>
       ELSE /\ got' = Append(got, wire[CHOOSE i \in Found(field) : TRUE])
            /\ size' = size + consumed
            /\ UNCHANGED phase
  /\ todo' = Tail(todo)
  /\ UNCHANGED <<kind, count, wire>>

DecodeFixed ==
  /\ phase = "read"
  /\ todo # <<>>
  /\ Head(todo).t = "fixed"
  /\ Read(Head(todo), Head(todo).w, Head(todo).take)

DecodeString2 ==
  /\ phase = "read"
  /\ todo # <<>>
  /\ Head(todo).t = "str"
  /\ LET found == Found(Head(todo))
         cell == wire[CHOOSE i \in found : TRUE]
     IN  IF found = {} THEN Read(Head(todo), 0, 0)
         ELSE Read(Head(todo), DecodeString2Returns(cell.len), cell.bytes)

Return ==
  /\ phase = "read"
  /\ todo = <<>>
  /\ phase' = "done"
  /\ UNCHANGED <<kind, count, todo, wire, got, size, furthest>>

Next ==
  \/ EncodeFixed
  \/ \E len \in Lengths : EncodeString2(len)
  \/ FromString
  \/ DecodeFixed
  \/ DecodeString2
  \/ Return

Spec == Init /\ [][Next]_vars

(* Nothing is written or read.                                             *)
Unused ==
  /\ kind = CHOOSE k \in DOMAIN Classes : TRUE
  /\ count = 0
  /\ phase = "done"
  /\ todo = <<>> /\ wire = <<>> /\ got = <<>>
  /\ size = 0 /\ furthest = 0

-----------------------------------------------------------------------------

Long(cell) == cell.str /\ cell.len >= 2^7

(* As long as no string of 128 bytes or more is followed by another field, *)
(* FromString reads back, field by field, what ToString wrote.             *)
FieldsIntact ==
  (\A i \in 1..(Len(wire) - 1) : ~Long(wire[i])) =>
     /\ phase # "garbled"
     /\ phase = "done" => got = wire

(* FromString returns the size of the message, which is where the caller   *)
(* goes on reading (AppendEntries with its entries), when the strings are  *)
(* shorter than 128 bytes.                                                 *)
SizeExact ==
  (phase = "done" /\ \A i \in DOMAIN wire : ~Long(wire[i])) => size = TotalBytes(wire)

(* assert(size <= len) at the end of every ToString: what it has written   *)
(* fits the MaxBytes the caller allocated, whatever the lengths.           *)
WithinMaxBytes ==
  (phase # "write") => TotalBytes(wire) <= MaxBytes

(* FromString looks at no byte past the message it was given, again as     *)
(* long as a string of 128 bytes or more is the last field.  (TimeoutNow's *)
(* is the exception: it decodes its last byte as a 64-bit integer.)        *)
ReadsWithinMessage ==
  (kind # "TimeoutNow" /\ phase \in {"read", "done"}
     /\ \A i \in 1..(Len(wire) - 1) : ~Long(wire[i]))
  => furthest <= TotalBytes(wire)
=============================================================================
