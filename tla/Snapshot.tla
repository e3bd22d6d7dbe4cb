------------------------------- MODULE Snapshot -------------------------------
(***************************************************************************)
(* InstallSnapshot from a leader to one follower.                          *)
(*                                                                         *)
(* Every heartbeat for a follower whose next entry the leader no longer    *)
(* has reads one more chunk and sends it, whether the chunks before have   *)
(* been acknowledged or not.  The follower appends what comes to a writer  *)
(* and, with the last chunk, swaps it in as its state machine.             *)
(*                                                                         *)
(* Readers and writers are supplied by the user of the library ("maybe     *)
(* count, maybe bytes, defined by user"); here they count chunks: stored   *)
(* is the number of chunks written, offset the number of the next chunk,   *)
(* counted from FirstOffset.  The base class starts it at 0, and the very  *)
(* first chunk then fails the follower's assertion; a reader that can be   *)
(* used starts it at 1.  A read past the end is finished again.  The data  *)
(* is left out.                                                            *)
(*                                                                         *)
(* The connection keeps the order but may lose messages.  The leader may   *)
(* restart and lead again in a later term: its reader is gone, the         *)
(* follower's writer for it is not.                                        *)
(***************************************************************************)
EXTENDS Naturals, Sequences

CONSTANTS Chunks,     \* chunks of a snapshot
          FirstOffset,\* offset_ of a reader that has read nothing
          MaxIndex,   \* bound on the index a snapshot ends at
          MaxTerm,    \* bound on terms
          MaxNet      \* bound on messages under way

VARIABLES
  term, lsm, reader, match,   \* leader: term, index of its state machine,
                              \*   reader_ for the follower, match index
  fterm, writer, sm,          \* follower: term, writer_ for the leader,
                              \*   LastIndex() of its state machine
  newest,                     \* history: the highest sm there has been
  chunks, replies,            \* messages under way
  failed                      \* the assertion that stopped a server, or "no"

leader == <<term, lsm, reader, match>>
follower == <<fterm, writer, sm, newest>>
vars == <<leader, follower, chunks, replies, failed>>

Null == [null |-> TRUE]

NewReader(i) == [index |-> i, offset |-> FirstOffset, done |-> FALSE]
NewWriter(i) == [index |-> i, stored |-> 0]

(* The offset of the last chunk.                                           *)
LastOffset == Chunks - 1 + FirstOffset

Running == failed = "no"

Init ==
  /\ term = 1 /\ lsm = 1 /\ reader = Null /\ match = 0
  /\ fterm = 1 /\ writer = Null
  /\ sm = 0 /\ newest = 0
  /\ chunks = <<>> /\ replies = <<>>
  /\ failed = "no"

-----------------------------------------------------------------------------

(* reader->Read(): the next chunk, finished with the last.                 *)
Read(r) == [r EXCEPT !.offset = IF r.done THEN @ ELSE @ + 1, !.done = r.offset >= LastOffset]

(* SendInstallSnapshot, with the reader r or a new one.                    *)
SendChunk(r0) ==
  LET r == IF r0 = Null THEN NewReader(lsm) ELSE r0
  IN  /\ Len(chunks) < MaxNet
      /\ chunks' = Append(chunks, [term |-> term, last_index |-> r.index,
                                   offset |-> r.offset, done |-> Read(r).done])
      /\ reader' = Read(r)

(* A heartbeat finds that the next entry is only in the snapshot.          *)
SendInstallSnapshot ==
  /\ Running
  /\ match < lsm
  /\ SendChunk(reader)
  /\ UNCHANGED <<term, lsm, match, follower, replies, failed>>

(* reply.req_term is never set: it may or may not be the leader's term.    *)
Reply(t, stored) ==
  \E b \in BOOLEAN :
     replies' = Append(replies, [term |-> t, stored |-> stored, in_term |-> b])

Write(w) == [w EXCEPT !.stored = @ + 1]

\* Mutant: an older snapshot is installed
NeverStale(m) == FALSE

Stale(m) == m.last_index < sm

(* The writer for the snapshot of m: one for another snapshot is dropped.  *)
WriterFor(m) ==
  IF writer # Null /\ writer.index = m.last_index THEN writer ELSE NewWriter(m.last_index)

(* The state machine is now at i.                                          *)
StateMachineAt(i) == sm' = i /\ newest' = IF i > newest THEN i ELSE newest

(* OnInstallSnapshot, after the terms are compared: a writer for another   *)
(* snapshot is dropped, a chunk before the stored ones is already there,   *)
(* anything after them is appended.  A chunk with the offset that was      *)
(* stored last, which a restarted leader sends, is between the two: the    *)
(* assertion that follows "already have written data" ends the process.    *)
Install(m) ==
  LET w == WriterFor(m)
      w2 == Write(w)
  IN  \/ /\ m.offset < w.stored
         /\ writer' = w
         /\ Reply(m.term, w.stored)
         /\ UNCHANGED <<sm, newest, failed>>
      \/ /\ m.offset = w.stored
         /\ failed' = "assert(msg.offset > writer->stored())"
         /\ UNCHANGED <<writer, sm, newest, replies>>
      \/ /\ m.offset > w.stored
         /\ writer' = IF m.done THEN Null ELSE w2
         /\ StateMachineAt(IF m.done /\ ~Stale(m) THEN w2.index ELSE sm)
         /\ Reply(m.term, w2.stored)
         /\ UNCHANGED failed

OnInstallSnapshot ==
  /\ Running
  /\ chunks # <<>>
  /\ Len(replies) < MaxNet
  /\ chunks' = Tail(chunks)
  /\ LET m == Head(chunks)
     IN  IF m.term < fterm
           THEN /\ Reply(fterm, 0)
                /\ UNCHANGED <<fterm, writer, sm, newest, failed>>
           ELSE /\ fterm' = m.term
                /\ Install(m)
  /\ UNCHANGED leader

(* The follower dies in OnInstallSnapshot between the two renames: the old *)
(* state machine is at delete_path, the new one still at the writer's path *)
(* and nothing is at sm_path_, where the next start makes an empty one.    *)
CrashInSwap ==
  /\ Running
  /\ chunks # <<>>
  /\ LET m == Head(chunks)
     IN  /\ m.term >= fterm /\ m.offset > WriterFor(m).stored /\ m.done /\ ~Stale(m)
         /\ fterm' = m.term
  /\ chunks' = Tail(chunks)
  /\ writer' = Null
  /\ sm' = 0
  /\ UNCHANGED <<leader, newest, replies, failed>>

\* Mutant: any reply after the last chunk was read will do
FinishedReading(m) == reader.done

Finished(m) == m.stored = reader.offset - 1 /\ reader.done

(* OnInstallSnapshotReply: with the reply to the last chunk the snapshot   *)
(* is known to be there.  What the follower then lacks is sent at once.    *)
(* assert(reader) comes first: a reply that finds the reader dropped by an *)
(* earlier one, or a leader that has restarted, ends the process.          *)
OnInstallSnapshotReply ==
  /\ Running
  /\ replies # <<>>
  /\ replies' = Tail(replies)
  /\ LET m == Head(replies)
         finished == Finished(m)
     IN  IF reader = Null
           THEN failed' = "assert(reader)" /\ UNCHANGED <<reader, match, chunks>>
         ELSE IF ~(m.term >= term /\ m.in_term)
           THEN UNCHANGED <<reader, match, chunks, failed>>
         ELSE /\ match' = IF finished THEN reader.index ELSE match
              /\ IF match' < lsm
                   THEN SendChunk(IF finished THEN Null ELSE reader)
                   ELSE /\ reader' = IF finished THEN Null ELSE reader
                        /\ UNCHANGED chunks
              /\ UNCHANGED failed
  /\ UNCHANGED <<term, lsm, follower>>

(* The leader applies and compacts; it restarts and is elected again.      *)
LeaderCompacts ==
  /\ Running
  /\ lsm < MaxIndex
  /\ lsm' = lsm + 1
  /\ UNCHANGED <<term, reader, match, follower, chunks, replies, failed>>

LeaderRestarts ==
  /\ Running
  /\ term < MaxTerm
  /\ term' = term + 1
  /\ reader' = Null
  /\ match' = 0
  /\ UNCHANGED <<lsm, follower, chunks, replies, failed>>

FollowerRestarts ==
  /\ Running
  /\ writer # Null
  /\ writer' = Null
  /\ UNCHANGED <<leader, fterm, sm, newest, chunks, replies, failed>>

(* Entries reach the follower in the meantime, from this leader before it  *)
(* compacted its log or from another one.                                  *)
FollowerApplies ==
  /\ Running
  /\ sm < lsm
  /\ StateMachineAt(sm + 1)
  /\ UNCHANGED <<leader, fterm, writer, chunks, replies, failed>>

Lose ==
  /\ \/ chunks # <<>> /\ chunks' = Tail(chunks) /\ UNCHANGED replies
     \/ replies # <<>> /\ replies' = Tail(replies) /\ UNCHANGED chunks
  /\ UNCHANGED <<leader, follower, failed>>

Next ==
  \/ SendInstallSnapshot
  \/ OnInstallSnapshot
  \/ CrashInSwap
  \/ OnInstallSnapshotReply
  \/ LeaderCompacts
  \/ LeaderRestarts
  \/ FollowerRestarts
  \/ FollowerApplies
  \/ Lose

Spec == Init /\ [][Next]_vars

-----------------------------------------------------------------------------

(* What the leader takes as the follower's match index was installed       *)
(* there: no lost, repeated or late message, and no restart of either      *)
(* side, makes it count a snapshot the follower has not swapped in.  (That *)
(* it is still there is for NeverGoesBack to say.)  Snapshots of one chunk *)
(* are the exception: the chunk is sent again with every heartbeat until   *)
(* the reply comes, each copy is answered with stored = 1, and since a     *)
(* reply does not say which snapshot it is about, the second answer is     *)
(* taken for one to the first chunk, which is the last, of the next.  With *)
(* offsets from 0 the same holds of snapshots of two chunks, of which only *)
(* the second can be stored.                                               *)
MatchInstalled == LastOffset > 1 => match <= newest

(* "stale snapshot, discard": the follower's state machine never goes back *)
(* to an earlier index, unless the process dies between the two renames of *)
(* a swap, which loses it.                                                 *)
NeverGoesBack == [][sm' >= sm \/ CrashInSwap]_vars
==============================================================================
