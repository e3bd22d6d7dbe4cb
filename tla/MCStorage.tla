------------------------------- MODULE MCStorage -------------------------------
(***************************************************************************)
(* What a server keeps on disk, checked together: its log (RaftLog), its   *)
(* term and vote (VoteStore) and the state machine a snapshot replaces     *)
(* (Snapshot).  They are separate databases that no operation writes       *)
(* together, so a behaviour is about one of them, named by part.           *)
(***************************************************************************)
EXTENDS RaftLog

CONSTANTS Me, Candidates, MaxTerm, Chunks, FirstOffset, MaxLeaderTerm, MaxNet

(* No server has the id that stands for no vote.                           *)
ASSUME VoteAssumption == 0 \notin Candidates \cup {Me} /\ MaxTerm \in Nat

(* A reader has something to read.  It counts from 0, as the base class    *)
(* has it, or from 1.                                                      *)
ASSUME SnapshotAssumption == Chunks \in Nat \ {0} /\ FirstOffset \in {0, 1}

(* One data entry and one configuration entry: enough to overwrite an      *)
(* entry by another and one kind by the other.                             *)
SomeEntries == {[term |-> 1, type |-> "kData",   value |-> "x"],
                [term |-> 2, type |-> "kConfig", value |-> "c"]}

VARIABLES part,
          vote_disk, saved, vote_term, vote, vote_up, todo, granted, faults,
          term, lsm, reader, match, fterm, writer, sm, newest, chunks, replies, failed

V == INSTANCE VoteStore WITH disk <- vote_disk, term <- vote_term, up <- vote_up
S == INSTANCE Snapshot WITH MaxTerm <- MaxLeaderTerm

voteVars == <<vote_disk, saved, vote_term, vote, vote_up, todo, granted, faults>>
snapVars == <<term, lsm, reader, match, fterm, writer, sm, newest, chunks, replies, failed>>
allVars == <<part, vars, voteVars, snapVars>>

StorageInit ==
  /\ part \in {"log", "vote", "snapshot"}
  /\ Init /\ V!Init /\ S!Init

StorageNext ==
  /\ UNCHANGED part
  /\ \/ part = "log" /\ Next /\ UNCHANGED <<voteVars, snapVars>>
     \/ part = "vote" /\ V!Next /\ UNCHANGED <<vars, snapVars>>
     \/ part = "snapshot" /\ S!Next /\ UNCHANGED <<vars, voteVars>>

StorageSpec == StorageInit /\ [][StorageNext]_allVars

-----------------------------------------------------------------------------

(* A restart finds the log as the process had it, and nothing torn: the    *)
(* mirror in memory is what RaftLog::Init would read back, and at every    *)
(* moment, whatever failed, the entries are consecutive and each checksum  *)
(* covers its entry and goes on from the one before.                       *)
LogRecoverable == MemoryMatchesDisk /\ ChainUnbroken

(* The vote of a term goes to one server, even if the process dies between *)
(* the Puts of a handler, and to one whose log was good enough when it was *)
(* given, if it only dies between handlers; between handlers the database  *)
(* holds the term and the vote the server answers from.  (A power failure  *)
(* is exempt from the first two: term and vote are not synced.)            *)
VotesSound == V!VoteOnce /\ V!VotesNeedLogOk /\ V!WrittenThrough

(* What the leader takes as the follower's match index has been installed  *)
(* there, whatever was lost and whoever restarted, if a snapshot has more  *)
(* than one chunk, and the follower's state machine never goes back to an  *)
(* earlier index, unless it dies between the two renames of a swap.        *)
SnapshotSound == []S!MatchInstalled /\ S!NeverGoesBack
==============================================================================
