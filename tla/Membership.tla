------------------------------ MODULE Membership ------------------------------
(***************************************************************************)
(* Membership change as one server sees it: the configuration entries of   *)
(* its log, ConfigManager's current and previous configuration, the        *)
(* servers each manager keeps an item for, changing_index_ and standby_.   *)
(*                                                                         *)
(* The rest of the cluster is an honest Raft environment: ldr is the log   *)
(* of the current leader, chosen how much of it a majority holds.  A new   *)
(* leader keeps everything chosen, a leader that is not this server        *)
(* changes one server at a time and only when the last change is chosen,   *)
(* and it sends its log to the members of its own configuration only.      *)
(*                                                                         *)
(* A configuration is written by a leader with its own address as me, and  *)
(* DoConfigChange keeps the reader's me; peers is a set, its order in the  *)
(* vector decides nothing.                                                 *)
(***************************************************************************)
EXTENDS Naturals, Sequences, FiniteSets, FiniteSetsExt

CONSTANTS Servers,   \* every address
          Me,        \* this server
          Base,      \* the members of the cluster at first
          Movable,   \* the servers that other leaders add and remove
          Standby,   \* this server is started empty, to be added
          MinMembers, \* bound: no smaller configuration is proposed
          MaxIndex,  \* bound on log length
          MaxTerm    \* bound on terms

ASSUME MembershipAssumption ==
  /\ Me \in Servers /\ Base \subseteq Servers /\ Movable \subseteq Servers
  /\ Standby <=> Me \notin Base
  /\ 0 \notin Servers   \* 0 stands for no address
  /\ MaxIndex \in Nat /\ MaxTerm \in Nat

VARIABLES
  ldr, chosen, term, boss,    \* the cluster: leader's log, what is chosen,
                              \*   the term and its leader ("me", "other", "none")
  log, myterm, state,         \* this server
  applied,                    \* last_apply_
  current, previous,          \* ConfigManager
  timers,                     \* timer_mgr_: the peers with heartbeat timers
  indices, snapshots,         \* index_mgr_.indices and snapshot_mgr_.snapshots:
                              \*   the servers with an item
  votes,                      \* vote_mgr_.votes: id -> grant
  asked,                      \* who was asked for a vote in this server's term
  changing, standby,
  failed,                     \* an assertion of DoConfigChange failed
  overtaken,                  \* history: a change came to a standby before the one
                              \*   under way was applied
  reread                      \* history: a restart took its configuration from the log

cluster == <<ldr, chosen, term, boss>>
config  == <<current, previous, timers, indices, snapshots, votes, changing, standby,
             failed, overtaken, reread>>
vars == <<cluster, log, myterm, state, applied, config, asked>>

-----------------------------------------------------------------------------
(* RaftConfig.                                                             *)

NoConfig == [me |-> 0, peers |-> {}]

ToSet(rc) == {rc.me} \cup rc.peers

IamIn(rc, rhs) == ToSet(rc) \subseteq ToSet(rhs)

(* ConfigCompare's diff: what the larger of two comparable ones has more.  *)
Diff(c1, c2) ==
  IF IamIn(c1, c2) THEN ToSet(c2) \ ToSet(c1) ELSE ToSet(c1) \ ToSet(c2)

Param == [me |-> Me, peers |-> IF Standby THEN {} ELSE Base \ {Me}]

Entry(t, type, rc) == [term |-> t, type |-> type, rc |-> rc]

ConfigIndices(l) == {i \in DOMAIN l : l[i].type = "kConfig"}

(* The configuration a log stands for, and the index it has there.         *)
LastConfigIndex(l) == Max({0} \cup ConfigIndices(l))

LastMembers(l) ==
  IF ConfigIndices(l) = {} THEN Base ELSE ToSet(l[LastConfigIndex(l)].rc)

-----------------------------------------------------------------------------
(* What DoConfigChange makes of the memory c, a record of ConfigManager's  *)
(* two configurations, the managers' servers, changing_index_ and the two  *)
(* flags, for the configuration rc: AddPeer or DeletePeer for every server *)
(* that differs.                                                           *)

Memory == [current |-> current, previous |-> previous, timers |-> timers,
           indices |-> indices, snapshots |-> snapshots, votes |-> votes,
           changing |-> changing, failed |-> failed, overtaken |-> overtaken]

AddPeers(c, S) ==
  [c EXCEPT !.timers = @ \cup S, !.indices = @ \cup S, !.snapshots = @ \cup S,
            !.votes = [p \in DOMAIN @ \cup S |-> IF p \in S THEN FALSE ELSE @[p]]]

\* Mutant: removed peers stay with the managers
DeletePeersNone(c, S) == c

DeletePeers(c, S) ==
  [c EXCEPT !.timers = @ \ S, !.indices = @ \ S, !.snapshots = @ \ S,
            !.votes = [p \in DOMAIN @ \ S |-> @[p]]]

DoConfigChange(c, rc) ==
  LET add == IamIn(c.current, rc)
      rm == IamIn(rc, c.current)
      diff == Diff(c.current, rc)
      asserted == IF standby THEN add /\ ~rm ELSE add # rm
  IN  IF ~asserted THEN [mem |-> [c EXCEPT !.failed = TRUE], new |-> c.current]
      ELSE IF add THEN [mem |-> AddPeers(c, diff),
                        new |-> [c.current EXCEPT !.peers = @ \cup diff]]
      ELSE [mem |-> DeletePeers(c, diff),
            new |-> [c.current EXCEPT !.peers = @ \ diff]]

\* Mutant: the index of the change is not remembered
ConfigChangeUnmarked(c, rc, i) ==
  LET d == DoConfigChange(c, rc)
  IN  [d.mem EXCEPT !.previous = c.current, !.current = d.new]

(* SetCurrent keeps the old configuration as previous, and changing_index_ *)
(* is overwritten, whether or not a change is under way.                   *)
ConfigChange(c, rc, i) ==
  LET d == DoConfigChange(c, rc)
  IN  [d.mem EXCEPT !.previous = c.current, !.current = d.new, !.changing = i,
                    !.overtaken = @ \/ (standby /\ c.changing # 0)]

\* Mutant: the managers go back, the current configuration does not
ConfigRollbackManagers(c, i) ==
  IF c.previous = NoConfig THEN [c EXCEPT !.failed = TRUE]
  ELSE [DoConfigChange(c, c.previous).mem EXCEPT
          !.previous = NoConfig, !.changing = IF @ = i THEN 0 ELSE @]

(* Rollback goes to previous, whatever the log has, and needs one.         *)
ConfigRollback(c, i) ==
  IF c.previous = NoConfig THEN [c EXCEPT !.failed = TRUE]
  ELSE [DoConfigChange(c, c.previous).mem EXCEPT
          !.current = c.previous, !.previous = NoConfig,
          !.changing = IF @ = i THEN 0 ELSE @]

(* DeleteFrom calls delete_cb_ for every configuration entry it removes,   *)
(* the earliest first.                                                     *)
RollbackFrom(c, l, i) ==
  LET gone == ConfigIndices(l) \cap (i..Len(l))
  IN  IF gone = {} THEN c
      ELSE IF Cardinality(gone) = 1 THEN ConfigRollback(c, Min(gone))
      ELSE ConfigRollback(ConfigRollback(c, Min(gone)), Min(gone \ {Min(gone)}))

(* AppendOne calls insert_cb_ for a configuration entry.                   *)
Insert(c, e, i) == IF e.type = "kConfig" THEN ConfigChange(c, e.rc, i) ELSE c

SetMemory(c) ==
  /\ current' = c.current
  /\ previous' = c.previous
  /\ timers' = c.timers
  /\ indices' = c.indices
  /\ snapshots' = c.snapshots
  /\ votes' = c.votes
  /\ changing' = c.changing
  /\ failed' = c.failed
  /\ overtaken' = c.overtaken
  /\ UNCHANGED reread

-----------------------------------------------------------------------------

Init ==
  /\ ldr = <<>> /\ chosen = 0 /\ term = 1 /\ boss = "other"
  /\ log = <<>> /\ myterm = 1 /\ state = "follower"
  /\ applied = 0
  /\ current = Param /\ previous = NoConfig
  /\ timers = Param.peers /\ indices = Param.peers /\ snapshots = Param.peers
  /\ votes = [p \in Param.peers |-> FALSE]
  /\ asked = {}
  /\ changing = 0 /\ standby = Standby
  /\ failed = FALSE /\ overtaken = FALSE /\ reread = FALSE

Running == ~failed

SamePrefix(k) == k <= Len(log) /\ SubSeq(log, 1, k) = SubSeq(ldr, 1, k)

(* AddServer and RemoveServer: a leader with no change under way proposes  *)
(* its own configuration with the server added or removed.  The entry goes *)
(* into the leader's log, unless a newer leader has taken over meanwhile.  *)
DoPropose(e) ==
  /\ Len(log) < MaxIndex
  /\ log' = Append(log, e)
  /\ ldr' = IF boss = "me" THEN log' ELSE ldr
  /\ SetMemory(Insert(Memory, e, Len(log) + 1))
  /\ UNCHANGED <<chosen, term, boss, myterm, state, applied, standby, asked>>

\* Mutant: a change may start before the last one is over
AnyTime == TRUE

NoChangeUnderWay == changing = 0

AddServer(addr) ==
  /\ Running /\ state = "leader"
  /\ NoChangeUnderWay
  /\ addr \notin ToSet(current)
  /\ DoPropose(Entry(myterm, "kConfig", [current EXCEPT !.peers = @ \cup {addr}]))

RemoveServer(addr) ==
  /\ Running /\ state = "leader"
  /\ NoChangeUnderWay
  /\ addr \in ToSet(current) /\ addr # current.me
  /\ Cardinality(ToSet(current)) > MinMembers
  /\ DoPropose(Entry(myterm, "kConfig", [current EXCEPT !.peers = @ \ {addr}]))

(* The election timer: a standby only starts it again.                     *)
Elect ==
  /\ Running /\ state # "leader" /\ ~standby
  /\ term < MaxTerm
  /\ term' = term + 1 /\ myterm' = term + 1
  /\ boss' = "none"
  /\ state' = "candidate"
  /\ asked' = timers
  /\ votes' = [p \in DOMAIN votes |-> FALSE]
  /\ UNCHANGED <<ldr, chosen, log, applied, current, previous, timers, indices, snapshots,
                 changing, standby, failed, overtaken, reread>>

Majority(v) == 1 + Cardinality({p \in DOMAIN v : v[p]}) >= (Cardinality(DOMAIN v) + 2) \div 2

(* A reply of this server's term is tallied in every state.  Nobody grants *)
(* a vote to a log that lacks a chosen entry; BecomeLeader adds a no-op.   *)
OnRequestVoteReply(p, granted) ==
  /\ Running /\ p \in asked
  /\ granted => SamePrefix(chosen)
  /\ LET tally == [q \in DOMAIN votes \cup {p} |->
                     IF q = p THEN granted \/ (p \in DOMAIN votes /\ votes[p]) ELSE votes[q]]
     IN  /\ votes' = tally
         /\ IF granted /\ Majority(tally) /\ state = "candidate" /\ boss = "none"
              THEN /\ Len(log) < MaxIndex
                   /\ state' = "leader" /\ boss' = "me"
                   /\ log' = Append(log, Entry(myterm, "kNoop", NoConfig))
                   /\ ldr' = log'
              ELSE UNCHANGED <<state, boss, log, ldr>>
  /\ UNCHANGED <<chosen, term, myterm, applied, current, previous, timers, indices,
                 snapshots, changing, standby, failed, overtaken, reread, asked>>

(* OnAppendEntries with the next entry the leader has for this server:     *)
(* a conflicting rest of the log is deleted first.                         *)
OnAppendEntries ==
  /\ Running
  /\ boss = "other"
  /\ Me \in LastMembers(ldr)
  /\ \E i \in DOMAIN ldr :
       /\ SamePrefix(i - 1)
       /\ Len(log) >= i => log[i].term # ldr[i].term
       /\ SetMemory(Insert(RollbackFrom(Memory, log, i), ldr[i], i))
       /\ log' = SubSeq(ldr, 1, i)
  /\ myterm' = term /\ state' = "follower"
  /\ asked' = IF myterm < term THEN {} ELSE asked
  /\ UNCHANGED <<cluster, applied, standby>>

(* OnInstallSnapshot from the leader s: snapshots[s] makes its item when   *)
(* there is none.  The state machine it brings is the Snapshot module's.   *)
OnInstallSnapshot(s) ==
  /\ Running
  /\ boss = "other"
  /\ Me \in LastMembers(ldr) /\ s \in LastMembers(ldr) \ {Me}
  /\ snapshots' = snapshots \cup {s}
  /\ myterm' = term /\ state' = "follower"
  /\ asked' = IF myterm < term THEN {} ELSE asked
  /\ UNCHANGED <<cluster, log, applied, current, previous, timers, indices, votes, changing,
                 standby, failed, overtaken, reread>>

\* Mutant: standby_ is not cleared
StandbyKept(over) == standby

StandbyAfter(over) == IF over THEN FALSE ELSE standby

(* StateMachineApply: the entries up to k are known to be committed.  The  *)
(* change under way is over when its entry is applied.                     *)
StateMachineApply(k) ==
  /\ Running
  /\ k > applied /\ k <= chosen
  /\ SamePrefix(k)
  /\ applied' = k
  /\ LET over == changing \in (applied + 1)..k
     IN  /\ changing' = IF over THEN 0 ELSE changing
         /\ standby' = StandbyAfter(over)
  /\ UNCHANGED <<cluster, log, myterm, state, current, previous, timers, indices, snapshots,
                 votes, failed, overtaken, reread, asked>>

InitConfig == IF ConfigIndices(log) = {} THEN Param ELSE log[LastConfigIndex(log)].rc

(* Stop, and Raft's constructor, Init, InitConfig and Start on the same    *)
(* path: the current configuration is the one written last, as it was      *)
(* written, and the one before is the parameter.                           *)
Restart ==
  /\ Running
  /\ LET rc == InitConfig
     IN  /\ current' = rc
         /\ timers' = rc.peers /\ indices' = rc.peers /\ snapshots' = rc.peers
         /\ votes' = [p \in rc.peers |-> FALSE]
  /\ previous' = Param
  /\ changing' = 0 /\ standby' = Standby
  /\ state' = "follower" /\ asked' = {}
  /\ boss' = IF boss = "me" THEN "none" ELSE boss
  /\ reread' = (reread \/ ConfigIndices(log) # {})
  /\ UNCHANGED <<ldr, chosen, term, log, myterm, applied, failed, overtaken>>

(* The servers a leader has sent AppendEntries to in its term: its peers   *)
(* when it was elected and those of every configuration it has made since. *)
SentTo ==
  asked \cup UNION {log[i].rc.peers : i \in {j \in ConfigIndices(log) : log[j].term = myterm}}

(* OnAppendEntriesReply of a server that may have been removed since:      *)
(* indices[p] makes an item when there is none, and so does snapshots[p]   *)
(* when SendAppendEntries has to send a snapshot.  A refusal finds 0 in a  *)
(* new item's next, and assert(pre_index <= last_index) ends the process.  *)
(* OnInstallSnapshotReply has the same outcomes: an item of indices, or    *)
(* assert(reader) ends the process when there is no item of snapshots.     *)
OnAppendEntriesReply(p, success) ==
  /\ Running /\ state = "leader" /\ p \in SentTo
  /\ \/ /\ success \/ p \in indices
        /\ indices' = indices \cup {p}
        /\ snapshots' \in {snapshots, snapshots \cup {p}}
        /\ UNCHANGED <<cluster, log, myterm, state, applied, current, previous, timers, votes,
                       changing, standby, failed, overtaken, reread, asked>>
     \/ ~success /\ p \notin indices /\ Restart

-----------------------------------------------------------------------------
(* The rest of the cluster.                                                *)

Shrink(S) == IF Cardinality(S) > MinMembers THEN {S \ {s} : s \in S \cap Movable} ELSE {}
Extend(S) == {S \cup {s} : s \in Movable \ S}

OtherChanges ==
  /\ boss = "other"
  /\ Len(ldr) < MaxIndex
  /\ LastConfigIndex(ldr) <= chosen
  /\ \E S \in Shrink(LastMembers(ldr)) \cup Extend(LastMembers(ldr)) :
     \E w \in (LastMembers(ldr) \cap S) \ {Me} :
        ldr' = Append(ldr, Entry(term, "kConfig", [me |-> w, peers |-> S \ {w}]))
  /\ UNCHANGED <<chosen, term, boss, log, myterm, state, applied, config, asked>>

OtherLeads(k) ==
  /\ term < MaxTerm
  /\ chosen <= k /\ k <= Len(ldr) /\ k < MaxIndex
  /\ term' = term + 1
  /\ boss' = "other"
  /\ ldr' = Append(SubSeq(ldr, 1, k), Entry(term', "kNoop", NoConfig))
  /\ UNCHANGED <<chosen, log, myterm, state, applied, config, asked>>

Choose ==
  /\ \E k \in (chosen + 1)..Len(ldr) : ldr[k].term = term /\ chosen' = k
  /\ UNCHANGED <<ldr, term, boss, log, myterm, state, applied, config, asked>>

Next ==
  \/ \E a \in Servers : AddServer(a)
  \/ \E a \in Servers : RemoveServer(a)
  \/ Elect
  \/ \E p \in Servers, g \in BOOLEAN : OnRequestVoteReply(p, g)
  \/ OnAppendEntries
  \/ \E s \in Servers : OnInstallSnapshot(s)
  \/ \E p \in Servers, b \in BOOLEAN : OnAppendEntriesReply(p, b)
  \/ \E k \in 1..MaxIndex : StateMachineApply(k)
  \/ Restart
  \/ OtherChanges
  \/ \E k \in 0..MaxIndex : OtherLeads(k)
  \/ Choose

Spec == Init /\ [][Next]_vars

-----------------------------------------------------------------------------

(* The properties hold until a server that has a configuration in its log  *)
(* restarts: it then takes over the address of the leader that wrote it,   *)
(* the command line as previous configuration, and no change under way.    *)
Sound == ~reread /\ ~failed

(* The current configuration is the last one in the log, whatever was      *)
(* appended, truncated and appended again; a server that joins has itself  *)
(* until then.  It is the server's own: me is its address.                 *)
CurrentIsLastLogged ==
  Sound =>
    /\ current.me = Me
    /\ ToSet(current) = IF ConfigIndices(log) = {} THEN ToSet(Param) ELSE LastMembers(log) \cup {Me}

(* AddPeer and DeletePeer follow every change and every rollback: heart-   *)
(* beat timers run for exactly the peers of the current configuration, and *)
(* the other managers have an item for each of them.  They may have more:  *)
(* a late vote, reply or snapshot of a removed server makes its item again *)
(* (index_manager.h:88-124), and nothing removes that one.                 *)
ManagersMatchConfig ==
  Sound => /\ timers = current.peers
           /\ timers \subseteq indices \cap snapshots \cap DOMAIN votes

(* "assert((add && !rm) || (rm && !add))" and the other assertions of      *)
(* DoConfigChange and Rollback hold on a server that stays a member.       *)
AssertsHold == ~reread => ~failed

(* One change at a time: a leader never has two configurations in its log  *)
(* beyond what is chosen.                                                  *)
OneChangeAtATime ==
  ~reread /\ boss = "me" => Cardinality({i \in ConfigIndices(log) : i > chosen}) <= 1

(* "config changing index": while the last configuration of the log is not *)
(* chosen, changing_index_ is its index, so that no other one is proposed. *)
ChangingIndexKnown ==
  Sound /\ LastConfigIndex(log) > chosen => changing = LastConfigIndex(log)

(* "when config change finish, standby_ is clear": a server that has       *)
(* applied the configuration that adds it is no longer a standby, unless   *)
(* another configuration came first and took its place in changing_index_: *)
(* standby_ then stays set (raft.cc:321, raft_core.cc:394).                *)
StandbyClears ==
  (Sound /\ ~overtaken /\ \E i \in ConfigIndices(log) : i <= applied /\ Me \in ToSet(log[i].rc))
     => ~standby
==============================================================================
