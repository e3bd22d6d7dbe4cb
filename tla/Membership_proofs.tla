-------------------------- MODULE Membership_proofs --------------------------
(***************************************************************************)
(* What is proved of membership change: a server that stays a member       *)
(* follows the configurations of its log, its assertions hold, and it      *)
(* never has two changes under way; a server that joins clears standby_.   *)
(* The invariant relates its log to the leader's: of the configurations    *)
(* of either log only the last may be unchosen, so a truncation takes away *)
(* one configuration at most, and previous_ is the one before it.          *)
(***************************************************************************)
EXTENDS MCMembership, FiniteSetTheorems, SequenceTheorems, WellFoundedInduction, TLAPS

Addresses == Servers \cup {0}
Configs == [me : Addresses, peers : SUBSET Addresses]
Entries == [term : Nat, type : {"kConfig", "kNoop"}, rc : Configs]

(* The first k entries of l.                                               *)
Upto(l, k) == SubSeq(l, 1, k)

-----------------------------------------------------------------------------
(* A bounded set of natural numbers has a largest element.                 *)
LEMMA MaxOf ==
    ASSUME NEW n \in Nat, NEW S, S \subseteq 0..n, S # {}
    PROVE  Max(S) \in S /\ \A y \in S : y <= Max(S)
<1> DEFINE T == {n - x : x \in S}
<1>0. \A x \in S : x \in Nat /\ x <= n
  OBVIOUS
<1>1. T \subseteq Nat /\ T # {}
  <2>1. \A x \in S : n - x \in Nat
    BY <1>0
  <2>2. PICK x \in S : TRUE
    OBVIOUS
  <2>3. n - x \in T
    BY <2>2
  <2> QED
    BY <2>1, <2>3
<1>2. PICK t \in T : \A u \in T : ~(<<u, t>> \in OpToRel(<, Nat))
  <2>1. IsWellFoundedOn(OpToRel(<, Nat), Nat)
    BY NatLessThanWellFounded
  <2> QED
    BY <1>1, <2>1, WFMin
<1>3. PICK x \in S : t = n - x
  BY <1>2
<1>4. \A y \in S : x >= y
  <2> SUFFICES ASSUME NEW y \in S, ~(x >= y)
               PROVE  FALSE
    OBVIOUS
  <2>1. n - y \in T /\ t \in T
    BY <1>2
  <2>2. n - y \in Nat /\ t \in Nat /\ n - y < t
    BY <1>0, <1>3
  <2>3. <<n - y, t>> \in OpToRel(<, Nat)
    BY <2>2 DEF OpToRel
  <2> QED
    BY <1>2, <2>1, <2>3
<1>5. Max(S) \in S /\ \A y \in S : Max(S) >= y
  BY <1>3, <1>4 DEF Max
<1> QED
  BY <1>0, <1>5

-----------------------------------------------------------------------------
(* Prefixes of logs.                                                       *)

LEMMA UptoFacts ==
  ASSUME NEW l \in Seq(Entries), NEW k \in 0..Len(l)
  PROVE  /\ Upto(l, k) \in Seq(Entries) /\ Len(Upto(l, k)) = k
         /\ DOMAIN Upto(l, k) = 1..k
         /\ \A j \in 1..k : Upto(l, k)[j] = l[j]
<1>1. Len(l) \in Nat /\ \A j \in 1..Len(l) : l[j] \in Entries BY ElementOfSeq
<1>2. k \in Nat /\ k <= Len(l) /\ \A j \in 1..k : l[j] \in Entries BY <1>1
<1>3. Upto(l, k) \in Seq(Entries) /\ Len(Upto(l, k)) = k
  BY <1>2, SubSeqProperties DEF Upto
<1>4. \A j \in 1..k : Upto(l, k)[j] = l[j] BY <1>2, SubSeqProperties DEF Upto
<1> QED BY <1>3, <1>4

LEMMA AppendFacts ==
  ASSUME NEW l \in Seq(Entries), NEW e \in Entries
  PROVE  /\ Append(l, e) \in Seq(Entries)
         /\ Len(l) \in Nat /\ Len(Append(l, e)) = Len(l) + 1
         /\ DOMAIN Append(l, e) = 1..(Len(l) + 1) /\ DOMAIN l = 1..Len(l)
         /\ Append(l, e)[Len(l) + 1] = e
         /\ \A j \in 1..Len(l) : Append(l, e)[j] = l[j]
         /\ \A k \in 0..Len(l) : Upto(Append(l, e), k) = Upto(l, k)
<1>1. /\ Append(l, e) \in Seq(Entries)
      /\ Len(l) \in Nat /\ Len(Append(l, e)) = Len(l) + 1
      /\ DOMAIN Append(l, e) = 1..(Len(l) + 1) /\ DOMAIN l = 1..Len(l)
      /\ Append(l, e)[Len(l) + 1] = e
      /\ \A j \in 1..Len(l) : Append(l, e)[j] = l[j]
  OBVIOUS
<1>2. PICK a : a = Append(l, e) OBVIOUS
<1>3. ASSUME NEW k \in 0..Len(l) PROVE Upto(a, k) = Upto(l, k)
  <2>1. k \in 0..Len(a) /\ a \in Seq(Entries) BY <1>1, <1>2
  <2>2. \A j \in 1..k : a[j] = l[j] BY <1>1, <1>2
  <2> QED BY <2>1, <2>2, UptoFacts, SeqEqual
<1> QED BY <1>1, <1>2, <1>3

(* Two logs with the same first k entries.                                 *)
LEMMA UptoEqual ==
  ASSUME NEW a \in Seq(Entries), NEW b \in Seq(Entries), NEW k \in Nat,
         k <= Len(a), k <= Len(b)
  PROVE  (Upto(a, k) = Upto(b, k)) <=> \A j \in 1..k : a[j] = b[j]
<1>1. k \in 0..Len(a) /\ k \in 0..Len(b) OBVIOUS
<1>2. ASSUME Upto(a, k) = Upto(b, k) PROVE \A j \in 1..k : a[j] = b[j]
  BY <1>1, <1>2, UptoFacts
<1>3. ASSUME \A j \in 1..k : a[j] = b[j] PROVE Upto(a, k) = Upto(b, k)
  <2>1. \A j \in 1..k : Upto(a, k)[j] = Upto(b, k)[j] BY <1>1, <1>3, UptoFacts
  <2> QED BY <1>1, <2>1, UptoFacts, SeqEqual
<1> QED BY <1>2, <1>3

LEMMA UptoUpto ==
  ASSUME NEW l \in Seq(Entries), NEW k \in 0..Len(l), NEW j \in 0..k
  PROVE  Upto(Upto(l, k), j) = Upto(l, j)
<1>1. Upto(l, k) \in Seq(Entries) /\ Len(Upto(l, k)) = k BY UptoFacts
<1>2. \A i \in 1..j : Upto(l, k)[i] = l[i] BY UptoFacts
<1> QED BY <1>1, <1>2, UptoEqual

LEMMA UptoNext ==
  ASSUME NEW l \in Seq(Entries), NEW k \in 1..Len(l)
  PROVE  Upto(l, k) = Append(Upto(l, k - 1), l[k]) /\ l[k] \in Entries
<1>1. k \in 0..Len(l) /\ k - 1 \in 0..Len(l) /\ l[k] \in Entries BY ElementOfSeq
<1>2. PICK p : p = Upto(l, k - 1) OBVIOUS
<1>5. p \in Seq(Entries) /\ Len(p) = k - 1 /\ \A j \in 1..(k - 1) : p[j] = l[j]
  BY <1>1, <1>2, UptoFacts
<1>6. PICK a : a = Append(p, l[k]) OBVIOUS
<1>3. a \in Seq(Entries) /\ Len(a) = k /\ a[k] = l[k] /\ \A j \in 1..(k - 1) : a[j] = l[j]
  BY <1>1, <1>5, <1>6, AppendFacts
<1>7. \A j \in 1..k : Upto(l, k)[j] = l[j] BY <1>1, UptoFacts
<1>8. \A j \in 1..k : j = k \/ j \in 1..(k - 1) BY <1>1
<1>4. \A j \in 1..k : a[j] = Upto(l, k)[j] BY <1>3, <1>7, <1>8
<1> QED BY <1>1, <1>2, <1>3, <1>4, <1>6, UptoFacts, SeqEqual

-----------------------------------------------------------------------------
(* The configurations of a log.                                            *)

LEMMA ConfigFacts ==
  ASSUME NEW l \in Seq(Entries)
  PROVE  /\ ConfigIndices(l) \subseteq 1..Len(l) /\ Len(l) \in Nat
         /\ LastConfigIndex(l) \in 0..Len(l)
         /\ \A i \in ConfigIndices(l) : i <= LastConfigIndex(l)
         /\ LastConfigIndex(l) # 0 => LastConfigIndex(l) \in ConfigIndices(l)
         /\ ConfigIndices(l) # {} => LastConfigIndex(l) # 0
<1>1. ConfigIndices(l) \subseteq 1..Len(l) /\ Len(l) \in Nat BY DEF ConfigIndices
<1>0. PICK C : C = {0} \cup ConfigIndices(l) OBVIOUS
<1>2. C \subseteq 0..Len(l) /\ C # {} BY <1>0, <1>1
<1>3. Max(C) \in C /\ \A i \in C : i <= Max(C) BY <1>1, <1>2, MaxOf
<1>4. LastConfigIndex(l) = Max(C) BY <1>0 DEF LastConfigIndex
<1>5. LastConfigIndex(l) \in C /\ \A i \in C : i <= LastConfigIndex(l) BY <1>3, <1>4
<1> QED BY <1>0, <1>1, <1>2, <1>5

(* The last one is the one with no other behind it.                        *)
LEMMA LastIs ==
  ASSUME NEW l \in Seq(Entries), NEW m \in {0} \cup ConfigIndices(l),
         \A i \in ConfigIndices(l) : i <= m
  PROVE  LastConfigIndex(l) = m
<1>1. m \in Nat /\ LastConfigIndex(l) \in Nat BY ConfigFacts
<1>2. LastConfigIndex(l) <= m /\ m <= LastConfigIndex(l) BY <1>1, ConfigFacts
<1> QED BY <1>1, <1>2

LEMMA ConfigsUpto ==
  ASSUME NEW l \in Seq(Entries), NEW k \in 0..Len(l)
  PROVE  ConfigIndices(Upto(l, k)) = {i \in ConfigIndices(l) : i <= k}
<1>1. PICK p : p = Upto(l, k) OBVIOUS
<1>2. DOMAIN p = 1..k /\ \A j \in 1..k : p[j] = l[j] BY <1>1, UptoFacts
<1>3. DOMAIN l = 1..Len(l) /\ Len(l) \in Nat OBVIOUS
<1>4. ConfigIndices(p) = {i \in 1..k : l[i].type = "kConfig"} BY <1>2 DEF ConfigIndices
<1> QED BY <1>1, <1>3, <1>4 DEF ConfigIndices

LEMMA ConfigsAppend ==
  ASSUME NEW l \in Seq(Entries), NEW e \in Entries
  PROVE  ConfigIndices(Append(l, e)) =
           ConfigIndices(l) \cup (IF e.type = "kConfig" THEN {Len(l) + 1} ELSE {})
<1>1. PICK a : a = Append(l, e) OBVIOUS
<1>2. DOMAIN a = 1..(Len(l) + 1) /\ a[Len(l) + 1] = e /\ \A j \in 1..Len(l) : a[j] = l[j]
  BY <1>1, AppendFacts
<1>3. DOMAIN l = 1..Len(l) /\ Len(l) \in Nat OBVIOUS
<1>4. ASSUME NEW i PROVE i \in ConfigIndices(a) <=>
        i \in ConfigIndices(l) \/ (i = Len(l) + 1 /\ e.type = "kConfig")
  BY <1>2, <1>3 DEF ConfigIndices
<1> QED BY <1>1, <1>4

(* A prefix that holds the last configuration stands for the same one.     *)
LEMMA LastUpto ==
  ASSUME NEW l \in Seq(Entries), NEW k \in 0..Len(l), LastConfigIndex(l) <= k
  PROVE  /\ LastConfigIndex(Upto(l, k)) = LastConfigIndex(l)
         /\ LastMembers(Upto(l, k)) = LastMembers(l)
         /\ ConfigIndices(Upto(l, k)) = ConfigIndices(l)
<1>1. Upto(l, k) \in Seq(Entries) /\ \A j \in 1..k : Upto(l, k)[j] = l[j] BY UptoFacts
<1>2. ConfigIndices(Upto(l, k)) = ConfigIndices(l)
  <2>1. \A i \in ConfigIndices(l) : i <= k BY ConfigFacts
  <2> QED BY <2>1, ConfigsUpto
<1>3. LastConfigIndex(Upto(l, k)) = LastConfigIndex(l) BY <1>1, <1>2, LastIs, ConfigFacts
<1>4. ConfigIndices(l) # {} => LastConfigIndex(l) \in 1..k BY ConfigFacts
<1> QED BY <1>1, <1>2, <1>3, <1>4 DEF LastMembers

LEMMA LastAppend ==
  ASSUME NEW l \in Seq(Entries), NEW e \in Entries
  PROVE  /\ e.type = "kConfig" => /\ LastConfigIndex(Append(l, e)) = Len(l) + 1
                                  /\ LastMembers(Append(l, e)) = ToSet(e.rc)
         /\ e.type # "kConfig" => /\ LastConfigIndex(Append(l, e)) = LastConfigIndex(l)
                                  /\ LastMembers(Append(l, e)) = LastMembers(l)
                                  /\ ConfigIndices(Append(l, e)) = ConfigIndices(l)
<1>1. PICK a : a = Append(l, e) OBVIOUS
<1>2. a \in Seq(Entries) /\ Len(a) = Len(l) + 1 /\ a[Len(l) + 1] = e /\ Len(l) \in Nat
      /\ \A j \in 1..Len(l) : a[j] = l[j]
  BY <1>1, AppendFacts
<1>3. CASE e.type = "kConfig"
  <2>1. ConfigIndices(a) = ConfigIndices(l) \cup {Len(l) + 1} BY <1>1, <1>3, ConfigsAppend
  <2>2. \A i \in ConfigIndices(a) : i <= Len(l) + 1 BY <2>1, ConfigFacts
  <2>3. LastConfigIndex(a) = Len(l) + 1 BY <1>2, <2>1, <2>2, LastIs
  <2> QED BY <1>1, <1>2, <1>3, <2>1, <2>3 DEF LastMembers
<1>4. CASE e.type # "kConfig"
  <2>1. ConfigIndices(a) = ConfigIndices(l) BY <1>1, <1>4, ConfigsAppend
  <2>2. LastConfigIndex(a) = LastConfigIndex(l) BY <1>2, <2>1, LastIs, ConfigFacts
  <2>3. ConfigIndices(l) # {} => LastConfigIndex(l) \in 1..Len(l) BY ConfigFacts
  <2> QED BY <1>1, <1>2, <1>4, <2>1, <2>2, <2>3 DEF LastMembers
<1> QED BY <1>3, <1>4

-----------------------------------------------------------------------------
(* Successive configurations.                                              *)

(* S may follow P: one is larger than the other, and this server is in it. *)
Succeeds(S, P) == Me \in S /\ S # P /\ (S \subseteq P \/ P \subseteq S)

(* The members before index i of log l.                                    *)
Before(l, i) == LastMembers(Upto(l, i - 1))

Chain(l) == \A i \in ConfigIndices(l) : Succeeds(ToSet(l[i].rc), Before(l, i))

LEMMA MembersOf ==
  ASSUME NEW l \in Seq(Entries), Chain(l)
  PROVE  Me \in LastMembers(l) /\ LastMembers(l) \subseteq Addresses
<1>1. CASE ConfigIndices(l) = {}
  BY <1>1, PartsAssumption, MembershipAssumption DEF LastMembers, Addresses
<1>2. CASE ConfigIndices(l) # {}
  <2>1. PICK i : i = LastConfigIndex(l) OBVIOUS
  <2>2. i \in ConfigIndices(l) /\ i \in 1..Len(l) BY <1>2, <2>1, ConfigFacts
  <2>3. LastMembers(l) = ToSet(l[i].rc) BY <1>2, <2>1 DEF LastMembers
  <2>4. l[i] \in Entries BY <2>2, ElementOfSeq
  <2>5. l[i].rc.me \in Addresses /\ l[i].rc.peers \subseteq Addresses
    BY <2>4 DEF Entries, Configs
  <2>6. Me \in ToSet(l[i].rc) BY <2>2 DEF Chain, Succeeds
  <2> QED BY <2>3, <2>5, <2>6 DEF ToSet
<1> QED BY <1>1, <1>2

LEMMA ChainUpto ==
  ASSUME NEW l \in Seq(Entries), Chain(l), NEW k \in 0..Len(l)
  PROVE  Chain(Upto(l, k))
<1>1. PICK p : p = Upto(l, k) OBVIOUS
<1>2. ASSUME NEW i \in ConfigIndices(p) PROVE Succeeds(ToSet(p[i].rc), Before(p, i))
  <2>1. i \in ConfigIndices(l) /\ i <= k /\ i \in 1..Len(l) BY <1>1, ConfigsUpto, ConfigFacts
  <2>2. p[i] = l[i] BY <1>1, <2>1, UptoFacts
  <2>3. i - 1 \in 0..k BY <2>1
  <2>4. Before(p, i) = Before(l, i) BY <1>1, <2>3, UptoUpto DEF Before
  <2> QED BY <2>1, <2>2, <2>4 DEF Chain
<1> QED BY <1>1, <1>2 DEF Chain

LEMMA ChainAppend ==
  ASSUME NEW l \in Seq(Entries), Chain(l), NEW e \in Entries,
         e.type = "kConfig" => Succeeds(ToSet(e.rc), LastMembers(l))
  PROVE  Chain(Append(l, e))
<1>1. PICK a : a = Append(l, e) OBVIOUS
<1>2. ASSUME NEW i \in ConfigIndices(a) PROVE Succeeds(ToSet(a[i].rc), Before(a, i))
  <2>1. CASE i \in ConfigIndices(l)
    <3>1. i \in 1..Len(l) /\ i - 1 \in 0..Len(l) BY <2>1, ConfigFacts
    <3>2. a[i] = l[i] /\ Before(a, i) = Before(l, i) BY <1>1, <3>1, AppendFacts DEF Before
    <3> QED BY <2>1, <3>2 DEF Chain
  <2>2. CASE i = Len(l) + 1 /\ e.type = "kConfig"
    <3>1. i - 1 = Len(l) /\ Len(l) \in 0..Len(l) BY <2>2, ConfigFacts
    <3>2. a[i] = e BY <1>1, <2>2, AppendFacts
    <3>3. Upto(a, Len(l)) = Upto(l, Len(l)) BY <1>1, <3>1, AppendFacts
    <3>4. Upto(l, Len(l)) = l BY SubSeqFull DEF Upto
    <3>5. Before(a, i) = LastMembers(l) BY <3>1, <3>3, <3>4 DEF Before
    <3> QED BY <2>2, <3>2, <3>5
  <2> QED BY <1>1, <1>2, <2>1, <2>2, ConfigsAppend
<1> QED BY <1>1, <1>2 DEF Chain

-----------------------------------------------------------------------------
(* What DoConfigChange, ConfigChange and ConfigRollback do to the memory.  *)

(* vo holds what may have more than the peers: votes, indices, snapshots.  *)
Mem(cu, pr, ma, vo, ch, fa) ==
  [current |-> cu, previous |-> pr, timers |-> ma, indices |-> vo.indices,
   snapshots |-> vo.snapshots, votes |-> vo.votes, changing |-> ch, failed |-> fa,
   overtaken |-> vo.overtaken]

Loosely(vo, ix, sn, ov) == [votes |-> vo, indices |-> ix, snapshots |-> sn, overtaken |-> ov]

Loose == Loosely(votes, indices, snapshots, overtaken)

(* The managers in vo have an item for every server of S.                  *)
Covers(S, vo) == S \subseteq DOMAIN vo.votes /\ S \subseteq vo.indices /\ S \subseteq vo.snapshots

LEMMA MemFields ==
  ASSUME NEW cu, NEW pr, NEW ma, NEW vo, NEW ch, NEW fa
  PROVE  /\ Mem(cu, pr, ma, vo, ch, fa).current = cu
         /\ Mem(cu, pr, ma, vo, ch, fa).previous = pr
         /\ Mem(cu, pr, ma, vo, ch, fa).timers = ma
         /\ Mem(cu, pr, ma, vo, ch, fa).indices = vo.indices
         /\ Mem(cu, pr, ma, vo, ch, fa).snapshots = vo.snapshots
         /\ Mem(cu, pr, ma, vo, ch, fa).votes = vo.votes
         /\ Mem(cu, pr, ma, vo, ch, fa).overtaken = vo.overtaken
         /\ Mem(cu, pr, ma, vo, ch, fa).changing = ch
         /\ Mem(cu, pr, ma, vo, ch, fa).failed = fa
BY DEF Mem

LEMMA LooseFields ==
  ASSUME NEW vo, NEW ix, NEW sn, NEW ov
  PROVE  /\ Loosely(vo, ix, sn, ov).votes = vo /\ Loosely(vo, ix, sn, ov).indices = ix
         /\ Loosely(vo, ix, sn, ov).snapshots = sn /\ Loosely(vo, ix, sn, ov).overtaken = ov
BY DEF Loosely

(* The managers and the votes are replaced, all else stays.                *)
WithPeers(c, m, ix, sn, w) ==
  [c EXCEPT !.timers = m, !.indices = ix, !.snapshots = sn, !.votes = w]

LEMMA MemPeers ==
  ASSUME NEW cu, NEW pr, NEW ma, NEW vo, NEW ch, NEW fa, NEW m, NEW ix, NEW sn, NEW w,
         NEW c, c = Mem(cu, pr, ma, vo, ch, fa)
  PROVE  WithPeers(c, m, ix, sn, w)
           = Mem(cu, pr, m, Loosely(w, ix, sn, vo.overtaken), ch, fa)
<1>1. PICK o0, i0, s0, v0 : /\ o0 = vo.overtaken /\ i0 = vo.indices /\ s0 = vo.snapshots
                            /\ v0 = vo.votes
  OBVIOUS
<1>2. c = [current |-> cu, previous |-> pr, timers |-> ma, indices |-> i0,
           snapshots |-> s0, votes |-> v0, changing |-> ch, failed |-> fa, overtaken |-> o0]
  BY <1>1 DEF Mem
<1>3. PICK c1 : c1 = [c EXCEPT !.timers = m] OBVIOUS
<1>4. c1 = [current |-> cu, previous |-> pr, timers |-> m, indices |-> i0,
           snapshots |-> s0, votes |-> v0, changing |-> ch, failed |-> fa, overtaken |-> o0]
  BY <1>2, <1>3
<1>5. PICK c2 : c2 = [c1 EXCEPT !.indices = ix] OBVIOUS
<1>6. c2 = [current |-> cu, previous |-> pr, timers |-> m, indices |-> ix,
           snapshots |-> s0, votes |-> v0, changing |-> ch, failed |-> fa, overtaken |-> o0]
  BY <1>4, <1>5
<1>7. PICK c3 : c3 = [c2 EXCEPT !.snapshots = sn] OBVIOUS
<1>8. c3 = [current |-> cu, previous |-> pr, timers |-> m, indices |-> ix,
           snapshots |-> sn, votes |-> v0, changing |-> ch, failed |-> fa, overtaken |-> o0]
  BY <1>6, <1>7
<1>9. PICK c4 : c4 = [c3 EXCEPT !.votes = w] OBVIOUS
<1>10. c4 = [current |-> cu, previous |-> pr, timers |-> m, indices |-> ix,
           snapshots |-> sn, votes |-> w, changing |-> ch, failed |-> fa, overtaken |-> o0]
  BY <1>8, <1>9
<1>11. WithPeers(c, m, ix, sn, w) = c4
  BY <1>3, <1>5, <1>7, <1>9 DEF WithPeers
<1>12. PICK v : v = Loosely(w, ix, sn, o0) OBVIOUS
<1>13. v.votes = w /\ v.indices = ix /\ v.snapshots = sn /\ v.overtaken = o0
  BY <1>12, LooseFields
<1>14. Mem(cu, pr, m, v, ch, fa) = c4 BY <1>10, <1>13 DEF Mem
<1> QED BY <1>1, <1>11, <1>12, <1>14

(* What AddPeers and DeletePeers make of the loose managers.               *)
Grown(vo, S) ==
  Loosely([p \in DOMAIN vo.votes \cup S |-> IF p \in S THEN FALSE ELSE vo.votes[p]],
          vo.indices \cup S, vo.snapshots \cup S, vo.overtaken)

Shrunk(vo, S) ==
  Loosely([p \in DOMAIN vo.votes \ S |-> vo.votes[p]],
          vo.indices \ S, vo.snapshots \ S, vo.overtaken)

LEMMA AddPeersOf ==
  ASSUME NEW cu, NEW pr, NEW ma, NEW vo, NEW ch, NEW fa, NEW S, NEW m,
         Covers(ma, vo), \A x : x \in m <=> (x \in ma \/ x \in S)
  PROVE  /\ Covers(m, Grown(vo, S))
         /\ AddPeers(Mem(cu, pr, ma, vo, ch, fa), S) = Mem(cu, pr, m, Grown(vo, S), ch, fa)
<1>1. PICK c : c = Mem(cu, pr, ma, vo, ch, fa) OBVIOUS
<1>2. /\ c.timers = ma /\ c.votes = vo.votes /\ c.indices = vo.indices
      /\ c.snapshots = vo.snapshots
  BY <1>1, MemFields
<1>3. PICK w, ix, sn :
        /\ w = [p \in DOMAIN c.votes \cup S |-> IF p \in S THEN FALSE ELSE c.votes[p]]
        /\ ix = c.indices \cup S /\ sn = c.snapshots \cup S
  OBVIOUS
<1>4. AddPeers(c, S) = WithPeers(c, m, ix, sn, w)
  <2>1. m = c.timers \cup S BY <1>2
  <2> QED BY <1>3, <2>1 DEF AddPeers, WithPeers
<1>5. PICK v : v = Loosely(w, ix, sn, vo.overtaken) OBVIOUS
<1>6. v.votes = w /\ v.indices = ix /\ v.snapshots = sn BY <1>5, LooseFields
<1>7. m \subseteq DOMAIN w /\ m \subseteq ix /\ m \subseteq sn BY <1>2, <1>3 DEF Covers
<1>8. AddPeers(c, S) = Mem(cu, pr, m, v, ch, fa) BY <1>1, <1>4, <1>5, MemPeers
<1>9. v = Grown(vo, S) BY <1>2, <1>3, <1>5 DEF Grown
<1>10. Covers(m, v) BY <1>6, <1>7 DEF Covers
<1> QED BY <1>1, <1>8, <1>9, <1>10

LEMMA DeletePeersOf ==
  ASSUME NEW cu, NEW pr, NEW ma, NEW vo, NEW ch, NEW fa, NEW S, NEW m,
         Covers(ma, vo), m = ma \ S
  PROVE  /\ Covers(m, Shrunk(vo, S))
         /\ DeletePeers(Mem(cu, pr, ma, vo, ch, fa), S) = Mem(cu, pr, m, Shrunk(vo, S), ch, fa)
<1>1. PICK c : c = Mem(cu, pr, ma, vo, ch, fa) OBVIOUS
<1>2. /\ c.timers = ma /\ c.votes = vo.votes /\ c.indices = vo.indices
      /\ c.snapshots = vo.snapshots
  BY <1>1, MemFields
<1>3. PICK w, ix, sn : /\ w = [p \in DOMAIN c.votes \ S |-> c.votes[p]]
                       /\ ix = c.indices \ S /\ sn = c.snapshots \ S
  OBVIOUS
<1>4. DeletePeers(c, S) = WithPeers(c, m, ix, sn, w)
  <2>1. m = c.timers \ S BY <1>2
  <2> QED BY <1>3, <2>1 DEF DeletePeers, WithPeers
<1>5. PICK v : v = Loosely(w, ix, sn, vo.overtaken) OBVIOUS
<1>6. v.votes = w /\ v.indices = ix /\ v.snapshots = sn BY <1>5, LooseFields
<1>7. m \subseteq DOMAIN w /\ m \subseteq ix /\ m \subseteq sn BY <1>2, <1>3 DEF Covers
<1>8. DeletePeers(c, S) = Mem(cu, pr, m, v, ch, fa) BY <1>1, <1>4, <1>5, MemPeers
<1>9. v = Shrunk(vo, S) BY <1>2, <1>3, <1>5 DEF Shrunk
<1>10. Covers(m, v) BY <1>6, <1>7 DEF Covers
<1> QED BY <1>1, <1>8, <1>9, <1>10

(* A configuration is entered: overtaken may change too.                   *)
Entered(c, old, new, i, ov) ==
  [c EXCEPT !.previous = old, !.current = new, !.changing = i, !.overtaken = ov]

LEMMA MemEntered ==
  ASSUME NEW cu, NEW pr, NEW ma, NEW vo, NEW ch, NEW fa, NEW new, NEW old, NEW i, NEW ov,
         NEW c, c = Mem(cu, pr, ma, vo, ch, fa)
  PROVE  Entered(c, old, new, i, ov)
           = Mem(new, old, ma, Loosely(vo.votes, vo.indices, vo.snapshots, ov), i, fa)
<1>1. PICK o0, i0, s0, v0 : /\ o0 = vo.overtaken /\ i0 = vo.indices /\ s0 = vo.snapshots
                            /\ v0 = vo.votes
  OBVIOUS
<1>2. c = [current |-> cu, previous |-> pr, timers |-> ma, indices |-> i0,
           snapshots |-> s0, votes |-> v0, changing |-> ch, failed |-> fa, overtaken |-> o0]
  BY <1>1 DEF Mem
<1>3. PICK c1 : c1 = [c EXCEPT !.previous = old] OBVIOUS
<1>4. c1 = [current |-> cu, previous |-> old, timers |-> ma, indices |-> i0,
           snapshots |-> s0, votes |-> v0, changing |-> ch, failed |-> fa, overtaken |-> o0]
  BY <1>2, <1>3
<1>5. PICK c2 : c2 = [c1 EXCEPT !.current = new] OBVIOUS
<1>6. c2 = [current |-> new, previous |-> old, timers |-> ma, indices |-> i0,
           snapshots |-> s0, votes |-> v0, changing |-> ch, failed |-> fa, overtaken |-> o0]
  BY <1>4, <1>5
<1>7. PICK c3 : c3 = [c2 EXCEPT !.changing = i] OBVIOUS
<1>8. c3 = [current |-> new, previous |-> old, timers |-> ma, indices |-> i0,
           snapshots |-> s0, votes |-> v0, changing |-> i, failed |-> fa, overtaken |-> o0]
  BY <1>6, <1>7
<1>9. PICK c4 : c4 = [c3 EXCEPT !.overtaken = ov] OBVIOUS
<1>10. c4 = [current |-> new, previous |-> old, timers |-> ma, indices |-> i0,
           snapshots |-> s0, votes |-> v0, changing |-> i, failed |-> fa, overtaken |-> ov]
  BY <1>8, <1>9
<1>11. Entered(c, old, new, i, ov) = c4
  BY <1>3, <1>5, <1>7, <1>9 DEF Entered
<1>12. PICK v : v = Loosely(v0, i0, s0, ov) OBVIOUS
<1>13. v.votes = v0 /\ v.indices = i0 /\ v.snapshots = s0 /\ v.overtaken = ov
  BY <1>12, LooseFields
<1>14. Mem(new, old, ma, v, i, fa) = c4 BY <1>10, <1>13 DEF Mem
<1> QED BY <1>1, <1>11, <1>12, <1>14

(* A configuration is rolled back.                                         *)
RolledBack(c, new, old, i) ==
  [c EXCEPT !.current = new, !.previous = old, !.changing = i]

LEMMA MemRolled ==
  ASSUME NEW cu, NEW pr, NEW ma, NEW vo, NEW ch, NEW fa, NEW new, NEW old, NEW i,
         NEW c, c = Mem(cu, pr, ma, vo, ch, fa)
  PROVE  RolledBack(c, new, old, i)
           = Mem(new, old, ma, vo, i, fa)
<1>1. PICK o0, i0, s0, v0 : /\ o0 = vo.overtaken /\ i0 = vo.indices /\ s0 = vo.snapshots
                            /\ v0 = vo.votes
  OBVIOUS
<1>2. c = [current |-> cu, previous |-> pr, timers |-> ma, indices |-> i0,
           snapshots |-> s0, votes |-> v0, changing |-> ch, failed |-> fa, overtaken |-> o0]
  BY <1>1 DEF Mem
<1>3. PICK c1 : c1 = [c EXCEPT !.current = new] OBVIOUS
<1>4. c1 = [current |-> new, previous |-> pr, timers |-> ma, indices |-> i0,
           snapshots |-> s0, votes |-> v0, changing |-> ch, failed |-> fa, overtaken |-> o0]
  BY <1>2, <1>3
<1>5. PICK c2 : c2 = [c1 EXCEPT !.previous = old] OBVIOUS
<1>6. c2 = [current |-> new, previous |-> old, timers |-> ma, indices |-> i0,
           snapshots |-> s0, votes |-> v0, changing |-> ch, failed |-> fa, overtaken |-> o0]
  BY <1>4, <1>5
<1>7. PICK c3 : c3 = [c2 EXCEPT !.changing = i] OBVIOUS
<1>8. c3 = [current |-> new, previous |-> old, timers |-> ma, indices |-> i0,
           snapshots |-> s0, votes |-> v0, changing |-> i, failed |-> fa, overtaken |-> o0]
  BY <1>6, <1>7
<1>9. RolledBack(c, new, old, i) = c3
  BY <1>3, <1>5, <1>7 DEF RolledBack
<1>10. Mem(new, old, ma, vo, i, fa) = c3 BY <1>1, <1>8 DEF Mem
<1> QED BY <1>9, <1>10

(* An assertion fails.                                                     *)
Failing(c, f) ==
  [c EXCEPT !.failed = f]

LEMMA MemFailed ==
  ASSUME NEW cu, NEW pr, NEW ma, NEW vo, NEW ch, NEW fa, NEW f,
         NEW c, c = Mem(cu, pr, ma, vo, ch, fa)
  PROVE  Failing(c, f)
           = Mem(cu, pr, ma, vo, ch, f)
<1>1. PICK o0, i0, s0, v0 : /\ o0 = vo.overtaken /\ i0 = vo.indices /\ s0 = vo.snapshots
                            /\ v0 = vo.votes
  OBVIOUS
<1>2. c = [current |-> cu, previous |-> pr, timers |-> ma, indices |-> i0,
           snapshots |-> s0, votes |-> v0, changing |-> ch, failed |-> fa, overtaken |-> o0]
  BY <1>1 DEF Mem
<1>3. PICK c1 : c1 = [c EXCEPT !.failed = f] OBVIOUS
<1>4. c1 = [current |-> cu, previous |-> pr, timers |-> ma, indices |-> i0,
           snapshots |-> s0, votes |-> v0, changing |-> ch, failed |-> f, overtaken |-> o0]
  BY <1>2, <1>3
<1>5. Failing(c, f) = c1
  BY <1>3 DEF Failing
<1>6. Mem(cu, pr, ma, vo, ch, f) = c1 BY <1>1, <1>4 DEF Mem
<1> QED BY <1>5, <1>6

(* The configuration of the members S as this server keeps it.             *)
Others(S) == S \ {Me}
Own(S) == [me |-> Me, peers |-> Others(S)]

LEMMA OwnFacts ==
  ASSUME NEW S, Me \in S
  PROVE  ToSet(Own(S)) = S /\ Own(S).me = Me /\ Own(S).peers = Others(S) /\ Own(S) # NoConfig
<1>1. Me # 0 BY MembershipAssumption
<1> QED BY <1>1 DEF ToSet, Own, Others, NoConfig

LEMMA DoConfigChangeOf ==
  ASSUME NEW fa, NEW P, NEW pr, NEW vo, NEW ch, NEW rc, NEW S,
         Me \in P, Covers(Others(P), vo), ToSet(rc) = S, Succeeds(S, P), ~standby
  PROVE  \E v : /\ Covers(Others(S), v)
                /\ DoConfigChange(Mem(Own(P), pr, Others(P), vo, ch, fa), rc).mem
                     = Mem(Own(P), pr, Others(S), v, ch, fa)
                /\ DoConfigChange(Mem(Own(P), pr, Others(P), vo, ch, fa), rc).new = Own(S)
<1>0. PICK own, m, n : own = Own(P) /\ m = Others(P) /\ n = Others(S) OBVIOUS
<1>1. PICK c : c = Mem(own, pr, m, vo, ch, fa) OBVIOUS
<1>2. c.current = own /\ c.failed = fa /\ c.previous = pr /\ c.changing = ch
  BY <1>1, MemFields
<1>3. ToSet(c.current) = P BY <1>0, <1>2, OwnFacts
<1>4. Me \in S /\ S # P BY DEF Succeeds
<1>7. Covers(m, vo) BY <1>0
<1>5. CASE P \subseteq S
  <2>1. IamIn(c.current, rc) /\ ~IamIn(rc, c.current) BY <1>3, <1>4, <1>5 DEF IamIn
  <2>0. PICK D : D = S \ P OBVIOUS
  <2>2. Diff(c.current, rc) = D BY <1>3, <2>0, <2>1 DEF Diff
  <2>3. DoConfigChange(c, rc) = [mem |-> AddPeers(c, D),
                                 new |-> [c.current EXCEPT !.peers = @ \cup D]]
    BY <2>1, <2>2 DEF DoConfigChange
  <2>5. n = m \cup D BY <1>0, <1>5, <1>4, <2>0 DEF Others
  <2>4. PICK v : /\ Covers(n, v)
                 /\ AddPeers(Mem(own, pr, m, vo, ch, fa), D) = Mem(own, pr, n, v, ch, fa)
    <3>1. \A x : x \in n <=> (x \in m \/ x \in D) BY <2>5
    <3> QED BY <1>7, <3>1, AddPeersOf
  <2>7. [c.current EXCEPT !.peers = @ \cup D] = Own(S) BY <1>0, <1>2, <2>5 DEF Own
  <2>8. Covers(Others(S), v) BY <1>0, <2>4, <2>5
  <2> QED BY <1>0, <1>1, <2>3, <2>4, <2>7, <2>8
<1>6. CASE ~(P \subseteq S)
  <2>9. S \subseteq P BY <1>6 DEF Succeeds
  <2>1. ~IamIn(c.current, rc) /\ IamIn(rc, c.current) BY <1>3, <1>4, <1>6, <2>9 DEF IamIn
  <2>0. PICK D : D = P \ S OBVIOUS
  <2>2. Diff(c.current, rc) = D BY <1>3, <2>0, <2>1 DEF Diff
  <2>3. DoConfigChange(c, rc) = [mem |-> DeletePeers(c, D),
                                 new |-> [c.current EXCEPT !.peers = @ \ D]]
    BY <2>1, <2>2 DEF DoConfigChange
  <2>5. n = m \ D BY <1>0, <2>9, <2>0 DEF Others
  <2>4. PICK v : /\ Covers(n, v)
                 /\ DeletePeers(Mem(own, pr, m, vo, ch, fa), D) = Mem(own, pr, n, v, ch, fa)
    BY <1>7, <2>5, DeletePeersOf
  <2>7. [c.current EXCEPT !.peers = @ \ D] = Own(S) BY <1>0, <1>2, <2>5 DEF Own
  <2>8. Covers(Others(S), v) BY <1>0, <2>4, <2>5
  <2> QED BY <1>0, <1>1, <2>3, <2>4, <2>7, <2>8
<1> QED BY <1>5, <1>6

LEMMA ConfigChangeOf ==
  ASSUME NEW fa, NEW P, NEW pr, NEW vo, NEW ch, NEW rc, NEW i, NEW S,
         Me \in P, Covers(Others(P), vo), ToSet(rc) = S, Succeeds(S, P), ~standby
  PROVE  \E v : /\ Covers(Others(S), v)
                /\ ConfigChange(Mem(Own(P), pr, Others(P), vo, ch, fa), rc, i)
                     = Mem(Own(S), Own(P), Others(S), v, i, fa)
<1>0. PICK own, m, n, new : own = Own(P) /\ m = Others(P) /\ n = Others(S) /\ new = Own(S) OBVIOUS
<1>1. PICK c : c = Mem(own, pr, m, vo, ch, fa) OBVIOUS
<1>4. PICK d : d = DoConfigChange(c, rc) OBVIOUS
<1>2. PICK v : Covers(n, v) /\ d.mem = Mem(own, pr, n, v, ch, fa) /\ d.new = new
  BY <1>0, <1>1, <1>4, DoConfigChangeOf
<1>3. c.current = own BY <1>1, MemFields
<1>6. PICK r, z, ov : /\ r = d.mem /\ z = ConfigChange(c, rc, i)
                      /\ ov = (d.mem.overtaken \/ (standby /\ c.changing # 0))
  OBVIOUS
<1>7. z = Entered(r, own, new, i, ov) BY <1>2, <1>3, <1>4, <1>6 DEF ConfigChange, Entered
<1>9. r = Mem(own, pr, n, v, ch, fa) BY <1>2, <1>6
<1>10. PICK u : u = Loosely(v.votes, v.indices, v.snapshots, ov) OBVIOUS
<1>8. z = Mem(new, own, n, u, i, fa) BY <1>7, <1>9, <1>10, MemEntered
<1>11. Covers(n, u)
  <2>1. u.votes = v.votes /\ u.indices = v.indices /\ u.snapshots = v.snapshots
    BY <1>10, LooseFields
  <2> QED BY <1>2, <2>1 DEF Covers
<1> QED BY <1>0, <1>1, <1>6, <1>8, <1>11

Cleared(ch, i) == IF ch = i THEN 0 ELSE ch

LEMMA ConfigRollbackOf ==
  ASSUME NEW fa, NEW P, NEW vo, NEW ch, NEW i, NEW S,
         Me \in P, Me \in S, Covers(Others(P), vo), Succeeds(P, S), ~standby
  PROVE  \E v : /\ Covers(Others(S), v)
                /\ ConfigRollback(Mem(Own(P), Own(S), Others(P), vo, ch, fa), i)
                     = Mem(Own(S), NoConfig, Others(S), v, Cleared(ch, i), fa)
<1>0. PICK own, m, n, old, none : /\ own = Own(P) /\ m = Others(P) /\ n = Others(S)
                                  /\ old = Own(S) /\ none = NoConfig
  OBVIOUS
<1>1. PICK c : c = Mem(own, old, m, vo, ch, fa) OBVIOUS
<1>8. ToSet(old) = S /\ old # none BY <1>0, OwnFacts
<1>9. Succeeds(S, P) BY DEF Succeeds
<1>4. PICK d : d = DoConfigChange(c, old) OBVIOUS
<1>2. PICK v : Covers(n, v) /\ d.mem = Mem(own, old, n, v, ch, fa)
  BY <1>0, <1>1, <1>4, <1>8, <1>9, DoConfigChangeOf
<1>3. c.previous = old BY <1>1, MemFields
<1>5. PICK r : r = d.mem OBVIOUS
<1>6. r.changing = ch BY <1>2, <1>5, MemFields
<1>10. PICK x : x = Cleared(ch, i) OBVIOUS
<1>11. ConfigRollback(c, i) = RolledBack(r, old, none, x)
  BY <1>0, <1>3, <1>4, <1>5, <1>6, <1>8, <1>10 DEF ConfigRollback, Cleared, RolledBack
<1>12. PICK z : z = ConfigRollback(c, i) OBVIOUS
<1>13. r = Mem(own, old, n, v, ch, fa) BY <1>2, <1>5
<1>14. z = RolledBack(r, old, none, x) BY <1>11, <1>12
<1>7. z = Mem(old, none, n, v, x, fa) BY <1>13, <1>14, MemRolled
<1> QED BY <1>0, <1>1, <1>2, <1>7, <1>10, <1>12

-----------------------------------------------------------------------------
(* Two logs: l this server's, d the leader's, c how much of d is chosen.   *)

Shares(l, d, k) == k <= Len(l) /\ Upto(l, k) = Upto(d, k)

(* Of the configurations of either log only the last may be unchosen.      *)
OneOpen(d, c) == \A i \in ConfigIndices(d) : i < LastConfigIndex(d) => i <= c
Behind(l, d, c) ==
  \A i \in ConfigIndices(l) : i < LastConfigIndex(l) => i <= c /\ Shares(l, d, i)
Settled(l, d, c) == LastConfigIndex(l) <= c /\ Shares(l, d, LastConfigIndex(l))

LogsOK(l, d, c) ==
  /\ l \in Seq(Entries) /\ d \in Seq(Entries)
  /\ c \in Nat /\ c <= Len(d)
  /\ Chain(l) /\ Chain(d)
  /\ OneOpen(d, c) /\ Behind(l, d, c)

(* As long as the last configuration may be truncated, the server knows    *)
(* its index and the configuration before it.                              *)
Knows(l, d, c, ch, pr) ==
  /\ \/ Settled(l, d, c)
     \/ ch = LastConfigIndex(l) /\ pr = Own(Before(l, LastConfigIndex(l)))
  /\ ch = 0 \/ ch = LastConfigIndex(l)

LEMMA SharesFacts ==
  ASSUME NEW l \in Seq(Entries), NEW d \in Seq(Entries), NEW k \in Nat, k <= Len(d)
  PROVE  /\ Shares(l, d, 0)
         /\ Shares(l, d, k) <=> (k <= Len(l) /\ \A j \in 1..k : l[j] = d[j])
         /\ Shares(l, d, k) => \A j \in 0..k : Shares(l, d, j)
<1>1. Len(l) \in Nat /\ Len(d) \in Nat OBVIOUS
<1>2. ASSUME NEW n \in Nat, n <= Len(d)
      PROVE  Shares(l, d, n) <=> (n <= Len(l) /\ \A j \in 1..n : l[j] = d[j])
  BY <1>1, <1>2, UptoEqual DEF Shares
<1>3. Shares(l, d, 0)
  <2>1. \A j \in 1..0 : l[j] = d[j] OBVIOUS
  <2> QED BY <1>1, <1>2, <2>1
<1>4. ASSUME Shares(l, d, k), NEW j \in 0..k PROVE Shares(l, d, j)
  <2>1. j \in Nat /\ j <= Len(d) /\ j <= k BY <1>1
  <2>2. k <= Len(l) /\ \A m \in 1..k : l[m] = d[m] BY <1>2, <1>4
  <2>3. j <= Len(l) /\ \A m \in 1..j : l[m] = d[m] BY <1>1, <2>1, <2>2
  <2> QED BY <1>2, <2>1, <2>3
<1> QED BY <1>2, <1>3, <1>4

LEMMA SharesAppend ==
  ASSUME NEW l \in Seq(Entries), NEW d, NEW e \in Entries, NEW k \in Nat, Shares(l, d, k)
  PROVE  Shares(Append(l, e), d, k)
<1>1. k \in 0..Len(l) /\ Len(l) \in Nat BY DEF Shares
<1>2. Upto(Append(l, e), k) = Upto(l, k) /\ Len(Append(l, e)) = Len(l) + 1 BY <1>1, AppendFacts
<1> QED BY <1>1, <1>2 DEF Shares

(* The leader's log changes, but for what is chosen.                       *)
LEMMA ClusterMoves ==
  ASSUME NEW l, NEW d, NEW c, LogsOK(l, d, c),
         NEW d2 \in Seq(Entries), NEW c2 \in Nat, c <= c2, c2 <= Len(d2),
         Upto(d2, c) = Upto(d, c), Chain(d2), OneOpen(d2, c2)
  PROVE  /\ LogsOK(l, d2, c2)
         /\ \A ch, pr : Knows(l, d, c, ch, pr) => Knows(l, d2, c2, ch, pr)
         /\ \A k \in 0..c : Shares(l, d, k) => Shares(l, d2, k)
<1>1. /\ l \in Seq(Entries) /\ d \in Seq(Entries) /\ c \in Nat /\ c <= Len(d) /\ c <= Len(d2)
      /\ Len(d) \in Nat /\ Len(d2) \in Nat
  BY DEF LogsOK
<1>2. ASSUME NEW k \in 0..c PROVE Upto(d2, k) = Upto(d, k)
  <2>1. c \in 0..Len(d) /\ c \in 0..Len(d2) BY <1>1
  <2> QED BY <1>1, <2>1, UptoUpto
<1>3. ASSUME NEW k \in 0..c, Shares(l, d, k) PROVE Shares(l, d2, k) BY <1>2, <1>3 DEF Shares
<1>4. Behind(l, d2, c2)
  <2> SUFFICES ASSUME NEW i \in ConfigIndices(l), i < LastConfigIndex(l)
               PROVE  i <= c2 /\ Shares(l, d2, i)
    BY DEF Behind
  <2>1. i <= c /\ Shares(l, d, i) BY DEF LogsOK, Behind
  <2>2. i \in 1..Len(l) BY <1>1, ConfigFacts
  <2>3. i \in 0..c BY <1>1, <2>1, <2>2
  <2> QED BY <1>1, <1>3, <2>1, <2>3
<1>5. LogsOK(l, d2, c2) BY <1>1, <1>4 DEF LogsOK
<1>6. Settled(l, d, c) => Settled(l, d2, c2)
  <2> SUFFICES ASSUME Settled(l, d, c) PROVE Settled(l, d2, c2) OBVIOUS
  <2>1. PICK m : m = LastConfigIndex(l) OBVIOUS
  <2>2. m \in Nat /\ m <= c /\ Shares(l, d, m) BY <1>1, <2>1, ConfigFacts DEF Settled
  <2>3. m \in 0..c /\ m <= c2 BY <1>1, <2>2
  <2> QED BY <1>3, <2>1, <2>2, <2>3 DEF Settled
<1>7. \A ch, pr : Knows(l, d, c, ch, pr) => Knows(l, d2, c2, ch, pr) BY <1>6 DEF Knows
<1> QED BY <1>3, <1>5, <1>7

(* The server appends a configuration of its own when no change is open.   *)
LEMMA Proposed ==
  ASSUME NEW l, NEW d, NEW c, LogsOK(l, d, c), Settled(l, d, c),
         NEW e \in Entries, e.type = "kConfig", Succeeds(ToSet(e.rc), LastMembers(l)), NEW a,
         a = Append(l, e)
  PROVE  /\ LogsOK(a, d, c) /\ (d = l => LogsOK(a, a, c))
         /\ \A x : Knows(a, x, c, Len(l) + 1, Own(LastMembers(l)))
<1>1. l \in Seq(Entries) /\ d \in Seq(Entries) /\ c \in Nat /\ c <= Len(d) BY DEF LogsOK
<1>2. /\ a \in Seq(Entries) /\ Len(a) = Len(l) + 1 /\ Len(l) \in Nat
      /\ ConfigIndices(a) = ConfigIndices(l) \cup {Len(l) + 1}
      /\ LastConfigIndex(a) = Len(l) + 1
  BY <1>1, AppendFacts, ConfigsAppend, LastAppend
<1>3. Chain(a) BY <1>1, ChainAppend DEF LogsOK
<1>4. ASSUME NEW i \in ConfigIndices(a), i < LastConfigIndex(a)
      PROVE  i \in Nat /\ i <= c /\ Shares(a, d, i)
  <2>1. i \in ConfigIndices(l) BY <1>2, <1>4
  <2>2. i \in Nat /\ i <= LastConfigIndex(l) /\ LastConfigIndex(l) \in Nat
    BY <1>1, <2>1, ConfigFacts
  <2>3. LastConfigIndex(l) <= c /\ Shares(l, d, LastConfigIndex(l)) BY DEF Settled
  <2>4. LastConfigIndex(l) <= Len(d) /\ Len(d) \in Nat BY <1>1, <2>2, <2>3
  <2>5. Shares(l, d, i) BY <1>1, <2>2, <2>3, <2>4, SharesFacts
  <2> QED BY <1>1, <2>2, <2>3, <2>5, SharesAppend
<1>5. LogsOK(a, d, c) BY <1>1, <1>2, <1>3, <1>4 DEF LogsOK, Behind
<1>6. d = l => LogsOK(a, a, c)
  <2>1. ASSUME NEW i \in ConfigIndices(a), i < LastConfigIndex(a) PROVE Shares(a, a, i)
    <3>1. i \in ConfigIndices(l) BY <1>2, <2>1
    <3>2. i <= Len(a) BY <1>1, <1>2, <3>1, ConfigFacts
    <3> QED BY <3>2 DEF Shares
  <2> QED BY <1>1, <1>2, <1>3, <1>4, <2>1 DEF LogsOK, Behind, OneOpen
<1>7. Before(a, Len(l) + 1) = LastMembers(l)
  <2>1. Len(l) + 1 - 1 = Len(l) /\ Len(l) \in 0..Len(l) BY <1>2
  <2>2. Upto(a, Len(l)) = Upto(l, Len(l)) BY <1>1, <2>1, AppendFacts
  <2>3. Upto(l, Len(l)) = l BY <1>1, SubSeqFull DEF Upto
  <2> QED BY <2>1, <2>2, <2>3 DEF Before
<1>8. ASSUME NEW x PROVE Knows(a, x, c, Len(l) + 1, Own(LastMembers(l)))
  BY <1>2, <1>7 DEF Knows
<1> QED BY <1>5, <1>6, <1>8

(* A no-op behind a log changes nothing that is known of it.               *)
LEMMA NoopKnown ==
  ASSUME NEW l \in Seq(Entries), NEW d \in Seq(Entries), NEW c \in Nat, NEW ch, NEW pr,
         Knows(l, d, c, ch, pr), NEW e \in Entries, e.type # "kConfig"
  PROVE  /\ Knows(Append(l, e), d, c, ch, pr)
         /\ Knows(Append(l, e), Append(l, e), c, ch, pr)
<1>1. PICK a : a = Append(l, e) OBVIOUS
<1>2. PICK m : m = LastConfigIndex(l) OBVIOUS
<1>3. /\ LastConfigIndex(a) = m /\ m \in 0..Len(l) /\ Len(l) \in Nat
      /\ a \in Seq(Entries) /\ Len(a) = Len(l) + 1
  BY <1>1, <1>2, LastAppend, ConfigFacts, AppendFacts
<1>4. m # 0 => Before(a, m) = Before(l, m)
  <2> SUFFICES ASSUME m # 0 PROVE Before(a, m) = Before(l, m) OBVIOUS
  <2>1. m - 1 \in 0..Len(l) BY <1>3
  <2>2. Upto(a, m - 1) = Upto(l, m - 1) BY <1>1, <2>1, AppendFacts
  <2> QED BY <2>2 DEF Before
<1>5. Settled(l, d, c) => Settled(a, d, c)
  BY <1>1, <1>2, <1>3, SharesAppend DEF Settled
<1>6. Settled(l, d, c) => Settled(a, a, c)
  BY <1>1, <1>2, <1>3 DEF Settled, Shares
<1>7. m = 0 => Settled(a, d, c) /\ Settled(a, a, c)
  <2>1. 0 <= c /\ 0 <= Len(d) /\ 0 <= Len(a) OBVIOUS
  <2> QED BY <1>3, <2>1, SharesFacts DEF Settled
<1>8. ch = 0 \/ ch = m BY <1>2 DEF Knows
<1>9. Settled(l, d, c) \/ (ch = m /\ pr = Own(Before(l, m))) BY <1>2 DEF Knows
<1> QED BY <1>1, <1>3, <1>4, <1>5, <1>6, <1>7, <1>8, <1>9 DEF Knows

(* The server is elected: it has all that is chosen, and its log is now    *)
(* the leader's.                                                           *)
LEMMA Elected ==
  ASSUME NEW l, NEW d, NEW c, LogsOK(l, d, c), Shares(l, d, c),
         NEW e \in Entries, e.type # "kConfig", NEW a, a = Append(l, e)
  PROVE  LogsOK(a, a, c)
<1>1. l \in Seq(Entries) /\ d \in Seq(Entries) /\ c \in Nat /\ c <= Len(d) BY DEF LogsOK
<1>2. /\ a \in Seq(Entries) /\ Len(a) = Len(l) + 1 /\ Len(l) \in Nat
      /\ ConfigIndices(a) = ConfigIndices(l) /\ LastConfigIndex(a) = LastConfigIndex(l)
  BY <1>1, AppendFacts, LastAppend
<1>3. Chain(a) BY <1>1, ChainAppend DEF LogsOK
<1>4. c <= Len(a) BY <1>1, <1>2 DEF Shares
<1>5. ASSUME NEW i \in ConfigIndices(a), i < LastConfigIndex(a)
      PROVE  i <= c /\ Shares(a, a, i)
  <2>1. i \in ConfigIndices(l) /\ i < LastConfigIndex(l) BY <1>2, <1>5
  <2>2. i <= c BY <2>1 DEF LogsOK, Behind
  <2>3. i \in 1..Len(l) BY <1>1, <2>1, ConfigFacts
  <2> QED BY <1>2, <2>2, <2>3 DEF Shares
<1> QED BY <1>1, <1>2, <1>3, <1>4, <1>5 DEF LogsOK, Behind, OneOpen

-----------------------------------------------------------------------------
(* The leader's entry i meets a log that has the entries before it, and a  *)
(* rest that conflicts: the truncation takes away no configuration, or     *)
(* the last one only, and previous_ is the one before it.                  *)
LEMMA Truncated ==
  ASSUME NEW l, NEW d, NEW c, LogsOK(l, d, c), NEW ch, NEW pr, Knows(l, d, c, ch, pr),
         NEW i \in 1..Len(d), Shares(l, d, i - 1), Len(l) >= i => l[i].term # d[i].term,
         NEW kept, kept = Upto(d, i - 1), NEW gone, gone = ConfigIndices(l) \cap (i..Len(l))
  PROVE  /\ gone = {} => /\ LastConfigIndex(kept) = LastConfigIndex(l)
                         /\ LastMembers(kept) = LastMembers(l)
                         /\ LastConfigIndex(l) # 0 =>
                              Before(l, LastConfigIndex(l)) = Before(d, LastConfigIndex(l))
         /\ gone # {} => /\ gone = {LastConfigIndex(l)} /\ LastConfigIndex(l) \in Nat
                         /\ ch = LastConfigIndex(l) /\ pr = Own(LastMembers(kept))
                         /\ Succeeds(LastMembers(l), LastMembers(kept))
                         /\ LastConfigIndex(kept) <= c
<1>1. /\ l \in Seq(Entries) /\ d \in Seq(Entries) /\ c \in Nat /\ c <= Len(d)
      /\ Len(l) \in Nat /\ Len(d) \in Nat
  BY DEF LogsOK
<1>2. PICK m : m = LastConfigIndex(l) OBVIOUS
<1>3. m \in 0..Len(l) /\ \A j \in ConfigIndices(l) : j \in 1..Len(l) /\ j <= m
  BY <1>1, <1>2, ConfigFacts
<1>4. i - 1 \in 0..Len(l) /\ i - 1 \in 0..Len(d) BY <1>1 DEF Shares
<1>5. kept = Upto(l, i - 1) /\ kept \in Seq(Entries) BY <1>1, <1>4, UptoFacts DEF Shares
<1>6. ASSUME NEW j \in i..Len(l), j <= Len(d), Shares(l, d, j) PROVE FALSE
  <2>1. j \in Nat /\ i \in 1..j /\ Len(l) >= i BY <1>1, <1>6
  <2>2. l[i] = d[i] BY <1>1, <1>6, <2>1, SharesFacts
  <2> QED BY <2>1, <2>2
<1>7. CASE gone = {}
  <2>1. m <= i - 1
    <3> SUFFICES ASSUME ~(m <= i - 1) PROVE FALSE OBVIOUS
    <3>1. m \in i..Len(l) /\ m # 0 BY <1>3, <1>1
    <3>2. m \in ConfigIndices(l) BY <1>1, <1>2, <3>1, ConfigFacts
    <3> QED BY <1>7, <3>1, <3>2
  <2>2. LastConfigIndex(kept) = m /\ LastMembers(kept) = LastMembers(l)
    BY <1>1, <1>2, <1>4, <1>5, <2>1, LastUpto
  <2>3. ASSUME m # 0 PROVE Before(l, m) = Before(d, m)
    <3>1. m - 1 \in 0..(i - 1) BY <1>3, <2>1, <2>3
    <3>2. Upto(kept, m - 1) = Upto(l, m - 1) BY <1>1, <1>4, <1>5, <3>1, UptoUpto
    <3>3. Upto(kept, m - 1) = Upto(d, m - 1) BY <1>1, <1>4, <3>1, UptoUpto
    <3> QED BY <3>2, <3>3 DEF Before
  <2> QED BY <1>2, <1>7, <2>2, <2>3
<1>8. CASE gone # {}
  <2>1. \A j \in gone : j = m
    <3> SUFFICES ASSUME NEW j \in gone, j # m PROVE FALSE OBVIOUS
    <3>1. j \in ConfigIndices(l) /\ j \in i..Len(l) /\ j < m BY <1>3
    <3>2. j <= c /\ Shares(l, d, j) BY <1>2, <3>1 DEF LogsOK, Behind
    <3> QED BY <1>1, <1>6, <3>1, <3>2
  <2>2. gone = {m} /\ m \in ConfigIndices(l) /\ m \in i..Len(l) BY <1>8, <2>1
  <2>3. ~Settled(l, d, c)
    <3> SUFFICES ASSUME m <= c, Shares(l, d, m) PROVE FALSE BY <1>2 DEF Settled
    <3> QED BY <1>1, <1>6, <2>2
  <2>4. ch = m /\ pr = Own(Before(l, m)) BY <1>2, <2>3 DEF Knows
  <2>5. PICK q : q = Upto(l, m - 1) OBVIOUS
  <2>6. m - 1 \in 0..Len(l) /\ i - 1 \in 0..(m - 1) /\ i - 1 \in Nat BY <1>1, <2>2
  <2>7. q \in Seq(Entries) /\ Len(q) = m - 1 BY <1>1, <2>5, <2>6, UptoFacts
  <2>8. ConfigIndices(q) = {j \in ConfigIndices(l) : j <= m - 1} BY <1>1, <2>5, <2>6, ConfigsUpto
  <2>9. ASSUME NEW j \in ConfigIndices(q) PROVE j <= i - 1 /\ j <= c /\ j \in Nat
    <3>1. j \in ConfigIndices(l) /\ j <= m - 1 /\ j \in 1..Len(l) BY <1>3, <2>8
    <3>2. j < m BY <1>1, <1>3, <3>1
    <3>3. j \notin i..Len(l) BY <2>2, <3>1, <3>2
    <3>4. j <= c BY <1>2, <3>1, <3>2 DEF LogsOK, Behind
    <3> QED BY <3>1, <3>3, <3>4, <1>1
  <2>10. LastConfigIndex(q) <= i - 1 /\ LastConfigIndex(q) <= c
    BY <1>1, <2>6, <2>7, <2>9, ConfigFacts
  <2>11. kept = Upto(q, i - 1) BY <1>1, <1>5, <2>5, <2>6, UptoUpto
  <2>12. LastMembers(kept) = LastMembers(q) /\ LastConfigIndex(kept) = LastConfigIndex(q)
    BY <2>6, <2>7, <2>10, <2>11, LastUpto
  <2>13. Before(l, m) = LastMembers(kept) BY <2>5, <2>12 DEF Before
  <2>14. LastMembers(l) = ToSet(l[m].rc) BY <1>2, <2>2 DEF LastMembers
  <2>15. Succeeds(ToSet(l[m].rc), Before(l, m)) BY <2>2 DEF LogsOK, Chain
  <2> QED BY <1>2, <1>3, <1>8, <2>2, <2>4, <2>10, <2>12, <2>13, <2>14, <2>15
<1> QED BY <1>7, <1>8

(* The log is then the leader's up to i.                                   *)
LEMMA Received ==
  ASSUME NEW l, NEW d, NEW c, LogsOK(l, d, c), NEW i \in 1..Len(d), NEW a, a = Upto(d, i),
         NEW kept, kept = Upto(d, i - 1)
  PROVE  /\ LogsOK(a, d, c) /\ kept \in Seq(Entries) /\ d[i] \in Entries
         /\ a = Append(kept, d[i]) /\ Len(kept) + 1 = i
         /\ \A k \in 0..i : Shares(a, d, k)
         /\ d[i].type = "kConfig" =>
              Succeeds(ToSet(d[i].rc), LastMembers(kept)) /\ Before(a, i) = LastMembers(kept)
         /\ Chain(kept)
<1>1. d \in Seq(Entries) /\ c \in Nat /\ c <= Len(d) /\ Len(d) \in Nat /\ Chain(d) BY DEF LogsOK
<1>2. i \in 0..Len(d) /\ i - 1 \in 0..Len(d) BY <1>1
<1>3. a \in Seq(Entries) /\ Len(a) = i /\ kept \in Seq(Entries) /\ Len(kept) = i - 1
  BY <1>1, <1>2, UptoFacts
<1>4. a = Append(kept, d[i]) /\ d[i] \in Entries BY <1>1, UptoNext
<1>5. Chain(a) /\ Chain(kept) BY <1>1, <1>2, ChainUpto
<1>6. ASSUME NEW k \in 0..i PROVE Shares(a, d, k)
  <2>1. Upto(a, k) = Upto(d, k) BY <1>1, <1>2, UptoUpto
  <2> QED BY <1>3, <2>1 DEF Shares
<1>7. Behind(a, d, c)
  <2> SUFFICES ASSUME NEW j \in ConfigIndices(a), j < LastConfigIndex(a)
               PROVE  j <= c /\ Shares(a, d, j)
    BY DEF Behind
  <2>1. /\ j \in 1..i /\ LastConfigIndex(a) \in 0..i
        /\ LastConfigIndex(a) # 0 => LastConfigIndex(a) \in ConfigIndices(a)
    BY <1>3, ConfigFacts
  <2>2. j \in ConfigIndices(d) /\ LastConfigIndex(a) \in ConfigIndices(d)
    BY <1>1, <1>2, <2>1, ConfigsUpto
  <2>3. LastConfigIndex(a) <= LastConfigIndex(d) /\ LastConfigIndex(d) \in Nat
    BY <1>1, <2>2, ConfigFacts
  <2>4. j < LastConfigIndex(d) BY <2>1, <2>3
  <2>5. j <= c BY <2>2, <2>4 DEF LogsOK, OneOpen
  <2> QED BY <1>6, <2>1, <2>5
<1>8. LogsOK(a, d, c) BY <1>1, <1>3, <1>5, <1>7 DEF LogsOK
<1>9. ASSUME d[i].type = "kConfig"
      PROVE  Succeeds(ToSet(d[i].rc), LastMembers(kept)) /\ Before(a, i) = LastMembers(kept)
  <2>1. i \in ConfigIndices(d) BY <1>1, <1>9 DEF ConfigIndices
  <2>2. Before(d, i) = LastMembers(kept) BY DEF Before
  <2>3. i - 1 \in 0..i BY <1>2
  <2>4. Upto(a, i - 1) = kept BY <1>1, <1>2, <2>3, UptoUpto
  <2> QED BY <1>1, <2>1, <2>2, <2>4 DEF Chain, Before
<1>10. Len(kept) + 1 = i BY <1>3
<1> QED BY <1>3, <1>4, <1>5, <1>6, <1>8, <1>9, <1>10

(* What the entry makes of the memory of a member.                         *)
LEMMA AppendedMemory ==
  ASSUME NEW l, NEW d, NEW c, LogsOK(l, d, c), NEW ch, NEW pr, Knows(l, d, c, ch, pr),
         NEW i \in 1..Len(d), Shares(l, d, i - 1), Len(l) >= i => l[i].term # d[i].term,
         NEW fa, NEW vo, Covers(Others(LastMembers(l)), vo), ~standby,
         NEW a, a = Upto(d, i), NEW mem,
         mem = Mem(Own(LastMembers(l)), pr, Others(LastMembers(l)), vo, ch, fa)
  PROVE  \E v, ch2, pr2 :
           /\ Covers(Others(LastMembers(a)), v)
           /\ Knows(a, d, c, ch2, pr2)
           /\ Insert(RollbackFrom(mem, l, i), d[i], i)
                = Mem(Own(LastMembers(a)), pr2, Others(LastMembers(a)), v, ch2, fa)
<1>1. PICK kept, gone, P, e :
        kept = Upto(d, i - 1) /\ gone = ConfigIndices(l) \cap (i..Len(l))
        /\ P = LastMembers(kept) /\ e = d[i]
  OBVIOUS
<1>2. /\ kept \in Seq(Entries) /\ e \in Entries /\ a = Append(kept, e) /\ Len(kept) + 1 = i
      /\ \A k \in 0..i : Shares(a, d, k)
      /\ e.type = "kConfig" => Succeeds(ToSet(e.rc), P) /\ Before(a, i) = P
      /\ Chain(kept)
  BY <1>1, Received, SMTT(30)
<1>3. /\ gone = {} => /\ LastConfigIndex(kept) = LastConfigIndex(l)
                      /\ P = LastMembers(l)
                      /\ LastConfigIndex(l) # 0 =>
                           Before(l, LastConfigIndex(l)) = Before(d, LastConfigIndex(l))
      /\ gone # {} => /\ gone = {LastConfigIndex(l)} /\ LastConfigIndex(l) \in Nat
                      /\ ch = LastConfigIndex(l) /\ pr = Own(P)
                      /\ Succeeds(LastMembers(l), P)
                      /\ LastConfigIndex(kept) <= c
  BY <1>1, Truncated
<1>4. Me \in P BY <1>1, <1>2, MembersOf
<1>5. LastConfigIndex(kept) \in 0..(i - 1) /\ i \in Nat /\ c \in Nat
  <2>1. LastConfigIndex(kept) \in 0..Len(kept) /\ Len(kept) \in Nat BY <1>2, ConfigFacts
  <2> QED BY <1>2, <2>1 DEF LogsOK
<1>9. /\ gone = {} => RollbackFrom(mem, l, i) = mem
      /\ \A m \in Nat : gone = {m} => RollbackFrom(mem, l, i) = ConfigRollback(mem, m)
  <2>1. gone = {} => RollbackFrom(mem, l, i) = mem BY <1>1 DEF RollbackFrom
  <2>2. ASSUME NEW m \in Nat, gone = {m} PROVE RollbackFrom(mem, l, i) = ConfigRollback(mem, m)
    <3>1. Cardinality(gone) = 1 /\ gone # {} BY <2>2, FS_Singleton
    <3>2. Min(gone) = m BY <2>2 DEF Min
    <3>3. RollbackFrom(mem, l, i) = ConfigRollback(mem, Min(gone)) BY <1>1, <3>1 DEF RollbackFrom
    <3> QED BY <3>2, <3>3
  <2> QED BY <2>1, <2>2
<1>6. PICK v1, ch1, pr1 :
        /\ Covers(Others(P), v1)
        /\ RollbackFrom(mem, l, i) = Mem(Own(P), pr1, Others(P), v1, ch1, fa)
        /\ e.type # "kConfig" => Knows(a, d, c, ch1, pr1)
  <2>0. e.type # "kConfig" => LastConfigIndex(a) = LastConfigIndex(kept)
    BY <1>2, LastAppend
  <2>4. Shares(a, d, LastConfigIndex(kept))
    <3>1. LastConfigIndex(kept) \in 0..i BY <1>5
    <3> QED BY <1>2, <3>1
  <2>1. CASE gone = {}
    <3>1. RollbackFrom(mem, l, i) = Mem(Own(P), pr, Others(P), vo, ch, fa)
      BY <1>3, <1>9, <2>1
    <3>2. ASSUME e.type # "kConfig" PROVE Knows(a, d, c, ch, pr)
      <4>1. PICK m : m = LastConfigIndex(l) OBVIOUS
      <4>2. LastConfigIndex(a) = m /\ m \in 0..(i - 1) BY <1>3, <1>5, <2>0, <2>1, <3>2, <4>1
      <4>3. m <= c => Settled(a, d, c) BY <1>3, <2>1, <2>4, <4>1, <4>2 DEF Settled
      <4>4. m # 0 => Before(a, m) = Before(l, m)
        <5> SUFFICES ASSUME m # 0 PROVE Before(a, m) = Before(l, m) OBVIOUS
        <5>1. m - 1 \in 0..i BY <4>2, <1>5
        <5>2. Upto(a, m - 1) = Upto(d, m - 1) BY <1>2, <5>1 DEF Shares
        <5>3. Before(a, m) = Before(d, m) BY <5>2 DEF Before
        <5> QED BY <1>3, <2>1, <4>1, <5>3
      <4>5. m = 0 => Settled(a, d, c) BY <1>5, <4>3
      <4>6. (m <= c \/ (ch = m /\ pr = Own(Before(l, m)))) /\ (ch = 0 \/ ch = m)
        BY <4>1 DEF Knows, Settled
      <4> QED BY <4>2, <4>3, <4>4, <4>5, <4>6 DEF Knows
    <3>3. Covers(Others(P), vo) BY <1>3, <2>1
    <3> QED BY <3>1, <3>2, <3>3
  <2>2. CASE gone # {}
    <3>1. PICK m : m = LastConfigIndex(l) OBVIOUS
    <3>2. m \in Nat /\ gone = {m} /\ ch = m /\ pr = Own(P) BY <1>3, <2>2, <3>1
    <3>3. RollbackFrom(mem, l, i) = ConfigRollback(mem, m) BY <1>9, <3>2
    <3>4. PICK Q : Q = LastMembers(l) OBVIOUS
    <3>5. Succeeds(Q, P) /\ Me \in Q BY <1>3, <2>2, <3>4 DEF Succeeds
    <3>6. Covers(Others(Q), vo) /\ mem = Mem(Own(Q), Own(P), Others(Q), vo, m, fa)
      BY <3>2, <3>4
    <3>7. PICK v : /\ Covers(Others(P), v)
                   /\ ConfigRollback(mem, m) = Mem(Own(P), NoConfig, Others(P), v, Cleared(m, m), fa)
      BY <1>4, <3>5, <3>6, ConfigRollbackOf
    <3>8. Cleared(m, m) = 0 BY DEF Cleared
    <3>9. ASSUME e.type # "kConfig" PROVE Knows(a, d, c, 0, NoConfig)
      <4>1. Settled(a, d, c) BY <1>3, <2>0, <2>2, <2>4, <3>9 DEF Settled
      <4> QED BY <4>1 DEF Knows
    <3> QED BY <3>3, <3>7, <3>8, <3>9
  <2> QED BY <2>1, <2>2
<1>7. CASE e.type = "kConfig"
  <2>1. PICK S : S = ToSet(e.rc) OBVIOUS
  <2>2. Succeeds(S, P) /\ LastMembers(a) = S /\ LastConfigIndex(a) = i
    BY <1>2, <1>7, <2>1, LastAppend
  <2>3. PICK r : r = RollbackFrom(mem, l, i) OBVIOUS
  <2>7. PICK v0, ch0, pr0, rc : /\ Covers(Others(P), v0) /\ rc = e.rc
                                /\ r = Mem(Own(P), pr0, Others(P), v0, ch0, fa)
    BY <1>6, <2>3
  <2>4. PICK v : /\ Covers(Others(S), v)
                 /\ ConfigChange(r, e.rc, i) = Mem(Own(S), Own(P), Others(S), v, i, fa)
    <3>1. ToSet(rc) = S /\ Me \in P BY <1>4, <2>1, <2>7
    <3>3. PICK k : k = i OBVIOUS
    <3>2. \E w : /\ Covers(Others(S), w)
                 /\ ConfigChange(Mem(Own(P), pr0, Others(P), v0, ch0, fa), rc, k)
                      = Mem(Own(S), Own(P), Others(S), w, k, fa)
      <4>1. Succeeds(S, P) /\ Covers(Others(P), v0) /\ ~standby BY <2>2, <2>7
      <4> HIDE <3>3
      <4> QED BY <3>1, <4>1, ConfigChangeOf
    <3> QED BY <2>7, <3>2, <3>3
  <2>5. Insert(r, e, i) = ConfigChange(r, e.rc, i) BY <1>7 DEF Insert
  <2>6. Knows(a, d, c, i, Own(P)) BY <1>2, <1>7, <2>2 DEF Knows
  <2> QED BY <1>1, <2>2, <2>3, <2>4, <2>5, <2>6
<1>8. CASE e.type # "kConfig"
  <2>1. LastMembers(a) = P BY <1>1, <1>2, <1>8, LastAppend
  <2>2. PICK r : r = RollbackFrom(mem, l, i) OBVIOUS
  <2>3. Insert(r, e, i) = r BY <1>8 DEF Insert
  <2> QED BY <1>1, <1>6, <1>8, <2>1, <2>2, <2>3
<1> QED BY <1>7, <1>8

-----------------------------------------------------------------------------
(* A member's invariant: its log and the leader's, and its configuration.  *)

MemberLogs ==
  /\ LogsOK(log, ldr, chosen)
  /\ Knows(log, ldr, chosen, changing, previous)
  /\ boss = "me" => ldr = log
  /\ term \in Nat /\ myterm \in Nat /\ applied \in Nat

MemberMemory ==
  /\ current = Own(LastMembers(log))
  /\ timers = Others(LastMembers(log))
  /\ Covers(timers, Loose)
  /\ ~failed /\ ~standby

MemberInv == MemberLogs /\ MemberMemory

LEMMA MemberConfig ==
  ASSUME MemberInv
  PROVE  /\ log \in Seq(Entries) /\ ldr \in Seq(Entries)
         /\ Me \in LastMembers(log) /\ LastMembers(log) \subseteq Addresses
         /\ Me \in LastMembers(ldr) /\ LastMembers(ldr) \subseteq Addresses
         /\ current.me = Me /\ current.peers = Others(LastMembers(log))
         /\ ToSet(current) = LastMembers(log)
<1>1. log \in Seq(Entries) /\ ldr \in Seq(Entries) /\ Chain(log) /\ Chain(ldr)
  BY DEF MemberInv, MemberLogs, LogsOK
<1>2. /\ Me \in LastMembers(log) /\ LastMembers(log) \subseteq Addresses
      /\ Me \in LastMembers(ldr) /\ LastMembers(ldr) \subseteq Addresses
  BY <1>1, MembersOf
<1>3. current = Own(LastMembers(log)) BY DEF MemberInv, MemberMemory
<1> QED BY <1>1, <1>2, <1>3, OwnFacts

LEMMA NoopEntry ==
  ASSUME NEW t \in Nat
  PROVE  Entry(t, "kNoop", NoConfig) \in Entries /\ Entry(t, "kNoop", NoConfig).type # "kConfig"
BY DEF Entry, NoConfig, Entries, Configs, Addresses

LEMMA ConfigEntry ==
  ASSUME NEW t \in Nat, NEW rc \in Configs
  PROVE  /\ Entry(t, "kConfig", rc) \in Entries /\ Entry(t, "kConfig", rc).type = "kConfig"
         /\ Entry(t, "kConfig", rc).rc = rc
BY DEF Entry, Entries

(* A leader proposes a configuration that may follow its own.              *)
LEMMA DoProposeKeeps ==
  ASSUME MemberInv, NoChangeUnderWay, NEW rc \in Configs,
         Succeeds(ToSet(rc), LastMembers(log)), DoPropose(Entry(myterm, "kConfig", rc))
  PROVE  MemberInv'
<1>1. PICK e, n, P, S : /\ e = Entry(myterm, "kConfig", rc) /\ n = Len(log) + 1
                        /\ P = LastMembers(log) /\ S = ToSet(rc)
  OBVIOUS
<1>2. /\ LogsOK(log, ldr, chosen) /\ Knows(log, ldr, chosen, changing, previous)
      /\ boss = "me" => ldr = log
      /\ term \in Nat /\ myterm \in Nat /\ applied \in Nat
  BY DEF MemberInv, MemberLogs
<1>3. /\ current = Own(P) /\ timers = Others(P) /\ Covers(Others(P), Loose)
      /\ ~failed /\ ~standby
  BY <1>1 DEF MemberInv, MemberMemory
<1>4. e \in Entries /\ e.type = "kConfig" /\ e.rc = rc BY <1>1, <1>2, ConfigEntry
<1>5. log \in Seq(Entries) /\ ldr \in Seq(Entries) /\ chosen \in Nat BY <1>2 DEF LogsOK
<1>6. Settled(log, ldr, chosen)
  <2> SUFFICES ASSUME ~Settled(log, ldr, chosen) PROVE FALSE OBVIOUS
  <2>1. LastConfigIndex(log) = 0 BY <1>2 DEF Knows, NoChangeUnderWay
  <2>2. 0 <= Len(ldr) /\ 0 <= chosen BY <1>5
  <2> QED BY <1>5, <2>1, <2>2, SharesFacts DEF Settled
<1>7. log' = Append(log, e) /\ ldr' = (IF boss = "me" THEN log' ELSE ldr)
      /\ SetMemory(Insert(Memory, e, n))
      /\ UNCHANGED <<chosen, term, boss, myterm, state, applied, standby, asked>>
  BY <1>1 DEF DoPropose
<1>8. /\ LogsOK(log', ldr, chosen) /\ (ldr = log => LogsOK(log', log', chosen))
      /\ \A x : Knows(log', x, chosen, n, Own(P))
  BY <1>1, <1>2, <1>4, <1>6, <1>7, Proposed
<1>9. LastMembers(log') = S BY <1>1, <1>4, <1>5, <1>7, LastAppend
<1>10. PICK m : m = Memory OBVIOUS
<1>11. m = Mem(Own(P), previous, Others(P), Loose, changing, failed)
  BY <1>3, <1>10 DEF Memory, Mem, Loose, Loosely
<1>12. Me \in P BY <1>1, MemberConfig
<1>13. Succeeds(S, P) /\ ToSet(rc) = S BY <1>1
<1>14. PICK v : /\ Covers(Others(S), v)
                /\ ConfigChange(m, rc, n) = Mem(Own(S), Own(P), Others(S), v, n, failed)
  BY <1>3, <1>11, <1>12, <1>13, ConfigChangeOf
<1>15. Insert(m, e, n) = ConfigChange(m, rc, n) BY <1>4 DEF Insert
<1>16. SetMemory(Mem(Own(S), Own(P), Others(S), v, n, failed)) BY <1>7, <1>10, <1>14, <1>15
<1>17. /\ current' = Own(S) /\ previous' = Own(P) /\ timers' = Others(S)
       /\ votes' = v.votes /\ indices' = v.indices /\ snapshots' = v.snapshots
       /\ changing' = n /\ failed' = failed
  BY <1>16, MemFields DEF SetMemory
<1>22. Covers(Others(S), Loose')
  BY <1>14, <1>17 DEF Covers, Loose, Loosely
<1>18. MemberMemory' BY <1>3, <1>7, <1>9, <1>17, <1>22 DEF MemberMemory
<1>19. LogsOK(log', ldr', chosen') BY <1>2, <1>7, <1>8
<1>20. Knows(log', ldr', chosen', changing', previous') BY <1>7, <1>8, <1>17
<1>21. MemberLogs' BY <1>2, <1>7, <1>19, <1>20 DEF MemberLogs
<1> QED BY <1>18, <1>21 DEF MemberInv

LEMMA AddServerKeeps ==
  ASSUME MemberInv, NEW addr \in Servers, AddServer(addr)
  PROVE  MemberInv'
<1>1. PICK rc, P, O : /\ rc = [current EXCEPT !.peers = @ \cup {addr}]
                      /\ P = LastMembers(log) /\ O = Others(P)
  OBVIOUS
<1>2. /\ Me \in P /\ P \subseteq Addresses /\ ToSet(current) = P
      /\ current = [me |-> Me, peers |-> O]
  BY <1>1, MemberConfig DEF MemberInv, MemberMemory, Own
<1>3. addr \notin P /\ addr \in Addresses BY <1>2 DEF AddServer, Addresses
<1>4. rc = [me |-> Me, peers |-> O \cup {addr}] BY <1>1, <1>2
<1>5. rc \in Configs BY <1>1, <1>2, <1>3, <1>4 DEF Configs, Others
<1>6. ToSet(rc) = P \cup {addr} BY <1>1, <1>2, <1>4 DEF ToSet, Others
<1>7. Succeeds(ToSet(rc), P) BY <1>2, <1>3, <1>6 DEF Succeeds
<1>8. DoPropose(Entry(myterm, "kConfig", rc)) /\ NoChangeUnderWay BY <1>1 DEF AddServer
<1> QED BY <1>1, <1>5, <1>7, <1>8, DoProposeKeeps

LEMMA RemoveServerKeeps ==
  ASSUME MemberInv, NEW addr \in Servers, RemoveServer(addr)
  PROVE  MemberInv'
<1>1. PICK rc, P, O : /\ rc = [current EXCEPT !.peers = @ \ {addr}]
                      /\ P = LastMembers(log) /\ O = Others(P)
  OBVIOUS
<1>2. /\ Me \in P /\ P \subseteq Addresses /\ ToSet(current) = P
      /\ current = [me |-> Me, peers |-> O]
  BY <1>1, MemberConfig DEF MemberInv, MemberMemory, Own
<1>3. addr \in P /\ addr # Me BY <1>2 DEF RemoveServer
<1>4. rc = [me |-> Me, peers |-> O \ {addr}] BY <1>1, <1>2
<1>5. rc \in Configs BY <1>1, <1>2, <1>3, <1>4 DEF Configs, Others
<1>6. ToSet(rc) = P \ {addr} BY <1>1, <1>2, <1>3, <1>4 DEF ToSet, Others
<1>7. Succeeds(ToSet(rc), P) BY <1>2, <1>3, <1>6 DEF Succeeds
<1>8. DoPropose(Entry(myterm, "kConfig", rc)) /\ NoChangeUnderWay BY <1>1 DEF RemoveServer
<1> QED BY <1>1, <1>5, <1>7, <1>8, DoProposeKeeps

LEMMA ElectKeeps ==
  ASSUME MemberInv, Elect
  PROVE  MemberInv'
<1>1. /\ UNCHANGED <<ldr, chosen, log, applied, current, previous, timers, indices, snapshots,
                     changing, standby, failed>>
      /\ term' = term + 1 /\ myterm' = term + 1 /\ boss' = "none"
      /\ votes' = [p \in DOMAIN votes |-> FALSE]
  BY DEF Elect
<1>2. MemberLogs' BY <1>1 DEF MemberInv, MemberLogs
<1>3. DOMAIN votes' = DOMAIN votes BY <1>1
<1>4. MemberMemory' BY <1>1, <1>3 DEF MemberInv, MemberMemory, Covers, Loose, Loosely
<1> QED BY <1>2, <1>4 DEF MemberInv

LEMMA OnRequestVoteReplyKeeps ==
  ASSUME MemberInv, NEW p \in Servers, NEW g \in BOOLEAN, OnRequestVoteReply(p, g)
  PROVE  MemberInv'
<1>1. /\ LogsOK(log, ldr, chosen) /\ Knows(log, ldr, chosen, changing, previous)
      /\ boss = "me" => ldr = log
      /\ term \in Nat /\ myterm \in Nat /\ applied \in Nat
  BY DEF MemberInv, MemberLogs
<1>2. /\ UNCHANGED <<chosen, term, myterm, applied, current, previous, timers, indices,
                     snapshots, changing, standby, failed>>
      /\ DOMAIN votes' = DOMAIN votes \cup {p}
  BY DEF OnRequestVoteReply
<1>3. PICK e : e = Entry(myterm, "kNoop", NoConfig) OBVIOUS
<1>4. e \in Entries /\ e.type # "kConfig" BY <1>1, <1>3, NoopEntry
<1>5. log \in Seq(Entries) /\ ldr \in Seq(Entries) /\ chosen \in Nat BY <1>1 DEF LogsOK
<1>6. CASE UNCHANGED <<boss, log, ldr>>
  <2>1. MemberLogs' BY <1>1, <1>2, <1>6 DEF MemberLogs
  <2>2. MemberMemory' BY <1>2, <1>6 DEF MemberInv, MemberMemory, Covers, Loose, Loosely
  <2> QED BY <2>1, <2>2 DEF MemberInv
<1>7. CASE g /\ boss' = "me" /\ log' = Append(log, e) /\ ldr' = log'
  <2>1. Shares(log, ldr, chosen) BY <1>7 DEF OnRequestVoteReply, SamePrefix, Shares, Upto
  <2>2. LogsOK(log', ldr', chosen') BY <1>1, <1>2, <1>4, <1>7, <2>1, Elected
  <2>3. Knows(log', ldr', chosen', changing', previous')
    BY <1>1, <1>2, <1>4, <1>5, <1>7, NoopKnown
  <2>4. LastMembers(log') = LastMembers(log) BY <1>4, <1>5, <1>7, LastAppend
  <2>5. MemberLogs' BY <1>1, <1>2, <1>7, <2>2, <2>3 DEF MemberLogs
  <2>6. MemberMemory' BY <1>2, <2>4 DEF MemberInv, MemberMemory, Covers, Loose, Loosely
  <2> QED BY <2>5, <2>6 DEF MemberInv
<1> QED BY <1>3, <1>6, <1>7 DEF OnRequestVoteReply

LEMMA OnAppendEntriesKeeps ==
  ASSUME MemberInv, OnAppendEntries
  PROVE  MemberInv'
<1>1. /\ LogsOK(log, ldr, chosen) /\ Knows(log, ldr, chosen, changing, previous)
      /\ term \in Nat /\ myterm \in Nat /\ applied \in Nat
  BY DEF MemberInv, MemberLogs
<1>2. PICK P : P = LastMembers(log) OBVIOUS
<1>3. /\ current = Own(P) /\ timers = Others(P) /\ Covers(Others(P), Loose)
      /\ ~failed /\ ~standby
  BY <1>2 DEF MemberInv, MemberMemory
<1>4. PICK i \in DOMAIN ldr :
        /\ SamePrefix(i - 1)
        /\ Len(log) >= i => log[i].term # ldr[i].term
        /\ SetMemory(Insert(RollbackFrom(Memory, log, i), ldr[i], i))
        /\ log' = SubSeq(ldr, 1, i)
  BY DEF OnAppendEntries
<1>5. UNCHANGED <<ldr, chosen, term, boss, applied, standby>> /\ myterm' = term /\ boss = "other"
  BY DEF OnAppendEntries, cluster
<1>6. i \in 1..Len(ldr) /\ Shares(log, ldr, i - 1) /\ log' = Upto(ldr, i)
  BY <1>1, <1>4 DEF LogsOK, SamePrefix, Shares, Upto
<1>7. PICK m : m = Memory OBVIOUS
<1>8. m = Mem(Own(P), previous, Others(P), Loose, changing, failed)
  BY <1>3, <1>7 DEF Memory, Mem, Loose, Loosely
<1>9. PICK a, S : a = log' /\ S = LastMembers(a) OBVIOUS
<1>10. PICK v, ch, pr :
         /\ Covers(Others(S), v)
         /\ Knows(a, ldr, chosen, ch, pr)
         /\ Insert(RollbackFrom(m, log, i), ldr[i], i)
              = Mem(Own(S), pr, Others(S), v, ch, failed)
  <2>1. /\ Covers(Others(LastMembers(log)), Loose)
        /\ m = Mem(Own(LastMembers(log)), previous, Others(LastMembers(log)), Loose, changing,
                   failed)
    BY <1>2, <1>3, <1>8
  <2>2. a = Upto(ldr, i) BY <1>6, <1>9
  <2>3. \E v, ch, pr :
          /\ Covers(Others(LastMembers(a)), v)
          /\ Knows(a, ldr, chosen, ch, pr)
          /\ Insert(RollbackFrom(m, log, i), ldr[i], i)
               = Mem(Own(LastMembers(a)), pr, Others(LastMembers(a)), v, ch, failed)
    BY <1>1, <1>3, <1>4, <1>6, <2>1, <2>2, AppendedMemory, SMTT(30)
  <2> QED BY <1>9, <2>3
<1>11. SetMemory(Mem(Own(S), pr, Others(S), v, ch, failed)) BY <1>4, <1>7, <1>10
<1>12. /\ current' = Own(S) /\ previous' = pr /\ timers' = Others(S)
       /\ votes' = v.votes /\ indices' = v.indices /\ snapshots' = v.snapshots
       /\ changing' = ch /\ failed' = failed
  BY <1>11, MemFields DEF SetMemory
<1>13. LogsOK(a, ldr, chosen) BY <1>1, <1>6, <1>9, Received
<1>14. MemberLogs' BY <1>1, <1>5, <1>9, <1>10, <1>12, <1>13 DEF MemberLogs
<1>16. Covers(Others(S), Loose')
  BY <1>10, <1>12 DEF Covers, Loose, Loosely
<1>15. MemberMemory' BY <1>3, <1>5, <1>9, <1>12, <1>16 DEF MemberMemory
<1> QED BY <1>14, <1>15 DEF MemberInv

(* The change is over when its entry is applied: it is chosen then.        *)
LEMMA StateMachineApplyKeeps ==
  ASSUME MemberInv, NEW k \in Nat, StateMachineApply(k)
  PROVE  MemberInv'
<1>1. /\ LogsOK(log, ldr, chosen) /\ Knows(log, ldr, chosen, changing, previous)
      /\ applied \in Nat
  BY DEF MemberInv, MemberLogs
<1>2. /\ UNCHANGED <<ldr, chosen, term, boss, log, myterm, current, previous, timers, indices,
                     snapshots, votes, failed>>
      /\ k <= chosen /\ Shares(log, ldr, k) /\ applied' = k
  BY DEF StateMachineApply, cluster, SamePrefix, Shares, Upto
<1>3. ~standby' BY DEF StateMachineApply, StandbyAfter, MemberInv, MemberMemory
<1>4. log \in Seq(Entries) /\ ldr \in Seq(Entries) /\ chosen \in Nat /\ chosen <= Len(ldr)
  BY <1>1 DEF LogsOK
<1>5. Knows(log, ldr, chosen, changing', previous)
  <2>1. CASE changing' = changing BY <1>1, <2>1
  <2>2. CASE changing \in (applied + 1)..k /\ changing' = 0
    <3>1. PICK m : m = LastConfigIndex(log) OBVIOUS
    <3>2. m = changing /\ m \in 0..k BY <1>1, <2>2, <3>1 DEF Knows
    <3>3. k <= Len(ldr) BY <1>2, <1>4, <3>2
    <3>4. Shares(log, ldr, m) /\ m <= chosen BY <1>2, <1>4, <3>2, <3>3, SharesFacts
    <3> QED BY <2>2, <3>1, <3>4 DEF Knows, Settled
  <2> QED BY <2>1, <2>2 DEF StateMachineApply
<1>6. MemberLogs' BY <1>1, <1>2, <1>5 DEF MemberInv, MemberLogs
<1>7. MemberMemory' BY <1>2, <1>3 DEF MemberInv, MemberMemory, Covers, Loose, Loosely
<1> QED BY <1>6, <1>7 DEF MemberInv

(* A restart before there is a configuration in the log.                   *)
LEMMA RestartKeeps ==
  ASSUME MemberInv, Restart, ~reread'
  PROVE  MemberInv'
<1>1. /\ LogsOK(log, ldr, chosen) /\ term \in Nat /\ myterm \in Nat /\ applied \in Nat
      /\ boss = "me" => ldr = log
  BY DEF MemberInv, MemberLogs
<1>2. ConfigIndices(log) = {} BY DEF Restart
<1>3. log \in Seq(Entries) /\ ldr \in Seq(Entries) /\ chosen \in Nat BY <1>1 DEF LogsOK
<1>4. LastMembers(log) = Base BY <1>2 DEF LastMembers
<1>5. Param = Own(Base) BY PartsAssumption DEF Param, Own, Others
<1>6. InitConfig = Own(Base) BY <1>2, <1>5 DEF InitConfig
<1>7. /\ current' = Own(Base) /\ timers' = Own(Base).peers
      /\ indices' = Own(Base).peers /\ snapshots' = Own(Base).peers
      /\ votes' = [p \in Own(Base).peers |-> FALSE]
      /\ changing' = 0 /\ standby' = Standby
      /\ boss' = (IF boss = "me" THEN "none" ELSE boss)
      /\ UNCHANGED <<ldr, chosen, term, log, myterm, applied, failed>>
  BY <1>6 DEF Restart
<1>8. /\ timers' = Others(Base) /\ DOMAIN votes' = timers'
      /\ indices' = timers' /\ snapshots' = timers'
  BY <1>7 DEF Own
<1>9. ~standby' BY <1>7, PartsAssumption
<1>10. MemberMemory' BY <1>4, <1>7, <1>8, <1>9 DEF MemberInv, MemberMemory, Covers, Loose, Loosely
<1>11. Settled(log, ldr, chosen)
  <2>1. LastConfigIndex(log) = 0 BY <1>2, <1>3, ConfigFacts
  <2>2. 0 <= Len(ldr) /\ 0 <= chosen BY <1>3
  <2> QED BY <1>3, <2>1, <2>2, SharesFacts DEF Settled
<1>12. Knows(log, ldr, chosen, changing', previous') BY <1>7, <1>11 DEF Knows
<1>13. MemberLogs' BY <1>1, <1>7, <1>12 DEF MemberLogs
<1> QED BY <1>10, <1>13 DEF MemberInv

(* An item is added for the server that answered or sent a snapshot.       *)
LEMMA OnInstallSnapshotKeeps ==
  ASSUME MemberInv, NEW q, OnInstallSnapshot(q)
  PROVE  MemberInv'
<1>1. /\ UNCHANGED <<ldr, chosen, term, boss, log, applied, current, previous, timers, indices,
                     votes, changing, standby, failed>>
      /\ snapshots' = snapshots \cup {q} /\ myterm' = term
  BY DEF OnInstallSnapshot, cluster
<1>2. MemberLogs' BY <1>1 DEF MemberInv, MemberLogs
<1>3. MemberMemory' BY <1>1 DEF MemberInv, MemberMemory, Covers, Loose, Loosely
<1> QED BY <1>2, <1>3 DEF MemberInv

LEMMA OnAppendEntriesReplyKeeps ==
  ASSUME MemberInv, NEW p, NEW b \in BOOLEAN, OnAppendEntriesReply(p, b), ~reread'
  PROVE  MemberInv'
<1>1. CASE Restart BY <1>1, RestartKeeps
<1>2. CASE /\ UNCHANGED <<cluster, log, myterm, state, applied, current, previous, timers, votes,
                          changing, standby, failed, overtaken, reread, asked>>
           /\ indices' = indices \cup {p} /\ snapshots' \in {snapshots, snapshots \cup {p}}
  <2>1. /\ UNCHANGED <<ldr, chosen, term, boss, log, myterm, applied, current, previous, timers,
                       votes, changing, standby, failed>>
        /\ indices \subseteq indices' /\ snapshots \subseteq snapshots'
    BY <1>2 DEF cluster
  <2>2. MemberLogs' BY <2>1 DEF MemberInv, MemberLogs
  <2>3. MemberMemory' BY <2>1 DEF MemberInv, MemberMemory, Covers, Loose, Loosely
  <2> QED BY <2>2, <2>3 DEF MemberInv
<1> QED BY <1>1, <1>2 DEF OnAppendEntriesReply

(* The rest of the cluster moves: the member's memory stays as it is.      *)
LEMMA ClusterKeeps ==
  ASSUME MemberInv, ldr' \in Seq(Entries), chosen' \in Nat, chosen <= chosen',
         chosen' <= Len(ldr'), Upto(ldr', chosen) = Upto(ldr, chosen), Chain(ldr'),
         OneOpen(ldr', chosen'), boss' = "me" => ldr' = log, term' \in Nat,
         UNCHANGED <<log, myterm, applied, config>>
  PROVE  MemberInv'
<1>1. /\ LogsOK(log, ldr, chosen) /\ Knows(log, ldr, chosen, changing, previous)
      /\ term \in Nat /\ myterm \in Nat /\ applied \in Nat
  BY DEF MemberInv, MemberLogs
<1>2. UNCHANGED <<current, previous, timers, indices, snapshots, votes, changing, standby, failed>>
  BY DEF config
<1>3. PICK d, c : d = ldr' /\ c = chosen' OBVIOUS
<1>4. LogsOK(log, d, c) /\ Knows(log, d, c, changing, previous) BY <1>1, <1>3, ClusterMoves
<1>5. MemberLogs' BY <1>1, <1>2, <1>3, <1>4 DEF MemberLogs
<1>6. MemberMemory' BY <1>2 DEF MemberInv, MemberMemory, Covers, Loose, Loosely
<1> QED BY <1>5, <1>6 DEF MemberInv

(* Another leader changes one server other than this one, and only when    *)
(* the change before is chosen.                                            *)
LEMMA OtherChangesKeeps ==
  ASSUME MemberInv, OtherChanges
  PROVE  MemberInv'
<1>1. /\ log \in Seq(Entries) /\ ldr \in Seq(Entries) /\ chosen \in Nat /\ chosen <= Len(ldr)
      /\ Len(ldr) \in Nat /\ Chain(ldr) /\ term \in Nat
  BY DEF MemberInv, MemberLogs, LogsOK
<1>2. PICK P : P = LastMembers(ldr) OBVIOUS
<1>3. Me \in P /\ P \subseteq Addresses BY <1>2, MemberConfig
<1>17. PICK S \in Shrink(P) \cup Extend(P) : \E w \in (P \cap S) \ {Me} :
        ldr' = Append(ldr, Entry(term, "kConfig", [me |-> w, peers |-> S \ {w}]))
  BY <1>2 DEF OtherChanges
<1>4. PICK w \in (P \cap S) \ {Me} :
        ldr' = Append(ldr, Entry(term, "kConfig", [me |-> w, peers |-> S \ {w}]))
  BY <1>17
<1>5. Me \in S /\ S # P /\ (S \subseteq P \/ P \subseteq S) /\ S \subseteq Addresses
  <2>1. CASE S \in Shrink(P)
    <3>1. PICK s \in P \cap Movable : S = P \ {s} BY <2>1 DEF Shrink
    <3> QED BY <1>3, <3>1, PartsAssumption
  <2>2. CASE S \in Extend(P)
    <3>1. PICK s \in Movable \ P : S = P \cup {s} BY <2>2 DEF Extend
    <3> QED BY <1>3, <3>1, MembershipAssumption DEF Addresses
  <2> QED BY <1>17, <2>1, <2>2
<1>6. PICK rc : rc = [me |-> w, peers |-> S \ {w}] OBVIOUS
<1>7. rc \in Configs /\ ToSet(rc) = S BY <1>4, <1>5, <1>6 DEF Configs, ToSet
<1>8. PICK e : e = Entry(term, "kConfig", rc) OBVIOUS
<1>9. e \in Entries /\ e.type = "kConfig" /\ e.rc = rc BY <1>1, <1>7, <1>8, ConfigEntry
<1>10. ldr' = Append(ldr, e) BY <1>4, <1>6, <1>8
<1>11. Succeeds(ToSet(e.rc), P) BY <1>5, <1>7, <1>9 DEF Succeeds
<1>12. Chain(ldr') BY <1>1, <1>2, <1>9, <1>10, <1>11, ChainAppend
<1>13. UNCHANGED <<chosen, term, boss, log, myterm, applied, config>> /\ boss = "other"
       /\ LastConfigIndex(ldr) <= chosen
  BY DEF OtherChanges
<1>14. /\ ldr' \in Seq(Entries) /\ Len(ldr') = Len(ldr) + 1
       /\ ConfigIndices(ldr') = ConfigIndices(ldr) \cup {Len(ldr) + 1}
       /\ LastConfigIndex(ldr') = Len(ldr) + 1
  BY <1>1, <1>9, <1>10, AppendFacts, ConfigsAppend, LastAppend
<1>15. OneOpen(ldr', chosen')
  <2> SUFFICES ASSUME NEW i \in ConfigIndices(ldr'), i < LastConfigIndex(ldr')
               PROVE  i <= chosen
    BY <1>13 DEF OneOpen
  <2>1. i \in ConfigIndices(ldr) BY <1>14
  <2> QED BY <1>1, <1>13, <2>1, ConfigFacts
<1>16. Upto(ldr', chosen) = Upto(ldr, chosen)
  <2>1. chosen \in 0..Len(ldr) BY <1>1
  <2> QED BY <1>1, <1>9, <1>10, <2>1, AppendFacts
<1> QED BY <1>1, <1>12, <1>13, <1>14, <1>15, <1>16, ClusterKeeps

LEMMA OtherLeadsKeeps ==
  ASSUME MemberInv, NEW k \in Nat, OtherLeads(k)
  PROVE  MemberInv'
<1>1. /\ log \in Seq(Entries) /\ ldr \in Seq(Entries) /\ chosen \in Nat /\ chosen <= Len(ldr)
      /\ Len(ldr) \in Nat /\ Chain(ldr) /\ term \in Nat /\ OneOpen(ldr, chosen)
  BY DEF MemberInv, MemberLogs, LogsOK
<1>2. PICK e, q : e = Entry(term', "kNoop", NoConfig) /\ q = Upto(ldr, k) OBVIOUS
<1>3. /\ term' = term + 1 /\ boss' = "other" /\ ldr' = Append(q, e)
      /\ chosen <= k /\ k <= Len(ldr)
      /\ UNCHANGED <<chosen, log, myterm, applied, config>>
  BY <1>2 DEF OtherLeads, Upto
<1>4. term' \in Nat BY <1>1, <1>3
<1>5. e \in Entries /\ e.type # "kConfig" BY <1>2, <1>4, NoopEntry
<1>6. k \in 0..Len(ldr) /\ chosen \in 0..k BY <1>1, <1>3
<1>7. q \in Seq(Entries) /\ Len(q) = k /\ Chain(q) BY <1>1, <1>2, <1>6, UptoFacts, ChainUpto
<1>8. /\ ldr' \in Seq(Entries) /\ Len(ldr') = k + 1
      /\ ConfigIndices(ldr') = ConfigIndices(q) /\ LastConfigIndex(ldr') = LastConfigIndex(q)
  BY <1>3, <1>5, <1>7, AppendFacts, LastAppend
<1>9. Chain(ldr') BY <1>3, <1>5, <1>7, ChainAppend
<1>10. Upto(ldr', chosen) = Upto(ldr, chosen)
  <2>1. Upto(ldr', chosen) = Upto(q, chosen) BY <1>3, <1>5, <1>6, <1>7, AppendFacts
  <2> QED BY <1>1, <1>2, <1>6, <2>1, UptoUpto
<1>11. OneOpen(ldr', chosen')
  <2> SUFFICES ASSUME NEW i \in ConfigIndices(q), i < LastConfigIndex(q)
               PROVE  i <= chosen
    BY <1>3, <1>8 DEF OneOpen
  <2>1. /\ i \in 1..k /\ LastConfigIndex(q) \in 0..k
        /\ LastConfigIndex(q) # 0 => LastConfigIndex(q) \in ConfigIndices(q)
    BY <1>7, ConfigFacts
  <2>2. i \in ConfigIndices(ldr) /\ LastConfigIndex(q) \in ConfigIndices(ldr)
    BY <1>1, <1>2, <1>6, <2>1, ConfigsUpto
  <2>3. LastConfigIndex(q) <= LastConfigIndex(ldr) /\ LastConfigIndex(ldr) \in Nat
    BY <1>1, <2>2, ConfigFacts
  <2>4. i < LastConfigIndex(ldr) BY <2>1, <2>3
  <2> QED BY <1>1, <2>2, <2>4 DEF OneOpen
<1>12. chosen' <= Len(ldr') BY <1>1, <1>3, <1>8
<1> QED BY <1>1, <1>3, <1>4, <1>8, <1>9, <1>10, <1>11, <1>12, ClusterKeeps

LEMMA ChooseKeeps ==
  ASSUME MemberInv, Choose
  PROVE  MemberInv'
<1>1. /\ ldr \in Seq(Entries) /\ chosen \in Nat /\ chosen <= Len(ldr) /\ Len(ldr) \in Nat
      /\ Chain(ldr) /\ term \in Nat /\ OneOpen(ldr, chosen) /\ (boss = "me" => ldr = log)
  BY DEF MemberInv, MemberLogs, LogsOK
<1>2. PICK k \in (chosen + 1)..Len(ldr) : chosen' = k BY DEF Choose
<1>3. UNCHANGED <<ldr, term, boss, log, myterm, applied, config>> BY DEF Choose
<1>4. chosen' \in Nat /\ chosen <= chosen' /\ chosen' <= Len(ldr') BY <1>1, <1>2, <1>3
<1>5. OneOpen(ldr', chosen')
  <2> SUFFICES ASSUME NEW i \in ConfigIndices(ldr), i < LastConfigIndex(ldr)
               PROVE  i <= chosen'
    BY <1>3 DEF OneOpen
  <2>1. i <= chosen /\ i \in 1..Len(ldr) BY <1>1, ConfigFacts DEF OneOpen
  <2> QED BY <1>1, <1>4, <2>1
<1> QED BY <1>1, <1>3, <1>4, <1>5, ClusterKeeps

-----------------------------------------------------------------------------

LEMMA MemberInit ==
  ASSUME Init
  PROVE  MemberInv
<1>1. /\ ldr = <<>> /\ chosen = 0 /\ term = 1 /\ boss = "other" /\ log = <<>> /\ myterm = 1
      /\ applied = 0 /\ current = Param /\ timers = Param.peers
      /\ indices = Param.peers /\ snapshots = Param.peers
      /\ votes = [p \in Param.peers |-> FALSE] /\ changing = 0 /\ standby = Standby
      /\ failed = FALSE
  BY DEF Init
<1>2. log \in Seq(Entries) /\ ldr \in Seq(Entries) /\ Len(ldr) = 0 BY <1>1
<1>3. ConfigIndices(log) = {} /\ ConfigIndices(ldr) = {} BY <1>1 DEF ConfigIndices
<1>4. LogsOK(log, ldr, chosen) BY <1>1, <1>2, <1>3 DEF LogsOK, Chain, OneOpen, Behind
<1>5. Settled(log, ldr, chosen)
  <2>1. LastConfigIndex(log) = 0 BY <1>2, <1>3, ConfigFacts
  <2>2. chosen \in Nat /\ 0 <= Len(ldr) /\ 0 <= chosen BY <1>1, <1>2
  <2>3. Shares(log, ldr, 0) BY <1>1, <1>2 DEF Shares
  <2> QED BY <2>1, <2>2, <2>3 DEF Settled
<1>6. MemberLogs BY <1>1, <1>4, <1>5 DEF MemberLogs, Knows
<1>7. Param = Own(Base) BY PartsAssumption DEF Param, Own, Others
<1>8. LastMembers(log) = Base BY <1>3 DEF LastMembers
<1>9. /\ timers = Others(Base) /\ DOMAIN votes = timers
      /\ indices = timers /\ snapshots = timers
  BY <1>1, <1>7 DEF Own
<1>10. MemberMemory BY <1>1, <1>7, <1>8, <1>9, PartsAssumption DEF MemberMemory, Covers, Loose, Loosely
<1> QED BY <1>6, <1>10 DEF MemberInv

LEMMA MemberStep ==
  ASSUME MemberInv, Next, ~reread'
  PROVE  MemberInv'
<1>1. ASSUME NEW a \in Servers, AddServer(a) PROVE MemberInv' BY <1>1, AddServerKeeps
<1>2. ASSUME NEW a \in Servers, RemoveServer(a) PROVE MemberInv' BY <1>2, RemoveServerKeeps
<1>3. CASE Elect BY <1>3, ElectKeeps
<1>4. ASSUME NEW p \in Servers, NEW g \in BOOLEAN, OnRequestVoteReply(p, g) PROVE MemberInv'
  BY <1>4, OnRequestVoteReplyKeeps
<1>5. CASE OnAppendEntries BY <1>5, OnAppendEntriesKeeps
<1>6. ASSUME NEW k \in 1..MaxIndex, StateMachineApply(k) PROVE MemberInv'
  BY <1>6, StateMachineApplyKeeps
<1>7. CASE Restart BY <1>7, RestartKeeps
<1>8. CASE OtherChanges BY <1>8, OtherChangesKeeps
<1>9. ASSUME NEW k \in 0..MaxIndex, OtherLeads(k) PROVE MemberInv'
  BY <1>9, OtherLeadsKeeps
<1>10. CASE Choose BY <1>10, ChooseKeeps
<1>11. ASSUME NEW q \in Servers, OnInstallSnapshot(q) PROVE MemberInv'
  BY <1>11, OnInstallSnapshotKeeps
<1>12. ASSUME NEW p \in Servers, NEW b \in BOOLEAN, OnAppendEntriesReply(p, b) PROVE MemberInv'
  BY <1>12, OnAppendEntriesReplyKeeps
<1> QED BY <1>1, <1>2, <1>3, <1>4, <1>5, <1>6, <1>7, <1>8, <1>9, <1>10, <1>11, <1>12 DEF Next

(* reread, once set, stays set.                                            *)
LEMMA RereadStays ==
  ASSUME Next, ~reread'
  PROVE  ~reread
BY DEF Next, AddServer, RemoveServer, DoPropose, SetMemory, Elect, OnRequestVoteReply,
       OnAppendEntries, OnInstallSnapshot, OnAppendEntriesReply, StateMachineApply, Restart,
       OtherChanges, OtherLeads, Choose, config

MemberInvariant == part = "member" => (~reread => MemberInv)

LEMMA MemberInductive == MembershipSpec => []MemberInvariant
<1>1. MembershipInit => MemberInvariant BY MemberInit DEF MembershipInit, MemberInvariant
<1>2. MemberInvariant /\ [MembershipNext]_<<part, vars>> => MemberInvariant'
  <2> SUFFICES ASSUME MemberInvariant, [MembershipNext]_<<part, vars>>, part' = "member", ~reread'
               PROVE  MemberInv'
    BY DEF MemberInvariant
  <2>1. CASE MembershipNext
    <3>1. part = "member" /\ Next BY <2>1 DEF MembershipNext
    <3>2. ~reread BY <3>1, RereadStays
    <3> QED BY <3>1, <3>2, MemberStep DEF MemberInvariant
  <2>2. CASE UNCHANGED <<part, vars>>
    <3>1. MemberInv BY <2>2 DEF MemberInvariant, vars, config
    <3> QED BY <2>2, <3>1 DEF vars, cluster, config, MemberInv, MemberLogs, MemberMemory, Loose,
                              Loosely
  <2> QED BY <2>1, <2>2
<1> QED BY <1>1, <1>2, PTL DEF MembershipSpec

(* A member's current configuration is the last one of its log, with me    *)
(* its own address; heartbeat timers run for exactly its peers, and the    *)
(* other managers have an item for each of them, whatever it or other      *)
(* leaders change, truncate and append again, and whoever answers late.    *)
THEOREM FollowsLog == MembershipSpec => []MemberFollowsLog
<1>1. MemberInvariant => MemberFollowsLog
  <2> SUFFICES ASSUME MemberInv
               PROVE  CurrentIsLastLogged /\ ManagersMatchConfig
    BY DEF MemberInvariant, MemberFollowsLog, CurrentIsLastLogged, ManagersMatchConfig, Sound
  <2>1. /\ current.me = Me /\ current.peers = Others(LastMembers(log))
        /\ ToSet(current) = LastMembers(log) /\ Me \in LastMembers(log)
    BY MemberConfig
  <2>2. /\ timers = Others(LastMembers(log))
        /\ timers \subseteq DOMAIN votes /\ timers \subseteq indices /\ timers \subseteq snapshots
    BY DEF MemberInv, MemberMemory, Covers, Loose, Loosely
  <2>3. LastMembers(log) \cup {Me} = LastMembers(log) BY <2>1
  <2>4. ConfigIndices(log) = {} => LastMembers(log) = ToSet(Param)
    <3>1. ToSet(Param) = Base
      BY PartsAssumption, MembershipAssumption DEF Param, ToSet
    <3> QED BY <3>1 DEF LastMembers
  <2> QED BY <2>1, <2>2, <2>3, <2>4 DEF CurrentIsLastLogged, ManagersMatchConfig
<1> QED BY <1>1, MemberInductive, PTL

(* No assertion of DoConfigChange or Rollback fails on a member: each      *)
(* configuration it inserts differs from the one before by what it has     *)
(* more or less, and a rollback always has a previous configuration.       *)
THEOREM AssertionsHold == MembershipSpec => []MemberAssertsHold
<1>1. MemberInvariant => MemberAssertsHold
  BY DEF MemberInvariant, MemberInv, MemberMemory, MemberAssertsHold, AssertsHold
<1> QED BY <1>1, MemberInductive, PTL

(* A leader has one configuration beyond what is chosen, at most, and      *)
(* changing_index_ is the index of the last one as long as it is not       *)
(* chosen, also on a follower that received it.                            *)
THEOREM OneChange == MembershipSpec => []MemberOneChange
<1>1. MemberInvariant => MemberOneChange
  <2> SUFFICES ASSUME MemberInv
               PROVE  OneChangeAtATime /\ ChangingIndexKnown
    BY DEF MemberInvariant, MemberOneChange, OneChangeAtATime, ChangingIndexKnown, Sound
  <2>1. /\ log \in Seq(Entries) /\ chosen \in Nat /\ Behind(log, ldr, chosen)
        /\ Knows(log, ldr, chosen, changing, previous)
    BY DEF MemberInv, MemberLogs, LogsOK
  <2>2. PICK m, T : m = LastConfigIndex(log) /\ T = {i \in ConfigIndices(log) : i > chosen}
    OBVIOUS
  <2>3. T \subseteq {m}
    <3> SUFFICES ASSUME NEW i \in T, i # m PROVE FALSE OBVIOUS
    <3>1. i \in ConfigIndices(log) /\ i > chosen /\ i <= m /\ i \in Nat /\ m \in Nat
      BY <2>1, <2>2, ConfigFacts
    <3>2. i <= chosen BY <2>1, <2>2, <3>1 DEF Behind
    <3> QED BY <2>1, <3>1, <3>2
  <2>4. Cardinality(T) <= 1
    <3>1. IsFiniteSet({m}) /\ Cardinality({m}) = 1 BY FS_Singleton
    <3> QED BY <2>3, <3>1, FS_Subset
  <2>5. m > chosen => changing = m
    <3>1. m \in Nat BY <2>1, <2>2, ConfigFacts
    <3> QED BY <2>1, <2>2, <3>1 DEF Knows, Settled
  <2> QED BY <2>2, <2>4, <2>5 DEF OneChangeAtATime, ChangingIndexKnown
<1> QED BY <1>1, MemberInductive, PTL

-----------------------------------------------------------------------------
(* The memory of a server that is not known to be a member: what is kept   *)
(* of it whatever configuration is inserted or rolled back.                *)

LEMMA PeersAny ==
  ASSUME NEW cu, NEW pr, NEW ma, NEW vo, NEW ch, NEW fa, NEW S
  PROVE  /\ \E m, v : /\ AddPeers(Mem(cu, pr, ma, vo, ch, fa), S) = Mem(cu, pr, m, v, ch, fa)
                      /\ v.overtaken = vo.overtaken
         /\ \E m, v : /\ DeletePeers(Mem(cu, pr, ma, vo, ch, fa), S) = Mem(cu, pr, m, v, ch, fa)
                      /\ v.overtaken = vo.overtaken
<1>1. PICK c : c = Mem(cu, pr, ma, vo, ch, fa) OBVIOUS
<1>2. \E m, v : AddPeers(c, S) = Mem(cu, pr, m, v, ch, fa) /\ v.overtaken = vo.overtaken
  <2>1. PICK m, ix, sn, w :
          AddPeers(c, S) = WithPeers(c, m, ix, sn, w)
    BY DEF AddPeers, WithPeers
  <2>2. PICK v : v = Loosely(w, ix, sn, vo.overtaken) OBVIOUS
  <2>3. AddPeers(c, S) = Mem(cu, pr, m, v, ch, fa) BY <1>1, <2>1, <2>2, MemPeers
  <2> QED BY <2>2, <2>3, LooseFields
<1>3. \E m, v : DeletePeers(c, S) = Mem(cu, pr, m, v, ch, fa) /\ v.overtaken = vo.overtaken
  <2>1. PICK m, ix, sn, w :
          DeletePeers(c, S) = WithPeers(c, m, ix, sn, w)
    BY DEF DeletePeers, WithPeers
  <2>2. PICK v : v = Loosely(w, ix, sn, vo.overtaken) OBVIOUS
  <2>3. DeletePeers(c, S) = Mem(cu, pr, m, v, ch, fa) BY <1>1, <2>1, <2>2, MemPeers
  <2> QED BY <2>2, <2>3, LooseFields
<1> QED BY <1>1, <1>2, <1>3

LEMMA ConfigsFacts ==
  ASSUME NEW rc \in Configs
  PROVE  /\ ToSet(rc) \subseteq Addresses /\ rc.peers \subseteq Addresses /\ rc.me \in Addresses
         /\ \A S : [rc EXCEPT !.peers = S] = [me |-> rc.me, peers |-> S]
         /\ NoConfig \in Configs
BY DEF Configs, ToSet, NoConfig, Addresses

(* A standby accepts a configuration only if it has more servers: f is     *)
(* failed_ after the change from cu to rc, fa before it.                   *)
Accepted(f, fa, cu, rc, new) ==
  /\ f = TRUE \/ f = fa
  /\ f = TRUE \/ ~standby \/ (/\ ToSet(cu) \subseteq ToSet(rc)
                              /\ ~(ToSet(rc) \subseteq ToSet(cu))
                              /\ ToSet(new) = ToSet(rc))

LEMMA DoConfigChangeAny ==
  ASSUME NEW cu \in Configs, NEW pr, NEW ma, NEW vo, NEW ch, NEW fa, NEW rc \in Configs,
         NEW d, d = DoConfigChange(Mem(cu, pr, ma, vo, ch, fa), rc)
  PROVE  \E m, v, f :
           /\ d.mem = Mem(cu, pr, m, v, ch, f) /\ d.new \in Configs
           /\ Accepted(f, fa, cu, rc, d.new) /\ v.overtaken = vo.overtaken
<1>1. PICK c : c = Mem(cu, pr, ma, vo, ch, fa) OBVIOUS
<1>2. c.current = cu BY <1>1, MemFields
<1>3. PICK add, rm, D, O, N : /\ add = IamIn(cu, rc) /\ rm = IamIn(rc, cu) /\ D = Diff(cu, rc)
                              /\ O = ToSet(cu) /\ N = ToSet(rc)
  OBVIOUS
<1>4. /\ O \subseteq Addresses /\ N \subseteq Addresses /\ cu.peers \subseteq Addresses
      /\ cu.me \in Addresses /\ \A S : [cu EXCEPT !.peers = S] = [me |-> cu.me, peers |-> S]
  BY <1>3, ConfigsFacts
<1>5. add <=> O \subseteq N BY <1>3 DEF IamIn
<1>6. rm <=> N \subseteq O BY <1>3 DEF IamIn
<1>7. D = (IF add THEN N \ O ELSE O \ N) BY <1>3 DEF Diff
<1>8. D \subseteq Addresses BY <1>4, <1>7
<1>9. CASE ~(IF standby THEN add /\ ~rm ELSE add # rm)
  <2>1. d = [mem |-> [c EXCEPT !.failed = TRUE], new |-> cu]
    BY <1>1, <1>2, <1>3, <1>9 DEF DoConfigChange
  <2>2. d.mem = [c EXCEPT !.failed = TRUE] /\ d.new = cu BY <2>1
  <2>3. PICK z, f : z = d.mem /\ f = TRUE OBVIOUS
  <2>4. z = Failing(c, f) BY <2>2, <2>3 DEF Failing
  <2>5. z = Mem(cu, pr, ma, vo, ch, f) BY <1>1, <2>4, MemFailed
  <2> QED BY <2>2, <2>3, <2>5 DEF Accepted
<1>10. CASE (IF standby THEN add /\ ~rm ELSE add # rm) /\ add
  <2>1. d = [mem |-> AddPeers(c, D), new |-> [cu EXCEPT !.peers = @ \cup D]]
    BY <1>1, <1>2, <1>3, <1>10 DEF DoConfigChange
  <2>2. d.mem = AddPeers(c, D) /\ d.new = [me |-> cu.me, peers |-> cu.peers \cup D]
    BY <1>4, <2>1
  <2>3. PICK m, v : d.mem = Mem(cu, pr, m, v, ch, fa) /\ v.overtaken = vo.overtaken
    BY <1>1, <2>2, PeersAny
  <2>4. d.new \in Configs BY <1>4, <1>8, <2>2 DEF Configs
  <2>5. ToSet(d.new) = N
    <3>1. ToSet(d.new) = O \cup D BY <1>3, <2>2 DEF ToSet
    <3> QED BY <1>5, <1>7, <1>10, <3>1
  <2>6. ~standby \/ (O \subseteq N /\ ~(N \subseteq O)) BY <1>5, <1>6, <1>10
  <2> QED BY <1>3, <2>3, <2>4, <2>5, <2>6 DEF Accepted
<1>11. CASE (IF standby THEN add /\ ~rm ELSE add # rm) /\ ~add
  <2>1. d = [mem |-> DeletePeers(c, D), new |-> [cu EXCEPT !.peers = @ \ D]]
    BY <1>1, <1>2, <1>3, <1>11 DEF DoConfigChange
  <2>2. d.mem = DeletePeers(c, D) /\ d.new = [me |-> cu.me, peers |-> cu.peers \ D]
    BY <1>4, <2>1
  <2>3. PICK m, v : d.mem = Mem(cu, pr, m, v, ch, fa) /\ v.overtaken = vo.overtaken
    BY <1>1, <2>2, PeersAny
  <2>4. d.new \in Configs BY <1>4, <1>8, <2>2 DEF Configs
  <2>5. ~standby BY <1>11
  <2> QED BY <2>3, <2>4, <2>5 DEF Accepted
<1> QED BY <1>9, <1>10, <1>11

(* A change that finds another one in flight overtakes a standby.          *)
Overtakes(v, vo, ch) == v.overtaken <=> (vo.overtaken \/ (standby /\ ch # 0))

(* x is what ConfigChange to rc at i leaves of a memory.                   *)
Changed(x, cu, vo, ch, fa, rc, i) ==
  \E m, v, f, new :
     /\ x = Mem(new, cu, m, v, i, f)
     /\ new \in Configs
     /\ Accepted(f, fa, cu, rc, new)
     /\ Overtakes(v, vo, ch)

LEMMA ConfigChangeAny ==
  ASSUME NEW cu \in Configs, NEW pr, NEW ma, NEW vo, NEW ch, NEW fa, NEW rc \in Configs, NEW i
  PROVE  Changed(ConfigChange(Mem(cu, pr, ma, vo, ch, fa), rc, i), cu, vo, ch, fa, rc, i)
<1>1. PICK c, d : c = Mem(cu, pr, ma, vo, ch, fa) /\ d = DoConfigChange(c, rc) OBVIOUS
<1>2. PICK m, v, f :
        /\ d.mem = Mem(cu, pr, m, v, ch, f) /\ d.new \in Configs
        /\ Accepted(f, fa, cu, rc, d.new) /\ v.overtaken = vo.overtaken
  <2>1. d = DoConfigChange(Mem(cu, pr, ma, vo, ch, fa), rc) BY <1>1
  <2> QED BY <2>1, DoConfigChangeAny
<1>3. PICK r, z, new, ov : /\ r = d.mem /\ z = ConfigChange(c, rc, i) /\ new = d.new
                           /\ ov = (d.mem.overtaken \/ (standby /\ c.changing # 0))
  OBVIOUS
<1>4. c.current = cu /\ c.changing = ch BY <1>1, MemFields
<1>5. z = Entered(r, cu, new, i, ov) BY <1>1, <1>3, <1>4 DEF ConfigChange, Entered
<1>6. r = Mem(cu, pr, m, v, ch, f) BY <1>2, <1>3
<1>8. PICK u : u = Loosely(v.votes, v.indices, v.snapshots, ov) OBVIOUS
<1>7. z = Mem(new, cu, m, u, i, f) BY <1>5, <1>6, <1>8, MemEntered
<1>9. u.overtaken = ov BY <1>8, LooseFields
<1>10. r.overtaken = v.overtaken BY <1>6, MemFields
<1>11. Overtakes(u, vo, ch) BY <1>2, <1>3, <1>4, <1>9, <1>10 DEF Overtakes
<1>12. new \in Configs /\ Accepted(f, fa, cu, rc, new) BY <1>2, <1>3
<1>13. Changed(z, cu, vo, ch, fa, rc, i) BY <1>7, <1>11, <1>12 DEF Changed
<1> QED BY <1>1, <1>3, <1>13

Returned(f, fa, cu, pr) ==
  /\ f = TRUE \/ f = fa
  /\ f = TRUE \/ ~standby \/ ToSet(cu) \subseteq ToSet(pr)

LEMMA ConfigRollbackAny ==
  ASSUME NEW cu \in Configs, NEW pr \in Configs, NEW ma, NEW vo, NEW ch, NEW fa, NEW i
  PROVE  \E cu2, pr2 \in Configs : \E m, v, ch2, f :
           /\ ConfigRollback(Mem(cu, pr, ma, vo, ch, fa), i) = Mem(cu2, pr2, m, v, ch2, f)
           /\ Returned(f, fa, cu, pr)
<1>1. PICK c, d : c = Mem(cu, pr, ma, vo, ch, fa) /\ d = DoConfigChange(c, pr) OBVIOUS
<1>2. c.previous = pr BY <1>1, MemFields
<1>3. CASE pr = NoConfig
  <2>1. PICK z, f : z = ConfigRollback(c, i) /\ f = TRUE OBVIOUS
  <2>2. z = Failing(c, f) BY <1>2, <1>3, <2>1 DEF Failing, ConfigRollback
  <2>3. z = Mem(cu, pr, ma, vo, ch, f) BY <1>1, <2>2, MemFailed
  <2>4. Returned(f, fa, cu, pr) BY <2>1 DEF Returned
  <2> QED BY <1>1, <2>1, <2>3, <2>4
<1>4. CASE pr # NoConfig
  <2>1. PICK m, v, f :
          /\ d.mem = Mem(cu, pr, m, v, ch, f)
          /\ Accepted(f, fa, cu, pr, d.new)
    <3>1. d = DoConfigChange(Mem(cu, pr, ma, vo, ch, fa), pr) BY <1>1
    <3> QED BY <3>1, DoConfigChangeAny
  <2>2. PICK r, z, x, none : /\ r = d.mem /\ z = ConfigRollback(c, i) /\ x = Cleared(ch, i)
                             /\ none = NoConfig
    OBVIOUS
  <2>3. r = Mem(cu, pr, m, v, ch, f) BY <2>1, <2>2
  <2>4. r.changing = ch BY <2>3, MemFields
  <2>5. z = RolledBack(r, pr, none, x)
    BY <1>1, <1>2, <1>4, <2>2, <2>4 DEF ConfigRollback, Cleared, RolledBack
  <2>6. z = Mem(pr, none, m, v, x, f) BY <2>3, <2>5, MemRolled
  <2>7. none \in Configs BY <2>2, ConfigsFacts
  <2>8. Returned(f, fa, cu, pr) BY <2>1 DEF Accepted, Returned
  <2> QED BY <1>1, <2>2, <2>6, <2>7, <2>8
<1> QED BY <1>3, <1>4

IsMemory(c) ==
  \E cu, pr \in Configs : \E ma, vo, ch, fa : c = Mem(cu, pr, ma, vo, ch, fa)

LEMMA MemoryKept ==
  ASSUME NEW c, IsMemory(c), NEW l, NEW e \in Entries, NEW i
  PROVE  /\ IsMemory(Insert(c, e, i))
         /\ IsMemory(RollbackFrom(c, l, i))
         /\ SetMemory(c) => current' \in Configs /\ previous' \in Configs
<1>1. ASSUME NEW x, IsMemory(x), NEW j PROVE IsMemory(ConfigRollback(x, j))
  <2>1. PICK cu \in Configs, pr \in Configs :
          \E ma, vo, ch, fa : x = Mem(cu, pr, ma, vo, ch, fa)
    BY <1>1 DEF IsMemory
  <2>2. PICK ma, vo, ch, fa : x = Mem(cu, pr, ma, vo, ch, fa) BY <2>1
  <2> QED BY <2>2, ConfigRollbackAny DEF IsMemory
<1>2. IsMemory(Insert(c, e, i))
  <2>1. PICK cu \in Configs, pr \in Configs :
          \E ma, vo, ch, fa : c = Mem(cu, pr, ma, vo, ch, fa)
    BY DEF IsMemory
  <2>2. PICK ma, vo, ch, fa : c = Mem(cu, pr, ma, vo, ch, fa) BY <2>1
  <2>3. e.rc \in Configs BY DEF Entries
  <2>4. IsMemory(ConfigChange(c, e.rc, i))
    <3>1. PICK rc : rc = e.rc OBVIOUS
    <3>2. rc \in Configs BY <2>3, <3>1
    <3>3. Changed(ConfigChange(Mem(cu, pr, ma, vo, ch, fa), rc, i), cu, vo, ch, fa, rc, i)
      BY <3>2, ConfigChangeAny
    <3>4. Changed(ConfigChange(c, rc, i), cu, vo, ch, fa, rc, i) BY <2>2, <3>3
    <3>5. IsMemory(ConfigChange(c, rc, i)) BY <3>4 DEF Changed, IsMemory
    <3> QED BY <3>1, <3>5
  <2> QED BY <2>4 DEF Insert
<1>3. IsMemory(RollbackFrom(c, l, i)) BY <1>1 DEF RollbackFrom
<1>4. SetMemory(c) => current' \in Configs /\ previous' \in Configs
  <2>1. PICK cu \in Configs, pr \in Configs :
          \E ma, vo, ch, fa : c = Mem(cu, pr, ma, vo, ch, fa)
    BY DEF IsMemory
  <2>2. PICK ma, vo, ch, fa : c = Mem(cu, pr, ma, vo, ch, fa) BY <2>1
  <2>3. c.current = cu /\ c.previous = pr BY <2>2, MemFields
  <2> QED BY <2>3 DEF SetMemory
<1> QED BY <1>2, <1>3, <1>4

-----------------------------------------------------------------------------
(* The joiner's actions that have no parameter of their own are those of   *)
(* the module: its Me, Standby and Movable only matter to the others.      *)
LEMMA SameFunctions ==
  /\ \A S : J!Max(S) = Max(S)
  /\ \A S : J!Min(S) = Min(S)
  /\ \A S : J!Cardinality(S) = Cardinality(S)
<1>1. \A S : J!Max(S) = Max(S) BY DEF J!Max, Max
<1>2. \A S : J!Min(S) = Min(S) BY DEF J!Min, Min
<1>3. \A S : J!Cardinality(S) = Cardinality(S) BY DEF J!Cardinality, Cardinality
<1> QED BY <1>1, <1>2, <1>3

LEMMA SameOperators ==
  /\ \A l : J!ConfigIndices(l) = ConfigIndices(l) /\ J!LastConfigIndex(l) = LastConfigIndex(l)
  /\ \A rc : J!ToSet(rc) = ToSet(rc)
  /\ \A c, rc : J!DoConfigChange(c, rc) = DoConfigChange(c, rc)
<1>1. \A l : J!ConfigIndices(l) = ConfigIndices(l) BY DEF J!ConfigIndices, ConfigIndices
<1>2. \A l : J!LastConfigIndex(l) = LastConfigIndex(l)
  BY <1>1, SameFunctions DEF J!LastConfigIndex, LastConfigIndex
<1>3. \A rc : J!ToSet(rc) = ToSet(rc) BY DEF J!ToSet, ToSet
<1>5. \A a, b : J!IamIn(a, b) = IamIn(a, b) BY <1>3 DEF J!IamIn, IamIn
<1>6. \A a, b : J!Diff(a, b) = Diff(a, b) BY <1>3, <1>5 DEF J!Diff, Diff
<1>7. \A c, S : J!AddPeers(c, S) = AddPeers(c, S) BY DEF J!AddPeers, AddPeers
<1>8. \A c, S : J!DeletePeers(c, S) = DeletePeers(c, S) BY DEF J!DeletePeers, DeletePeers
<1>9. \A c, rc : J!DoConfigChange(c, rc) = DoConfigChange(c, rc)
  BY <1>5, <1>6, <1>7, <1>8, ZenonT(60) DEF J!DoConfigChange, DoConfigChange
<1> QED BY <1>1, <1>2, <1>3, <1>9

LEMMA SameMemory ==
  /\ \A c, l, i : J!RollbackFrom(c, l, i) = RollbackFrom(c, l, i)
  /\ \A c, e, i : J!Insert(c, e, i) = Insert(c, e, i)
  /\ J!Memory = Memory
  /\ \A c : J!SetMemory(c) = SetMemory(c)
  /\ \A k : J!SamePrefix(k) = SamePrefix(k)
  /\ \A t, y, rc : J!Entry(t, y, rc) = Entry(t, y, rc)
  /\ J!NoConfig = NoConfig
<1>1. J!NoConfig = NoConfig BY DEF J!NoConfig, NoConfig
<1>2. \A c, i : J!ConfigRollback(c, i) = ConfigRollback(c, i)
  BY <1>1, SameOperators DEF J!ConfigRollback, ConfigRollback
<1>3. \A c, rc, i : J!ConfigChange(c, rc, i) = ConfigChange(c, rc, i)
  BY SameOperators DEF J!ConfigChange, ConfigChange
<1>4. \A c, l, i : J!RollbackFrom(c, l, i) = RollbackFrom(c, l, i)
  BY <1>2, SameOperators, SameFunctions, ZenonT(60) DEF J!RollbackFrom, RollbackFrom
<1>5. \A c, e, i : J!Insert(c, e, i) = Insert(c, e, i) BY <1>3 DEF J!Insert, Insert
<1>6. J!Memory = Memory BY DEF J!Memory, Memory
<1>7. \A c : J!SetMemory(c) = SetMemory(c) BY DEF J!SetMemory, SetMemory
<1>8. \A k : J!SamePrefix(k) = SamePrefix(k) BY DEF J!SamePrefix, SamePrefix
<1>9. \A t, y, rc : J!Entry(t, y, rc) = Entry(t, y, rc) BY DEF J!Entry, Entry
<1> QED BY <1>1, <1>4, <1>5, <1>6, <1>7, <1>8, <1>9

LEMMA SameActions ==
  /\ \A a : (J!AddServer(a) => AddServer(a)) /\ (J!RemoveServer(a) => RemoveServer(a))
  /\ J!Elect => Elect
  /\ \A p : \A g \in BOOLEAN : J!OnRequestVoteReply(p, g) => OnRequestVoteReply(p, g)
  /\ \A k : J!StateMachineApply(k) => StateMachineApply(k)
  /\ \A k : J!OtherLeads(k) => OtherLeads(k)
  /\ J!Choose => Choose
<1>1. \A e : J!DoPropose(e) => DoPropose(e) BY SameMemory DEF J!DoPropose, DoPropose
<1>2. \A a : J!AddServer(a) => AddServer(a)
  BY <1>1, SameMemory, SameOperators
     DEF J!AddServer, AddServer, J!Running, Running, J!NoChangeUnderWay, NoChangeUnderWay
<1>3. \A a : J!RemoveServer(a) => RemoveServer(a)
  BY <1>1, SameMemory, SameOperators, SameFunctions
     DEF J!RemoveServer, RemoveServer, J!Running, Running, J!NoChangeUnderWay, NoChangeUnderWay
<1>4. J!Elect => Elect BY DEF J!Elect, Elect, J!Running, Running
<1>5. \A p : \A g \in BOOLEAN : J!OnRequestVoteReply(p, g) => OnRequestVoteReply(p, g)
  <2>1. \A v : J!Majority(v) = Majority(v) BY SameFunctions DEF J!Majority, Majority
  <2> QED BY <2>1, SameMemory DEF J!OnRequestVoteReply, OnRequestVoteReply, J!Running, Running
<1>6. \A k : J!StateMachineApply(k) => StateMachineApply(k)
  BY SameMemory DEF J!StateMachineApply, StateMachineApply, J!Running, Running,
                    J!StandbyAfter, StandbyAfter, J!cluster, cluster
<1>7. \A k : J!OtherLeads(k) => OtherLeads(k)
  BY SameMemory DEF J!OtherLeads, OtherLeads, J!config, config
<1>8. J!Choose => Choose BY DEF J!Choose, Choose, J!config, config
<1> QED BY <1>2, <1>3, <1>4, <1>5, <1>6, <1>7, <1>8

-----------------------------------------------------------------------------
(* A joiner's invariant.  What it applied is in the leader's log for good. *)
(* As long as it is a standby and nothing overtook its joining, it has no  *)
(* configuration, or the one that adds it and nothing else: the assertion  *)
(* for a standby fails on the truncation of that one.                      *)

JoinerTypes ==
  /\ log \in Seq(Entries) /\ ldr \in Seq(Entries)
  /\ chosen \in Nat /\ applied \in Nat /\ term \in Nat /\ myterm \in Nat
  /\ current \in Configs /\ previous \in Configs

JoinerLogs ==
  /\ chosen <= Len(ldr) /\ applied <= chosen /\ Shares(log, ldr, applied)
  /\ boss = "me" => ldr = log

Alone == [me |-> Joiner, peers |-> {}]

Outside == ConfigIndices(log) = {} /\ changing = 0 /\ current = Alone
Joining == /\ ConfigIndices(log) = {changing} /\ applied < changing
           /\ previous = Alone /\ ~(ToSet(current) \subseteq ToSet(previous))

Waiting == state = "follower" /\ boss # "me" /\ (Outside \/ Joining)
Joined == \E i \in ConfigIndices(log) : i <= applied

JoinerInv ==
  JoinerTypes /\ JoinerLogs /\ (standby => Waiting) /\ (~standby => Joined)

LEMMA AloneFacts ==
  Alone \in Configs /\ ToSet(Alone) = {Joiner} /\ Joiner \in Servers
<1>1. Joiner \in Servers BY PartsAssumption
<1> QED BY <1>1 DEF Alone, ToSet, Configs, Addresses

(* A joined server appends to its log, or it is elected.                   *)
LEMMA JoinerAppends ==
  ASSUME JoinerTypes, JoinerLogs, Joined, NEW e \in Entries, log' = Append(log, e),
         \/ ldr' = ldr /\ boss' # "me"
         \/ ldr' = log' /\ (ldr = log \/ Shares(log, ldr, chosen)),
         UNCHANGED <<chosen, applied>>
  PROVE  JoinerLogs' /\ Joined' /\ log' \in Seq(Entries) /\ ldr' \in Seq(Entries)
<1>1. /\ log \in Seq(Entries) /\ ldr \in Seq(Entries) /\ chosen \in Nat /\ applied \in Nat
      /\ chosen <= Len(ldr) /\ applied <= chosen /\ Shares(log, ldr, applied)
      /\ Len(log) \in Nat /\ Len(ldr) \in Nat
  BY DEF JoinerTypes, JoinerLogs
<1>2. /\ log' \in Seq(Entries) /\ Len(log') = Len(log) + 1
      /\ ConfigIndices(log) \subseteq ConfigIndices(log')
  BY <1>1, AppendFacts, ConfigsAppend
<1>3. Joined' BY <1>2 DEF Joined
<1>4. applied <= Len(log) BY <1>1 DEF Shares
<1>5. CASE ldr' = ldr /\ boss' # "me"
  <2>1. Shares(log', ldr, applied) BY <1>1, SharesAppend
  <2> QED BY <1>1, <1>2, <1>3, <1>5, <2>1 DEF JoinerLogs
<1>6. CASE ldr' = log' /\ (ldr = log \/ Shares(log, ldr, chosen))
  <2>1. chosen <= Len(log) BY <1>1, <1>6 DEF Shares
  <2>2. chosen <= Len(ldr') /\ applied <= Len(log') BY <1>1, <1>2, <1>4, <1>6, <2>1
  <2>3. Shares(log', ldr', applied) BY <1>6, <2>2 DEF Shares
  <2> QED BY <1>1, <1>2, <1>3, <1>6, <2>2, <2>3 DEF JoinerLogs
<1> QED BY <1>5, <1>6

LEMMA JoinerProposes ==
  ASSUME JoinerInv, state = "leader", NEW rc \in Configs,
         DoPropose(Entry(myterm, "kConfig", rc))
  PROVE  JoinerInv'
<1>1. PICK e : e = Entry(myterm, "kConfig", rc) OBVIOUS
<1>2. ~standby /\ Joined /\ JoinerTypes /\ JoinerLogs BY DEF JoinerInv, Waiting
<1>3. e \in Entries BY <1>1, <1>2, ConfigEntry DEF JoinerTypes
<1>4. /\ log' = Append(log, e) /\ ldr' = (IF boss = "me" THEN log' ELSE ldr)
      /\ SetMemory(Insert(Memory, e, Len(log) + 1))
      /\ UNCHANGED <<chosen, term, boss, myterm, applied, standby>>
  BY <1>1 DEF DoPropose
<1>5. boss = "me" => ldr = log BY <1>2 DEF JoinerLogs
<1>6. JoinerLogs' /\ Joined' /\ log' \in Seq(Entries) /\ ldr' \in Seq(Entries)
  BY <1>2, <1>3, <1>4, <1>5, JoinerAppends
<1>7. PICK m : m = Memory OBVIOUS
<1>8. IsMemory(m) BY <1>2, <1>7 DEF Memory, Mem, IsMemory, JoinerTypes
<1>9. PICK x : x = Insert(m, e, Len(log) + 1) OBVIOUS
<1>10. IsMemory(x) BY <1>3, <1>8, <1>9, MemoryKept
<1>11. SetMemory(x) BY <1>4, <1>7, <1>9
<1>12. current' \in Configs /\ previous' \in Configs BY <1>3, <1>10, <1>11, MemoryKept
<1>13. JoinerTypes' BY <1>2, <1>4, <1>6, <1>12 DEF JoinerTypes
<1> QED BY <1>2, <1>4, <1>6, <1>13 DEF JoinerInv

LEMMA JoinerAddServer ==
  ASSUME JoinerInv, NEW addr \in Servers, AddServer(addr)
  PROVE  JoinerInv'
<1>1. PICK rc : rc = [current EXCEPT !.peers = @ \cup {addr}] OBVIOUS
<1>2. current \in Configs BY DEF JoinerInv, JoinerTypes
<1>3. rc = [me |-> current.me, peers |-> current.peers \cup {addr}] BY <1>1, <1>2, ConfigsFacts
<1>4. rc \in Configs BY <1>2, <1>3, ConfigsFacts DEF Configs, Addresses
<1>5. state = "leader" /\ DoPropose(Entry(myterm, "kConfig", rc)) BY <1>1 DEF AddServer
<1> QED BY <1>4, <1>5, JoinerProposes

LEMMA JoinerRemoveServer ==
  ASSUME JoinerInv, NEW addr \in Servers, RemoveServer(addr)
  PROVE  JoinerInv'
<1>1. PICK rc : rc = [current EXCEPT !.peers = @ \ {addr}] OBVIOUS
<1>2. current \in Configs BY DEF JoinerInv, JoinerTypes
<1>3. rc = [me |-> current.me, peers |-> current.peers \ {addr}] BY <1>1, <1>2, ConfigsFacts
<1>4. rc \in Configs BY <1>2, <1>3, ConfigsFacts DEF Configs, Addresses
<1>5. state = "leader" /\ DoPropose(Entry(myterm, "kConfig", rc)) BY <1>1 DEF RemoveServer
<1> QED BY <1>4, <1>5, JoinerProposes

LEMMA JoinerElect ==
  ASSUME JoinerInv, Elect
  PROVE  JoinerInv'
<1>1. /\ UNCHANGED <<ldr, chosen, log, applied, current, previous, standby>>
      /\ term' = term + 1 /\ myterm' = term + 1 /\ boss' = "none" /\ ~standby
  BY DEF Elect
<1>2. JoinerTypes' BY <1>1 DEF JoinerInv, JoinerTypes
<1>3. JoinerLogs' BY <1>1 DEF JoinerInv, JoinerLogs
<1>4. Joined' BY <1>1 DEF JoinerInv, Joined
<1> QED BY <1>1, <1>2, <1>3, <1>4 DEF JoinerInv

LEMMA JoinerOnRequestVoteReply ==
  ASSUME JoinerInv, NEW p \in Servers, NEW g \in BOOLEAN, OnRequestVoteReply(p, g)
  PROVE  JoinerInv'
<1>1. UNCHANGED <<chosen, term, myterm, applied, current, previous, changing, standby>>
  BY DEF OnRequestVoteReply
<1>2. PICK e : e = Entry(myterm, "kNoop", NoConfig) OBVIOUS
<1>3. e \in Entries BY <1>2, NoopEntry DEF JoinerInv, JoinerTypes
<1>4. CASE UNCHANGED <<state, boss, log, ldr>>
  <2>1. JoinerTypes' BY <1>1, <1>4 DEF JoinerInv, JoinerTypes
  <2>2. JoinerLogs' BY <1>1, <1>4 DEF JoinerInv, JoinerLogs
  <2>3. standby => Waiting' BY <1>1, <1>4 DEF JoinerInv, Waiting, Outside, Joining
  <2>4. ~standby => Joined' BY <1>1, <1>4 DEF JoinerInv, Joined
  <2> QED BY <1>1, <2>1, <2>2, <2>3, <2>4 DEF JoinerInv
<1>5. CASE g /\ state = "candidate" /\ boss' = "me" /\ log' = Append(log, e) /\ ldr' = log'
  <2>1. ~standby /\ Joined /\ JoinerTypes /\ JoinerLogs BY <1>5 DEF JoinerInv, Waiting
  <2>2. Shares(log, ldr, chosen) BY <1>5 DEF OnRequestVoteReply, SamePrefix, Shares, Upto
  <2>3. JoinerLogs' /\ Joined' /\ log' \in Seq(Entries) /\ ldr' \in Seq(Entries)
    BY <1>1, <1>3, <1>5, <2>1, <2>2, JoinerAppends
  <2>4. JoinerTypes' BY <1>1, <2>1, <2>3 DEF JoinerTypes
  <2> QED BY <1>1, <2>1, <2>3, <2>4 DEF JoinerInv
<1> QED BY <1>2, <1>4, <1>5 DEF OnRequestVoteReply

(* standby_ is cleared with the configuration that adds the server.        *)
LEMMA JoinerStateMachineApply ==
  ASSUME JoinerInv, NEW k \in Nat, StateMachineApply(k)
  PROVE  JoinerInv'
<1>1. /\ UNCHANGED <<ldr, chosen, term, boss, log, myterm, state, current, previous>>
      /\ k > applied /\ k <= chosen /\ Shares(log, ldr, k) /\ applied' = k
  BY DEF StateMachineApply, cluster, SamePrefix, Shares, Upto
<1>2. /\ log \in Seq(Entries) /\ ldr \in Seq(Entries) /\ chosen \in Nat /\ applied \in Nat
  BY DEF JoinerInv, JoinerTypes
<1> DEFINE over == changing \in (applied + 1)..k
<1>4. changing' = (IF over THEN 0 ELSE changing) /\ standby' = (IF over THEN FALSE ELSE standby)
  BY DEF StateMachineApply, StandbyAfter
<1>5. JoinerTypes' BY <1>1 DEF JoinerInv, JoinerTypes
<1>6. JoinerLogs' BY <1>1 DEF JoinerInv, JoinerLogs
<1>7. CASE ~standby
  <2>1. Joined BY <1>7 DEF JoinerInv
  <2>2. Joined'
    <3>1. PICK i \in ConfigIndices(log) : i <= applied BY <2>1 DEF Joined
    <3>2. i <= k BY <1>1, <1>2, <3>1, ConfigFacts
    <3> QED BY <1>1, <3>1, <3>2 DEF Joined
  <2>3. ~standby' BY <1>4, <1>7
  <2> QED BY <1>5, <1>6, <2>2, <2>3 DEF JoinerInv
<1>8. CASE standby
  <2>0. Waiting BY <1>8 DEF JoinerInv
  <2>1. CASE Outside
    <3>1. ~over BY <1>2, <2>1 DEF Outside
    <3>2. Outside' /\ standby' BY <1>1, <1>4, <1>8, <2>1, <3>1 DEF Outside
    <3>3. Waiting' BY <1>1, <2>0, <3>2 DEF Waiting
    <3> QED BY <1>5, <1>6, <3>2, <3>3 DEF JoinerInv
  <2>2. CASE Joining
    <3>1. ConfigIndices(log) = {changing} /\ applied < changing /\ changing \in Nat
      BY <1>2, <2>2, ConfigFacts DEF Joining
    <3>2. CASE over
      <4>1. Joined' BY <1>1, <3>1, <3>2 DEF Joined
      <4>2. ~standby' BY <1>4, <3>2
      <4> QED BY <1>5, <1>6, <4>1, <4>2 DEF JoinerInv
    <3>3. CASE ~over
      <4>1. k < changing BY <1>2, <3>1, <3>3
      <4>2. Joining' /\ standby' BY <1>1, <1>4, <1>8, <2>2, <3>3, <4>1 DEF Joining
      <4>3. Waiting' BY <1>1, <2>0, <4>2 DEF Waiting
      <4> QED BY <1>5, <1>6, <4>2, <4>3 DEF JoinerInv
    <3> QED BY <3>2, <3>3
  <2> QED BY <2>0, <2>1, <2>2 DEF Waiting
<1> QED BY <1>7, <1>8

(* The leader's entry i is written behind what the joiner applied.         *)
LEMMA JoinerReceives ==
  ASSUME JoinerTypes, JoinerLogs, NEW i \in 1..Len(ldr), Shares(log, ldr, i - 1),
         Len(log) >= i => log[i].term # ldr[i].term, NEW a, a = Upto(ldr, i)
  PROVE  /\ applied <= i - 1 /\ Shares(a, ldr, applied) /\ a \in Seq(Entries)
         /\ ldr[i] \in Entries
         /\ ConfigIndices(a) = {j \in ConfigIndices(log) : j <= i - 1}
                                 \cup (IF ldr[i].type = "kConfig" THEN {i} ELSE {})
<1>1. /\ log \in Seq(Entries) /\ ldr \in Seq(Entries) /\ chosen \in Nat /\ applied \in Nat
      /\ chosen <= Len(ldr) /\ applied <= chosen /\ Shares(log, ldr, applied)
      /\ Len(log) \in Nat /\ Len(ldr) \in Nat
  BY DEF JoinerTypes, JoinerLogs
<1>2. applied <= Len(log) /\ applied <= Len(ldr) BY <1>1 DEF Shares
<1>3. applied <= i - 1
  <2> SUFFICES ASSUME i <= applied PROVE FALSE BY <1>1
  <2>1. log[i] = ldr[i] BY <1>1, <1>2, SharesFacts
  <2> QED BY <1>1, <1>2, <2>1
<1>4. i - 1 \in 0..Len(ldr) /\ i - 1 \in 0..Len(log) /\ i \in 0..Len(ldr) /\ applied \in 0..i
  BY <1>1, <1>3 DEF Shares
<1>5. PICK kept, e : kept = Upto(ldr, i - 1) /\ e = ldr[i] OBVIOUS
<1>6. a = Append(kept, e) /\ e \in Entries /\ kept = Upto(log, i - 1)
  BY <1>1, <1>5, UptoNext DEF Shares
<1>7. kept \in Seq(Entries) /\ Len(kept) = i - 1 /\ a \in Seq(Entries) /\ Len(a) = i
  BY <1>1, <1>4, <1>5, UptoFacts
<1>8. Shares(a, ldr, applied)
  <2>1. Upto(a, applied) = Upto(ldr, applied) BY <1>1, <1>4, UptoUpto
  <2> QED BY <1>3, <1>4, <1>7, <2>1 DEF Shares
<1>9. ConfigIndices(kept) = {j \in ConfigIndices(log) : j <= i - 1}
  BY <1>1, <1>4, <1>6, ConfigsUpto
<1>10. Len(kept) + 1 = i BY <1>7
<1>11. ConfigIndices(a) = ConfigIndices(kept) \cup (IF e.type = "kConfig" THEN {i} ELSE {})
  BY <1>6, <1>7, <1>10, ConfigsAppend
<1> QED BY <1>3, <1>5, <1>6, <1>7, <1>8, <1>9, <1>11

(* What is left in the memory of a standby, if nothing fails.              *)
LEMMA StandbyReceives ==
  ASSUME JoinerTypes, standby, Outside \/ Joining, NEW i \in 1..Len(ldr),
         NEW e \in Entries, NEW m, m = Mem(current, previous, timers, Loose, changing, failed),
         SetMemory(Insert(RollbackFrom(m, log, i), e, i)), ~failed', ~overtaken'
  PROVE  /\ Joining => ConfigIndices(log) \cap (i..Len(log)) = {} /\ e.type # "kConfig"
         /\ e.type # "kConfig" => UNCHANGED <<current, previous, changing>>
         /\ e.type = "kConfig" => /\ current' \in Configs /\ previous' = Alone /\ changing' = i
                                  /\ ~(ToSet(current') \subseteq ToSet(previous'))
<1>1. log \in Seq(Entries) /\ ldr \in Seq(Entries) /\ current \in Configs /\ previous \in Configs
  BY DEF JoinerTypes
<1>2. PICK gone : gone = ConfigIndices(log) \cap (i..Len(log)) OBVIOUS
<1>3. PICK r : r = RollbackFrom(m, log, i) OBVIOUS
<1>4. e.rc \in Configs BY DEF Entries
<1>5. gone = {} => r = m BY <1>2, <1>3 DEF RollbackFrom
<1>6. gone = {}
  <2> SUFFICES ASSUME gone # {} PROVE FALSE OBVIOUS
  <2>1. Joining BY <1>2 DEF Outside
  <2>2. gone = {changing} /\ changing \in Nat BY <1>1, <1>2, <2>1, ConfigFacts DEF Joining
  <2>3. Cardinality(gone) = 1 BY <2>2, FS_Singleton
  <2>4. Min(gone) = changing BY <2>2 DEF Min
  <2>5. r = ConfigRollback(m, changing) BY <1>2, <1>3, <2>2, <2>3, <2>4 DEF RollbackFrom
  <2>6. PICK cu2 \in Configs, pr2 \in Configs :
          \E ma, v, ch2, f : r = Mem(cu2, pr2, ma, v, ch2, f) /\ Returned(f, failed, current, previous)
    BY <1>1, <2>5, ConfigRollbackAny
  <2>7. PICK ma, v, ch2, f : r = Mem(cu2, pr2, ma, v, ch2, f) /\ Returned(f, failed, current, previous)
    BY <2>6
  <2>8. ~(ToSet(current) \subseteq ToSet(previous)) BY <2>1 DEF Joining
  <2>9. f = TRUE BY <2>7, <2>8 DEF Returned
  <2>10. CASE e.type # "kConfig"
    <3>1. SetMemory(r) BY <1>3, <2>10 DEF Insert
    <3>2. failed' = f BY <2>7, <3>1, MemFields DEF SetMemory
    <3> QED BY <2>9, <3>2
  <2>11. CASE e.type = "kConfig"
    <3>1. PICK ma3, v3, f3, new :
            /\ ConfigChange(r, e.rc, i) = Mem(new, cu2, ma3, v3, i, f3)
            /\ Accepted(f3, f, cu2, e.rc, new)
      <4>1. PICK rc, k : rc = e.rc /\ k = i OBVIOUS
      <4>2. rc \in Configs BY <1>4, <4>1
      <4>3. Changed(ConfigChange(Mem(cu2, pr2, ma, v, ch2, f), rc, k), cu2, v, ch2, f, rc, k)
        BY <4>2, ConfigChangeAny
      <4>4. Changed(ConfigChange(r, rc, k), cu2, v, ch2, f, rc, k) BY <2>7, <4>3
      <4> QED BY <4>1, <4>4 DEF Changed
    <3>2. SetMemory(Mem(new, cu2, ma3, v3, i, f3)) BY <1>3, <2>11, <3>1 DEF Insert
    <3>3. failed' = f3 BY <3>2, MemFields DEF SetMemory
    <3>4. f3 = TRUE \/ f3 = f BY <3>1 DEF Accepted
    <3> QED BY <2>9, <3>3, <3>4
  <2> QED BY <2>10, <2>11
<1>7. CASE e.type # "kConfig"
  <2>1. SetMemory(m) BY <1>3, <1>5, <1>6, <1>7 DEF Insert
  <2>2. UNCHANGED <<current, previous, changing>> BY <2>1, MemFields DEF SetMemory
  <2> QED BY <1>2, <1>6, <1>7, <2>2
<1>8. CASE e.type = "kConfig"
  <2>1. PICK ma, v, f, new :
          /\ ConfigChange(m, e.rc, i) = Mem(new, current, ma, v, i, f)
          /\ new \in Configs /\ Accepted(f, failed, current, e.rc, new)
          /\ Overtakes(v, Loose, changing)
    <3>1. PICK rc, lo, k, cu, pr, ti, ch, fa :
            /\ rc = e.rc /\ lo = Loose /\ k = i /\ cu = current /\ pr = previous
            /\ ti = timers /\ ch = changing /\ fa = failed
      OBVIOUS
    <3>2. rc \in Configs /\ cu \in Configs BY <1>1, <1>4, <3>1
    <3>3. Changed(ConfigChange(Mem(cu, pr, ti, lo, ch, fa), rc, k), cu, lo, ch, fa, rc, k)
      BY <3>2, ConfigChangeAny
    <3>4. m = Mem(cu, pr, ti, lo, ch, fa) BY <3>1
    <3>5. Changed(ConfigChange(m, rc, k), cu, lo, ch, fa, rc, k) BY <3>3, <3>4
    <3> QED BY <3>1, <3>5 DEF Changed
  <2>2. SetMemory(Mem(new, current, ma, v, i, f)) BY <1>3, <1>5, <1>6, <1>8, <2>1 DEF Insert
  <2>3. /\ current' = new /\ previous' = current /\ changing' = i /\ failed' = f
        /\ overtaken' = v.overtaken
    BY <2>2, MemFields DEF SetMemory
  <2>4. PICK O, N : O = ToSet(current) /\ N = ToSet(e.rc) OBVIOUS
  <2>5. ~(N \subseteq O) /\ ToSet(new) = N
    BY <2>1, <2>3, <2>4 DEF Accepted
  <2>6. changing = 0 BY <2>1, <2>3 DEF Overtakes
  <2>8. ~Joining
    <3> SUFFICES ASSUME Joining PROVE FALSE OBVIOUS
    <3>1. changing \in ConfigIndices(log) BY DEF Joining
    <3> QED BY <1>1, <2>6, <3>1, ConfigFacts
  <2>9. current = Alone BY <2>8 DEF Outside
  <2> QED BY <1>8, <2>1, <2>3, <2>4, <2>5, <2>8, <2>9
<1> QED BY <1>7, <1>8

LEMMA JoinerOnAppendEntries ==
  ASSUME JoinerInv, J!OnAppendEntries, ~failed', ~overtaken'
  PROVE  JoinerInv'
<1>1. JoinerTypes /\ JoinerLogs BY DEF JoinerInv
<1>2. PICK i \in DOMAIN ldr :
        /\ SamePrefix(i - 1)
        /\ Len(log) >= i => log[i].term # ldr[i].term
        /\ SetMemory(Insert(RollbackFrom(Memory, log, i), ldr[i], i))
        /\ log' = SubSeq(ldr, 1, i)
  BY SameMemory DEF J!OnAppendEntries
<1>3. /\ UNCHANGED <<ldr, chosen, term, boss, applied, standby>> /\ myterm' = term
      /\ state' = "follower" /\ boss = "other"
  BY DEF J!OnAppendEntries, J!cluster
<1>4. i \in 1..Len(ldr) /\ Shares(log, ldr, i - 1) /\ log' = Upto(ldr, i)
  BY <1>1, <1>2 DEF JoinerTypes, SamePrefix, Shares, Upto
<1>5. PICK a, m, e : a = log' /\ m = Memory /\ e = ldr[i] OBVIOUS
<1>6. /\ applied <= i - 1 /\ Shares(a, ldr, applied) /\ a \in Seq(Entries) /\ e \in Entries
      /\ ConfigIndices(a) = {j \in ConfigIndices(log) : j <= i - 1}
                              \cup (IF e.type = "kConfig" THEN {i} ELSE {})
  BY <1>1, <1>2, <1>4, <1>5, JoinerReceives
<1>7. m = Mem(current, previous, timers, Loose, changing, failed)
  BY <1>5 DEF Memory, Mem, Loose, Loosely
<1>8. IsMemory(m) BY <1>1, <1>7 DEF IsMemory, JoinerTypes
<1>9. PICK r, x : r = RollbackFrom(m, log, i) /\ x = Insert(r, e, i) OBVIOUS
<1>10. IsMemory(r) BY <1>6, <1>8, <1>9, MemoryKept
<1>11. IsMemory(x) BY <1>6, <1>9, <1>10, MemoryKept
<1>12. SetMemory(x) BY <1>2, <1>5, <1>9
<1>13. current' \in Configs /\ previous' \in Configs BY <1>6, <1>11, <1>12, MemoryKept
<1>14. JoinerTypes' BY <1>1, <1>3, <1>5, <1>6, <1>13 DEF JoinerTypes
<1>15. JoinerLogs' BY <1>1, <1>3, <1>5, <1>6 DEF JoinerLogs
<1>16. log \in Seq(Entries) /\ applied \in Nat /\ i \in Nat BY <1>1, <1>4 DEF JoinerTypes
<1>17. CASE ~standby
  <2>1. PICK j \in ConfigIndices(log) : j <= applied BY <1>17 DEF JoinerInv, Joined
  <2>2. j <= i - 1 BY <1>6, <1>16, <2>1, ConfigFacts
  <2>3. j \in ConfigIndices(a) BY <1>6, <2>1, <2>2
  <2>4. Joined' BY <1>3, <1>5, <2>1, <2>3 DEF Joined
  <2> QED BY <1>3, <1>14, <1>15, <1>17, <2>4 DEF JoinerInv
<1>18. CASE standby
  <2>1. Outside \/ Joining BY <1>18 DEF JoinerInv, Waiting
  <2>2. /\ Joining => ConfigIndices(log) \cap (i..Len(log)) = {} /\ e.type # "kConfig"
        /\ e.type # "kConfig" => UNCHANGED <<current, previous, changing>>
        /\ e.type = "kConfig" => /\ current' \in Configs /\ previous' = Alone /\ changing' = i
                                 /\ ~(ToSet(current') \subseteq ToSet(previous'))
    BY <1>1, <1>4, <1>5, <1>6, <1>7, <1>9, <1>12, <1>18, <2>1, StandbyReceives
  <2>3. ASSUME e.type = "kConfig" PROVE Joining'
    <3>1. ConfigIndices(log) = {} BY <2>1, <2>2, <2>3 DEF Outside
    <3>2. ConfigIndices(a) = {i} BY <1>6, <2>3, <3>1
    <3>3. applied' < changing' BY <1>3, <1>6, <1>16, <2>2, <2>3
    <3> QED BY <1>5, <2>2, <2>3, <3>2, <3>3 DEF Joining
  <2>4. ASSUME e.type # "kConfig", Outside PROVE Outside'
    <3>1. ConfigIndices(a) = {} BY <1>6, <2>4 DEF Outside
    <3> QED BY <1>5, <2>2, <2>4, <3>1 DEF Outside
  <2>5. ASSUME e.type # "kConfig", Joining PROVE Joining'
    <3>1. changing \in ConfigIndices(log) /\ ConfigIndices(log) = {changing} BY <2>5 DEF Joining
    <3>2. changing <= i - 1
      <4>1. changing \in 1..Len(log) /\ Len(log) \in Nat BY <1>16, <3>1, ConfigFacts
      <4>2. changing \notin i..Len(log) BY <2>2, <2>5, <3>1
      <4> QED BY <1>16, <4>1, <4>2
    <3>3. ConfigIndices(a) = {changing} BY <1>6, <2>5, <3>1, <3>2
    <3> QED BY <1>3, <1>5, <2>2, <2>5, <3>3 DEF Joining
  <2>6. Outside' \/ Joining' BY <2>1, <2>3, <2>4, <2>5
  <2>7. Waiting' BY <1>3, <2>1, <2>6 DEF Waiting
  <2> QED BY <1>3, <1>14, <1>15, <1>18, <2>7 DEF JoinerInv
<1> QED BY <1>17, <1>18

(* A restart: with a configuration in the log nothing more is said.        *)
LEMMA JoinerRestart ==
  ASSUME JoinerInv, J!Restart, ~reread'
  PROVE  JoinerInv'
<1>1. JoinerTypes /\ JoinerLogs BY DEF JoinerInv
<1>2. ConfigIndices(log) = {} BY SameOperators DEF J!Restart
<1>3. standby /\ Waiting BY <1>2 DEF JoinerInv, Joined
<1>4. J!Param = Alone BY DEF J!Param, Alone
<1>5. J!InitConfig = Alone BY <1>2, <1>4, SameOperators DEF J!InitConfig
<1>6. /\ current' = Alone /\ previous' = Alone /\ changing' = 0 /\ standby' /\ state' = "follower"
      /\ boss' = (IF boss = "me" THEN "none" ELSE boss)
      /\ UNCHANGED <<ldr, chosen, term, log, myterm, applied>>
  BY <1>4, <1>5 DEF J!Restart
<1>7. JoinerTypes' BY <1>1, <1>6, AloneFacts DEF JoinerTypes
<1>8. JoinerLogs' BY <1>1, <1>6 DEF JoinerLogs
<1>9. Outside' BY <1>2, <1>6 DEF Outside
<1>10. Waiting' BY <1>3, <1>6, <1>9 DEF Waiting
<1> QED BY <1>6, <1>7, <1>8, <1>10 DEF JoinerInv

LEMMA JoinerOnInstallSnapshot ==
  ASSUME JoinerInv, NEW q, J!OnInstallSnapshot(q)
  PROVE  JoinerInv'
<1>1. /\ UNCHANGED <<ldr, chosen, term, boss, log, applied, current, previous, changing, standby>>
      /\ myterm' = term /\ state' = "follower"
  BY DEF J!OnInstallSnapshot, J!cluster
<1>2. JoinerTypes' BY <1>1 DEF JoinerInv, JoinerTypes
<1>3. JoinerLogs' BY <1>1 DEF JoinerInv, JoinerLogs
<1>4. standby => Waiting' BY <1>1 DEF JoinerInv, Waiting, Outside, Joining
<1>5. ~standby => Joined' BY <1>1 DEF JoinerInv, Joined
<1> QED BY <1>1, <1>2, <1>3, <1>4, <1>5 DEF JoinerInv

LEMMA JoinerOnAppendEntriesReply ==
  ASSUME JoinerInv, NEW p, NEW b \in BOOLEAN, J!OnAppendEntriesReply(p, b), ~reread'
  PROVE  JoinerInv'
<1>1. CASE J!Restart BY <1>1, JoinerRestart
<1>2. CASE UNCHANGED <<J!cluster, log, myterm, state, applied, current, previous, timers, votes,
                       changing, standby, failed, overtaken, reread, asked>>
  <2>1. UNCHANGED <<ldr, chosen, term, boss, log, myterm, state, applied, current, previous,
                    changing, standby>>
    BY <1>2 DEF J!cluster
  <2>2. JoinerTypes' BY <2>1 DEF JoinerInv, JoinerTypes
  <2>3. JoinerLogs' BY <2>1 DEF JoinerInv, JoinerLogs
  <2>4. standby => Waiting' BY <2>1 DEF JoinerInv, Waiting, Outside, Joining
  <2>5. ~standby => Joined' BY <2>1 DEF JoinerInv, Joined
  <2> QED BY <2>1, <2>2, <2>3, <2>4, <2>5 DEF JoinerInv
<1> QED BY <1>1, <1>2 DEF J!OnAppendEntriesReply

(* The rest of the cluster moves.                                          *)
LEMMA JoinerClusterMoves ==
  ASSUME JoinerInv, ldr' \in Seq(Entries), chosen' \in Nat, chosen <= chosen',
         chosen' <= Len(ldr'), Upto(ldr', chosen) = Upto(ldr, chosen),
         boss' # "me" \/ (boss' = boss /\ ldr' = ldr),
         term' \in Nat, UNCHANGED <<log, myterm, state, applied, config>>
  PROVE  JoinerInv'
<1>1. JoinerTypes /\ JoinerLogs BY DEF JoinerInv
<1>2. UNCHANGED <<current, previous, changing, standby>> BY DEF config
<1>3. JoinerTypes' BY <1>1, <1>2 DEF JoinerTypes
<1>4. /\ ldr \in Seq(Entries) /\ chosen \in Nat /\ applied \in Nat /\ applied <= chosen
      /\ chosen <= Len(ldr) /\ Shares(log, ldr, applied) /\ Len(ldr) \in Nat /\ Len(ldr') \in Nat
  BY <1>1 DEF JoinerTypes, JoinerLogs
<1>5. PICK d : d = ldr' OBVIOUS
<1>6. Upto(d, applied) = Upto(ldr, applied)
  <2>1. applied \in 0..chosen /\ chosen \in 0..Len(ldr) /\ chosen \in 0..Len(d) BY <1>4, <1>5
  <2>2. d \in Seq(Entries) /\ Upto(d, chosen) = Upto(ldr, chosen) BY <1>5
  <2> QED BY <1>4, <2>1, <2>2, UptoUpto
<1>7. Shares(log, d, applied) BY <1>4, <1>6 DEF Shares
<1>8. JoinerLogs' BY <1>1, <1>4, <1>5, <1>7 DEF JoinerLogs
<1>9. Joined => Joined' BY DEF Joined
<1>10. standby => Waiting'
  <2> SUFFICES ASSUME standby PROVE Waiting' OBVIOUS
  <2>1. Waiting BY DEF JoinerInv
  <2>2. Outside' \/ Joining' BY <1>2, <2>1 DEF Waiting, Outside, Joining
  <2> QED BY <2>1, <2>2 DEF Waiting
<1> QED BY <1>2, <1>3, <1>8, <1>9, <1>10 DEF JoinerInv

LEMMA JoinerOtherChanges ==
  ASSUME JoinerInv, J!OtherChanges
  PROVE  JoinerInv'
<1>1. /\ ldr \in Seq(Entries) /\ chosen \in Nat /\ chosen <= Len(ldr) /\ Len(ldr) \in Nat
      /\ term \in Nat
  BY DEF JoinerInv, JoinerTypes, JoinerLogs
<1>2. PICK P : P = J!LastMembers(ldr) OBVIOUS
<1>3. PICK S \in J!Shrink(P) \cup J!Extend(P) : \E w \in (P \cap S) \ {Joiner} :
        ldr' = Append(ldr, Entry(term, "kConfig", [me |-> w, peers |-> S \ {w}]))
  BY <1>2, SameMemory DEF J!OtherChanges
<1>4. PICK w \in (P \cap S) \ {Joiner} :
        ldr' = Append(ldr, Entry(term, "kConfig", [me |-> w, peers |-> S \ {w}]))
  BY <1>3
<1>5. P \subseteq Addresses
  <2>1. CASE ConfigIndices(ldr) = {}
    BY <1>2, <2>1, SameOperators, PartsAssumption DEF J!LastMembers, Addresses
  <2>2. CASE ConfigIndices(ldr) # {}
    <3>1. PICK i : i = LastConfigIndex(ldr) OBVIOUS
    <3>2. i \in ConfigIndices(ldr) /\ i \in 1..Len(ldr) BY <1>1, <2>2, <3>1, ConfigFacts
    <3>3. P = ToSet(ldr[i].rc) BY <1>2, <2>2, <3>1, SameOperators DEF J!LastMembers
    <3>4. ldr[i] \in Entries BY <1>1, <3>2, ElementOfSeq
    <3>5. ldr[i].rc \in Configs BY <3>4 DEF Entries
    <3> QED BY <3>3, <3>5, ConfigsFacts
  <2> QED BY <2>1, <2>2
<1>7. S \subseteq Addresses
  <2>1. S \in J!Shrink(P) => S \subseteq P BY DEF J!Shrink
  <2>2. S \in J!Extend(P) => S \subseteq P \cup Movable BY DEF J!Extend
  <2> QED BY <1>3, <1>5, <2>1, <2>2, MembershipAssumption DEF Addresses
<1>9. PICK rc : rc = [me |-> w, peers |-> S \ {w}] OBVIOUS
<1>10. rc \in Configs BY <1>4, <1>7, <1>9 DEF Configs
<1>11. PICK e : e = Entry(term, "kConfig", rc) OBVIOUS
<1>12. e \in Entries BY <1>1, <1>10, <1>11, ConfigEntry
<1>13. ldr' = Append(ldr, e) BY <1>4, <1>9, <1>11
<1>14. ldr' \in Seq(Entries) /\ Len(ldr') = Len(ldr) + 1 BY <1>1, <1>12, <1>13, AppendFacts
<1>16. Upto(ldr', chosen) = Upto(ldr, chosen)
  <2>1. chosen \in 0..Len(ldr) BY <1>1
  <2> QED BY <1>1, <1>12, <1>13, <2>1, AppendFacts
<1>17. UNCHANGED <<chosen, term, boss, log, myterm, state, applied, config>> /\ boss = "other"
  BY DEF J!OtherChanges, J!config, config
<1> QED BY <1>1, <1>14, <1>16, <1>17, JoinerClusterMoves

LEMMA JoinerOtherLeads ==
  ASSUME JoinerInv, NEW k \in Nat, OtherLeads(k)
  PROVE  JoinerInv'
<1>1. /\ ldr \in Seq(Entries) /\ chosen \in Nat /\ chosen <= Len(ldr) /\ Len(ldr) \in Nat
      /\ term \in Nat
  BY DEF JoinerInv, JoinerTypes, JoinerLogs
<1>2. PICK e, q : e = Entry(term', "kNoop", NoConfig) /\ q = Upto(ldr, k) OBVIOUS
<1>3. /\ term' = term + 1 /\ boss' = "other" /\ ldr' = Append(q, e)
      /\ chosen <= k /\ k <= Len(ldr)
      /\ UNCHANGED <<chosen, log, myterm, state, applied, config>>
  BY <1>2 DEF OtherLeads, Upto
<1>4. term' \in Nat BY <1>1, <1>3
<1>5. e \in Entries /\ e.type # "kConfig" BY <1>2, <1>4, NoopEntry
<1>6. k \in 0..Len(ldr) /\ chosen \in 0..k BY <1>1, <1>3
<1>7. q \in Seq(Entries) /\ Len(q) = k /\ \A j \in 1..k : q[j] = ldr[j]
  BY <1>1, <1>2, <1>6, UptoFacts
<1>8. /\ ldr' \in Seq(Entries) /\ Len(ldr') = k + 1 /\ \A j \in 1..k : ldr'[j] = q[j]
      /\ ConfigIndices(ldr') = ConfigIndices(q)
  BY <1>3, <1>5, <1>7, AppendFacts, LastAppend
<1>9. Upto(ldr', chosen) = Upto(ldr, chosen)
  <2>1. Upto(ldr', chosen) = Upto(q, chosen) BY <1>3, <1>5, <1>6, <1>7, AppendFacts
  <2> QED BY <1>1, <1>2, <1>6, <2>1, UptoUpto
<1>11. chosen' <= Len(ldr') BY <1>1, <1>3, <1>8
<1> QED BY <1>1, <1>3, <1>4, <1>8, <1>9, <1>11, JoinerClusterMoves

LEMMA JoinerChoose ==
  ASSUME JoinerInv, Choose
  PROVE  JoinerInv'
<1>1. ldr \in Seq(Entries) /\ chosen \in Nat /\ Len(ldr) \in Nat /\ term \in Nat
  BY DEF JoinerInv, JoinerTypes
<1>2. PICK k \in (chosen + 1)..Len(ldr) : chosen' = k BY DEF Choose
<1>3. UNCHANGED <<ldr, term, boss, log, myterm, state, applied, config>> BY DEF Choose
<1>4. chosen' \in Nat /\ chosen <= chosen' /\ chosen' <= Len(ldr') BY <1>1, <1>2, <1>3
<1> QED BY <1>1, <1>3, <1>4, JoinerClusterMoves

-----------------------------------------------------------------------------

LEMMA JoinerInit ==
  ASSUME J!Init
  PROVE  JoinerInv
<1>1. /\ ldr = <<>> /\ chosen = 0 /\ term = 1 /\ boss = "other" /\ log = <<>> /\ myterm = 1
      /\ state = "follower" /\ applied = 0 /\ current = J!Param /\ previous = NoConfig
      /\ changing = 0 /\ standby
  BY SameMemory DEF J!Init
<1>2. current = Alone BY <1>1 DEF J!Param, Alone
<1>3. log \in Seq(Entries) /\ ldr \in Seq(Entries) /\ Len(ldr) = 0 /\ Len(log) = 0 BY <1>1
<1>4. ConfigIndices(log) = {} /\ ConfigIndices(ldr) = {} BY <1>1 DEF ConfigIndices
<1>5. JoinerTypes BY <1>1, <1>2, <1>3, AloneFacts, ConfigsFacts DEF JoinerTypes
<1>6. JoinerLogs BY <1>1, <1>3 DEF JoinerLogs, Shares
<1>7. Waiting BY <1>1, <1>2, <1>4 DEF Waiting, Outside
<1> QED BY <1>1, <1>5, <1>6, <1>7 DEF JoinerInv

LEMMA JoinerStep ==
  ASSUME JoinerInv, J!Next, ~reread', ~failed', ~overtaken'
  PROVE  JoinerInv'
<1>1. ASSUME NEW a \in Servers, J!AddServer(a) PROVE JoinerInv'
  BY <1>1, SameActions, JoinerAddServer
<1>2. ASSUME NEW a \in Servers, J!RemoveServer(a) PROVE JoinerInv'
  BY <1>2, SameActions, JoinerRemoveServer
<1>3. CASE J!Elect BY <1>3, SameActions, JoinerElect
<1>4. ASSUME NEW p \in Servers, NEW g \in BOOLEAN, J!OnRequestVoteReply(p, g) PROVE JoinerInv'
  BY <1>4, SameActions, JoinerOnRequestVoteReply
<1>5. CASE J!OnAppendEntries BY <1>5, JoinerOnAppendEntries
<1>6. ASSUME NEW k \in 1..MaxIndex, J!StateMachineApply(k) PROVE JoinerInv'
  BY <1>6, SameActions, JoinerStateMachineApply
<1>7. CASE J!Restart BY <1>7, JoinerRestart
<1>8. CASE J!OtherChanges BY <1>8, JoinerOtherChanges
<1>9. ASSUME NEW k \in 0..MaxIndex, J!OtherLeads(k) PROVE JoinerInv'
  BY <1>9, SameActions, JoinerOtherLeads
<1>10. CASE J!Choose BY <1>10, SameActions, JoinerChoose
<1>11. ASSUME NEW q \in Servers, J!OnInstallSnapshot(q) PROVE JoinerInv'
  BY <1>11, JoinerOnInstallSnapshot
<1>12. ASSUME NEW p \in Servers, NEW b \in BOOLEAN, J!OnAppendEntriesReply(p, b) PROVE JoinerInv'
  BY <1>12, JoinerOnAppendEntriesReply
<1> QED BY <1>1, <1>2, <1>3, <1>4, <1>5, <1>6, <1>7, <1>8, <1>9, <1>10, <1>11, <1>12 DEF J!Next

(* overtaken, once set, stays set.                                         *)
Overtaken(c) ==
  \E cu, pr, ma, vo, ch, fa : c = Mem(cu, pr, ma, vo, ch, fa) /\ vo.overtaken = TRUE

LEMMA OvertakenChange ==
  ASSUME NEW c, Overtaken(c), NEW rc
  PROVE  Overtaken(DoConfigChange(c, rc).mem)
<1>1. PICK cu, pr, ma, vo, ch, fa : c = Mem(cu, pr, ma, vo, ch, fa) /\ vo.overtaken = TRUE
  BY DEF Overtaken
<1>2. PICK d, D : d = DoConfigChange(c, rc) /\ D = Diff(c.current, rc) OBVIOUS
<1>3. \/ d.mem = [c EXCEPT !.failed = TRUE]
      \/ d.mem = AddPeers(c, D)
      \/ d.mem = DeletePeers(c, D)
  BY <1>2 DEF DoConfigChange
<1>4. CASE d.mem = [c EXCEPT !.failed = TRUE]
  <2>1. PICK z, f : z = d.mem /\ f = TRUE OBVIOUS
  <2>2. z = Failing(c, f) BY <1>4, <2>1 DEF Failing
  <2>3. z = Mem(cu, pr, ma, vo, ch, f) BY <1>1, <2>2, MemFailed
  <2> QED BY <1>1, <1>2, <2>1, <2>3 DEF Overtaken
<1>5. CASE d.mem = AddPeers(c, D)
  <2>1. PICK m, v : d.mem = Mem(cu, pr, m, v, ch, fa) /\ v.overtaken = vo.overtaken
    <3>1. d.mem = AddPeers(Mem(cu, pr, ma, vo, ch, fa), D) BY <1>1, <1>5
    <3> QED BY <3>1, PeersAny
  <2> QED BY <1>1, <1>2, <2>1 DEF Overtaken
<1>6. CASE d.mem = DeletePeers(c, D)
  <2>1. PICK m, v : d.mem = Mem(cu, pr, m, v, ch, fa) /\ v.overtaken = vo.overtaken
    <3>1. d.mem = DeletePeers(Mem(cu, pr, ma, vo, ch, fa), D) BY <1>1, <1>6
    <3> QED BY <3>1, PeersAny
  <2> QED BY <1>1, <1>2, <2>1 DEF Overtaken
<1> QED BY <1>3, <1>4, <1>5, <1>6

LEMMA OvertakenStays ==
  ASSUME NEW c, Overtaken(c), NEW l, NEW e, NEW i
  PROVE  Overtaken(Insert(c, e, i)) /\ Overtaken(RollbackFrom(c, l, i))
<1>1. ASSUME NEW rc PROVE Overtaken(ConfigChange(c, rc, i))
  <2>1. PICK d, r, z : d = DoConfigChange(c, rc) /\ r = d.mem /\ z = ConfigChange(c, rc, i)
    OBVIOUS
  <2>0. Overtaken(r) BY <2>1, OvertakenChange
  <2>2. PICK cu, pr, ma, vo, ch, fa : r = Mem(cu, pr, ma, vo, ch, fa) /\ vo.overtaken = TRUE
    BY <2>0 DEF Overtaken
  <2>3. PICK new, old, ov : /\ new = d.new /\ old = c.current
                            /\ ov = (r.overtaken \/ (standby /\ c.changing # 0))
    OBVIOUS
  <2>4. z = Entered(r, old, new, i, ov) BY <2>1, <2>3 DEF ConfigChange, Entered
  <2>5. PICK u : u = Loosely(vo.votes, vo.indices, vo.snapshots, ov) OBVIOUS
  <2>6. z = Mem(new, old, ma, u, i, fa) BY <2>2, <2>4, <2>5, MemEntered
  <2>7. u.overtaken = ov BY <2>5, LooseFields
  <2>9. r.overtaken = vo.overtaken BY <2>2, MemFields
  <2>8. u.overtaken = TRUE BY <2>2, <2>3, <2>7, <2>9
  <2> QED BY <2>1, <2>6, <2>8 DEF Overtaken
<1>2. ASSUME NEW x, Overtaken(x), NEW j PROVE Overtaken(ConfigRollback(x, j))
  <2>1. PICK cu, pr, ma, vo, ch, fa : x = Mem(cu, pr, ma, vo, ch, fa) /\ vo.overtaken = TRUE
    BY <1>2 DEF Overtaken
  <2>2. PICK z, d, r : z = ConfigRollback(x, j) /\ d = DoConfigChange(x, x.previous) /\ r = d.mem
    OBVIOUS
  <2>3. CASE x.previous = NoConfig
    <3>1. PICK f : f = TRUE OBVIOUS
    <3>2. z = Failing(x, f) BY <2>2, <2>3, <3>1 DEF Failing, ConfigRollback
    <3>3. z = Mem(cu, pr, ma, vo, ch, f) BY <2>1, <3>2, MemFailed
    <3> QED BY <2>1, <2>2, <3>3 DEF Overtaken
  <2>4. CASE x.previous # NoConfig
    <3>0. Overtaken(r) BY <1>2, <2>2, OvertakenChange
    <3>1. PICK cu2, pr2, ma2, vo2, ch2, fa2 :
            r = Mem(cu2, pr2, ma2, vo2, ch2, fa2) /\ vo2.overtaken = TRUE
      BY <3>0 DEF Overtaken
    <3>2. PICK old, none, y : /\ old = x.previous /\ none = NoConfig
                              /\ y = Cleared(r.changing, j)
      OBVIOUS
    <3>3. z = RolledBack(r, old, none, y)
      BY <2>2, <2>4, <3>2 DEF ConfigRollback, Cleared, RolledBack
    <3>4. z = Mem(old, none, ma2, vo2, y, fa2) BY <3>1, <3>3, MemRolled
    <3> QED BY <2>2, <3>1, <3>4 DEF Overtaken
  <2> QED BY <2>3, <2>4
<1>3. Overtaken(Insert(c, e, i)) BY <1>1 DEF Insert
<1>4. Overtaken(RollbackFrom(c, l, i)) BY <1>2 DEF RollbackFrom
<1> QED BY <1>3, <1>4

LEMMA OvertakenSet ==
  ASSUME NEW c, SetMemory(c), ~overtaken'
  PROVE  ~Overtaken(c)
<1> SUFFICES ASSUME Overtaken(c) PROVE FALSE OBVIOUS
<1>1. PICK cu, pr, ma, vo, ch, fa : c = Mem(cu, pr, ma, vo, ch, fa) /\ vo.overtaken = TRUE
  BY DEF Overtaken
<1>2. c.overtaken = vo.overtaken BY <1>1, MemFields
<1>3. overtaken' = c.overtaken BY DEF SetMemory
<1> QED BY <1>1, <1>2, <1>3

LEMMA OvertakenMemory ==
  ASSUME overtaken
  PROVE  Overtaken(Memory)
<1>1. Memory = Mem(current, previous, timers, Loose, changing, failed)
  BY DEF Memory, Mem, Loose, Loosely
<1>3. PICK a, b, g : a = votes /\ b = indices /\ g = snapshots OBVIOUS
<1>4. PICK o : o = overtaken OBVIOUS
<1>5. Loose = Loosely(a, b, g, o) BY <1>3, <1>4 DEF Loose
<1>6. Loose.overtaken = o BY <1>5, LooseFields
<1>2. Loose.overtaken = TRUE BY <1>4, <1>6
<1> QED BY <1>1, <1>2 DEF Overtaken

LEMMA JoinerSoundBefore ==
  ASSUME J!Next, ~reread', ~failed', ~overtaken'
  PROVE  ~reread /\ ~failed /\ ~overtaken
<1>1. \A c : J!SetMemory(c) => UNCHANGED reread BY DEF J!SetMemory
<1>2. ASSUME NEW a, J!AddServer(a) \/ J!RemoveServer(a) PROVE ~reread /\ ~failed /\ ~overtaken
  <2>1. PICK e : J!DoPropose(e) /\ ~failed
    BY <1>2 DEF J!AddServer, J!RemoveServer, J!Running
  <2>2. PICK m, i : m = Memory /\ i = Len(log) + 1 OBVIOUS
  <2>3. J!SetMemory(J!Insert(J!Memory, e, i)) BY <2>1, <2>2 DEF J!DoPropose
  <2>4. SetMemory(Insert(m, e, i)) BY <2>2, <2>3, SameMemory
  <2>5. ~Overtaken(m) BY <2>4, OvertakenSet, OvertakenStays
  <2> QED BY <1>1, <2>1, <2>2, <2>3, <2>5, OvertakenMemory
<1>3. CASE J!Elect BY <1>3 DEF J!Elect, J!Running
<1>4. ASSUME NEW p, NEW g \in BOOLEAN, J!OnRequestVoteReply(p, g)
      PROVE  ~reread /\ ~failed /\ ~overtaken
  BY <1>4 DEF J!OnRequestVoteReply, J!Running
<1>5. CASE J!OnAppendEntries
  <2>1. PICK i : J!SetMemory(J!Insert(J!RollbackFrom(J!Memory, log, i), ldr[i], i))
    BY <1>5 DEF J!OnAppendEntries
  <2>2. PICK m, x, e : m = Memory /\ x = RollbackFrom(m, log, i) /\ e = ldr[i] OBVIOUS
  <2>3. SetMemory(Insert(x, e, i)) BY <2>1, <2>2, SameMemory
  <2>4. ~Overtaken(x) BY <2>3, OvertakenSet, OvertakenStays
  <2>5. ~Overtaken(m) BY <2>2, <2>4, OvertakenStays
  <2>6. ~failed BY <1>5 DEF J!OnAppendEntries, J!Running
  <2> QED BY <1>1, <2>1, <2>2, <2>5, <2>6, OvertakenMemory
<1>6. ASSUME NEW k, J!StateMachineApply(k) PROVE ~reread /\ ~failed /\ ~overtaken
  BY <1>6 DEF J!StateMachineApply, J!Running
<1>7. CASE J!Restart BY <1>7 DEF J!Restart, J!Running
<1>8. CASE J!OtherChanges \/ J!Choose BY <1>8 DEF J!OtherChanges, J!Choose, J!config
<1>9. ASSUME NEW k, J!OtherLeads(k) PROVE ~reread /\ ~failed /\ ~overtaken
  BY <1>9 DEF J!OtherLeads, J!config
<1>10. ASSUME NEW q, J!OnInstallSnapshot(q) PROVE ~reread /\ ~failed /\ ~overtaken
  BY <1>10 DEF J!OnInstallSnapshot, J!Running
<1>11. ASSUME NEW p, NEW b \in BOOLEAN, J!OnAppendEntriesReply(p, b)
       PROVE  ~reread /\ ~failed /\ ~overtaken
  BY <1>7, <1>11 DEF J!OnAppendEntriesReply, J!Running
<1> QED BY <1>2, <1>3, <1>4, <1>5, <1>6, <1>7, <1>8, <1>9, <1>10, <1>11 DEF J!Next

JoinerInvariant == part = "joiner" => (~reread /\ ~failed /\ ~overtaken => JoinerInv)

LEMMA JoinerInductive == MembershipSpec => []JoinerInvariant
<1>1. MembershipInit => JoinerInvariant BY JoinerInit DEF MembershipInit, JoinerInvariant
<1>2. JoinerInvariant /\ [MembershipNext]_<<part, vars>> => JoinerInvariant'
  <2> SUFFICES ASSUME JoinerInvariant, [MembershipNext]_<<part, vars>>, part' = "joiner",
                      ~reread', ~failed', ~overtaken'
               PROVE  JoinerInv'
    BY DEF JoinerInvariant
  <2>1. CASE MembershipNext
    <3>1. part = "joiner" /\ J!Next BY <2>1 DEF MembershipNext
    <3>2. ~reread /\ ~failed /\ ~overtaken BY <3>1, JoinerSoundBefore
    <3> QED BY <3>1, <3>2, JoinerStep DEF JoinerInvariant
  <2>2. CASE UNCHANGED <<part, vars>>
    <3>1. JoinerInv BY <2>2 DEF JoinerInvariant, vars, config
    <3> QED BY <2>2, <3>1 DEF vars, cluster, config, JoinerInv, JoinerTypes, JoinerLogs, Waiting,
                              Outside, Joining, Joined
  <2> QED BY <2>1, <2>2
<1> QED BY <1>1, <1>2, PTL DEF MembershipSpec

(* A server that was started empty, and has applied a configuration that   *)
(* has it, is no longer a standby, unless a second configuration reached   *)
(* it before: the index that clears standby_ is lost only to one that      *)
(* overtakes it, and never to a truncation.                                *)
THEOREM StandbyIsCleared == MembershipSpec => []JoinerStandbyClears
<1>1. JoinerInvariant => JoinerStandbyClears
  <2> SUFFICES ASSUME JoinerInv, NEW i \in ConfigIndices(log), i <= applied, standby
               PROVE  FALSE
    BY SameOperators DEF JoinerInvariant, JoinerStandbyClears, J!StandbyClears, J!Sound
  <2>1. Outside \/ Joining BY DEF JoinerInv, Waiting
  <2>2. i = changing /\ applied < changing BY <2>1 DEF Outside, Joining
  <2>3. i \in Nat /\ applied \in Nat BY ConfigFacts DEF JoinerInv, JoinerTypes
  <2> QED BY <2>2, <2>3
<1> QED BY <1>1, JoinerInductive, PTL
=============================================================================
