---------------------------- MODULE Storage_proofs ----------------------------
(***************************************************************************)
(* What is proved of the state a server keeps on disk: its vote is given   *)
(* once in a term, wherever the process dies; its log can be read back     *)
(* after any failure, with the configuration that goes with it, and is     *)
(* the log LogSpec asks for; and a snapshot that the leader takes for      *)
(* installed is.                                                           *)
(***************************************************************************)
EXTENDS MCStorage, SequenceTheorems, WellFoundedInduction, TLAPS

(* What may be on record as a vote, and what todo holds.                   *)
Voters == Candidates \cup {Me}
VoteRequests == V!Requests
VoteSteps ==
  {V!Idle} \cup [step : {"clearOnly", "self"}]
           \cup [step : {"clear", "decide"}, m : VoteRequests]

VoteTypeOK ==
  /\ vote_disk \in [term : Nat, vote : Voters \cup {V!NoVote}]
  /\ vote_term \in Nat /\ vote \in Voters \cup {V!NoVote}
  /\ vote_up \in BOOLEAN
  /\ todo \in VoteSteps
  /\ saved \subseteq [term : Nat, vote : Voters \cup {V!NoVote}]
  /\ granted \subseteq [term : Nat, src : Voters, log_ok : BOOLEAN]

Reliable == "power" \notin faults
Orderly == faults \subseteq {"crash"}

(* Every Put is made in memory and on disk; after StepDown's second one    *)
(* there is no vote.                                                       *)
WriteThrough ==
  /\ vote_up => vote_disk.term = vote_term /\ vote_disk.vote = vote
  /\ ~vote_up => todo = V!Idle
  /\ todo.step = "decide" => vote = V!NoVote

(* No vote was given in a term above the one on disk; the votes of that    *)
(* term went to the server on record, and there are none as long as the    *)
(* Put that clears the record, or names this server, is to come.           *)
GrantsOnRecord ==
  \A g \in granted :
     /\ g.term <= vote_disk.term
     /\ g.term = vote_disk.term => g.src = vote_disk.vote
     /\ todo # V!Idle => g.term < vote_disk.term

(* The vote on record was given with a look at the log, unless a step down *)
(* is about to clear it.                                                   *)
RecordEarned ==
  todo = V!Idle /\ vote_disk.vote # V!NoVote =>
    \E h \in granted :
       h.term = vote_disk.term /\ h.src = vote_disk.vote /\ h.log_ok

VoteInv ==
  /\ VoteTypeOK
  /\ WriteThrough
  /\ Reliable => GrantsOnRecord /\ V!VoteOnce
  /\ Orderly => RecordEarned /\ V!VotesNeedLogOk

(* A step of the server is one of a pending handler, or it is between two. *)
LEMMA StepFacts ==
  ASSUME NEW s \in VoteSteps
  PROVE  /\ s.step \in {"idle", "clearOnly", "self", "clear", "decide"}
         /\ s.step = "idle" <=> s = V!Idle
         /\ s.step \in {"clear", "decide"} => s.m \in VoteRequests
BY DEF VoteSteps, V!Idle

LEMMA VoteFacts ==
  /\ V!NoVote \notin Voters /\ Candidates \subseteq Voters /\ Me \in Voters
  /\ \A m \in VoteRequests : m.src \in Candidates /\ m.term \in Nat /\ m.log_ok \in BOOLEAN
BY VoteAssumption DEF Voters, VoteRequests, V!Requests, V!NoVote

LEMMA VoteInit == V!Init => VoteInv
<1> SUFFICES ASSUME V!Init PROVE VoteInv OBVIOUS
<1>1. VoteTypeOK BY DEF V!Init, VoteTypeOK, VoteSteps
<1>2. WriteThrough BY DEF V!Init, WriteThrough, V!Idle
<1>3. GrantsOnRecord /\ RecordEarned BY DEF V!Init, GrantsOnRecord, RecordEarned
<1>4. V!VoteOnce /\ V!VotesNeedLogOk BY DEF V!Init, V!VoteOnce, V!VotesNeedLogOk
<1> QED BY <1>1, <1>2, <1>3, <1>4 DEF VoteInv

(* The end of OnRequestVote, with or without a step down before it.        *)
LEMMA DecideKeeps ==
  ASSUME VoteInv, NEW m \in VoteRequests, V!Decide(m), vote_up,
         UNCHANGED <<vote_up, vote_term, faults>>,
         todo = V!Idle \/ todo.step = "decide", todo' = V!Idle
  PROVE  VoteInv'
<1>0. VoteTypeOK /\ WriteThrough BY DEF VoteInv
<1>1. m.src \in Voters /\ m.src # V!NoVote /\ m.term \in Nat /\ m.log_ok \in BOOLEAN
  BY VoteFacts
<1>2. /\ vote_disk.term \in Nat /\ vote_disk.vote \in Voters \cup {V!NoVote}
      /\ vote_disk.term = vote_term /\ vote_disk.vote = vote
  BY <1>0 DEF VoteTypeOK, WriteThrough
<1> DEFINE g0 == [term |-> m.term, src |-> m.src, log_ok |-> m.log_ok]
<1>3. g0 \in [term : Nat, src : Voters, log_ok : BOOLEAN] BY <1>1
<1>4. /\ vote_disk'.term = vote_disk.term /\ vote_disk'.vote = vote' /\ vote_term' = vote_term
      /\ VoteTypeOK'
  <2>1. CASE V!Votes(m)
    <3>1. /\ vote_disk' = [vote_disk EXCEPT !.vote = m.src] /\ vote' = m.src
          /\ saved' = saved \cup {vote_disk'}
          /\ granted' \subseteq granted \cup {g0}
      BY <2>1 DEF V!Decide, V!SetVote, V!Put, V!Reply
    <3>2. /\ vote_disk' \in [term : Nat, vote : Voters \cup {V!NoVote}]
          /\ vote_disk'.term = vote_disk.term /\ vote_disk'.vote = m.src
      BY <1>0, <1>1, <3>1 DEF VoteTypeOK
    <3> QED BY <1>0, <1>1, <1>3, <3>1, <3>2 DEF VoteTypeOK, VoteSteps
  <2>2. CASE ~V!Votes(m)
    <3>1. UNCHANGED <<vote_disk, saved, vote>> /\ granted' \subseteq granted \cup {g0}
      BY <2>2 DEF V!Decide, V!Reply
    <3> QED BY <1>0, <1>2, <1>3, <3>1 DEF VoteTypeOK, VoteSteps
  <2> QED BY <2>1, <2>2
<1>5. WriteThrough' BY <1>2, <1>4 DEF WriteThrough, V!Idle
<1>6. CASE V!Votes(m)
  <2>1. /\ vote = V!NoVote /\ m.term = vote_term /\ m.log_ok
        /\ vote' = m.src /\ granted' = granted \cup {g0}
    BY <1>6 DEF V!Votes, V!Decide, V!SetVote, V!Reply, V!Grants
  <2>2. g0.term = vote_disk'.term /\ g0.src = vote_disk'.vote /\ g0.log_ok
    BY <1>2, <1>4, <2>1
  <2>3. ASSUME Reliable' PROVE GrantsOnRecord' /\ V!VoteOnce'
    <3>1. GrantsOnRecord /\ V!VoteOnce BY <2>3 DEF VoteInv, Reliable
    <3>2. ASSUME NEW g \in granted
          PROVE  g.term < vote_disk.term
      <4>1. g.src # vote_disk.vote BY <1>0, <1>2, <2>1, VoteFacts DEF VoteTypeOK
      <4>2. g.term \in Nat BY <1>0 DEF VoteTypeOK
      <4> QED BY <1>2, <3>1, <4>1, <4>2 DEF GrantsOnRecord
    <3>3. \A g \in granted' : g = g0 \/ (g \in granted /\ g.term < vote_disk'.term)
      BY <1>4, <2>1, <3>2
    <3>4. \A g \in granted' : g.term \in Nat BY <1>4 DEF VoteTypeOK
    <3>5. vote_disk'.term \in Nat BY <1>2, <1>4
    <3>6. GrantsOnRecord' BY <2>2, <3>3, <3>4, <3>5 DEF GrantsOnRecord
    <3>7. ASSUME NEW g \in granted', NEW h \in granted', g.term = h.term
          PROVE  g.src = h.src
      <4>1. CASE g \in granted /\ h \in granted
        BY <2>3, <3>1, <3>7, <4>1 DEF V!VoteOnce, Reliable
      <4>2. CASE g = g0 /\ h = g0 BY <4>2
      <4>3. CASE (g = g0 /\ h # g0) \/ (g # g0 /\ h = g0)
        BY <2>2, <3>3, <3>4, <3>5, <3>7, <4>3
      <4> QED BY <3>3, <4>1, <4>2, <4>3
    <3> QED BY <3>6, <3>7 DEF V!VoteOnce
  <2>4. ASSUME Orderly' PROVE RecordEarned' /\ V!VotesNeedLogOk'
    <3>1. V!VotesNeedLogOk /\ faults \subseteq {"crash"} BY <2>4 DEF VoteInv, Orderly
    <3>2. RecordEarned' BY <2>1, <2>2 DEF RecordEarned
    <3>3. \A g \in granted' : \E h \in granted' :
             h.term = g.term /\ h.src = g.src /\ h.log_ok
      BY <2>1, <2>2, <3>1 DEF V!VotesNeedLogOk
    <3> QED BY <3>2, <3>3 DEF V!VotesNeedLogOk
  <2> QED BY <1>4, <1>5, <2>3, <2>4 DEF VoteInv
<1>7. CASE ~V!Votes(m)
  <2>1. /\ UNCHANGED <<vote_disk, saved, vote>>
        /\ \/ granted' = granted
           \/ granted' = granted \cup {g0} /\ m.term = vote_term /\ vote = m.src
    BY <1>7 DEF V!Decide, V!Reply, V!Grants
  <2>2. todo = V!Idle \/ granted' = granted
    BY <1>0, <1>1, <2>1 DEF WriteThrough
  <2>3. granted' = granted \/ (g0.term = vote_disk.term /\ g0.src = vote_disk.vote)
    BY <1>2, <2>1
  <2>4. ASSUME Reliable' PROVE GrantsOnRecord' /\ V!VoteOnce'
    <3>1. GrantsOnRecord /\ V!VoteOnce BY <2>4 DEF VoteInv, Reliable
    <3>2. \A g \in granted' : g \in granted \/ (g = g0 /\ granted' # granted)
      BY <2>1
    <3>3. GrantsOnRecord'
      BY <1>2, <2>1, <2>3, <3>1, <3>2 DEF GrantsOnRecord
    <3>4. ASSUME NEW g \in granted', NEW h \in granted', g.term = h.term
          PROVE  g.src = h.src
      <4>1. CASE g \in granted /\ h \in granted
        BY <2>4, <3>1, <3>4, <4>1 DEF V!VoteOnce, Reliable
      <4>2. CASE ~(g \in granted /\ h \in granted)
        <5>1. g.term = vote_disk.term /\ h.term = vote_disk.term
          BY <2>3, <3>2, <3>4, <4>2
        <5> QED BY <2>1, <3>3, <5>1 DEF GrantsOnRecord
      <4> QED BY <4>1, <4>2
    <3> QED BY <3>3, <3>4 DEF V!VoteOnce
  <2>5. ASSUME Orderly' PROVE RecordEarned' /\ V!VotesNeedLogOk'
    <3>1. RecordEarned /\ V!VotesNeedLogOk /\ faults \subseteq {"crash"}
      BY <2>5 DEF VoteInv, Orderly
    <3>2. vote_disk.vote # V!NoVote => todo = V!Idle
      BY <1>0, <1>2 DEF WriteThrough
    <3>3. vote_disk.vote # V!NoVote =>
            \E h \in granted : h.term = vote_disk.term /\ h.src = vote_disk.vote /\ h.log_ok
      BY <3>1, <3>2 DEF RecordEarned
    <3>4. granted \subseteq granted' BY <2>1
    <3>5. RecordEarned' BY <2>1, <3>3, <3>4 DEF RecordEarned
    <3>6. \A g \in granted' : \E h \in granted' :
             h.term = g.term /\ h.src = g.src /\ h.log_ok
      <4> SUFFICES ASSUME NEW g \in granted'
                   PROVE  \E h \in granted' : h.term = g.term /\ h.src = g.src /\ h.log_ok
        OBVIOUS
      <4>1. CASE g \in granted BY <3>1, <3>4, <4>1 DEF V!VotesNeedLogOk
      <4>2. CASE g \notin granted
        <5>1. g = g0 /\ g0.term = vote_disk.term /\ g0.src = vote_disk.vote
          BY <2>1, <2>3, <4>2
        <5>2. vote_disk.vote # V!NoVote BY <1>1, <5>1
        <5> QED BY <3>3, <3>4, <5>1, <5>2
      <4> QED BY <4>1, <4>2
    <3> QED BY <3>5, <3>6 DEF V!VotesNeedLogOk
  <2> QED BY <1>4, <1>5, <2>4, <2>5 DEF VoteInv
<1> QED BY <1>6, <1>7

(* The first Put of a handler that raises the term.                        *)
LEMMA RaiseKeeps ==
  ASSUME VoteInv, NEW t \in Nat, t > vote_term, V!SetTerm(t), vote_up,
         UNCHANGED <<vote, vote_up, granted, faults>>,
         todo' \in VoteSteps, todo' # V!Idle, todo'.step # "decide"
  PROVE  VoteInv'
<1>0. VoteTypeOK /\ WriteThrough BY DEF VoteInv
<1>1. /\ vote_disk.term \in Nat /\ vote_disk.term = vote_term /\ vote_disk.vote = vote
  BY <1>0 DEF VoteTypeOK, WriteThrough
<1>2. /\ vote_disk' = [vote_disk EXCEPT !.term = t] /\ vote_term' = t
      /\ saved' = saved \cup {vote_disk'}
  BY DEF V!SetTerm, V!Put
<1>3. /\ vote_disk' \in [term : Nat, vote : Voters \cup {V!NoVote}]
      /\ vote_disk'.term = t /\ vote_disk'.vote = vote
  BY <1>0, <1>1, <1>2 DEF VoteTypeOK
<1>4. VoteTypeOK' BY <1>0, <1>2, <1>3 DEF VoteTypeOK
<1>5. WriteThrough' BY <1>2, <1>3 DEF WriteThrough
<1>6. ASSUME Reliable' PROVE GrantsOnRecord' /\ V!VoteOnce'
  <2>1. GrantsOnRecord /\ V!VoteOnce BY <1>6 DEF VoteInv, Reliable
  <2>2. \A g \in granted : g.term \in Nat /\ g.term < t
    BY <1>0, <1>1, <2>1 DEF GrantsOnRecord, VoteTypeOK
  <2>3. GrantsOnRecord' BY <1>3, <2>2 DEF GrantsOnRecord
  <2>4. V!VoteOnce' BY <2>1 DEF V!VoteOnce
  <2> QED BY <2>3, <2>4
<1>7. ASSUME Orderly' PROVE RecordEarned' /\ V!VotesNeedLogOk'
  BY <1>7 DEF VoteInv, Orderly, RecordEarned, V!VotesNeedLogOk
<1> QED BY <1>4, <1>5, <1>6, <1>7 DEF VoteInv

(* StepDown's second Put.                                                  *)
LEMMA ClearKeeps ==
  ASSUME VoteInv, V!ClearVote
  PROVE  VoteInv'
<1>0. VoteTypeOK /\ WriteThrough BY DEF VoteInv
<1>1. /\ vote_up /\ todo.step \in {"clear", "clearOnly"}
      /\ vote_disk' = [vote_disk EXCEPT !.vote = V!NoVote] /\ vote' = V!NoVote
      /\ saved' = saved \cup {vote_disk'}
      /\ todo' = IF todo.step = "clear" THEN [step |-> "decide", m |-> todo.m] ELSE V!Idle
      /\ UNCHANGED <<vote_term, vote_up, granted, faults>>
  BY DEF V!ClearVote, V!SetVote, V!Put
<1>2. todo \in VoteSteps /\ todo # V!Idle BY <1>0, <1>1, StepFacts DEF VoteTypeOK
<1>3. /\ vote_disk' \in [term : Nat, vote : Voters \cup {V!NoVote}]
      /\ vote_disk'.term = vote_disk.term /\ vote_disk'.vote = V!NoVote
      /\ vote_disk.term \in Nat /\ vote_disk.term = vote_term
  BY <1>0, <1>1 DEF VoteTypeOK, WriteThrough
<1>4. todo' \in VoteSteps
  <2>1. CASE todo.step = "clear"
    <3>1. todo.m \in VoteRequests BY <1>2, <2>1, StepFacts
    <3> QED BY <1>1, <2>1, <3>1 DEF VoteSteps
  <2>2. CASE todo.step # "clear" BY <1>1, <2>2 DEF VoteSteps
  <2> QED BY <2>1, <2>2
<1>5. VoteTypeOK' BY <1>0, <1>1, <1>3, <1>4 DEF VoteTypeOK
<1>6. WriteThrough' BY <1>1, <1>3 DEF WriteThrough
<1>7. ASSUME Reliable' PROVE GrantsOnRecord' /\ V!VoteOnce'
  <2>1. GrantsOnRecord /\ V!VoteOnce BY <1>1, <1>7 DEF VoteInv, Reliable
  <2>2. \A g \in granted : g.term \in Nat /\ g.term < vote_disk.term
    BY <1>0, <1>2, <2>1 DEF GrantsOnRecord, VoteTypeOK
  <2>3. GrantsOnRecord' BY <1>1, <1>3, <2>2 DEF GrantsOnRecord
  <2>4. V!VoteOnce' BY <1>1, <2>1 DEF V!VoteOnce
  <2> QED BY <2>3, <2>4
<1>8. ASSUME Orderly' PROVE RecordEarned' /\ V!VotesNeedLogOk'
  <2>1. V!VotesNeedLogOk' BY <1>1, <1>8 DEF VoteInv, Orderly, V!VotesNeedLogOk
  <2>2. RecordEarned' BY <1>3 DEF RecordEarned
  <2> QED BY <2>1, <2>2
<1> QED BY <1>5, <1>6, <1>7, <1>8 DEF VoteInv

(* DoRequestVote's second Put.                                             *)
LEMMA SelfKeeps ==
  ASSUME VoteInv, V!VoteForMyself
  PROVE  VoteInv'
<1> DEFINE g0 == [term |-> vote_term, src |-> Me, log_ok |-> TRUE]
<1>0. VoteTypeOK /\ WriteThrough BY DEF VoteInv
<1>1. /\ vote_up /\ todo.step = "self" /\ todo' = V!Idle
      /\ vote_disk' = [vote_disk EXCEPT !.vote = Me] /\ vote' = Me
      /\ saved' = saved \cup {vote_disk'}
      /\ granted' = granted \cup {g0}
      /\ UNCHANGED <<vote_term, vote_up, faults>>
  BY DEF V!VoteForMyself, V!SetVote, V!Put
<1>2. todo # V!Idle BY <1>0, <1>1, StepFacts DEF VoteTypeOK
<1>3. /\ vote_disk' \in [term : Nat, vote : Voters \cup {V!NoVote}]
      /\ vote_disk'.term = vote_disk.term /\ vote_disk'.vote = Me
      /\ vote_disk.term \in Nat /\ vote_disk.term = vote_term
  BY <1>0, <1>1, VoteFacts DEF VoteTypeOK, WriteThrough
<1>4. g0 \in [term : Nat, src : Voters, log_ok : BOOLEAN]
      /\ g0.term = vote_disk'.term /\ g0.src = vote_disk'.vote /\ g0.log_ok
  BY <1>3, VoteFacts
<1>5. VoteTypeOK' BY <1>0, <1>1, <1>3, <1>4, VoteFacts DEF VoteTypeOK, VoteSteps
<1>6. WriteThrough' BY <1>1, <1>3 DEF WriteThrough, V!Idle
<1>7. ASSUME Reliable' PROVE GrantsOnRecord' /\ V!VoteOnce'
  <2>1. GrantsOnRecord /\ V!VoteOnce BY <1>1, <1>7 DEF VoteInv, Reliable
  <2>2. \A g \in granted : g.term \in Nat /\ g.term < vote_disk.term
    BY <1>0, <1>2, <2>1 DEF GrantsOnRecord, VoteTypeOK
  <2>3. \A g \in granted' : g = g0 \/ (g \in granted /\ g.term < vote_disk'.term)
    BY <1>1, <1>3, <2>2
  <2>4. GrantsOnRecord' BY <1>1, <1>3, <1>4, <2>2, <2>3 DEF GrantsOnRecord
  <2>5. ASSUME NEW g \in granted', NEW h \in granted', g.term = h.term
        PROVE  g.src = h.src
    <3>1. CASE g \in granted /\ h \in granted
      BY <1>1, <1>7, <2>1, <2>5, <3>1 DEF V!VoteOnce, Reliable
    <3>2. CASE g = g0 /\ h = g0 BY <3>2
    <3>3. CASE (g = g0 /\ h # g0) \/ (g # g0 /\ h = g0)
      BY <1>3, <1>4, <2>2, <2>3, <2>5, <3>3
    <3> QED BY <2>3, <3>1, <3>2, <3>3
  <2> QED BY <2>4, <2>5 DEF V!VoteOnce
<1>8. ASSUME Orderly' PROVE RecordEarned' /\ V!VotesNeedLogOk'
  <2>1. V!VotesNeedLogOk /\ faults \subseteq {"crash"} BY <1>1, <1>8 DEF VoteInv, Orderly
  <2>2. RecordEarned' BY <1>1, <1>4 DEF RecordEarned
  <2>3. \A g \in granted' : \E h \in granted' :
           h.term = g.term /\ h.src = g.src /\ h.log_ok
    BY <1>1, <1>4, <2>1 DEF V!VotesNeedLogOk
  <2> QED BY <2>2, <2>3 DEF V!VotesNeedLogOk
<1> QED BY <1>5, <1>6, <1>7, <1>8 DEF VoteInv

(* Starting, dying, and losing power.                                      *)
LEMMA FailKeeps ==
  ASSUME VoteInv, V!Start \/ V!Crash \/ V!PowerFailure
  PROVE  VoteInv'
<1>0. VoteTypeOK /\ WriteThrough BY DEF VoteInv
<1>1. CASE V!Start
  <2>1. /\ ~vote_up /\ vote_up' = TRUE
        /\ vote_term' = vote_disk.term /\ vote' = vote_disk.vote
        /\ UNCHANGED <<vote_disk, saved, todo, granted, faults>>
    BY <1>1 DEF V!Start
  <2>2. vote_disk.term \in Nat /\ vote_disk.vote \in Voters \cup {V!NoVote} /\ todo = V!Idle
    BY <1>0, <2>1 DEF VoteTypeOK, WriteThrough
  <2>3. VoteTypeOK' BY <1>0, <2>1, <2>2 DEF VoteTypeOK
  <2>4. WriteThrough' BY <2>1, <2>2 DEF WriteThrough, V!Idle
  <2>5. Reliable' => GrantsOnRecord' /\ V!VoteOnce'
    BY <2>1 DEF VoteInv, Reliable, GrantsOnRecord, V!VoteOnce
  <2>6. Orderly' => RecordEarned' /\ V!VotesNeedLogOk'
    BY <2>1 DEF VoteInv, Orderly, RecordEarned, V!VotesNeedLogOk
  <2> QED BY <2>3, <2>4, <2>5, <2>6 DEF VoteInv
<1>2. CASE V!Crash
  <2>1. /\ vote_up /\ vote_up' = FALSE /\ todo' = V!Idle
        /\ faults' = faults \cup {IF todo = V!Idle THEN "crash" ELSE "torn"}
        /\ UNCHANGED <<vote_disk, saved, vote_term, vote, granted>>
    BY <1>2 DEF V!Crash
  <2>2. VoteTypeOK' BY <1>0, <2>1 DEF VoteTypeOK, VoteSteps
  <2>3. WriteThrough' BY <2>1 DEF WriteThrough, V!Idle
  <2>4. ASSUME Reliable' PROVE GrantsOnRecord' /\ V!VoteOnce'
    <3>1. Reliable BY <2>1, <2>4 DEF Reliable
    <3>2. GrantsOnRecord /\ V!VoteOnce BY <3>1 DEF VoteInv
    <3>3. GrantsOnRecord' BY <2>1, <3>2 DEF GrantsOnRecord
    <3>4. V!VoteOnce' BY <2>1, <3>1, <3>2 DEF V!VoteOnce, Reliable
    <3> QED BY <3>3, <3>4
  <2>5. ASSUME Orderly' PROVE RecordEarned' /\ V!VotesNeedLogOk'
    <3>1. Orderly /\ todo = V!Idle BY <2>1, <2>5 DEF Orderly
    <3>2. RecordEarned /\ V!VotesNeedLogOk BY <3>1 DEF VoteInv
    <3>3. RecordEarned' BY <2>1, <3>1, <3>2 DEF RecordEarned
    <3>4. V!VotesNeedLogOk' BY <2>1, <3>1, <3>2 DEF V!VotesNeedLogOk, Orderly
    <3> QED BY <3>3, <3>4
  <2> QED BY <2>2, <2>3, <2>4, <2>5 DEF VoteInv
<1>3. CASE V!PowerFailure
  <2>1. /\ vote_up' = FALSE /\ todo' = V!Idle /\ "power" \in faults'
        /\ vote_disk' \in saved /\ saved' = {vote_disk'}
        /\ UNCHANGED <<vote_term, vote, granted>>
    BY <1>3 DEF V!PowerFailure
  <2>2. VoteTypeOK' BY <1>0, <2>1 DEF VoteTypeOK, VoteSteps
  <2>3. WriteThrough' BY <2>1 DEF WriteThrough, V!Idle
  <2>4. ~Reliable' /\ ~Orderly' BY <2>1 DEF Reliable, Orderly
  <2> QED BY <2>2, <2>3, <2>4 DEF VoteInv
<1> QED BY <1>1, <1>2, <1>3

LEMMA VoteNext == VoteInv /\ [V!Next]_voteVars => VoteInv'
<1> SUFFICES ASSUME VoteInv, [V!Next]_voteVars PROVE VoteInv' OBVIOUS
<1>0. VoteTypeOK /\ WriteThrough BY DEF VoteInv
<1>1. CASE UNCHANGED voteVars
  BY <1>1 DEF voteVars, VoteInv, VoteTypeOK, WriteThrough, Reliable, Orderly, GrantsOnRecord,
              RecordEarned, V!VoteOnce, V!VotesNeedLogOk
<1>2. ASSUME NEW m \in V!Requests, V!OnRequestVote(m) PROVE VoteInv'
  <2>1. m \in VoteRequests /\ m.term \in Nat BY VoteFacts DEF VoteRequests
  <2>2. vote_up /\ todo = V!Idle /\ UNCHANGED <<vote_up, faults>>
    BY <1>2 DEF V!OnRequestVote
  <2>3. CASE m.term > vote_term
    <3>1. /\ V!SetTerm(m.term) /\ todo' = [step |-> "clear", m |-> m]
          /\ UNCHANGED <<vote, granted>>
      BY <1>2, <2>3 DEF V!OnRequestVote
    <3>2. todo' \in VoteSteps /\ todo'.step = "clear" /\ todo' # V!Idle
      BY <2>1, <3>1 DEF VoteSteps, V!Idle
    <3> QED BY <2>1, <2>2, <2>3, <3>1, <3>2, RaiseKeeps
  <2>4. CASE ~(m.term > vote_term)
    <3>1. V!Decide(m) /\ UNCHANGED <<vote_term, todo>> BY <1>2, <2>4 DEF V!OnRequestVote
    <3> QED BY <2>1, <2>2, <3>1, DecideKeeps
  <2> QED BY <2>3, <2>4
<1>3. ASSUME NEW t \in 1..MaxTerm, V!OnLargerTerm(t) PROVE VoteInv'
  <2>1. t \in Nat BY VoteAssumption
  <2>2. /\ vote_up /\ t > vote_term /\ V!SetTerm(t) /\ todo' = [step |-> "clearOnly"]
        /\ UNCHANGED <<vote, vote_up, granted, faults>>
    BY <1>3 DEF V!OnLargerTerm
  <2>3. todo' \in VoteSteps /\ todo'.step = "clearOnly" /\ todo' # V!Idle
    BY <2>2 DEF VoteSteps, V!Idle
  <2> QED BY <2>1, <2>2, <2>3, RaiseKeeps
<1>4. CASE V!ClearVote BY <1>4, ClearKeeps
<1>5. CASE V!DecideAfterStepDown
  <2>1. /\ vote_up /\ todo.step = "decide" /\ V!Decide(todo.m) /\ todo' = V!Idle
        /\ UNCHANGED <<vote_term, vote_up, faults>>
    BY <1>5 DEF V!DecideAfterStepDown
  <2>2. todo.m \in VoteRequests BY <1>0, <2>1, StepFacts DEF VoteTypeOK
  <2> QED BY <2>1, <2>2, DecideKeeps
<1>6. CASE V!DoRequestVote
  <2>1. /\ vote_up /\ V!SetTerm(vote_term + 1) /\ todo' = [step |-> "self"]
        /\ UNCHANGED <<vote, vote_up, granted, faults>>
    BY <1>6 DEF V!DoRequestVote
  <2>2. vote_term + 1 \in Nat /\ vote_term + 1 > vote_term BY <1>0 DEF VoteTypeOK
  <2>3. todo' \in VoteSteps /\ todo'.step = "self" /\ todo' # V!Idle
    BY <2>1 DEF VoteSteps, V!Idle
  <2> QED BY <2>1, <2>2, <2>3, RaiseKeeps
<1>7. CASE V!VoteForMyself BY <1>7, SelfKeeps
<1>8. CASE V!Start \/ V!Crash \/ V!PowerFailure BY <1>8, FailKeeps
<1> QED BY <1>1, <1>2, <1>3, <1>4, <1>5, <1>6, <1>7, <1>8 DEF V!Next

(* SolidData keeps the promise a vote is, for any candidates and any       *)
(* number of terms: one server gets the vote of a term even if the process *)
(* dies between the Puts of a handler; it had a log that was good enough   *)
(* if the process dies between handlers only; and between handlers the     *)
(* database holds what the server answers from.                            *)
THEOREM VotesAreKept == StorageSpec => []VotesSound
<1>1. StorageInit => VoteInv BY VoteInit DEF StorageInit
<1>2. [StorageNext]_allVars => [V!Next]_voteVars
  BY DEF StorageNext, allVars, voteVars
<1>3. VoteInv /\ [V!Next]_voteVars => VoteInv' BY VoteNext
<1>4. VoteInv => VotesSound
  <2> SUFFICES ASSUME VoteInv PROVE VotesSound OBVIOUS
  <2>1. V!VoteOnce BY DEF VoteInv, Reliable, V!VoteOnce
  <2>2. V!VotesNeedLogOk BY DEF VoteInv, Orderly, V!VotesNeedLogOk
  <2>3. V!WrittenThrough
    BY DEF VoteInv, VoteTypeOK, WriteThrough, V!WrittenThrough
  <2> QED BY <2>1, <2>2, <2>3 DEF VotesSound
<1> QED BY <1>1, <1>2, <1>3, <1>4, PTL DEF StorageSpec

-----------------------------------------------------------------------------
(***************************************************************************)
(* The log.  Contents c of db hold the entries lo..hi; the rest of the     *)
(* argument is about lo and hi, which the mirror in memory follows.        *)
(***************************************************************************)

Position == Nat \ {0}

Meta(c, i) == c[LogIndexToMetaIndex(i)]

(* Both keys of entry i, and a meta value whose checksums cover it.        *)
EntryAt(c, i) ==
  /\ Get(c, i) \in Entries
  /\ Meta(c, i) = MetaValue(i, Get(c, i), Meta(c, i).pre_chk_all)

(* Key 0 says where to go on only when there is no entry.                  *)
Holds(c, lo, hi) ==
  /\ lo \in Position /\ hi \in Nat /\ lo <= hi + 1 /\ hi <= MaxIndex
  /\ c = [k \in {ZeroKey} \cup Keys(lo..hi) |-> c[k]]
  /\ \A i \in lo..hi : EntryAt(c, i)
  /\ \A i \in lo..hi : i + 1 <= hi => Meta(c, i + 1).pre_chk_all = Meta(c, i).chk_all
  /\ hi < lo => c[ZeroKey].append = lo

IsLog(c) == \E lo, hi \in Nat : Holds(c, lo, hi)

(* The checksum that the next entry goes on from.                          *)
LastChecksum(c, lo, hi) == IF hi < lo THEN c[ZeroKey].checksum ELSE Meta(c, hi).chk_all

-----------------------------------------------------------------------------
(* Keys.                                                                   *)

LEMMA KeyFacts ==
  ASSUME NEW i \in Position
  PROVE  /\ LogIndexToMetaIndex(i) \in Nat /\ LogIndexToDataIndex(i) \in Nat
         /\ LogIndexToMetaIndex(i) # ZeroKey /\ LogIndexToDataIndex(i) # ZeroKey
         /\ KeyToLogIndex(LogIndexToMetaIndex(i)) = i
         /\ KeyToLogIndex(LogIndexToDataIndex(i)) = i
         /\ MetaIndexToLogIndex(LogIndexToMetaIndex(i)) = i
         /\ DataIndexToLogIndex(LogIndexToDataIndex(i)) = i
         /\ \A j \in Position : LogIndexToMetaIndex(i) # LogIndexToDataIndex(j)
         /\ \A j \in Position : LogIndexToMetaIndex(i) = LogIndexToMetaIndex(j) => i = j
         /\ \A j \in Position : LogIndexToDataIndex(i) = LogIndexToDataIndex(j) => i = j
<1>1. i \in Nat /\ i > 0 BY DEF Position
<1>2. (2 * i) % 2 = 0 /\ (2 * i - 1) % 2 = 1 /\ (2 * i) \div 2 = i /\ (2 * i) # 0
      /\ 2 * i - 1 # 0 /\ 2 * i - 1 \in Nat
  BY <1>1
<1>3. (2 * i - 1 + 1) \div 2 = i BY <1>1
<1>4. \A j \in Position : 2 * i - 1 # 2 * j BY <1>1 DEF Position
<1>5. \A j \in Position : (2 * i - 1 = 2 * j - 1 => i = j) /\ (2 * i = 2 * j => i = j)
  BY <1>1 DEF Position
<1> QED
  BY <1>1, <1>2, <1>3, <1>4, <1>5
     DEF LogIndexToMetaIndex, LogIndexToDataIndex, KeyToLogIndex, MetaIndexToLogIndex,
         DataIndexToLogIndex, ZeroKey

(* An entry has its own two keys.                                          *)
LEMMA KeysOf ==
  ASSUME NEW I, I \subseteq Position
  PROVE  /\ ZeroKey \notin Keys(I)
         /\ \A i \in Position : LogIndexToMetaIndex(i) \in Keys(I) <=> i \in I
         /\ \A i \in Position : LogIndexToDataIndex(i) \in Keys(I) <=> i \in I
         /\ \A k \in Keys(I) : \E i \in I : k = LogIndexToMetaIndex(i) \/ k = LogIndexToDataIndex(i)
<1>1. \A k \in Keys(I) : \E i \in I : k = LogIndexToMetaIndex(i) \/ k = LogIndexToDataIndex(i)
  BY DEF Keys
<1>2. \A i \in I : LogIndexToMetaIndex(i) \in Keys(I) /\ LogIndexToDataIndex(i) \in Keys(I)
  BY DEF Keys
<1>3. ZeroKey \notin Keys(I) BY <1>1, KeyFacts
<1>4. ASSUME NEW i \in Position, LogIndexToMetaIndex(i) \in Keys(I) PROVE i \in I
  <2>1. PICK j \in I : \/ LogIndexToMetaIndex(i) = LogIndexToMetaIndex(j)
                       \/ LogIndexToMetaIndex(i) = LogIndexToDataIndex(j)
    BY <1>1, <1>4
  <2> QED BY <2>1, KeyFacts
<1>5. ASSUME NEW i \in Position, LogIndexToDataIndex(i) \in Keys(I) PROVE i \in I
  <2>1. PICK j \in I : \/ LogIndexToDataIndex(i) = LogIndexToMetaIndex(j)
                       \/ LogIndexToDataIndex(i) = LogIndexToDataIndex(j)
    BY <1>1, <1>5
  <2>2. LogIndexToMetaIndex(j) # LogIndexToDataIndex(i) BY KeyFacts
  <2> QED BY <2>1, <2>2, KeyFacts
<1> QED BY <1>1, <1>2, <1>3, <1>4, <1>5

LEMMA KeysMinus ==
  ASSUME NEW I, I \subseteq Position, NEW J, J \subseteq Position
  PROVE  /\ Keys(I) \ Keys(J) = Keys(I \ J)
         /\ Keys(I) \cup Keys(J) = Keys(I \cup J)
<1>1. \A k \in Keys(I) : k \notin Keys(J) => k \in Keys(I \ J)
  <2> SUFFICES ASSUME NEW k \in Keys(I), k \notin Keys(J) PROVE k \in Keys(I \ J) OBVIOUS
  <2>1. PICK i \in I : k = LogIndexToMetaIndex(i) \/ k = LogIndexToDataIndex(i) BY KeysOf
  <2>2. i \notin J BY <2>1, KeysOf
  <2> QED BY <2>1, <2>2 DEF Keys
<1>2. \A k \in Keys(I \ J) : k \in Keys(I) /\ k \notin Keys(J)
  <2> SUFFICES ASSUME NEW k \in Keys(I \ J) PROVE k \in Keys(I) /\ k \notin Keys(J) OBVIOUS
  <2>1. PICK i \in I \ J : k = LogIndexToMetaIndex(i) \/ k = LogIndexToDataIndex(i)
    BY DEF Keys
  <2> QED BY <2>1, KeysOf
<1>3. Keys(I) \cup Keys(J) = Keys(I \cup J) BY DEF Keys
<1> QED BY <1>1, <1>2, <1>3

(* The indices a database has keys of.                                     *)
LEMMA IndicesOf ==
  ASSUME NEW I, I \subseteq Position, NEW c, DOMAIN c = {ZeroKey} \cup Keys(I)
  PROVE  Indices(c) = I /\ {KeyToLogIndex(k) : k \in DOMAIN c} = {0} \cup I
<1>1. DOMAIN c \ {ZeroKey} = Keys(I) BY KeysOf
<1>2. \A i \in I : i = KeyToLogIndex(LogIndexToMetaIndex(i)) /\ LogIndexToMetaIndex(i) \in Keys(I)
  BY KeyFacts, KeysOf
<1>3. \A k \in Keys(I) : KeyToLogIndex(k) \in I
  <2> SUFFICES ASSUME NEW k \in Keys(I) PROVE KeyToLogIndex(k) \in I OBVIOUS
  <2>1. PICK i \in I : k = LogIndexToMetaIndex(i) \/ k = LogIndexToDataIndex(i) BY KeysOf
  <2> QED BY <2>1, KeyFacts
<1>4. KeyToLogIndex(ZeroKey) = 0 BY DEF KeyToLogIndex, ZeroKey
<1>5. Indices(c) = I BY <1>1, <1>2, <1>3 DEF Indices
<1>6. \A i \in {0} \cup I : \E k \in DOMAIN c : i = KeyToLogIndex(k) BY <1>2, <1>4
<1>7. \A k \in DOMAIN c : KeyToLogIndex(k) \in {0} \cup I BY <1>3, <1>4
<1> QED BY <1>5, <1>6, <1>7

-----------------------------------------------------------------------------
(* What a log that holds lo..hi is to a reader.                            *)

LEMMA HoldsFacts ==
  ASSUME NEW c, NEW lo, NEW hi, Holds(c, lo, hi)
  PROVE  /\ lo \in Position /\ lo \in Nat /\ hi \in Nat /\ lo <= hi + 1 /\ hi <= MaxIndex
         /\ lo..hi \subseteq Position
         /\ DOMAIN c = {ZeroKey} \cup Keys(lo..hi)
         /\ \A i \in lo..hi : LogIndexToMetaIndex(i) \in DOMAIN c /\ LogIndexToDataIndex(i) \in DOMAIN c
         /\ ZeroKey \in DOMAIN c
         /\ Indices(c) = lo..hi
         /\ c # EmptyDb
<1>1. lo \in Position /\ lo \in Nat /\ hi \in Nat /\ lo <= hi + 1 /\ hi <= MaxIndex
  BY DEF Holds, Position
<1>2. lo..hi \subseteq Position BY <1>1 DEF Position
<1>3. c = [k \in {ZeroKey} \cup Keys(lo..hi) |-> c[k]] BY DEF Holds
<1>4. DOMAIN c = {ZeroKey} \cup Keys(lo..hi) BY <1>3
<1>5. \A i \in lo..hi : LogIndexToMetaIndex(i) \in DOMAIN c /\ LogIndexToDataIndex(i) \in DOMAIN c
  BY <1>2, <1>4, KeysOf
<1>6. Indices(c) = lo..hi BY <1>2, <1>4, IndicesOf
<1>7. DOMAIN EmptyDb = {} BY DEF EmptyDb
<1> QED BY <1>1, <1>2, <1>4, <1>5, <1>6, <1>7

(* RaftLog::Init reads back where the log begins and ends.                 *)
LEMMA RecoveredOf ==
  ASSUME NEW c, NEW lo, NEW hi, Holds(c, lo, hi)
  PROVE  /\ hi < lo => Recovered(c) = [first |-> 0, last |-> 0, append |-> hi + 1,
                                       checksum |-> LastChecksum(c, lo, hi)]
         /\ lo <= hi => Recovered(c) = [first |-> lo, last |-> hi, append |-> hi + 1,
                                        checksum |-> LastChecksum(c, lo, hi)]
<1>1. /\ lo \in Position /\ lo \in Nat /\ hi \in Nat /\ lo <= hi + 1 /\ lo..hi \subseteq Position
      /\ DOMAIN c = {ZeroKey} \cup Keys(lo..hi)
  BY HoldsFacts
<1>2. ASSUME hi < lo
      PROVE  Recovered(c) = [first |-> 0, last |-> 0, append |-> hi + 1,
                             checksum |-> LastChecksum(c, lo, hi)]
  <2>1. lo..hi = {} BY <1>1, <1>2
  <2>2. Keys(lo..hi) = {} BY <2>1 DEF Keys
  <2>3. DOMAIN c = {0} BY <1>1, <2>2 DEF ZeroKey
  <2>4. Max(DOMAIN c) = ZeroKey BY <2>3 DEF Max, ZeroKey
  <2>5. c[ZeroKey].append = hi + 1 BY <1>1, <1>2 DEF Holds
  <2> QED BY <1>2, <2>4, <2>5 DEF Recovered, LastChecksum
<1>3. ASSUME lo <= hi
      PROVE  Recovered(c) = [first |-> lo, last |-> hi, append |-> hi + 1,
                             checksum |-> LastChecksum(c, lo, hi)]
  <2>1. lo \in lo..hi /\ hi \in lo..hi /\ hi \in Position BY <1>1, <1>3 DEF Position
  <2>2. LogIndexToDataIndex(hi) \in DOMAIN c BY <1>1, <2>1, KeysOf
  <2>3. LogIndexToMetaIndex(lo) \in DOMAIN c \ {ZeroKey} BY <1>1, <2>1, KeysOf, KeyFacts
  <2>4. ASSUME NEW k \in Keys(lo..hi)
        PROVE  k \in Nat /\ k <= LogIndexToDataIndex(hi) /\ LogIndexToMetaIndex(lo) <= k
    <3>1. PICK i \in lo..hi : k = LogIndexToMetaIndex(i) \/ k = LogIndexToDataIndex(i)
      BY <1>1, KeysOf
    <3>2. i \in Nat /\ i > 0 /\ lo <= i /\ i <= hi BY <1>1 DEF Position
    <3> QED BY <1>1, <3>1, <3>2 DEF LogIndexToMetaIndex, LogIndexToDataIndex
  <2>5. DOMAIN c \ {ZeroKey} \subseteq Keys(lo..hi) BY <1>1
  <2>6. \A k \in DOMAIN c : k \in Nat /\ k <= LogIndexToDataIndex(hi)
    BY <1>1, <2>1, <2>4, KeyFacts DEF ZeroKey
  <2>7. Max(DOMAIN c) = LogIndexToDataIndex(hi)
    <3>1. LogIndexToDataIndex(hi) \in Nat BY <2>1, KeyFacts
    <3> QED BY <2>2, <2>6, <3>1 DEF Max
  <2>8. Min(DOMAIN c \ {ZeroKey}) = LogIndexToMetaIndex(lo)
    <3>1. LogIndexToMetaIndex(lo) \in Nat BY <1>1, KeyFacts
    <3>2. \A k \in DOMAIN c \ {ZeroKey} : k \in Nat /\ LogIndexToMetaIndex(lo) =< k
      BY <2>4, <2>5
    <3> QED BY <2>3, <3>1, <3>2 DEF Min
  <2>9. LogIndexToDataIndex(hi) # ZeroKey /\ DataIndexToLogIndex(LogIndexToDataIndex(hi)) = hi
        /\ MetaIndexToLogIndex(LogIndexToMetaIndex(lo)) = lo
    BY <1>1, <2>1, KeyFacts
  <2>10. LastChecksum(c, lo, hi) = c[LogIndexToMetaIndex(hi)].chk_all
    BY <1>1, <1>3 DEF LastChecksum, Meta
  <2> QED BY <2>7, <2>8, <2>9, <2>10 DEF Recovered
<1> QED BY <1>2, <1>3

(* Its entries are consecutive and its checksums go on from one another.   *)
LEMMA ChainOf ==
  ASSUME NEW lo, NEW hi, Holds(db, lo, hi)
  PROVE  ChainUnbroken
<1>1. /\ Indices(db) = lo..hi /\ lo..hi \subseteq Position /\ lo \in Nat /\ hi \in Nat
      /\ \A i \in lo..hi : LogIndexToMetaIndex(i) \in DOMAIN db /\ LogIndexToDataIndex(i) \in DOMAIN db
  BY HoldsFacts
<1>2. ASSUME NEW i \in lo..hi
      PROVE  /\ Keys({i}) \subseteq DOMAIN db
             /\ GetMeta(i).chk_ths = CheckThis(i, Get(db, i))
             /\ GetMeta(i).chk_all = CheckAll(GetMeta(i).pre_chk_all, GetMeta(i).chk_ths)
  <2>1. Keys({i}) \subseteq DOMAIN db BY <1>1 DEF Keys
  <2>2. GetMeta(i) = MetaValue(i, Get(db, i), GetMeta(i).pre_chk_all)
    BY DEF Holds, EntryAt, Meta, GetMeta
  <2> QED BY <2>1, <2>2 DEF MetaValue
<1>3. \A i, j \in lo..hi : i..j \subseteq lo..hi BY <1>1
<1>4. \A i \in lo..hi : i + 1 \in lo..hi => GetMeta(i + 1).pre_chk_all = GetMeta(i).chk_all
  <2>1. \A i \in lo..hi : i + 1 <= hi => Meta(db, i + 1).pre_chk_all = Meta(db, i).chk_all
    BY DEF Holds
  <2>2. \A i \in lo..hi : i + 1 \in lo..hi => i + 1 <= hi BY <1>1
  <2> QED BY <2>1, <2>2 DEF Meta, GetMeta
<1> QED BY <1>1, <1>2, <1>3, <1>4 DEF ChainUnbroken

-----------------------------------------------------------------------------
(* What an operation leaves of it.                                         *)

(* An entry behind the others.                                             *)
LEMMA HoldsAppend ==
  ASSUME NEW c, NEW lo, NEW hi, Holds(c, lo, hi), hi + 1 <= MaxIndex, NEW e \in Entries,
         NEW d, d = Put(c, EntryBatch(hi + 1, e, LastChecksum(c, lo, hi)))
  PROVE  /\ Holds(d, lo, hi + 1)
         /\ Get(d, hi + 1) = e
         /\ Meta(d, hi + 1) = MetaValue(hi + 1, e, LastChecksum(c, lo, hi))
         /\ \A i \in lo..hi : Get(d, i) = Get(c, i)
         /\ \A i \in lo..hi : Meta(d, i) = Meta(c, i)
<1> DEFINE n == hi + 1
           batch == EntryBatch(n, e, LastChecksum(c, lo, hi))
<1>1. /\ lo \in Position /\ lo \in Nat /\ hi \in Nat /\ lo <= hi + 1 /\ lo..hi \subseteq Position
      /\ DOMAIN c = {ZeroKey} \cup Keys(lo..hi)
  BY HoldsFacts
<1>2. n \in Position /\ n \in Nat /\ {n} \subseteq Position /\ lo..n = (lo..hi) \cup {n} /\ n \notin lo..hi
  BY <1>1 DEF Position
<1>3. DOMAIN batch = Keys({n}) BY DEF EntryBatch
<1>4. d = [k \in DOMAIN c \cup Keys({n}) |-> IF k \in Keys({n}) THEN batch[k] ELSE c[k]]
  BY <1>3 DEF Put
<1>5. DOMAIN c \cup Keys({n}) = {ZeroKey} \cup Keys(lo..n)
  <2>1. Keys(lo..hi) \cup Keys({n}) = Keys((lo..hi) \cup {n}) BY <1>1, <1>2, KeysMinus
  <2> QED BY <1>1, <1>2, <2>1
<1>6. d = [k \in {ZeroKey} \cup Keys(lo..n) |-> d[k]] BY <1>4, <1>5
<1>7. /\ LogIndexToMetaIndex(n) \in Keys({n}) /\ LogIndexToDataIndex(n) \in Keys({n})
      /\ LogIndexToMetaIndex(n) # LogIndexToDataIndex(n)
  BY <1>2, KeysOf, KeyFacts
<1>8. batch[LogIndexToMetaIndex(n)] = MetaValue(n, e, LastChecksum(c, lo, hi))
      /\ batch[LogIndexToDataIndex(n)] = e.value
  BY <1>7 DEF EntryBatch
<1>9. d[LogIndexToMetaIndex(n)] = MetaValue(n, e, LastChecksum(c, lo, hi))
      /\ d[LogIndexToDataIndex(n)] = e.value
  BY <1>4, <1>7, <1>8
<1>10. Meta(d, n) = MetaValue(n, e, LastChecksum(c, lo, hi)) BY <1>9 DEF Meta
<1>11. Get(d, n) = e
  <2>1. MetaValue(n, e, LastChecksum(c, lo, hi)).term = e.term
        /\ MetaValue(n, e, LastChecksum(c, lo, hi)).type = e.type
    BY DEF MetaValue
  <2> QED BY <1>9, <2>1, LogAssumption DEF Get
<1>12. ASSUME NEW i \in lo..hi
       PROVE  /\ d[LogIndexToMetaIndex(i)] = c[LogIndexToMetaIndex(i)]
              /\ d[LogIndexToDataIndex(i)] = c[LogIndexToDataIndex(i)]
  <2>1. i \in Position /\ i # n BY <1>1, <1>2
  <2>2. LogIndexToMetaIndex(i) \notin Keys({n}) /\ LogIndexToDataIndex(i) \notin Keys({n})
    BY <1>2, <2>1, KeysOf
  <2>3. LogIndexToMetaIndex(i) \in DOMAIN c /\ LogIndexToDataIndex(i) \in DOMAIN c
    BY <1>1, <2>1, KeysOf
  <2> QED BY <1>4, <2>2, <2>3
<1>13. \A i \in lo..hi : Get(d, i) = Get(c, i) /\ Meta(d, i) = Meta(c, i) BY <1>12 DEF Get, Meta
<1>14. \A i \in lo..n : EntryAt(d, i)
  <2>1. EntryAt(d, n)
    <3>1. Meta(d, n).pre_chk_all = LastChecksum(c, lo, hi) BY <1>10 DEF MetaValue
    <3> QED BY <1>10, <1>11, <3>1 DEF EntryAt
  <2>2. \A i \in lo..hi : EntryAt(d, i) BY <1>13 DEF Holds, EntryAt
  <2> QED BY <1>2, <2>1, <2>2
<1>15. \A i \in lo..n : i + 1 <= n => Meta(d, i + 1).pre_chk_all = Meta(d, i).chk_all
  <2> SUFFICES ASSUME NEW i \in lo..n, i + 1 <= n
               PROVE  Meta(d, i + 1).pre_chk_all = Meta(d, i).chk_all
    OBVIOUS
  <2>1. i \in lo..hi BY <1>1, <1>2
  <2>2. CASE i = hi
    <3>1. Meta(d, n).pre_chk_all = LastChecksum(c, lo, hi) BY <1>10 DEF MetaValue
    <3>2. LastChecksum(c, lo, hi) = Meta(c, hi).chk_all BY <1>1, <2>1, <2>2 DEF LastChecksum
    <3> QED BY <1>13, <2>1, <2>2, <3>1, <3>2
  <2>3. CASE i # hi
    <3>1. i + 1 \in lo..hi /\ i + 1 <= hi BY <1>1, <2>1, <2>3
    <3> QED BY <1>13, <2>1, <3>1 DEF Holds
  <2> QED BY <2>2, <2>3
<1>16. ~(n < lo) BY <1>1, <1>2
<1>17. Holds(d, lo, n)
  <2>1. lo <= n + 1 /\ n <= MaxIndex BY <1>1
  <2> HIDE DEF n
  <2> QED BY <1>1, <1>2, <1>6, <1>14, <1>15, <1>16, <2>1 DEF Holds
<1> QED BY <1>10, <1>11, <1>13, <1>17

(* Key 0 and the entries of I.                                             *)
Remaining(c, I) == [k \in {ZeroKey} \cup Keys(I) |-> c[k]]

(* Entries that are left as they were.                                     *)
LEMMA HoldsPart ==
  ASSUME NEW c, NEW lo, NEW hi, Holds(c, lo, hi), NEW a \in Position, NEW b \in Nat,
         lo <= a, b <= hi, a <= b + 1,
         NEW d, d = Remaining(d, a..b),
         \A k \in Keys(a..b) : d[k] = c[k],
         b < a => d[ZeroKey].append = a
  PROVE  /\ Holds(d, a, b)
         /\ \A i \in a..b : Get(d, i) = Get(c, i)
         /\ \A i \in a..b : Meta(d, i) = Meta(c, i)
<1>1. lo \in Nat /\ hi \in Nat /\ hi <= MaxIndex /\ MaxIndex \in Nat BY HoldsFacts, LogAssumption
<1>2. a \in Nat /\ a..b \subseteq Position /\ a..b \subseteq lo..hi BY <1>1 DEF Position
<1>3. ASSUME NEW i \in a..b
      PROVE  /\ d[LogIndexToMetaIndex(i)] = c[LogIndexToMetaIndex(i)]
             /\ d[LogIndexToDataIndex(i)] = c[LogIndexToDataIndex(i)]
  BY <1>2, KeysOf
<1>4. \A i \in a..b : Get(d, i) = Get(c, i) /\ Meta(d, i) = Meta(c, i) BY <1>3 DEF Get, Meta
<1>5. \A i \in a..b : EntryAt(d, i) BY <1>2, <1>4 DEF Holds, EntryAt
<1>6. ASSUME NEW i \in a..b, i + 1 <= b
      PROVE  Meta(d, i + 1).pre_chk_all = Meta(d, i).chk_all
  <2>1. i \in lo..hi /\ i + 1 <= hi /\ i + 1 \in a..b BY <1>1, <1>2, <1>6
  <2>2. Meta(c, i + 1).pre_chk_all = Meta(c, i).chk_all BY <2>1 DEF Holds
  <2> QED BY <1>4, <2>1, <2>2
<1>7. b <= MaxIndex BY <1>1
<1>8. Holds(d, a, b) BY <1>5, <1>6, <1>7 DEF Holds, Remaining
<1> QED BY <1>4, <1>8

LEMMA DeletedKeys ==
  ASSUME NEW H \in SUBSET Position, NEW c, DOMAIN c = {ZeroKey} \cup Keys(H),
         NEW I \in SUBSET H
  PROVE  Delete(c, Keys(I)) = Remaining(c, H \ I)
<1>1. Keys(H) \ Keys(I) = Keys(H \ I) BY KeysMinus
<1>2. ZeroKey \notin Keys(I) BY KeysOf
<1>3. DOMAIN c \ Keys(I) = {ZeroKey} \cup Keys(H \ I) BY <1>1, <1>2
<1> QED BY <1>3 DEF Delete, Remaining

(* Key 0 alone, after the last entry is gone.                              *)
LEMMA HoldsNothing ==
  ASSUME NEW c, NEW lo, NEW hi, Holds(c, lo, hi), NEW a \in Position, lo <= a, a <= hi + 1, NEW s,
         NEW d, d = Put(Delete(c, Keys(lo..hi)), ZeroBatch(a, s))
  PROVE  Holds(d, a, a - 1) /\ LastChecksum(d, a, a - 1) = s
<1>0. lo \in Nat /\ hi \in Nat BY HoldsFacts
<1>1. lo \in Nat /\ hi \in Nat /\ a \in Nat /\ a > 0 BY <1>0 DEF Position
<1>2. a - 1 \in Nat /\ a - 1 < a /\ a - 1 <= hi /\ a <= a - 1 + 1 /\ a..(a - 1) = {} BY <1>1
<1>3. Keys({}) = {} BY DEF Keys
<1>4. Delete(c, Keys(lo..hi)) = Remaining(c, {})
  <2>1. PICK H : H = lo..hi OBVIOUS
  <2>2. H \in SUBSET Position /\ DOMAIN c = {ZeroKey} \cup Keys(H) /\ H \in SUBSET H
    BY <2>1, HoldsFacts
  <2>3. Delete(c, Keys(H)) = Remaining(c, H \ H) BY <2>2, DeletedKeys
  <2>4. H \ H = {} OBVIOUS
  <2> QED BY <2>1, <2>3, <2>4
<1>5. Delete(c, Keys(lo..hi)) = [k \in {ZeroKey} |-> c[k]]
  <2>1. {ZeroKey} \cup Keys({}) = {ZeroKey} BY <1>3
  <2> QED BY <1>4, <2>1 DEF Remaining
<1>6. ZeroBatch(a, s) = [k \in {ZeroKey} |-> [append |-> a, checksum |-> s]] BY DEF ZeroBatch
<1>7. d = [k \in {ZeroKey} |-> [append |-> a, checksum |-> s]]
  BY <1>5, <1>6 DEF Put
<1>8. d[ZeroKey].append = a /\ d[ZeroKey].checksum = s BY <1>7
<1>9. {ZeroKey} \cup Keys(a..(a - 1)) = {ZeroKey} BY <1>2, <1>3
<1>10. d = [k \in {ZeroKey} |-> d[k]] BY <1>7
<1>11. d = Remaining(d, a..(a - 1)) BY <1>9, <1>10 DEF Remaining
<1>12. \A k \in Keys(a..(a - 1)) : d[k] = c[k] BY <1>2, <1>3
<1>13. Holds(d, a, a - 1) BY <1>2, <1>8, <1>11, <1>12, HoldsPart
<1> QED BY <1>2, <1>8, <1>13 DEF LastChecksum

(* What DeleteFrom writes.                                                 *)
LEMMA HoldsTruncated ==
  ASSUME NEW c, NEW lo, NEW hi, Holds(c, lo, hi), NEW from \in lo..hi,
         NEW d, d = IF from = lo
                      THEN Put(Delete(c, Keys(from..hi)), ZeroBatch(from, Meta(c, from).pre_chk_all))
                      ELSE Delete(c, Keys(from..hi))
  PROVE  /\ from - 1 \in Nat
         /\ Holds(d, lo, from - 1)
         /\ \A i \in lo..(from - 1) : Get(d, i) = Get(c, i)
         /\ LastChecksum(d, lo, from - 1) = Meta(c, from).pre_chk_all
<1>0. lo \in Nat /\ hi \in Nat /\ lo \in Position BY HoldsFacts
<1>1. lo \in Nat /\ lo > 0 /\ hi \in Nat /\ lo \in Position BY <1>0 DEF Position
<1>2. from \in Nat /\ from \in Position /\ from - 1 \in Nat /\ lo <= from /\ from <= hi /\ from <= hi + 1
  BY <1>1 DEF Position
<1>3. CASE from = lo
  <2>1. Holds(d, from, from - 1) /\ LastChecksum(d, from, from - 1) = Meta(c, from).pre_chk_all
    BY <1>2, <1>3, HoldsNothing
  <2>2. lo..(from - 1) = {} BY <1>1, <1>3
  <2> QED BY <1>2, <1>3, <2>1, <2>2
<1>4. CASE from # lo
  <2>10. PICK H : H = lo..hi OBVIOUS
  <2>11. PICK I : I = from..hi OBVIOUS
  <2>1. H \in SUBSET Position /\ DOMAIN c = {ZeroKey} \cup Keys(H) BY <2>10, HoldsFacts
  <2>12. I \in SUBSET H /\ H \ I = lo..(from - 1) BY <1>1, <1>2, <2>10, <2>11
  <2>2. Delete(c, Keys(I)) = Remaining(c, H \ I) BY <2>1, <2>12, DeletedKeys
  <2>3. d = [k \in {ZeroKey} \cup Keys(lo..(from - 1)) |-> c[k]] BY <1>4, <2>11, <2>12, <2>2 DEF Remaining
  <2>4. d = Remaining(d, lo..(from - 1)) /\ \A k \in Keys(lo..(from - 1)) : d[k] = c[k]
    BY <2>3 DEF Remaining
  <2>5. lo <= from - 1 /\ from - 1 <= hi /\ lo <= (from - 1) + 1 /\ ~(from - 1 < lo) /\ lo <= lo
    BY <1>1, <1>2, <1>4
  <2>6. /\ Holds(d, lo, from - 1)
        /\ \A i \in lo..(from - 1) : Get(d, i) = Get(c, i)
        /\ \A i \in lo..(from - 1) : Meta(d, i) = Meta(c, i)
    BY <1>1, <1>2, <2>4, <2>5, HoldsPart
  <2>7. from - 1 \in lo..(from - 1) /\ from - 1 \in lo..hi /\ (from - 1) + 1 = from
    BY <1>1, <1>2, <2>5
  <2>8. Meta(c, from).pre_chk_all = Meta(c, from - 1).chk_all BY <1>2, <2>7 DEF Holds
  <2>9. LastChecksum(d, lo, from - 1) = Meta(d, from - 1).chk_all BY <2>5 DEF LastChecksum
  <2> QED BY <1>2, <2>6, <2>7, <2>8, <2>9
<1> QED BY <1>3, <1>4

(* What DeleteUtil writes.                                                 *)
Compacted(c, d, lo, hi, to, s) ==
  /\ to < hi => s = LastChecksum(c, lo, hi)
  /\ to = hi => d = Put(Delete(c, Keys(lo..hi)), ZeroBatch(hi + 1, s))
  /\ to # hi => d = Delete(c, Keys(lo..to))

LEMMA HoldsCompacted ==
  ASSUME NEW c, NEW lo, NEW hi, Holds(c, lo, hi), NEW to \in lo..hi, NEW s, NEW d,
         Compacted(c, d, lo, hi, to, s)
  PROVE  /\ to + 1 \in Nat
         /\ Holds(d, to + 1, hi)
         /\ \A i \in (to + 1)..hi : Get(d, i) = Get(c, i)
         /\ LastChecksum(d, to + 1, hi) = s
<1> USE DEF Compacted
<1>0. lo \in Nat /\ hi \in Nat /\ lo \in Position BY HoldsFacts
<1>1. lo \in Nat /\ lo > 0 /\ hi \in Nat /\ lo \in Position BY <1>0 DEF Position
<1>2. to \in Nat /\ lo <= to /\ to <= hi /\ to + 1 \in Nat /\ to + 1 \in Position /\ lo <= to + 1
      /\ to + 1 <= hi + 1
  BY <1>1 DEF Position
<1>3. CASE to = hi
  <2>1. Holds(d, hi + 1, (hi + 1) - 1) /\ LastChecksum(d, hi + 1, (hi + 1) - 1) = s
    BY <1>2, <1>3, HoldsNothing
  <2>2. (hi + 1) - 1 = hi /\ (to + 1)..hi = {} BY <1>1, <1>3
  <2> QED BY <1>2, <1>3, <2>1, <2>2
<1>4. CASE to # hi
  <2>0. PICK a : a = to + 1 OBVIOUS
  <2>10. PICK H : H = lo..hi OBVIOUS
  <2>11. PICK I : I = lo..to OBVIOUS
  <2>1. H \in SUBSET Position /\ DOMAIN c = {ZeroKey} \cup Keys(H) BY <2>10, HoldsFacts
  <2>12. I \in SUBSET H /\ H \ I = a..hi BY <1>1, <1>2, <2>10, <2>11, <2>0
  <2>2. Delete(c, Keys(I)) = Remaining(c, H \ I) BY <2>1, <2>12, DeletedKeys
  <2>3. d = [k \in {ZeroKey} \cup Keys(a..hi) |-> c[k]] BY <1>4, <2>11, <2>12, <2>2 DEF Remaining
  <2>4. d = Remaining(d, a..hi) /\ \A k \in Keys(a..hi) : d[k] = c[k]
    BY <2>3 DEF Remaining
  <2>5. /\ a \in Position /\ lo <= a /\ a <= hi + 1 /\ ~(hi < a) /\ ~(hi < lo) /\ to < hi
        /\ hi <= hi /\ hi \in a..hi
    BY <1>1, <1>2, <1>4, <2>0 DEF Position
  <2>6. /\ Holds(d, a, hi)
        /\ \A i \in a..hi : Get(d, i) = Get(c, i)
        /\ \A i \in a..hi : Meta(d, i) = Meta(c, i)
    BY <1>1, <2>4, <2>5, HoldsPart
  <2>7. LastChecksum(d, a, hi) = Meta(d, hi).chk_all /\ LastChecksum(c, lo, hi) = Meta(c, hi).chk_all
    BY <2>5 DEF LastChecksum
  <2> QED BY <1>2, <2>0, <2>5, <2>6, <2>7
<1> QED BY <1>3, <1>4

-----------------------------------------------------------------------------
(***************************************************************************)
(* The invariant of the log.                                               *)
(***************************************************************************)

(* The mirror in memory of a log that holds lo..hi.                        *)
Mirror(lo, hi) ==
  /\ first = IF hi < lo THEN 0 ELSE lo
  /\ last = IF hi < lo THEN 0 ELSE hi
  /\ append = hi + 1
  /\ last_checksum = LastChecksum(db, lo, hi)

(* As long as an operation has yet to write config_db, the mirror is that  *)
(* from before it.                                                         *)
MirrorBeforeAppend(lo, hi) ==
  /\ lo <= hi /\ op.from = hi
  /\ first = IF lo = hi THEN 0 ELSE lo
  /\ last = IF lo = hi THEN 0 ELSE hi - 1
  /\ append = hi

MirrorBeforeDelete(lo, hi) ==
  /\ op.from = hi + 1 /\ op.checksum = LastChecksum(db, lo, hi)
  /\ first = lo
  /\ last \in Nat /\ hi < last

MirrorDuring(lo, hi) ==
  /\ op.step \in {"none", "first"} => Mirror(lo, hi)
  /\ op.step = "append" => MirrorBeforeAppend(lo, hi)
  /\ op.step = "delete" => MirrorBeforeDelete(lo, hi)

(* The configurations in config_db are those of the log's entries lo..hi,  *)
(* and others up to index top that are none of them.                       *)
Tied(lo, hi, top) ==
  /\ Indices(config_db) \subseteq 1..top
  /\ \A i \in lo..hi :
       /\ i \in Indices(config_db) <=> Get(db, i).type = "kConfig"
       /\ i \in Indices(config_db) => config_db[LogIndexToDataIndex(i)] = Get(db, i).value

TiedDuring(lo, hi) ==
  /\ op.step \in {"none", "first"} => Tied(lo, hi, hi)
  /\ op.step = "append" => Tied(lo, hi - 1, hi - 1) /\ Get(db, hi).type = "kConfig"
  /\ op.step = "delete" => Tied(lo, hi, last)

LogAt(lo, hi) ==
  /\ Holds(db, lo, hi)
  /\ up => MirrorDuring(lo, hi)
  /\ ~torn => TiedDuring(lo, hi)

IsConfigDb(c) ==
  c = EmptyDb \/ (Indices(c) \in SUBSET Position /\ DOMAIN c = {ZeroKey} \cup Keys(Indices(c)))

OpOK ==
  /\ op.step \in {"none", "first", "append", "delete"}
  /\ op.step = "none" <=> op = Done
  /\ ~up => op = Done
  /\ up => (op.step = "first" <=> config_db = EmptyDb)

SavedOK ==
  /\ \A c \in dbSaved : c = EmptyDb \/ IsLog(c)
  /\ EmptyDb \in dbSaved <=> db = EmptyDb
  /\ db = EmptyDb => dbSaved = {EmptyDb}
  /\ \A c \in configSaved : IsConfigDb(c)

ConfigMirror ==
  /\ IsConfigDb(config_db)
  /\ up => config_indices = {KeyToLogIndex(k) : k \in DOMAIN config_db}

DiskInv ==
  /\ OpOK /\ SavedOK /\ ConfigMirror
  /\ db = EmptyDb => ~up /\ (~torn => config_db = EmptyDb)
  /\ db # EmptyDb => \E lo, hi \in Nat : LogAt(lo, hi)

(* Between two operations of a running server.                             *)
LEMMA BetweenOps ==
  ASSUME DiskInv, up, op = Done
  PROVE  \E lo, hi \in Nat : Holds(db, lo, hi) /\ Mirror(lo, hi) /\ (~torn => Tied(lo, hi, hi))
<1>1. op.step = "none" BY DEF DiskInv, OpOK
<1>2. db # EmptyDb BY DEF DiskInv
<1>3. PICK lo \in Nat, hi \in Nat : LogAt(lo, hi) BY <1>2 DEF DiskInv
<1>4. Mirror(lo, hi) BY <1>1, <1>3 DEF LogAt, MirrorDuring
<1>5. ~torn => Tied(lo, hi, hi) BY <1>1, <1>3 DEF LogAt, TiedDuring
<1> QED BY <1>3, <1>4, <1>5 DEF LogAt

LEMMA PendingFacts ==
  ASSUME NEW step, NEW from, NEW checksum
  PROVE  /\ Pending(step, from, checksum).step = step
         /\ Pending(step, from, checksum).from = from
         /\ Pending(step, from, checksum).checksum = checksum
         /\ Done.step = "none"
         /\ step # "none" => Pending(step, from, checksum) # Done
BY DEF Pending, Done

(* What an append does to the log.                                         *)
LEMMA AppendEffect ==
  ASSUME DiskInv, NEW e \in Entries, AppendOne(e)
  PROVE  \E lo, hi \in Nat :
            /\ Holds(db, lo, hi) /\ Mirror(lo, hi) /\ (~torn => Tied(lo, hi, hi))
            /\ hi + 1 <= MaxIndex
            /\ Holds(db', lo, hi + 1)
            /\ Get(db', hi + 1) = e
            /\ Meta(db', hi + 1) = MetaValue(hi + 1, e, LastChecksum(db, lo, hi))
            /\ \A i \in lo..hi : Get(db', i) = Get(db, i)
            /\ db' # EmptyDb /\ dbSaved' = {db'}
            /\ IF e.type = "kConfig"
                 THEN op' = Pending("append", hi + 1, NoChecksum) /\ UNCHANGED memory
                 ELSE /\ Grow(Meta(db', hi + 1))
                      /\ UNCHANGED <<config_indices, op>>
<1>1. up /\ op = Done BY DEF AppendOne
<1>2. PICK lo \in Nat, hi \in Nat : Holds(db, lo, hi) /\ Mirror(lo, hi) /\ (~torn => Tied(lo, hi, hi))
  BY <1>1, BetweenOps
<1>3. lo \in Nat /\ hi \in Nat /\ lo <= hi + 1 /\ lo > 0
  <2>1. lo \in Position /\ lo <= hi + 1 BY <1>2, HoldsFacts
  <2> QED BY <2>1 DEF Position
<1>4. (IF first = 0 THEN append ELSE last + 1) = hi + 1 BY <1>2, <1>3 DEF Mirror
<1>5. append = hi + 1 /\ last_checksum = LastChecksum(db, lo, hi) BY <1>2 DEF Mirror
<1>6. PICK batch : batch = EntryBatch(hi + 1, e, LastChecksum(db, lo, hi)) OBVIOUS
<1>7. /\ hi + 1 <= MaxIndex
      /\ WriteDb(Put(db, batch), TRUE)
      /\ IF e.type = "kConfig"
           THEN op' = Pending("append", hi + 1, NoChecksum) /\ UNCHANGED memory
           ELSE /\ Grow(batch[LogIndexToMetaIndex(hi + 1)])
                /\ UNCHANGED <<config_indices, op>>
  BY <1>4, <1>5, <1>6 DEF AppendOne
<1>8. db' = Put(db, batch) /\ dbSaved' = {db'} BY <1>7 DEF WriteDb
<1>9. PICK d : d = db' OBVIOUS
<1>10. d = Put(db, EntryBatch(hi + 1, e, LastChecksum(db, lo, hi))) BY <1>6, <1>8, <1>9
<1>11. /\ Holds(d, lo, hi + 1)
       /\ Get(d, hi + 1) = e
       /\ Meta(d, hi + 1) = MetaValue(hi + 1, e, LastChecksum(db, lo, hi))
       /\ \A i \in lo..hi : Get(d, i) = Get(db, i)
  BY <1>2, <1>7, <1>10, HoldsAppend
<1>12. d # EmptyDb BY <1>11, HoldsFacts
<1>13. batch[LogIndexToMetaIndex(hi + 1)] = Meta(d, hi + 1)
  <2>1. LogIndexToMetaIndex(hi + 1) \in Keys({hi + 1}) BY DEF Keys
  <2> QED BY <1>6, <1>11, <2>1 DEF EntryBatch
<1> QED BY <1>2, <1>7, <1>8, <1>9, <1>11, <1>12, <1>13

(* What a truncation does to it.                                           *)
LEMMA TruncateEffect ==
  ASSUME DiskInv, NEW i \in 0..MaxIndex, DeleteFrom(i)
  PROVE  \E lo, hi, from \in Nat :
            /\ Holds(db, lo, hi) /\ Mirror(lo, hi) /\ (~torn => Tied(lo, hi, hi))
            /\ from \in lo..hi /\ from - 1 \in Nat
            /\ Holds(db', lo, from - 1)
            /\ \A j \in lo..(from - 1) : Get(db', j) = Get(db, j)
            /\ db' # EmptyDb /\ dbSaved' = dbSaved \cup {db'}
            /\ op' = Pending("delete", from, LastChecksum(db', lo, from - 1))
<1>0. MaxIndex \in Nat BY LogAssumption
<1>1. up /\ op = Done BY DEF DeleteFrom
<1>2. PICK lo \in Nat, hi \in Nat : Holds(db, lo, hi) /\ Mirror(lo, hi) /\ (~torn => Tied(lo, hi, hi))
  BY <1>1, BetweenOps
<1>3. first = lo /\ last = hi /\ ~(hi < lo) BY <1>2 DEF Mirror, DeleteFrom
<1>4. PICK from : from = IF i < first THEN first ELSE i OBVIOUS
<1>5. from \in Nat /\ from \in lo..hi BY <1>0, <1>3, <1>4 DEF DeleteFrom
<1>6. PICK d : d = db' OBVIOUS
<1>7. /\ d = IF from = lo
               THEN Put(Delete(db, Keys(from..hi)), ZeroBatch(from, Meta(db, from).pre_chk_all))
               ELSE Delete(db, Keys(from..hi))
      /\ dbSaved' = dbSaved \cup {d}
      /\ op' = Pending("delete", from, Meta(db, from).pre_chk_all)
  BY <1>3, <1>4, <1>6 DEF DeleteFrom, WriteDb, Meta, GetMeta
<1>8. /\ from - 1 \in Nat
      /\ Holds(d, lo, from - 1)
      /\ \A j \in lo..(from - 1) : Get(d, j) = Get(db, j)
      /\ LastChecksum(d, lo, from - 1) = Meta(db, from).pre_chk_all
  BY <1>2, <1>5, <1>7, HoldsTruncated
<1>9. d # EmptyDb BY <1>8, HoldsFacts
<1> QED BY <1>2, <1>5, <1>6, <1>7, <1>8, <1>9

(* What a compaction does to it.                                           *)
LEMMA CompactEffect ==
  ASSUME DiskInv, NEW i \in 0..MaxIndex, DeleteUtil(i)
  PROVE  \E lo, hi, to \in Nat :
            /\ Holds(db, lo, hi) /\ Mirror(lo, hi) /\ (~torn => Tied(lo, hi, hi))
            /\ to \in lo..hi
            /\ Holds(db', to + 1, hi)
            /\ \A j \in (to + 1)..hi : Get(db', j) = Get(db, j)
            /\ db' # EmptyDb /\ dbSaved' = dbSaved \cup {db'}
            /\ Mirror(to + 1, hi)'
<1>0. MaxIndex \in Nat BY LogAssumption
<1>1. up /\ op = Done BY DEF DeleteUtil
<1>2. PICK lo \in Nat, hi \in Nat : Holds(db, lo, hi) /\ Mirror(lo, hi) /\ (~torn => Tied(lo, hi, hi))
  BY <1>1, BetweenOps
<1>3. first = lo /\ last = hi /\ ~(hi < lo) /\ last_checksum = LastChecksum(db, lo, hi)
  BY <1>2 DEF Mirror, DeleteUtil
<1>4. PICK to : to = IF i > last THEN last ELSE i OBVIOUS
<1>5. to \in Nat /\ to \in lo..hi BY <1>0, <1>3, <1>4 DEF DeleteUtil
<1>6. PICK d : d = db' OBVIOUS
<1>7. PICK s : s = IF to < hi THEN LastChecksum(db, lo, hi) ELSE Meta(db, to).chk_all OBVIOUS
<1>8. /\ d = IF to = hi
               THEN Put(Delete(db, Keys(lo..to)), ZeroBatch(hi + 1, s))
               ELSE Delete(db, Keys(lo..to))
      /\ dbSaved' = dbSaved \cup {d}
      /\ IF to = hi THEN SetMemory(0, 0, hi + 1, s) ELSE SetMemory(to + 1, hi, hi + 1, s)
  BY <1>3, <1>4, <1>6, <1>7 DEF DeleteUtil, WriteDb, Meta, GetMeta
<1>9. /\ Holds(d, to + 1, hi)
      /\ \A j \in (to + 1)..hi : Get(d, j) = Get(db, j)
      /\ LastChecksum(d, to + 1, hi) = s
  <2>1. Holds(db, lo, hi) /\ to \in lo..hi BY <1>2, <1>5
  <2>2. Compacted(db, d, lo, hi, to, s) BY <1>7, <1>8 DEF Compacted
  <2> QED BY <2>1, <2>2, HoldsCompacted
<1>10. d # EmptyDb BY <1>9, HoldsFacts
<1>11. Mirror(to + 1, hi)'
  <2>1. LastChecksum(db', to + 1, hi) = s BY <1>6, <1>9
  <2>2. hi < to + 1 <=> to = hi BY <1>5
  <2>3. /\ first' = IF to = hi THEN 0 ELSE to + 1
        /\ last' = IF to = hi THEN 0 ELSE hi
        /\ append' = hi + 1 /\ last_checksum' = s
    BY <1>8 DEF SetMemory
  <2> QED BY <2>1, <2>2, <2>3 DEF Mirror
<1> QED BY <1>2, <1>5, <1>6, <1>8, <1>9, <1>10, <1>11

-----------------------------------------------------------------------------
(* The configurations.                                                     *)

LEMMA ConfigFacts ==
  ASSUME NEW c, IsConfigDb(c)
  PROVE  /\ Indices(c) \in SUBSET Position
         /\ c # EmptyDb => DOMAIN c = {ZeroKey} \cup Keys(Indices(c))
         /\ c # EmptyDb => {KeyToLogIndex(k) : k \in DOMAIN c} = {0} \cup Indices(c)
         /\ c = EmptyDb => Indices(c) = {} /\ DOMAIN c = {}
<1>1. DOMAIN EmptyDb = {} BY DEF EmptyDb
<1>2. Indices(EmptyDb) = {} BY <1>1 DEF Indices
<1>3. ASSUME c # EmptyDb
      PROVE  /\ Indices(c) \in SUBSET Position /\ DOMAIN c = {ZeroKey} \cup Keys(Indices(c))
             /\ {KeyToLogIndex(k) : k \in DOMAIN c} = {0} \cup Indices(c)
  <2>1. Indices(c) \in SUBSET Position /\ DOMAIN c = {ZeroKey} \cup Keys(Indices(c))
    BY <1>3 DEF IsConfigDb
  <2>2. PICK I : I = Indices(c) OBVIOUS
  <2>3. {KeyToLogIndex(k) : k \in DOMAIN c} = {0} \cup I BY <2>1, <2>2, IndicesOf
  <2> QED BY <2>1, <2>2, <2>3
<1> QED BY <1>1, <1>2, <1>3

LEMMA ConfigAdded ==
  ASSUME NEW c, IsConfigDb(c), c # EmptyDb, NEW i \in Position, NEW value,
         NEW d, d = Put(c, [k \in Keys({i}) |-> value[k]])
  PROVE  /\ IsConfigDb(d) /\ d # EmptyDb
         /\ Indices(d) = Indices(c) \cup {i}
         /\ d[LogIndexToDataIndex(i)] = value[LogIndexToDataIndex(i)]
         /\ \A j \in Indices(c) : j # i => d[LogIndexToDataIndex(j)] = c[LogIndexToDataIndex(j)]
<1>1. PICK I : I = Indices(c) OBVIOUS
<1>2. I \in SUBSET Position /\ DOMAIN c = {ZeroKey} \cup Keys(I) BY <1>1, ConfigFacts
<1>3. PICK J : J = {i} OBVIOUS
<1>4. J \subseteq Position /\ I \subseteq Position /\ I \cup J \subseteq Position BY <1>2, <1>3
<1>5. d = [k \in DOMAIN c \cup Keys(J) |-> IF k \in Keys(J) THEN value[k] ELSE c[k]]
  BY <1>3 DEF Put
<1>6. Keys(I) \cup Keys(J) = Keys(I \cup J) BY <1>4, KeysMinus
<1>7. DOMAIN d = {ZeroKey} \cup Keys(I \cup J) BY <1>2, <1>5, <1>6
<1>8. Indices(d) = I \cup J BY <1>4, <1>7, IndicesOf
<1>9. DOMAIN EmptyDb = {} BY DEF EmptyDb
<1>10. d # EmptyDb BY <1>7, <1>9
<1>11. IsConfigDb(d) BY <1>4, <1>7, <1>8 DEF IsConfigDb
<1>12. LogIndexToDataIndex(i) \in Keys(J) BY <1>3, <1>4, KeysOf
<1>13. d[LogIndexToDataIndex(i)] = value[LogIndexToDataIndex(i)] BY <1>5, <1>12
<1>14. ASSUME NEW j \in I, j # i PROVE d[LogIndexToDataIndex(j)] = c[LogIndexToDataIndex(j)]
  <2>1. j \in Position /\ j \notin J BY <1>2, <1>3, <1>14
  <2>2. LogIndexToDataIndex(j) \notin Keys(J) /\ LogIndexToDataIndex(j) \in DOMAIN c
    BY <1>2, <1>4, <2>1, KeysOf
  <2> QED BY <1>5, <2>2
<1> QED BY <1>1, <1>3, <1>8, <1>10, <1>11, <1>13, <1>14

LEMMA ConfigRemoved ==
  ASSUME NEW c, IsConfigDb(c), c # EmptyDb, NEW J \in SUBSET Indices(c),
         NEW d, d = Delete(c, Keys(J))
  PROVE  /\ IsConfigDb(d) /\ d # EmptyDb
         /\ Indices(d) = Indices(c) \ J
         /\ \A j \in Indices(d) : d[LogIndexToDataIndex(j)] = c[LogIndexToDataIndex(j)]
<1>1. PICK I : I = Indices(c) OBVIOUS
<1>2. I \in SUBSET Position /\ DOMAIN c = {ZeroKey} \cup Keys(I) /\ J \in SUBSET I
  BY <1>1, ConfigFacts
<1>3. PICK R : R = I \ J OBVIOUS
<1>4. d = Remaining(c, R) BY <1>2, <1>3, DeletedKeys
<1>5. R \subseteq Position BY <1>2, <1>3
<1>6. DOMAIN d = {ZeroKey} \cup Keys(R) BY <1>4 DEF Remaining
<1>7. Indices(d) = R BY <1>5, <1>6, IndicesOf
<1>8. DOMAIN EmptyDb = {} BY DEF EmptyDb
<1>9. d # EmptyDb BY <1>6, <1>8
<1>10. IsConfigDb(d) BY <1>5, <1>6, <1>7 DEF IsConfigDb
<1>11. ASSUME NEW j \in R PROVE d[LogIndexToDataIndex(j)] = c[LogIndexToDataIndex(j)]
  <2>1. LogIndexToDataIndex(j) \in Keys(R) BY <1>5, KeysOf
  <2> QED BY <1>4, <2>1 DEF Remaining
<1> QED BY <1>1, <1>3, <1>7, <1>9, <1>10, <1>11

-----------------------------------------------------------------------------
(* Every step keeps the invariant of the log.                              *)

LEMMA DiskInit == Init => DiskInv
<1> SUFFICES ASSUME Init PROVE DiskInv OBVIOUS
<1>1. /\ db = EmptyDb /\ config_db = EmptyDb /\ dbSaved = {EmptyDb} /\ configSaved = {EmptyDb}
      /\ ~up /\ op = Done
  BY DEF Init
<1>2. OpOK BY <1>1, PendingFacts DEF OpOK
<1>3. IsConfigDb(EmptyDb) BY DEF IsConfigDb
<1>4. SavedOK BY <1>1, <1>3 DEF SavedOK
<1>5. ConfigMirror BY <1>1, <1>3 DEF ConfigMirror
<1> QED BY <1>1, <1>2, <1>4, <1>5 DEF DiskInv

(* What was read back by Open is the mirror.                               *)
LEMMA MirrorRecovered ==
  ASSUME NEW lo, NEW hi, Holds(db', lo, hi),
         NEW r, r = Recovered(db'), SetMemory(r.first, r.last, r.append, r.checksum)
  PROVE  Mirror(lo, hi)'
<1>1. lo \in Nat /\ hi \in Nat BY HoldsFacts
<1>2. CASE hi < lo
  <2>1. r = [first |-> 0, last |-> 0, append |-> hi + 1, checksum |-> LastChecksum(db', lo, hi)]
    BY <1>2, RecoveredOf
  <2> QED BY <1>2, <2>1 DEF SetMemory, Mirror
<1>3. CASE ~(hi < lo)
  <2>1. lo <= hi BY <1>1, <1>3
  <2>2. r = [first |-> lo, last |-> hi, append |-> hi + 1, checksum |-> LastChecksum(db', lo, hi)]
    BY <2>1, RecoveredOf
  <2> QED BY <1>3, <2>2 DEF SetMemory, Mirror
<1> QED BY <1>2, <1>3

LEMMA HoldsZero ==
  /\ Holds(ZeroBatch(1, NoChecksum), 1, 0)
  /\ ZeroBatch(1, NoChecksum) # EmptyDb
<1>1. PICK z : z = ZeroBatch(1, NoChecksum) OBVIOUS
<1>2. z = [k \in {ZeroKey} |-> [append |-> 1, checksum |-> NoChecksum]] BY <1>1 DEF ZeroBatch
<1>3. 1..0 = {} OBVIOUS
<1>4. Keys(1..0) = {} BY <1>3 DEF Keys
<1>5. z = [k \in {ZeroKey} \cup Keys(1..0) |-> z[k]] BY <1>2, <1>4
<1>6. z[ZeroKey].append = 1 BY <1>2
<1>7. 1 \in Position /\ 0 \in Nat /\ 0 <= MaxIndex BY LogAssumption DEF Position
<1>8. Holds(z, 1, 0) BY <1>3, <1>5, <1>6, <1>7 DEF Holds
<1>9. z # EmptyDb BY <1>8, HoldsFacts
<1> QED BY <1>1, <1>8, <1>9

LEMMA OpenKeeps == DiskInv /\ Open => DiskInv'
<1> SUFFICES ASSUME DiskInv, Open PROVE DiskInv' OBVIOUS
<1>1. /\ ~up /\ up' = TRUE
      /\ config_indices' = {KeyToLogIndex(k) : k \in DOMAIN config_db}
      /\ op' = IF config_db = EmptyDb THEN Pending("first", 0, NoChecksum) ELSE Done
      /\ UNCHANGED <<config_db, configSaved, torn>>
  BY DEF Open
<1>2. /\ db = EmptyDb => db' = ZeroBatch(1, NoChecksum) /\ dbSaved' = {db'}
      /\ db # EmptyDb => db' = db /\ dbSaved' = dbSaved
  BY DEF Open, WriteDb
<1>3. PICK r : r = Recovered(db') /\ SetMemory(r.first, r.last, r.append, r.checksum)
  BY DEF Open, WriteDb
<1>4. op'.step \in {"none", "first"} /\ (op'.step = "none" <=> op' = Done)
      /\ (op'.step = "first" <=> config_db' = EmptyDb)
  BY <1>1, PendingFacts
<1>5. OpOK' BY <1>1, <1>4 DEF OpOK
<1>6. ConfigMirror' BY <1>1 DEF DiskInv, ConfigMirror
<1>7. db' # EmptyDb /\ \E lo, hi \in Nat : Holds(db', lo, hi) /\ (~torn' => TiedDuring(lo, hi)')
  <2>1. CASE db = EmptyDb
    <3>1. db' # EmptyDb /\ Holds(db', 1, 0) BY <1>2, <2>1, HoldsZero
    <3>2. ASSUME ~torn' PROVE Tied(1, 0, 0)'
      <4>1. config_db' = EmptyDb BY <1>1, <2>1, <3>2 DEF DiskInv
      <4>2. Indices(config_db') = {} BY <4>1 DEF Indices, EmptyDb
      <4> QED BY <4>2 DEF Tied
    <3>3. ~torn' => TiedDuring(1, 0)' BY <1>4, <3>2 DEF TiedDuring
    <3> QED BY <3>1, <3>3
  <2>2. CASE db # EmptyDb
    <3>1. PICK lo \in Nat, hi \in Nat : LogAt(lo, hi) BY <2>2 DEF DiskInv
    <3>2. op.step = "none" BY <1>1 DEF DiskInv, OpOK
    <3>3. ~torn => Tied(lo, hi, hi) BY <3>1, <3>2 DEF LogAt, TiedDuring
    <3>4. ~torn' => Tied(lo, hi, hi)' BY <1>1, <1>2, <2>2, <3>3 DEF Tied
    <3>5. ~torn' => TiedDuring(lo, hi)' BY <1>4, <3>4 DEF TiedDuring
    <3>6. Holds(db', lo, hi) BY <1>2, <2>2, <3>1 DEF LogAt
    <3> QED BY <1>2, <2>2, <3>5, <3>6
  <2> QED BY <2>1, <2>2
<1>8. PICK lo \in Nat, hi \in Nat : Holds(db', lo, hi) /\ (~torn' => TiedDuring(lo, hi)') BY <1>7
<1>9. MirrorDuring(lo, hi)'
  <2>1. Mirror(lo, hi)' BY <1>3, <1>8, MirrorRecovered
  <2> QED BY <1>4, <2>1 DEF MirrorDuring
<1>10. LogAt(lo, hi)' BY <1>8, <1>9 DEF LogAt
<1>11. SavedOK'
  <2>1. CASE db = EmptyDb BY <1>1, <1>2, <1>7, <2>1 DEF DiskInv, SavedOK, IsLog
  <2>2. CASE db # EmptyDb BY <1>1, <1>2, <2>2 DEF DiskInv, SavedOK
  <2> QED BY <2>1, <2>2
<1> QED BY <1>5, <1>6, <1>7, <1>10, <1>11 DEF DiskInv

LEMMA FirstConfigKeeps == DiskInv /\ AppendFirstConfig => DiskInv'
<1> SUFFICES ASSUME DiskInv, AppendFirstConfig PROVE DiskInv' OBVIOUS
<1>1. /\ up /\ op.step = "first" /\ op' = Done /\ up' = up /\ torn' = torn
      /\ config_indices' = config_indices \cup {0}
      /\ config_db' = Put(config_db, [k \in {ZeroKey} |-> FirstConfig])
      /\ configSaved' = {config_db'}
      /\ UNCHANGED <<db, dbSaved, first, last, append, last_checksum>>
  BY DEF AppendFirstConfig, WriteConfigDb
<1>2. config_db = EmptyDb /\ db # EmptyDb BY <1>1 DEF DiskInv, OpOK
<1>3. DOMAIN EmptyDb = {} BY DEF EmptyDb
<1>4. DOMAIN config_db' = {ZeroKey} BY <1>1, <1>2, <1>3 DEF Put
<1>5. Indices(config_db') = {} BY <1>4 DEF Indices
<1>6. Keys({}) = {} BY DEF Keys
<1>7. IsConfigDb(config_db') /\ config_db' # EmptyDb
  BY <1>3, <1>4, <1>5, <1>6 DEF IsConfigDb
<1>8. op'.step = "none" BY <1>1, PendingFacts
<1>9. OpOK' BY <1>1, <1>7, <1>8 DEF OpOK
<1>10. SavedOK' BY <1>1, <1>7 DEF DiskInv, SavedOK
<1>11. ConfigMirror'
  <2>1. config_indices = {} BY <1>1, <1>2, <1>3 DEF DiskInv, ConfigMirror
  <2>2. KeyToLogIndex(ZeroKey) = 0 BY DEF KeyToLogIndex, ZeroKey
  <2>3. {KeyToLogIndex(k) : k \in DOMAIN config_db'} = {0} BY <1>4, <2>2
  <2> QED BY <1>1, <1>7, <2>1, <2>3 DEF ConfigMirror
<1>12. PICK lo \in Nat, hi \in Nat : LogAt(lo, hi) BY <1>2 DEF DiskInv
<1>13. MirrorDuring(lo, hi)'
  <2>1. Mirror(lo, hi) BY <1>1, <1>12 DEF LogAt, MirrorDuring
  <2>2. Mirror(lo, hi)' BY <1>1, <2>1 DEF Mirror
  <2> QED BY <1>8, <2>2 DEF MirrorDuring
<1>14. ASSUME ~torn' PROVE TiedDuring(lo, hi)'
  <2>1. Tied(lo, hi, hi) BY <1>1, <1>12, <1>14 DEF LogAt, TiedDuring
  <2>2. Indices(config_db) = {} BY <1>2, <1>3 DEF Indices
  <2>3. Tied(lo, hi, hi)' BY <1>1, <1>5, <2>1, <2>2 DEF Tied
  <2> QED BY <1>8, <2>3 DEF TiedDuring
<1>15. LogAt(lo, hi)' BY <1>1, <1>12, <1>13, <1>14 DEF LogAt
<1> QED BY <1>1, <1>2, <1>9, <1>10, <1>11, <1>15 DEF DiskInv

(* A synced write of db, or one that is not.                               *)
LEMMA SavedAfterWrite ==
  ASSUME DiskInv, db # EmptyDb, IsLog(db'), db' # EmptyDb, UNCHANGED configSaved,
         dbSaved' = {db'} \/ dbSaved' = dbSaved \cup {db'}
  PROVE  SavedOK'
BY DEF DiskInv, SavedOK

LEMMA AppendKeeps ==
  ASSUME DiskInv, NEW e \in Entries, AppendOne(e)
  PROVE  DiskInv'
<1>1. up /\ op = Done /\ UNCHANGED <<config_db, configSaved, up, torn>> BY DEF AppendOne
<1>2. PICK lo \in Nat, hi \in Nat :
            /\ Holds(db, lo, hi) /\ Mirror(lo, hi) /\ (~torn => Tied(lo, hi, hi))
            /\ hi + 1 <= MaxIndex
            /\ Holds(db', lo, hi + 1)
            /\ Get(db', hi + 1) = e
            /\ Meta(db', hi + 1) = MetaValue(hi + 1, e, LastChecksum(db, lo, hi))
            /\ \A i \in lo..hi : Get(db', i) = Get(db, i)
            /\ db' # EmptyDb /\ dbSaved' = {db'}
            /\ IF e.type = "kConfig"
                 THEN op' = Pending("append", hi + 1, NoChecksum) /\ UNCHANGED memory
                 ELSE /\ Grow(Meta(db', hi + 1))
                      /\ UNCHANGED <<config_indices, op>>
  BY AppendEffect
<1>3. lo > 0 /\ lo <= hi + 1 /\ lo \in Nat /\ hi \in Nat
  <2>1. lo \in Position /\ lo <= hi + 1 BY <1>2, HoldsFacts
  <2> QED BY <2>1 DEF Position
<1>4. db # EmptyDb /\ IsLog(db') BY <1>1, <1>2 DEF DiskInv, IsLog
<1>5. SavedOK' BY <1>1, <1>2, <1>4, SavedAfterWrite
<1>6. UNCHANGED config_indices BY <1>2 DEF memory
<1>7. ConfigMirror' BY <1>1, <1>6 DEF DiskInv, ConfigMirror
<1>8. op.step = "none" /\ config_db # EmptyDb BY <1>1, PendingFacts DEF DiskInv, OpOK
<1>9. CASE e.type = "kConfig"
  <2>1. op' = Pending("append", hi + 1, NoChecksum) /\ UNCHANGED memory BY <1>2, <1>9
  <2>2. op'.step = "append" /\ op'.from = hi + 1 /\ op' # Done BY <2>1, PendingFacts
  <2>3. OpOK' BY <1>1, <1>8, <2>2 DEF OpOK
  <2>4. MirrorBeforeAppend(lo, hi + 1)'
    <3>1. UNCHANGED <<first, last, append>> BY <2>1 DEF memory
    <3>2. hi < lo <=> lo = hi + 1 BY <1>3
    <3>3. (hi + 1) - 1 = hi BY <1>3
    <3> QED BY <1>2, <1>3, <2>2, <3>1, <3>2, <3>3 DEF Mirror, MirrorBeforeAppend
  <2>5. MirrorDuring(lo, hi + 1)' BY <2>2, <2>4 DEF MirrorDuring
  <2>6. ASSUME ~torn' PROVE TiedDuring(lo, hi + 1)'
    <3>1. Tied(lo, hi, hi) BY <1>1, <1>2, <2>6
    <3>2. Tied(lo, hi, hi)' BY <1>1, <1>2, <3>1 DEF Tied
    <3>3. (hi + 1) - 1 = hi BY <1>3
    <3> QED BY <1>2, <1>9, <2>2, <3>2, <3>3 DEF TiedDuring
  <2>7. LogAt(lo, hi + 1)' BY <1>2, <2>5, <2>6 DEF LogAt
  <2> QED BY <1>2, <1>3, <1>5, <1>7, <2>3, <2>7 DEF DiskInv
<1>10. CASE e.type # "kConfig"
  <2>1. Grow(Meta(db', hi + 1)) /\ UNCHANGED op BY <1>2, <1>10
  <2>2. OpOK' BY <1>1, <2>1 DEF DiskInv, OpOK
  <2>3. Mirror(lo, hi + 1)'
    <3>1. ~(hi + 1 < lo) BY <1>3
    <3>2. LastChecksum(db', lo, hi + 1) = Meta(db', hi + 1).chk_all BY <3>1 DEF LastChecksum
    <3>3. /\ (IF first = 0 THEN append ELSE first) = lo
          /\ (IF first = 0 THEN append ELSE last + 1) = hi + 1
          /\ (IF first = 0 THEN append + 1 ELSE last + 2) = (hi + 1) + 1
      BY <1>2, <1>3 DEF Mirror
    <3>4. /\ first' = lo /\ last' = hi + 1 /\ append' = (hi + 1) + 1
          /\ last_checksum' = Meta(db', hi + 1).chk_all
      BY <2>1, <3>3 DEF Grow, SetMemory
    <3> QED BY <3>1, <3>2, <3>4 DEF Mirror
  <2>4. MirrorDuring(lo, hi + 1)' BY <1>8, <2>1, <2>3 DEF MirrorDuring
  <2>5. ASSUME ~torn' PROVE TiedDuring(lo, hi + 1)'
    <3>1. Tied(lo, hi, hi) BY <1>1, <1>2, <2>5
    <3>2. Indices(config_db) \subseteq 1..(hi + 1) /\ hi + 1 \notin Indices(config_db)
      BY <1>3, <3>1 DEF Tied
    <3>3. lo..(hi + 1) = (lo..hi) \cup {hi + 1} BY <1>3
    <3>4. ASSUME NEW i \in lo..(hi + 1)
          PROVE  /\ i \in Indices(config_db) <=> Get(db', i).type = "kConfig"
                 /\ i \in Indices(config_db) => config_db[LogIndexToDataIndex(i)] = Get(db', i).value
      <4>1. CASE i = hi + 1 BY <1>2, <1>10, <3>2, <4>1
      <4>2. CASE i \in lo..hi BY <1>2, <3>1, <4>2 DEF Tied
      <4> QED BY <3>3, <4>1, <4>2
    <3>5. Tied(lo, hi + 1, hi + 1)' BY <1>1, <3>2, <3>4 DEF Tied
    <3> QED BY <1>8, <2>1, <3>5 DEF TiedDuring
  <2>6. LogAt(lo, hi + 1)' BY <1>2, <2>4, <2>5 DEF LogAt
  <2> QED BY <1>2, <1>3, <1>5, <1>7, <2>2, <2>6 DEF DiskInv
<1> QED BY <1>9, <1>10

LEMMA AppendConfigKeeps == DiskInv /\ AppendConfig => DiskInv'
<1> SUFFICES ASSUME DiskInv, AppendConfig PROVE DiskInv' OBVIOUS
<1>1. /\ up /\ op.step = "append" /\ op' = Done /\ UNCHANGED <<db, dbSaved, up, torn>>
      /\ config_db' = Put(config_db, [k \in Keys({op.from}) |-> db[k]])
      /\ configSaved' = {config_db'}
      /\ config_indices' = config_indices \cup {op.from}
      /\ Grow(GetMeta(op.from))
  BY DEF AppendConfig, WriteConfigDb
<1>2. db # EmptyDb /\ config_db # EmptyDb BY <1>1 DEF DiskInv, OpOK
<1>3. PICK lo \in Nat, hi \in Nat : LogAt(lo, hi) BY <1>2 DEF DiskInv
<1>4. Holds(db, lo, hi) /\ MirrorBeforeAppend(lo, hi) BY <1>1, <1>3 DEF LogAt, MirrorDuring
<1>5. lo > 0 /\ lo <= hi /\ op.from = hi /\ hi \in Position /\ lo \in Position
  <2>1. lo \in Position BY <1>4, HoldsFacts
  <2> QED BY <1>4, <2>1 DEF Position, MirrorBeforeAppend
<1>6. PICK d : d = config_db' OBVIOUS
<1>7. d = Put(config_db, [k \in Keys({hi}) |-> db[k]]) BY <1>1, <1>5, <1>6
<1>8. IsConfigDb(config_db) BY DEF DiskInv, ConfigMirror
<1>9. /\ IsConfigDb(d) /\ d # EmptyDb
      /\ Indices(d) = Indices(config_db) \cup {hi}
      /\ d[LogIndexToDataIndex(hi)] = db[LogIndexToDataIndex(hi)]
      /\ \A j \in Indices(config_db) :
            j # hi => d[LogIndexToDataIndex(j)] = config_db[LogIndexToDataIndex(j)]
  BY <1>2, <1>5, <1>7, <1>8, ConfigAdded
<1>10. op'.step = "none" BY <1>1, PendingFacts
<1>11. OpOK' BY <1>1, <1>6, <1>9, <1>10 DEF OpOK
<1>12. SavedOK' BY <1>1, <1>6, <1>9 DEF DiskInv, SavedOK
<1>13. ConfigMirror'
  <2>1. config_indices = {0} \cup Indices(config_db)
    BY <1>1, <1>2, <1>8, ConfigFacts DEF DiskInv, ConfigMirror
  <2>2. {KeyToLogIndex(k) : k \in DOMAIN d} = {0} \cup Indices(d) BY <1>9, ConfigFacts
  <2>3. config_indices' = {0} \cup Indices(d) BY <1>1, <1>5, <1>9, <2>1
  <2> QED BY <1>6, <1>9, <2>2, <2>3 DEF ConfigMirror
<1>14. Mirror(lo, hi)'
  <2>1. ~(hi < lo) BY <1>5
  <2>2. LastChecksum(db, lo, hi) = GetMeta(hi).chk_all BY <2>1 DEF LastChecksum, Meta, GetMeta
  <2>3. /\ (IF first = 0 THEN append ELSE first) = lo
        /\ (IF first = 0 THEN append ELSE last + 1) = hi
        /\ (IF first = 0 THEN append + 1 ELSE last + 2) = hi + 1
    BY <1>4, <1>5 DEF MirrorBeforeAppend
  <2>4. /\ first' = lo /\ last' = hi /\ append' = hi + 1 /\ last_checksum' = GetMeta(hi).chk_all
    BY <1>1, <1>5, <2>3 DEF Grow, SetMemory
  <2> QED BY <1>1, <2>1, <2>2, <2>4 DEF Mirror
<1>15. ASSUME ~torn' PROVE Tied(lo, hi, hi)'
  <2>1. Tied(lo, hi - 1, hi - 1) /\ Get(db, hi).type = "kConfig"
    BY <1>1, <1>3, <1>15 DEF LogAt, TiedDuring
  <2>2. lo..hi = (lo..(hi - 1)) \cup {hi} /\ hi \notin lo..(hi - 1) BY <1>5
  <2>3. Indices(d) \subseteq 1..hi BY <1>5, <1>9, <2>1 DEF Tied
  <2>4. ASSUME NEW i \in lo..hi
        PROVE  /\ i \in Indices(d) <=> Get(db, i).type = "kConfig"
               /\ i \in Indices(d) => d[LogIndexToDataIndex(i)] = Get(db, i).value
    <3>1. CASE i = hi
      <4>1. d[LogIndexToDataIndex(i)] = Get(db, i).value BY <1>9, <3>1 DEF Get
      <4> QED BY <1>9, <2>1, <3>1, <4>1
    <3>2. CASE i \in lo..(hi - 1) /\ i # hi BY <1>9, <2>1, <3>2 DEF Tied
    <3> QED BY <2>2, <3>1, <3>2
  <2> QED BY <1>1, <1>6, <2>3, <2>4 DEF Tied
<1>16. LogAt(lo, hi)'
  BY <1>1, <1>4, <1>10, <1>14, <1>15 DEF LogAt, MirrorDuring, TiedDuring
<1> QED BY <1>1, <1>2, <1>11, <1>12, <1>13, <1>16 DEF DiskInv

LEMMA TruncateKeeps ==
  ASSUME DiskInv, NEW i \in 0..MaxIndex, DeleteFrom(i)
  PROVE  DiskInv'
<1>1. up /\ op = Done /\ UNCHANGED <<config_db, configSaved, memory, up, torn>> BY DEF DeleteFrom
<1>2. PICK lo \in Nat, hi \in Nat, from \in Nat :
            /\ Holds(db, lo, hi) /\ Mirror(lo, hi) /\ (~torn => Tied(lo, hi, hi))
            /\ from \in lo..hi /\ from - 1 \in Nat
            /\ Holds(db', lo, from - 1)
            /\ \A j \in lo..(from - 1) : Get(db', j) = Get(db, j)
            /\ db' # EmptyDb /\ dbSaved' = dbSaved \cup {db'}
            /\ op' = Pending("delete", from, LastChecksum(db', lo, from - 1))
  BY TruncateEffect
<1>3. lo <= from /\ from <= hi /\ lo <= hi BY <1>2
<1>4. db # EmptyDb /\ IsLog(db') BY <1>1, <1>2 DEF DiskInv, IsLog
<1>5. SavedOK' BY <1>1, <1>2, <1>4, SavedAfterWrite
<1>6. ConfigMirror' BY <1>1 DEF DiskInv, ConfigMirror, memory
<1>7. config_db # EmptyDb BY <1>1, PendingFacts DEF DiskInv, OpOK
<1>8. op'.step = "delete" /\ op'.from = from /\ op'.checksum = LastChecksum(db', lo, from - 1)
      /\ op' # Done
  BY <1>2, PendingFacts
<1>9. OpOK' BY <1>1, <1>7, <1>8 DEF OpOK
<1>10. first = lo /\ last = hi BY <1>2, <1>3 DEF Mirror
<1>11. UNCHANGED <<first, last>> BY <1>1 DEF memory
<1>12. MirrorBeforeDelete(lo, from - 1)'
  <2>1. (from - 1) + 1 = from /\ from - 1 < hi BY <1>3
  <2> QED BY <1>8, <1>10, <1>11, <2>1 DEF MirrorBeforeDelete
<1>13. ASSUME ~torn' PROVE Tied(lo, from - 1, last)'
  <2>1. Tied(lo, hi, hi) BY <1>1, <1>2, <1>13
  <2>2. lo..(from - 1) \subseteq lo..hi BY <1>3
  <2> QED BY <1>1, <1>2, <1>10, <1>11, <2>1, <2>2 DEF Tied
<1>14. LogAt(lo, from - 1)'
  BY <1>2, <1>8, <1>12, <1>13 DEF LogAt, MirrorDuring, TiedDuring
<1> QED BY <1>2, <1>5, <1>6, <1>9, <1>14 DEF DiskInv

LEMMA DeleteConfigsKeeps == DiskInv /\ DeleteConfigs => DiskInv'
<1> SUFFICES ASSUME DiskInv, DeleteConfigs PROVE DiskInv' OBVIOUS
<1>1. /\ up /\ op.step = "delete" /\ op' = Done /\ UNCHANGED <<db, dbSaved, up, torn>>
      /\ config_db' = Delete(config_db, Keys(ConfigsFrom(op.from)))
      /\ configSaved' = configSaved \cup {config_db'}
      /\ config_indices' = config_indices \ ConfigsFrom(op.from)
      /\ IF op.from = first
           THEN SetMemory(0, 0, op.from, op.checksum)
           ELSE SetMemory(first, op.from - 1, op.from, op.checksum)
  BY DEF DeleteConfigs, WriteConfigDb
<1>2. db # EmptyDb /\ config_db # EmptyDb BY <1>1 DEF DiskInv, OpOK
<1>3. PICK lo \in Nat, hi \in Nat : LogAt(lo, hi) BY <1>2 DEF DiskInv
<1>4. Holds(db, lo, hi) /\ MirrorBeforeDelete(lo, hi) BY <1>1, <1>3 DEF LogAt, MirrorDuring
<1>5. /\ lo <= hi + 1 /\ op.from = hi + 1 /\ op.checksum = LastChecksum(db, lo, hi)
      /\ first = lo /\ last \in Nat /\ hi < last
  BY <1>4, HoldsFacts DEF MirrorBeforeDelete
<1>6. IsConfigDb(config_db) /\ config_indices = {0} \cup Indices(config_db)
      /\ Indices(config_db) \in SUBSET Position
  BY <1>1, <1>2, ConfigFacts DEF DiskInv, ConfigMirror
<1>7. PICK J : J = ConfigsFrom(op.from) OBVIOUS
<1>8. J = Indices(config_db) \cap ((hi + 1)..last)
  <2>1. 0 \notin (hi + 1)..last BY <1>5
  <2> QED BY <1>5, <1>6, <1>7, <2>1 DEF ConfigsFrom
<1>9. PICK d : d = config_db' OBVIOUS
<1>10. J \in SUBSET Indices(config_db) /\ d = Delete(config_db, Keys(J)) BY <1>1, <1>7, <1>8, <1>9
<1>11. /\ IsConfigDb(d) /\ d # EmptyDb
       /\ Indices(d) = Indices(config_db) \ J
       /\ \A j \in Indices(d) : d[LogIndexToDataIndex(j)] = config_db[LogIndexToDataIndex(j)]
  BY <1>2, <1>6, <1>10, ConfigRemoved
<1>12. op'.step = "none" BY <1>1, PendingFacts
<1>13. OpOK' BY <1>1, <1>9, <1>11, <1>12 DEF OpOK
<1>14. SavedOK' BY <1>1, <1>9, <1>11 DEF DiskInv, SavedOK
<1>15. ConfigMirror'
  <2>1. {KeyToLogIndex(k) : k \in DOMAIN d} = {0} \cup Indices(d) BY <1>11, ConfigFacts
  <2>2. 0 \notin J BY <1>6, <1>8 DEF Position
  <2>3. config_indices' = {0} \cup Indices(d) BY <1>1, <1>6, <1>7, <1>11, <2>2
  <2> QED BY <1>9, <1>11, <2>1, <2>3 DEF ConfigMirror
<1>16. Mirror(lo, hi)'
  <2>1. hi < lo <=> op.from = first BY <1>5
  <2>2. (hi + 1) - 1 = hi OBVIOUS
  <2>3. /\ first' = IF hi < lo THEN 0 ELSE lo
        /\ last' = IF hi < lo THEN 0 ELSE hi
        /\ append' = hi + 1 /\ last_checksum' = LastChecksum(db, lo, hi)
    BY <1>1, <1>5, <2>1, <2>2 DEF SetMemory
  <2> QED BY <1>1, <2>3 DEF Mirror
<1>17. ASSUME ~torn' PROVE Tied(lo, hi, hi)'
  <2>1. Tied(lo, hi, last) BY <1>1, <1>3, <1>17 DEF LogAt, TiedDuring
  <2>2. Indices(d) \subseteq 1..hi BY <1>5, <1>8, <1>11, <2>1 DEF Tied
  <2>3. \A i \in lo..hi : i \notin J BY <1>8
  <2>4. \A i \in lo..hi :
          /\ i \in Indices(d) <=> Get(db, i).type = "kConfig"
          /\ i \in Indices(d) => d[LogIndexToDataIndex(i)] = Get(db, i).value
    BY <1>11, <2>1, <2>3 DEF Tied
  <2> QED BY <1>1, <1>9, <2>2, <2>4 DEF Tied
<1>18. LogAt(lo, hi)'
  BY <1>1, <1>4, <1>12, <1>16, <1>17 DEF LogAt, MirrorDuring, TiedDuring
<1> QED BY <1>1, <1>2, <1>13, <1>14, <1>15, <1>18 DEF DiskInv

LEMMA CompactKeeps ==
  ASSUME DiskInv, NEW i \in 0..MaxIndex, DeleteUtil(i)
  PROVE  DiskInv'
<1>1. up /\ op = Done /\ UNCHANGED <<config_db, configSaved, config_indices, up, op, torn>>
  BY DEF DeleteUtil
<1>2. PICK lo \in Nat, hi \in Nat, to \in Nat :
            /\ Holds(db, lo, hi) /\ Mirror(lo, hi) /\ (~torn => Tied(lo, hi, hi))
            /\ to \in lo..hi
            /\ Holds(db', to + 1, hi)
            /\ \A j \in (to + 1)..hi : Get(db', j) = Get(db, j)
            /\ db' # EmptyDb /\ dbSaved' = dbSaved \cup {db'}
            /\ Mirror(to + 1, hi)'
  BY CompactEffect
<1>3. PICK a \in Nat : a = to + 1 OBVIOUS
<1>4. Holds(db', a, hi) /\ Mirror(a, hi)' /\ \A j \in a..hi : Get(db', j) = Get(db, j)
  BY <1>2, <1>3
<1>5. db # EmptyDb /\ IsLog(db') BY <1>1, <1>2, <1>4 DEF DiskInv, IsLog
<1>6. SavedOK' BY <1>1, <1>2, <1>5, SavedAfterWrite
<1>7. ConfigMirror' /\ OpOK' BY <1>1 DEF DiskInv, ConfigMirror, OpOK
<1>8. op'.step = "none" BY <1>1, PendingFacts
<1>9. ASSUME ~torn' PROVE Tied(a, hi, hi)'
  <2>1. Tied(lo, hi, hi) BY <1>1, <1>2, <1>9
  <2>2. a..hi \subseteq lo..hi BY <1>2, <1>3
  <2> QED BY <1>1, <1>4, <2>1, <2>2 DEF Tied
<1>10. LogAt(a, hi)' BY <1>4, <1>8, <1>9 DEF LogAt, MirrorDuring, TiedDuring
<1> QED BY <1>2, <1>6, <1>7, <1>10 DEF DiskInv

LEMMA CrashKeeps == DiskInv /\ Crash => DiskInv'
<1> SUFFICES ASSUME DiskInv, Crash PROVE DiskInv' OBVIOUS
<1>1. /\ up /\ up' = FALSE /\ op' = Done /\ UNCHANGED <<db, config_db, dbSaved, configSaved>>
      /\ torn' = (torn \/ op.step \in {"append", "delete"})
  BY DEF Crash, LoseMemory, disk
<1>2. op'.step = "none" BY <1>1, PendingFacts
<1>3. OpOK' BY <1>1, <1>2 DEF OpOK
<1>4. SavedOK' /\ ConfigMirror' BY <1>1 DEF DiskInv, SavedOK, ConfigMirror
<1>5. db # EmptyDb BY <1>1 DEF DiskInv
<1>6. PICK lo \in Nat, hi \in Nat : LogAt(lo, hi) BY <1>5 DEF DiskInv
<1>7. ASSUME ~torn' PROVE Tied(lo, hi, hi)'
  <2>1. ~torn /\ op.step \in {"none", "first"} BY <1>1, <1>7 DEF DiskInv, OpOK
  <2>2. Tied(lo, hi, hi) BY <1>6, <2>1 DEF LogAt, TiedDuring
  <2> QED BY <1>1, <2>2 DEF Tied
<1>8. LogAt(lo, hi)' BY <1>1, <1>2, <1>6, <1>7 DEF LogAt, TiedDuring
<1> QED BY <1>1, <1>3, <1>4, <1>5, <1>8 DEF DiskInv

LEMMA PowerFailureKeeps == DiskInv /\ PowerFailure => DiskInv'
<1> SUFFICES ASSUME DiskInv, PowerFailure PROVE DiskInv' OBVIOUS
<1>1. /\ torn' = TRUE /\ up' = FALSE /\ op' = Done
      /\ db' \in dbSaved /\ dbSaved' = {db'}
      /\ config_db' \in configSaved /\ configSaved' = {config_db'}
  BY DEF PowerFailure, LoseMemory
<1>2. op'.step = "none" BY <1>1, PendingFacts
<1>3. OpOK' BY <1>1, <1>2 DEF OpOK
<1>4. db' = EmptyDb \/ IsLog(db') BY <1>1 DEF DiskInv, SavedOK
<1>5. IsConfigDb(config_db') BY <1>1 DEF DiskInv, SavedOK
<1>6. SavedOK' BY <1>1, <1>4, <1>5 DEF SavedOK
<1>7. ConfigMirror' BY <1>1, <1>5 DEF ConfigMirror
<1>8. db' # EmptyDb => \E lo, hi \in Nat : LogAt(lo, hi)'
  BY <1>1, <1>4 DEF IsLog, LogAt
<1> QED BY <1>1, <1>3, <1>6, <1>7, <1>8 DEF DiskInv

LEMMA DiskNext == DiskInv /\ [Next]_vars => DiskInv'
<1> SUFFICES ASSUME DiskInv, [Next]_vars PROVE DiskInv' OBVIOUS
<1>1. CASE UNCHANGED vars
  BY <1>1 DEF vars, disk, memory, DiskInv, OpOK, SavedOK, ConfigMirror, LogAt, MirrorDuring,
              MirrorBeforeAppend, MirrorBeforeDelete, Mirror, TiedDuring, Tied
<1>2. CASE Next
  BY <1>2, OpenKeeps, FirstConfigKeeps, AppendKeeps, AppendConfigKeeps, TruncateKeeps,
     DeleteConfigsKeeps, CompactKeeps, CrashKeeps, PowerFailureKeeps DEF Next
<1> QED BY <1>1, <1>2

-----------------------------------------------------------------------------

(* For every bound and every set of entries, a restart finds the log as    *)
(* the process had it: the mirror that the operations of RaftLog keep is   *)
(* what RaftLog::Init reads back, and at every moment, also between the    *)
(* writes of the two databases and after any failure, the entries in db    *)
(* are consecutive and their checksums are unbroken.                       *)
THEOREM LogIsRecoverable == StorageSpec => []LogRecoverable
<1>1. StorageInit => DiskInv BY DiskInit DEF StorageInit
<1>2. [StorageNext]_allVars => [Next]_vars BY DEF StorageNext, allVars
<1>3. DiskInv /\ [Next]_vars => DiskInv' BY DiskNext
<1>4. DiskInv => LogRecoverable
  <2> SUFFICES ASSUME DiskInv PROVE LogRecoverable OBVIOUS
  <2>1. ASSUME up, op = Done
        PROVE  LET r == Recovered(db)
               IN  /\ <<first, last, append, last_checksum>>
                         = <<r.first, r.last, r.append, r.checksum>>
                   /\ config_indices = {KeyToLogIndex(k) : k \in DOMAIN config_db}
    <3>1. PICK lo \in Nat, hi \in Nat : Holds(db, lo, hi) /\ Mirror(lo, hi)
      BY <2>1, BetweenOps
    <3>2. CASE hi < lo
      <4>1. Recovered(db) = [first |-> 0, last |-> 0, append |-> hi + 1,
                             checksum |-> LastChecksum(db, lo, hi)]
        BY <3>1, <3>2, RecoveredOf
      <4> QED BY <2>1, <3>1, <3>2, <4>1 DEF Mirror, DiskInv, ConfigMirror
    <3>3. CASE ~(hi < lo)
      <4>0. lo <= hi BY <3>3
      <4>1. Recovered(db) = [first |-> lo, last |-> hi, append |-> hi + 1,
                             checksum |-> LastChecksum(db, lo, hi)]
        BY <3>1, <4>0, RecoveredOf
      <4> QED BY <2>1, <3>1, <3>3, <4>1 DEF Mirror, DiskInv, ConfigMirror
    <3> QED BY <3>2, <3>3
  <2>2. MemoryMatchesDisk BY <2>1 DEF MemoryMatchesDisk
  <2>3. CASE db = EmptyDb
    <3>1. Indices(db) = {} BY <2>3 DEF Indices, EmptyDb
    <3>2. ChainUnbroken BY <3>1 DEF ChainUnbroken
    <3> QED BY <2>2, <3>2 DEF LogRecoverable
  <2>4. CASE db # EmptyDb
    <3>1. PICK lo \in Nat, hi \in Nat : Holds(db, lo, hi) BY <2>4 DEF DiskInv, LogAt
    <3>2. ChainUnbroken BY <3>1, ChainOf
    <3> QED BY <2>2, <3>2 DEF LogRecoverable
  <2> QED BY <2>3, <2>4
<1> QED BY <1>1, <1>2, <1>3, <1>4, PTL DEF StorageSpec

-----------------------------------------------------------------------------
(* The configuration that Raft::InitConfig takes.                          *)

(* Indices up to a bound have a largest one.                               *)
LEMMA LargestOf ==
  ASSUME NEW n \in Nat, NEW I, I \subseteq 0..n, I # {}
  PROVE  \E m \in I : \A i \in I : i <= m
<1> DEFINE D == {n - i : i \in I}
<1>1. \A i \in I : i \in Nat /\ i <= n /\ n - i \in Nat OBVIOUS
<1>2. D \subseteq Nat /\ D # {} BY <1>1
<1>3. PICK d \in D : \A u \in D : ~(<<u, d>> \in OpToRel(<, Nat))
  <2>1. IsWellFoundedOn(OpToRel(<, Nat), Nat) BY NatLessThanWellFounded
  <2> QED BY <1>2, <2>1, WFMin
<1>4. PICK m \in I : d = n - m BY <1>3
<1>5. ASSUME NEW i \in I PROVE i <= m
  <2>1. n - i \in D /\ ~(<<n - i, d>> \in OpToRel(<, Nat)) BY <1>3
  <2>2. ~(n - i < d) BY <1>1, <1>4, <2>1 DEF OpToRel
  <2> QED BY <1>1, <1>4, <2>2
<1> QED BY <1>5

LEMMA MaxIs ==
  ASSUME NEW I, NEW m \in I, m \in Nat, \A i \in I : i \in Nat /\ i <= m
  PROVE  Max(I) = m
<1>1. \A i \in I : m >= i OBVIOUS
<1>2. Max(I) \in I /\ \A i \in I : Max(I) >= i BY <1>1 DEF Max
<1>3. Max(I) \in Nat /\ Max(I) <= m /\ Max(I) >= m BY <1>2
<1> QED BY <1>3

(* LastConfig is the configuration with the largest index.                 *)
LEMMA LastConfigOf ==
  ASSUME IsConfigDb(config_db), config_db # EmptyDb,
         NEW m \in {0} \cup Indices(config_db), \A i \in Indices(config_db) : i <= m
  PROVE  LastConfig.index = m /\ LastConfig.value = config_db[LogIndexToDataIndex(m)]
<1>1. PICK I : I = Indices(config_db) OBVIOUS
<1>2. I \in SUBSET Position /\ DOMAIN config_db = {ZeroKey} \cup Keys(I) BY <1>1, ConfigFacts
<1>3. m \in Nat /\ \A i \in I : i \in Nat /\ i > 0 /\ i <= m BY <1>1, <1>2 DEF Position
<1>4. ASSUME NEW k \in DOMAIN config_db
      PROVE  k \in Nat /\ k <= LogIndexToDataIndex(m)
  <2>1. CASE k = ZeroKey BY <1>3, <2>1 DEF ZeroKey, LogIndexToDataIndex
  <2>2. CASE k \in Keys(I)
    <3>1. PICK i \in I : k = LogIndexToMetaIndex(i) \/ k = LogIndexToDataIndex(i)
      BY <1>2, <2>2, KeysOf
    <3>2. i \in Nat /\ i > 0 /\ i <= m BY <1>3
    <3> QED BY <1>3, <3>1, <3>2 DEF LogIndexToMetaIndex, LogIndexToDataIndex
  <2> QED BY <1>2, <2>1, <2>2
<1>5. LogIndexToDataIndex(m) \in DOMAIN config_db /\ KeyToLogIndex(LogIndexToDataIndex(m)) = m
  <2>1. CASE m = 0
    BY <1>2, <2>1 DEF LogIndexToDataIndex, ZeroKey, KeyToLogIndex
  <2>2. CASE m # 0
    <3>1. m \in I /\ m \in Position BY <1>1, <1>2, <2>2
    <3> QED BY <1>2, <3>1, KeysOf, KeyFacts
  <2> QED BY <2>1, <2>2
<1>6. Max(DOMAIN config_db) = LogIndexToDataIndex(m)
  <2>1. LogIndexToDataIndex(m) \in Nat BY <1>3 DEF LogIndexToDataIndex
  <2> QED BY <1>4, <1>5, <2>1 DEF Max
<1> QED BY <1>5, <1>6 DEF LastConfig

(* For every bound and every set of entries, InitConfig finds the          *)
(* configuration that the log ends with: the last configuration entry or,  *)
(* when there is none left, one from before its first entry, as long as no *)
(* failure has come between the writes of the two databases.               *)
THEOREM ConfigsFollowLog == StorageSpec => []ConfigInLog
<1>1. StorageInit => DiskInv BY DiskInit DEF StorageInit
<1>2. [StorageNext]_allVars => [Next]_vars BY DEF StorageNext, allVars
<1>3. DiskInv /\ [Next]_vars => DiskInv' BY DiskNext
<1>4. ASSUME DiskInv, up, op = Done, ~torn,
             NEW configs, configs = {i \in Indices(db) : Get(db, i).type = "kConfig"}
      PROVE  IF configs = {} THEN LastConfig.index < append /\ LastConfig.index \notin Indices(db)
             ELSE /\ LastConfig.index = Max(configs)
                  /\ LastConfig.value = Get(db, Max(configs)).value
  <2>1. PICK lo \in Nat, hi \in Nat : Holds(db, lo, hi) /\ Mirror(lo, hi) /\ Tied(lo, hi, hi)
    BY <1>4, BetweenOps
  <2>2. Indices(db) = lo..hi /\ lo \in Position BY <2>1, HoldsFacts
  <2>3. lo > 0 /\ append = hi + 1 BY <2>1, <2>2 DEF Position, Mirror
  <2>4. PICK I : I = Indices(config_db) OBVIOUS
  <2>5. /\ I \subseteq 1..hi
        /\ \A i \in lo..hi : /\ i \in I <=> Get(db, i).type = "kConfig"
                             /\ i \in I => config_db[LogIndexToDataIndex(i)] = Get(db, i).value
    BY <2>1, <2>4 DEF Tied
  <2>6. IsConfigDb(config_db) /\ config_db # EmptyDb
    <3>1. op.step = "none" BY <1>4, PendingFacts
    <3> QED BY <1>4, <3>1 DEF DiskInv, ConfigMirror, OpOK
  <2>7. configs = I \cap (lo..hi) BY <1>4, <2>2, <2>5
  <2>8. PICK m \in {0} \cup I : \A i \in I : i <= m
    <3>1. CASE I = {} BY <3>1
    <3>2. CASE I # {}
      <4>1. I \subseteq 0..hi BY <2>5
      <4> QED BY <3>2, <4>1, LargestOf
    <3> QED BY <3>1, <3>2
  <2>9. LastConfig.index = m /\ LastConfig.value = config_db[LogIndexToDataIndex(m)]
    BY <2>4, <2>6, <2>8, LastConfigOf
  <2>10. m \in Nat /\ m <= hi BY <2>5, <2>8
  <2>11. CASE configs = {}
    <3>1. m \notin lo..hi BY <2>3, <2>7, <2>8, <2>11
    <3> QED BY <2>2, <2>3, <2>9, <2>10, <2>11, <3>1
  <2>12. CASE configs # {}
    <3>1. PICK i \in I : i \in lo..hi BY <2>7, <2>12
    <3>2. i <= m BY <2>8
    <3>3. m \in lo..hi BY <2>10, <3>1, <3>2
    <3>4. m \in I BY <2>3, <2>8, <3>3
    <3>5. m \in configs /\ \A j \in configs : j \in Nat /\ j <= m BY <2>7, <2>8, <2>10, <3>3, <3>4
    <3>6. Max(configs) = m BY <2>10, <3>5, MaxIs
    <3> QED BY <2>5, <2>9, <2>12, <3>3, <3>4, <3>6
  <2> QED BY <2>11, <2>12
<1>5. DiskInv => ConfigInLog BY <1>4 DEF ConfigInLog
<1> QED BY <1>1, <1>2, <1>3, <1>5, PTL DEF StorageSpec

-----------------------------------------------------------------------------
(***************************************************************************)
(* The log of LogSpec.                                                     *)
(***************************************************************************)

(* What Abstract takes contents c for.                                     *)
StateOf(c) == <<LogOf(c), NextOf(c)>>

LEMMA LogOfHolds ==
  ASSUME NEW c, NEW lo, NEW hi, Holds(c, lo, hi)
  PROVE  LogOf(c) = [i \in lo..hi |-> Get(c, i)] /\ NextOf(c) = hi + 1
<1>1. Indices(c) = lo..hi /\ c # EmptyDb /\ lo \in Nat /\ hi \in Nat BY HoldsFacts
<1>2. LogOf(c) = [i \in lo..hi |-> Get(c, i)] BY <1>1 DEF LogOf
<1>3. Recovered(c).append = hi + 1
  <2>1. CASE hi < lo
    <3>1. Recovered(c) = [first |-> 0, last |-> 0, append |-> hi + 1,
                          checksum |-> LastChecksum(c, lo, hi)]
      BY <2>1, RecoveredOf
    <3> QED BY <3>1
  <2>2. CASE lo <= hi
    <3>1. Recovered(c) = [first |-> lo, last |-> hi, append |-> hi + 1,
                          checksum |-> LastChecksum(c, lo, hi)]
      BY <2>2, RecoveredOf
    <3> QED BY <3>1
  <2> QED BY <1>1, <2>1, <2>2
<1> QED BY <1>1, <1>2, <1>3 DEF NextOf

(* Nothing on disk and key 0 alone are the same empty log.                 *)
LEMMA LogOfNothing ==
  /\ LogOf(EmptyDb) = [i \in {} |-> <<>>] /\ NextOf(EmptyDb) = 1
  /\ StateOf(ZeroBatch(1, NoChecksum)) = StateOf(EmptyDb)
<1>1. Indices(EmptyDb) = {} BY DEF Indices, EmptyDb
<1>2. LogOf(EmptyDb) = [i \in {} |-> <<>>] BY <1>1 DEF LogOf
<1>3. NextOf(EmptyDb) = 1 BY DEF NextOf
<1>4. PICK z : z = ZeroBatch(1, NoChecksum) OBVIOUS
<1>5. Holds(z, 1, 0) BY <1>4, HoldsZero
<1>6. LogOf(z) = [i \in 1..0 |-> Get(z, i)] /\ NextOf(z) = 0 + 1 BY <1>5, LogOfHolds
<1>7. LogOf(z) = [i \in {} |-> <<>>] BY <1>6
<1> QED BY <1>2, <1>3, <1>4, <1>6, <1>7 DEF StateOf

LEMMA AppendIsAppend ==
  ASSUME DiskInv, NEW e \in Entries, AppendOne(e)
  PROVE  Abstract!Append(e)
<1>1. PICK lo \in Nat, hi \in Nat :
            /\ Holds(db, lo, hi) /\ hi + 1 <= MaxIndex
            /\ Holds(db', lo, hi + 1)
            /\ Get(db', hi + 1) = e
            /\ \A i \in lo..hi : Get(db', i) = Get(db, i)
            /\ dbSaved' = {db'}
  BY AppendEffect
<1>2. LogOf(db) = [i \in lo..hi |-> Get(db, i)] /\ NextOf(db) = hi + 1 BY <1>1, LogOfHolds
<1>3. PICK d : d = db' OBVIOUS
<1>4. PICK n \in Nat : n = hi + 1 OBVIOUS
<1>5. LogOf(d) = [i \in lo..n |-> Get(d, i)] /\ NextOf(d) = n + 1 BY <1>1, <1>3, <1>4, LogOfHolds
<1>6. lo <= hi + 1 BY <1>1, HoldsFacts
<1>7. lo..n = (lo..hi) \cup {n} /\ n \notin lo..hi BY <1>4, <1>6
<1>8. DOMAIN LogOf(db) = lo..hi BY <1>2
<1>9. LogOf(d) = [i \in DOMAIN LogOf(db) \cup {NextOf(db)} |->
                    IF i = NextOf(db) THEN e ELSE LogOf(db)[i]]
  BY <1>1, <1>2, <1>3, <1>4, <1>5, <1>7, <1>8
<1>10. NextOf(db) <= MaxIndex /\ NextOf(d) = NextOf(db) + 1 BY <1>1, <1>2, <1>4, <1>5
<1>11. {<<LogOf(c), NextOf(c)>> : c \in dbSaved'} = {<<LogOf(d), NextOf(d)>>} BY <1>1, <1>3
<1> QED BY <1>3, <1>9, <1>10, <1>11 DEF Abstract!Append

LEMMA DeleteIsTruncate ==
  ASSUME DiskInv, NEW i \in 0..MaxIndex, DeleteFrom(i)
  PROVE  \E j \in 1..MaxIndex : Abstract!Truncate(j)
<1>1. PICK lo \in Nat, hi \in Nat, from \in Nat :
            /\ Holds(db, lo, hi)
            /\ from \in lo..hi /\ from - 1 \in Nat
            /\ Holds(db', lo, from - 1)
            /\ \A j \in lo..(from - 1) : Get(db', j) = Get(db, j)
            /\ dbSaved' = dbSaved \cup {db'}
  BY TruncateEffect
<1>2. LogOf(db) = [j \in lo..hi |-> Get(db, j)] BY <1>1, LogOfHolds
<1>3. PICK d : d = db' OBVIOUS
<1>4. PICK n \in Nat : n = from - 1 BY <1>1
<1>5. LogOf(d) = [j \in lo..n |-> Get(d, j)] /\ NextOf(d) = n + 1 BY <1>1, <1>3, <1>4, LogOfHolds
<1>6. hi <= MaxIndex BY <1>1, HoldsFacts
<1>7. from \in 1..MaxIndex /\ n + 1 = from BY <1>1, <1>4, <1>6, LogAssumption
<1>8. DOMAIN LogOf(db) = lo..hi BY <1>2
<1>9. (lo..hi) \cap (0..n) = lo..n BY <1>1, <1>4
<1>10. LogOf(d) = [j \in DOMAIN LogOf(db) \cap (0..(from - 1)) |-> LogOf(db)[j]]
  <2>1. DOMAIN LogOf(db) \cap (0..(from - 1)) = lo..n BY <1>4, <1>8, <1>9
  <2>2. \A j \in lo..n : Get(d, j) = LogOf(db)[j] BY <1>1, <1>2, <1>3, <1>4, <1>9
  <2> QED BY <1>5, <2>1, <2>2
<1>11. {<<LogOf(c), NextOf(c)>> : c \in dbSaved'}
         = {<<LogOf(c), NextOf(c)>> : c \in dbSaved} \cup {<<LogOf(d), NextOf(d)>>}
  BY <1>1, <1>3
<1>12. Abstract!Truncate(from)
  BY <1>1, <1>3, <1>5, <1>7, <1>8, <1>10, <1>11 DEF Abstract!Truncate, Abstract!Keep
<1> QED BY <1>7, <1>12

LEMMA DeleteIsCompact ==
  ASSUME DiskInv, NEW i \in 0..MaxIndex, DeleteUtil(i)
  PROVE  \E j \in 1..MaxIndex : Abstract!Compact(j)
<1>1. PICK lo \in Nat, hi \in Nat, to \in Nat :
            /\ Holds(db, lo, hi)
            /\ to \in lo..hi
            /\ Holds(db', to + 1, hi)
            /\ \A j \in (to + 1)..hi : Get(db', j) = Get(db, j)
            /\ dbSaved' = dbSaved \cup {db'}
  BY CompactEffect
<1>2. LogOf(db) = [j \in lo..hi |-> Get(db, j)] /\ NextOf(db) = hi + 1 BY <1>1, LogOfHolds
<1>3. PICK d : d = db' OBVIOUS
<1>4. PICK n \in Nat : n = to + 1 BY <1>1
<1>5. LogOf(d) = [j \in n..hi |-> Get(d, j)] /\ NextOf(d) = hi + 1 BY <1>1, <1>3, <1>4, LogOfHolds
<1>6. hi <= MaxIndex /\ lo \in Position BY <1>1, HoldsFacts
<1>7. to \in 1..MaxIndex BY <1>1, <1>6, LogAssumption DEF Position
<1>8. DOMAIN LogOf(db) = lo..hi BY <1>2
<1>9. (lo..hi) \cap (n..MaxIndex) = n..hi BY <1>1, <1>4, <1>6, LogAssumption
<1>10. LogOf(d) = [j \in DOMAIN LogOf(db) \cap ((to + 1)..MaxIndex) |-> LogOf(db)[j]]
  <2>1. DOMAIN LogOf(db) \cap ((to + 1)..MaxIndex) = n..hi BY <1>4, <1>8, <1>9
  <2>2. \A j \in n..hi : Get(d, j) = LogOf(db)[j] BY <1>1, <1>2, <1>3, <1>4, <1>9
  <2> QED BY <1>5, <2>1, <2>2
<1>11. {<<LogOf(c), NextOf(c)>> : c \in dbSaved'}
         = {<<LogOf(c), NextOf(c)>> : c \in dbSaved} \cup {<<LogOf(d), NextOf(d)>>}
  BY <1>1, <1>3
<1>12. Abstract!Compact(to)
  BY <1>1, <1>2, <1>3, <1>5, <1>8, <1>10, <1>11 DEF Abstract!Compact, Abstract!Keep
<1> QED BY <1>7, <1>12

LEMMA PowerFailureIsFail == PowerFailure => Abstract!Fail
<1> SUFFICES ASSUME PowerFailure PROVE Abstract!Fail OBVIOUS
<1>1. db' \in dbSaved /\ dbSaved' = {db'} BY DEF PowerFailure
<1>2. PICK d : d = db' OBVIOUS
<1>3. <<LogOf(d), NextOf(d)>> \in {<<LogOf(c), NextOf(c)>> : c \in dbSaved} BY <1>1, <1>2
<1>4. {<<LogOf(c), NextOf(c)>> : c \in dbSaved'} = {<<LogOf(d), NextOf(d)>>} BY <1>1, <1>2
<1> QED BY <1>2, <1>3, <1>4 DEF Abstract!Fail

(* The steps that write config_db only, and those that write nothing.      *)
LEMMA OthersStutter ==
  ASSUME DiskInv, Open \/ AppendFirstConfig \/ AppendConfig \/ DeleteConfigs \/ Crash
  PROVE  UNCHANGED Abstract!vars
<1>1. CASE UNCHANGED <<db, dbSaved>> BY <1>1 DEF Abstract!vars
<1>2. CASE Open /\ db = EmptyDb
  <2>1. dbSaved = {EmptyDb} BY <1>2 DEF DiskInv, SavedOK
  <2>2. db' = ZeroBatch(1, NoChecksum) /\ dbSaved' = {db'} BY <1>2 DEF Open, WriteDb
  <2>3. PICK d : d = db' OBVIOUS
  <2>4. LogOf(d) = LogOf(db) /\ NextOf(d) = NextOf(db) BY <1>2, <2>2, <2>3, LogOfNothing DEF StateOf
  <2>5. {<<LogOf(c), NextOf(c)>> : c \in dbSaved'} = {<<LogOf(c), NextOf(c)>> : c \in dbSaved}
    BY <1>2, <2>1, <2>2, <2>3, <2>4
  <2> QED BY <2>3, <2>4, <2>5 DEF Abstract!vars
<1>3. CASE Open /\ db # EmptyDb BY <1>1, <1>3 DEF Open
<1>4. CASE AppendFirstConfig \/ AppendConfig \/ DeleteConfigs \/ Crash
  BY <1>1, <1>4 DEF AppendFirstConfig, AppendConfig, DeleteConfigs, Crash, disk
<1> QED BY <1>2, <1>3, <1>4

(* RaftLog implements LogSpec, for every bound and every set of entries:   *)
(* an append is durable when it returns, what is cut at either end may     *)
(* come back after a power failure, and no failure leaves a log that never *)
(* was.                                                                    *)
THEOREM LogIsLogSpec == StorageSpec => ImplementsLogSpec
<1>1. StorageInit => DiskInv BY DiskInit DEF StorageInit
<1>2. [StorageNext]_allVars => [Next]_vars BY DEF StorageNext, allVars
<1>3. DiskInv /\ [Next]_vars => DiskInv' BY DiskNext
<1>4. StorageInit => Abstract!Init
  <2> SUFFICES ASSUME StorageInit PROVE Abstract!Init OBVIOUS
  <2>1. db = EmptyDb /\ dbSaved = {EmptyDb} BY DEF StorageInit, Init
  <2>2. LogOf(db) = [i \in {} |-> <<>>] /\ NextOf(db) = 1 BY <2>1, LogOfNothing
  <2>3. {<<LogOf(c), NextOf(c)>> : c \in dbSaved} = {<<LogOf(db), NextOf(db)>>} BY <2>1
  <2> QED BY <2>2, <2>3 DEF Abstract!Init
<1>5. DiskInv /\ [Next]_vars => [Abstract!Next]_(Abstract!vars)
  <2> SUFFICES ASSUME DiskInv, [Next]_vars PROVE [Abstract!Next]_(Abstract!vars) OBVIOUS
  <2>1. CASE UNCHANGED vars BY <2>1 DEF vars, disk, Abstract!vars
  <2>2. ASSUME NEW e \in Entries, AppendOne(e) PROVE Abstract!Next
    BY <2>2, AppendIsAppend DEF Abstract!Next
  <2>3. ASSUME NEW i \in 0..MaxIndex, DeleteFrom(i) PROVE Abstract!Next
    BY <2>3, DeleteIsTruncate DEF Abstract!Next
  <2>4. ASSUME NEW i \in 0..MaxIndex, DeleteUtil(i) PROVE Abstract!Next
    BY <2>4, DeleteIsCompact DEF Abstract!Next
  <2>5. CASE PowerFailure BY <2>5, PowerFailureIsFail DEF Abstract!Next
  <2>6. CASE Open \/ AppendFirstConfig \/ AppendConfig \/ DeleteConfigs \/ Crash
    BY <2>6, OthersStutter
  <2> QED BY <2>1, <2>2, <2>3, <2>4, <2>5, <2>6 DEF Next
<1> QED BY <1>1, <1>2, <1>3, <1>4, <1>5, PTL DEF StorageSpec, ImplementsLogSpec, Abstract!Spec

-----------------------------------------------------------------------------
(***************************************************************************)
(* Snapshots.                                                              *)
(***************************************************************************)

Last == S!LastOffset

LEMMA LastFacts == Last \in Nat /\ FirstOffset \in Nat /\ FirstOffset <= Last
BY SnapshotAssumption DEF Last, S!LastOffset

Readers == [index : Nat, offset : Nat, done : BOOLEAN]
Writers == [index : Nat, stored : Nat]
ChunkMsgs == [term : Nat, last_index : Nat, offset : Nat, done : BOOLEAN]
ReplyMsgs == [term : Nat, stored : Nat, in_term : BOOLEAN]

(* A reader is for a snapshot the follower is not known to have; it is     *)
(* done behind the last chunk.                                             *)
ReaderOK(r, known, top) ==
  r # S!Null =>
    /\ r \in Readers
    /\ known < r.index /\ r.index <= top
    /\ IF r.done THEN r.offset = Last + 1 ELSE FirstOffset <= r.offset /\ r.offset <= Last

(* A writer waits for the last chunk.                                      *)
WriterOK(w) == w # S!Null => w \in Writers /\ w.stored < Last

(* No message is of a later term than the leader's.                        *)
SentOK(q, t) ==
  /\ q \in Seq(ChunkMsgs)
  /\ \A p \in 1..Len(q) : q[p].term <= t /\ (q[p].done <=> q[p].offset >= Last)

RepliedOK(a, t) ==
  /\ a \in Seq(ReplyMsgs)
  /\ \A p \in 1..Len(a) : a[p].term <= t

SnapTypeOK ==
  /\ term \in Nat /\ lsm \in Nat /\ match \in Nat
  /\ fterm \in Nat /\ fterm <= term
  /\ sm \in Nat /\ newest \in Nat /\ sm <= newest
  /\ ReaderOK(reader, match, lsm)
  /\ WriterOK(writer)
  /\ SentOK(chunks, term) /\ RepliedOK(replies, term)

(* A chunk of term t is for the snapshot that is being sent, or for one    *)
(* that the follower is known to have.                                     *)
Fresh(c, t, known) == c.term = t /\ known < c.last_index
Spent(c, t, known) == c.term = t /\ c.last_index <= known

(* Chunks q under way to a follower with writer w from a leader of term t  *)
(* with reader r: those of the snapshot that is being sent come last, the  *)
(* finished ones among them behind the others, and what is left of earlier *)
(* snapshots comes first and will only repeat a last chunk.                *)
ChunksOK(q, t, known, r, w) ==
  /\ \A p \in 1..Len(q) : Fresh(q[p], t, known) =>
        r # S!Null /\ q[p].last_index = r.index /\ (q[p].done => r.done)
  /\ \A p \in 1..Len(q) : Spent(q[p], t, known) => w = S!Null /\ q[p].done
  /\ \A p, n \in 1..Len(q) : p < n =>
        /\ Fresh(q[p], t, known) => Fresh(q[n], t, known) /\ (q[p].done => q[n].done)
        /\ Spent(q[n], t, known) => Spent(q[p], t, known)

(* A reply that counts all chunks.                                         *)
Complete(a, t) == a.term = t /\ a.stored = Last

(* While a reply a that counts all chunks is under way, the snapshot is    *)
(* installed, only repetitions of its last chunk are under way, and there  *)
(* is no second such reply.                                                *)
RepliesOK(a, q, t, known, r, w, s) ==
  \A p \in 1..Len(a) : Complete(a[p], t) =>
    /\ r # S!Null /\ r.done /\ r.index <= s /\ w = S!Null
    /\ \A n \in 1..Len(q) : Fresh(q[n], t, known) /\ q[n].done
    /\ \A n \in 1..Len(a) : Complete(a[n], t) => n = p

Transfer(a, q, t, known, r, w, s) ==
  Last > 1 => ChunksOK(q, t, known, r, w) /\ RepliesOK(a, q, t, known, r, w, s)

SnapInv ==
  /\ SnapTypeOK
  /\ S!MatchInstalled
  /\ Transfer(replies, chunks, term, match, reader, writer, newest)

LEMMA SnapNull == (\A r \in Readers : r # S!Null) /\ (\A w \in Writers : w # S!Null)
BY DEF Readers, Writers, S!Null

(* Messages under way.                                                     *)
LEMMA QueueAppend ==
  ASSUME NEW T, NEW q \in Seq(T), NEW c \in T
  PROVE  /\ Append(q, c) \in Seq(T) /\ Len(q) \in Nat /\ Len(Append(q, c)) = Len(q) + 1
         /\ \A p \in 1..(Len(q) + 1) :
               \/ p \in 1..Len(q) /\ Append(q, c)[p] = q[p]
               \/ p = Len(q) + 1 /\ Append(q, c)[p] = c
         /\ \A p \in 1..Len(q) : p \in 1..(Len(q) + 1) /\ Append(q, c)[p] = q[p]
         /\ Append(q, c)[Len(q) + 1] = c
<1>1. /\ Append(q, c) \in Seq(T) /\ Len(q) \in Nat /\ Len(Append(q, c)) = Len(q) + 1
      /\ \A p \in 1..Len(q) : Append(q, c)[p] = q[p]
      /\ Append(q, c)[Len(q) + 1] = c
  BY AppendProperties
<1> QED BY <1>1

LEMMA QueueTail ==
  ASSUME NEW T, NEW q \in Seq(T), q # <<>>
  PROVE  /\ Head(q) = q[1] /\ q[1] \in T /\ Len(q) \in Nat /\ 1 \in 1..Len(q)
         /\ Tail(q) \in Seq(T) /\ Len(Tail(q)) = Len(q) - 1
         /\ \A p \in 1..(Len(q) - 1) : p + 1 \in 1..Len(q) /\ Tail(q)[p] = q[p + 1]
<1>1. /\ Tail(q) \in Seq(T) /\ Len(Tail(q)) = Len(q) - 1 /\ Head(q) = q[1]
      /\ \A p \in 1..(Len(q) - 1) : Tail(q)[p] = q[p + 1]
  BY HeadTailProperties
<1>2. Len(q) \in Nat /\ Len(q) # 0 BY EmptySeq
<1>3. 1 \in 1..Len(q) /\ \A p \in 1..(Len(q) - 1) : p + 1 \in 1..Len(q) BY <1>2
<1>4. q[1] \in T BY <1>3
<1> QED BY <1>1, <1>2, <1>3, <1>4

LEMMA ChunksTail ==
  ASSUME NEW q \in Seq(ChunkMsgs), q # <<>>, NEW t, NEW known, NEW r, NEW w,
         ChunksOK(q, t, known, r, w)
  PROVE  ChunksOK(Tail(q), t, known, r, w)
<1>1. PICK d : d = Tail(q) OBVIOUS
<1>2. /\ Len(q) \in Nat /\ Len(d) = Len(q) - 1
      /\ \A p \in 1..Len(d) : p + 1 \in 1..Len(q) /\ d[p] = q[p + 1]
  BY <1>1, QueueTail
<1>3. \A p \in 1..Len(d) : Fresh(d[p], t, known) =>
        r # S!Null /\ d[p].last_index = r.index /\ (d[p].done => r.done)
  BY <1>2 DEF ChunksOK
<1>4. \A p \in 1..Len(d) : Spent(d[p], t, known) => w = S!Null /\ d[p].done
  BY <1>2 DEF ChunksOK
<1>5. ASSUME NEW p \in 1..Len(d), NEW n \in 1..Len(d), p < n
      PROVE  /\ Fresh(d[p], t, known) => Fresh(d[n], t, known) /\ (d[p].done => d[n].done)
             /\ Spent(d[n], t, known) => Spent(d[p], t, known)
  <2>1. p + 1 \in 1..Len(q) /\ n + 1 \in 1..Len(q) /\ p + 1 < n + 1 BY <1>2, <1>5
  <2>2. d[p] = q[p + 1] /\ d[n] = q[n + 1] BY <1>2
  <2> QED BY <2>1, <2>2 DEF ChunksOK
<1>6. ChunksOK(d, t, known, r, w) BY <1>3, <1>4, <1>5 DEF ChunksOK
<1> QED BY <1>1, <1>6

(* reader->Read().                                                         *)
LEMMA ReadFacts ==
  ASSUME NEW r, r # S!Null, NEW known \in Nat, NEW top \in Nat, ReaderOK(r, known, top)
  PROVE  /\ S!Read(r) # S!Null /\ S!Read(r).index = r.index
         /\ S!Read(r).done <=> r.offset >= Last
         /\ S!Read(r).done \in BOOLEAN
         /\ r.done => S!Read(r).done
         /\ ReaderOK(S!Read(r), known, top)
<1>0. Last \in Nat /\ FirstOffset \in Nat BY LastFacts
<1>1. /\ r \in Readers /\ known < r.index /\ r.index <= top
      /\ r.done => r.offset = Last + 1
      /\ ~r.done => FirstOffset <= r.offset /\ r.offset <= Last
  BY DEF ReaderOK
<1>2. r.index \in Nat /\ r.offset \in Nat /\ r.done \in BOOLEAN BY <1>1 DEF Readers
<1>3. PICK f \in BOOLEAN : f <=> r.offset >= Last OBVIOUS
<1>4. PICK o \in Nat : o = IF r.done THEN r.offset ELSE r.offset + 1 BY <1>2
<1>5. PICK d : d = S!Read(r) OBVIOUS
<1>6. d = [r EXCEPT !.offset = o, !.done = f]
  <2>1. f = (r.offset >= Last) BY <1>3
  <2> QED BY <1>4, <1>5, <2>1 DEF S!Read, Last
<1>7. d \in Readers /\ d.index = r.index /\ d.done = f /\ d.offset = o BY <1>1, <1>6 DEF Readers
<1>8. d # S!Null BY <1>7, SnapNull
<1>9. r.done => f BY <1>0, <1>1, <1>2, <1>3
<1>10. f => o = Last + 1 BY <1>0, <1>1, <1>2, <1>3, <1>4
<1>11. ~f => FirstOffset <= o /\ o <= Last BY <1>0, <1>1, <1>2, <1>3, <1>4
<1>12. ReaderOK(d, known, top) BY <1>1, <1>7, <1>10, <1>11 DEF ReaderOK
<1> QED BY <1>3, <1>5, <1>7, <1>8, <1>9, <1>12

(* One more chunk of the snapshot that is being sent.                      *)
LEMMA ChunksAppend ==
  ASSUME NEW q \in Seq(ChunkMsgs), NEW t \in Nat, NEW known \in Nat, NEW r, NEW w, NEW d,
         ChunksOK(q, t, known, r, w), r # S!Null, d # S!Null, d.index = r.index,
         r.done => d.done,
         NEW c \in ChunkMsgs, Fresh(c, t, known), c.last_index = r.index, c.done <=> d.done
  PROVE  ChunksOK(Append(q, c), t, known, d, w)
<1>1. PICK e : e = Append(q, c) OBVIOUS
<1>2. /\ Len(q) \in Nat /\ Len(e) = Len(q) + 1
      /\ \A p \in 1..Len(e) : \/ p \in 1..Len(q) /\ e[p] = q[p]
                              \/ p = Len(q) + 1 /\ e[p] = c
  BY <1>1, QueueAppend
<1>3. ~Spent(c, t, known) BY DEF Spent, Fresh, ChunkMsgs
<1>4. \A p \in 1..Len(e) : Fresh(e[p], t, known) =>
        d # S!Null /\ e[p].last_index = d.index /\ (e[p].done => d.done)
  BY <1>2 DEF ChunksOK
<1>5. \A p \in 1..Len(e) : Spent(e[p], t, known) => w = S!Null /\ e[p].done
  BY <1>2, <1>3 DEF ChunksOK
<1>6. ASSUME NEW p \in 1..Len(e), NEW n \in 1..Len(e), p < n
      PROVE  /\ Fresh(e[p], t, known) => Fresh(e[n], t, known) /\ (e[p].done => e[n].done)
             /\ Spent(e[n], t, known) => Spent(e[p], t, known)
  <2>1. p \in 1..Len(q) /\ e[p] = q[p] BY <1>2, <1>6
  <2>2. CASE n \in 1..Len(q) /\ e[n] = q[n] BY <1>6, <2>1, <2>2 DEF ChunksOK
  <2>3. CASE e[n] = c
    <3>1. Fresh(e[p], t, known) => (e[p].done => r.done) BY <2>1 DEF ChunksOK
    <3> QED BY <1>3, <2>3, <3>1
  <2> QED BY <1>2, <2>2, <2>3
<1>7. ChunksOK(e, t, known, d, w) BY <1>4, <1>5, <1>6 DEF ChunksOK
<1> QED BY <1>1, <1>7

LEMMA RepliesAppend ==
  ASSUME NEW a, NEW q \in Seq(ChunkMsgs), NEW t \in Nat, NEW known \in Nat, NEW r, NEW w, NEW s,
         NEW d, RepliesOK(a, q, t, known, r, w, s), r # S!Null, d # S!Null, d.index = r.index,
         r.done => d.done,
         NEW c \in ChunkMsgs, Fresh(c, t, known), c.done <=> d.done
  PROVE  RepliesOK(a, Append(q, c), t, known, d, w, s)
<1>1. PICK e : e = Append(q, c) OBVIOUS
<1>2. \A n \in 1..Len(e) : e[n] = c \/ (n \in 1..Len(q) /\ e[n] = q[n])
  BY <1>1, QueueAppend
<1>3. RepliesOK(a, e, t, known, d, w, s) BY <1>2 DEF RepliesOK
<1> QED BY <1>1, <1>3

(* Without a reader nothing is being sent and nothing is complete.         *)
LEMMA NoReader ==
  ASSUME NEW a, NEW q, NEW t, NEW known, NEW r, NEW w, NEW s,
         ChunksOK(q, t, known, S!Null, w), RepliesOK(a, q, t, known, S!Null, w, s)
  PROVE  ChunksOK(q, t, known, r, w) /\ RepliesOK(a, q, t, known, r, w, s)
<1>1. \A p \in 1..Len(q) : ~Fresh(q[p], t, known) BY DEF ChunksOK
<1>2. \A p \in 1..Len(a) : ~Complete(a[p], t) BY DEF RepliesOK
<1>3. ChunksOK(q, t, known, r, w) BY <1>1 DEF ChunksOK
<1>4. RepliesOK(a, q, t, known, r, w, s) BY <1>2 DEF RepliesOK
<1> QED BY <1>3, <1>4

(* SendInstallSnapshot, with the reader there is or a new one, once the    *)
(* leader takes known for the match index.                                 *)
LEMMA SendKeeps ==
  ASSUME SnapTypeOK, NEW known \in Nat, known < lsm, NEW r0, ReaderOK(r0, known, lsm),
         S!SendChunk(r0), NEW a, Transfer(a, chunks, term, known, r0, writer, newest)
  PROVE  /\ SentOK(chunks', term)
         /\ ReaderOK(reader', known, lsm)
         /\ Transfer(a, chunks', term, known, reader', writer, newest)
<1>0. /\ term \in Nat /\ lsm \in Nat /\ Last \in Nat /\ FirstOffset \in Nat /\ FirstOffset <= Last
      /\ chunks \in Seq(ChunkMsgs)
      /\ \A p \in 1..Len(chunks) :
            chunks[p].term <= term /\ (chunks[p].done <=> chunks[p].offset >= Last)
  BY LastFacts DEF SnapTypeOK, SentOK
<1>1. PICK r : r = IF r0 = S!Null THEN S!NewReader(lsm) ELSE r0 OBVIOUS
<1>2. r # S!Null /\ ReaderOK(r, known, lsm)
  <2>1. CASE r0 = S!Null
    <3>1. r = [index |-> lsm, offset |-> FirstOffset, done |-> FALSE] BY <1>1, <2>1 DEF S!NewReader
    <3>2. r \in Readers /\ r.index = lsm /\ r.offset = FirstOffset /\ r.done = FALSE
      BY <1>0, <3>1 DEF Readers
    <3>3. r # S!Null BY <3>2, SnapNull
    <3> QED BY <1>0, <3>2, <3>3 DEF ReaderOK
  <2>2. CASE r0 # S!Null BY <1>1, <2>2
  <2> QED BY <2>1, <2>2
<1>3. Transfer(a, chunks, term, known, r, writer, newest)
  <2>1. CASE r0 = S!Null BY <2>1, NoReader DEF Transfer
  <2>2. CASE r0 # S!Null BY <1>1, <2>2
  <2> QED BY <2>1, <2>2
<1>4. PICK d : d = S!Read(r) OBVIOUS
<1>5. /\ d # S!Null /\ d.index = r.index /\ (d.done <=> r.offset >= Last)
      /\ d.done \in BOOLEAN /\ (r.done => d.done)
      /\ ReaderOK(d, known, lsm)
  BY <1>0, <1>2, <1>4, ReadFacts
<1>6. PICK c : c = [term |-> term, last_index |-> r.index, offset |-> r.offset, done |-> d.done]
  OBVIOUS
<1>7. chunks' = Append(chunks, c) /\ reader' = d BY <1>1, <1>4, <1>6 DEF S!SendChunk
<1>8. r.index \in Nat /\ r.offset \in Nat /\ known < r.index BY <1>2 DEF ReaderOK, Readers
<1>9. c \in ChunkMsgs BY <1>0, <1>5, <1>6, <1>8 DEF ChunkMsgs
<1>10. /\ c.term = term /\ c.last_index = r.index /\ (c.done <=> d.done)
       /\ (c.done <=> c.offset >= Last)
  BY <1>5, <1>6
<1>11. Fresh(c, term, known) BY <1>8, <1>10 DEF Fresh
<1>12. PICK e : e = Append(chunks, c) OBVIOUS
<1>13. SentOK(e, term)
  <2>1. /\ e \in Seq(ChunkMsgs) /\ Len(e) = Len(chunks) + 1
        /\ \A p \in 1..(Len(chunks) + 1) :
              \/ p \in 1..Len(chunks) /\ e[p] = chunks[p]
              \/ p = Len(chunks) + 1 /\ e[p] = c
    BY <1>0, <1>9, <1>12, QueueAppend
  <2>2. c.term <= term BY <1>0, <1>10
  <2> QED BY <1>0, <1>10, <2>1, <2>2 DEF SentOK
<1>14. Transfer(a, e, term, known, d, writer, newest)
  <2> SUFFICES ASSUME Last > 1
               PROVE  /\ ChunksOK(e, term, known, d, writer)
                      /\ RepliesOK(a, e, term, known, d, writer, newest)
    BY DEF Transfer
  <2>1. ChunksOK(chunks, term, known, r, writer) /\ RepliesOK(a, chunks, term, known, r, writer, newest)
    BY <1>3 DEF Transfer
  <2>2. ChunksOK(e, term, known, d, writer)
    BY <1>0, <1>2, <1>5, <1>9, <1>10, <1>11, <1>12, <2>1, ChunksAppend
  <2>3. RepliesOK(a, e, term, known, d, writer, newest)
    BY <1>0, <1>2, <1>5, <1>9, <1>10, <1>11, <1>12, <2>1, RepliesAppend
  <2> QED BY <2>2, <2>3
<1> QED BY <1>5, <1>7, <1>12, <1>13, <1>14

LEMMA SnapInit == S!Init => SnapInv
<1> SUFFICES ASSUME S!Init PROVE SnapInv OBVIOUS
<1>1. /\ term = 1 /\ lsm = 1 /\ reader = S!Null /\ match = 0 /\ fterm = 1 /\ writer = S!Null
      /\ sm = 0 /\ newest = 0 /\ chunks = <<>> /\ replies = <<>>
  BY DEF S!Init
<1>2. Len(<<>>) = 0 /\ 1..0 = {} /\ <<>> \in Seq(ChunkMsgs) /\ <<>> \in Seq(ReplyMsgs) OBVIOUS
<1>3. SentOK(chunks, term) /\ RepliedOK(replies, term) BY <1>1, <1>2 DEF SentOK, RepliedOK
<1>4. SnapTypeOK BY <1>1, <1>3 DEF SnapTypeOK, ReaderOK, WriterOK
<1>5. ChunksOK(chunks, term, match, reader, writer) BY <1>1, <1>2 DEF ChunksOK
<1>6. RepliesOK(replies, chunks, term, match, reader, writer, newest) BY <1>1, <1>2 DEF RepliesOK
<1> QED BY <1>1, <1>4, <1>5, <1>6 DEF SnapInv, Transfer, S!MatchInstalled, Last

LEMMA SendInstallSnapshotKeeps == SnapInv /\ S!SendInstallSnapshot => SnapInv'
<1> SUFFICES ASSUME SnapInv, S!SendInstallSnapshot PROVE SnapInv' OBVIOUS
<1>1. /\ S!SendChunk(reader) /\ match < lsm
      /\ UNCHANGED <<term, lsm, match, fterm, writer, sm, newest, replies, failed>>
  BY DEF S!SendInstallSnapshot, S!follower
<1>2. SnapTypeOK /\ Transfer(replies, chunks, term, match, reader, writer, newest) BY DEF SnapInv
<1>3. match \in Nat /\ ReaderOK(reader, match, lsm) BY <1>2 DEF SnapTypeOK
<1>4. /\ SentOK(chunks', term)
      /\ ReaderOK(reader', match, lsm)
      /\ Transfer(replies, chunks', term, match, reader', writer, newest)
  BY <1>1, <1>2, <1>3, SendKeeps
<1>5. SnapTypeOK' BY <1>1, <1>2, <1>4 DEF SnapTypeOK
<1> QED BY <1>1, <1>4, <1>5 DEF SnapInv, S!MatchInstalled, Last

(* Replies that are taken, lost or added.                                  *)
LEMMA RepliesTail ==
  ASSUME NEW a \in Seq(ReplyMsgs), a # <<>>, NEW q, NEW t, NEW known, NEW r, NEW w, NEW s,
         RepliesOK(a, q, t, known, r, w, s)
  PROVE  /\ RepliesOK(Tail(a), q, t, known, r, w, s)
         /\ Complete(a[1], t) => \A p \in 1..Len(Tail(a)) : ~Complete(Tail(a)[p], t)
<1>1. PICK b : b = Tail(a) OBVIOUS
<1>2. /\ Len(a) \in Nat /\ Len(b) = Len(a) - 1 /\ 1 \in 1..Len(a)
      /\ \A p \in 1..Len(b) : p + 1 \in 1..Len(a) /\ b[p] = a[p + 1]
  BY <1>1, QueueTail
<1>3. ASSUME NEW p \in 1..Len(b), Complete(b[p], t)
      PROVE  /\ r # S!Null /\ r.done /\ r.index <= s /\ w = S!Null
             /\ \A n \in 1..Len(q) : Fresh(q[n], t, known) /\ q[n].done
             /\ \A n \in 1..Len(a) : Complete(a[n], t) => n = p + 1
  BY <1>2, <1>3 DEF RepliesOK
<1>4. ASSUME NEW p \in 1..Len(b), Complete(b[p], t), NEW n \in 1..Len(b), Complete(b[n], t)
      PROVE  n = p
  <2>1. n + 1 \in 1..Len(a) /\ Complete(a[n + 1], t) BY <1>2, <1>4
  <2>2. n + 1 = p + 1 BY <1>3, <1>4, <2>1
  <2> QED BY <1>2, <2>2
<1>5. RepliesOK(b, q, t, known, r, w, s) BY <1>3, <1>4 DEF RepliesOK
<1>6. ASSUME Complete(a[1], t), NEW p \in 1..Len(b), Complete(b[p], t) PROVE FALSE
  <2>1. 1 = p + 1 BY <1>2, <1>3, <1>6
  <2> QED BY <1>2, <2>1
<1> QED BY <1>1, <1>5, <1>6

LEMMA RepliesLess ==
  ASSUME NEW a, NEW q \in Seq(ChunkMsgs), q # <<>>, NEW t, NEW known, NEW r, NEW w, NEW s,
         RepliesOK(a, q, t, known, r, w, s)
  PROVE  RepliesOK(a, Tail(q), t, known, r, w, s)
<1>1. PICK d : d = Tail(q) OBVIOUS
<1>2. \A p \in 1..Len(d) : p + 1 \in 1..Len(q) /\ d[p] = q[p + 1] BY <1>1, QueueTail
<1>3. RepliesOK(a, d, t, known, r, w, s) BY <1>2 DEF RepliesOK
<1> QED BY <1>1, <1>3

LEMMA RepliesMore ==
  ASSUME NEW a \in Seq(ReplyMsgs), NEW c \in ReplyMsgs, NEW q, NEW t, NEW known, NEW r, NEW w, NEW s,
         RepliesOK(a, q, t, known, r, w, s), ~Complete(c, t)
  PROVE  RepliesOK(Append(a, c), q, t, known, r, w, s)
<1>1. PICK b : b = Append(a, c) OBVIOUS
<1>2. \A p \in 1..Len(b) : (p \in 1..Len(a) /\ b[p] = a[p]) \/ b[p] = c BY <1>1, QueueAppend
<1>3. RepliesOK(b, q, t, known, r, w, s) BY <1>2 DEF RepliesOK
<1> QED BY <1>1, <1>3

LEMMA RepliedAppend ==
  ASSUME NEW a, NEW t, RepliedOK(a, t), NEW c \in ReplyMsgs, c.term <= t
  PROVE  RepliedOK(Append(a, c), t)
<1>1. PICK b : b = Append(a, c) OBVIOUS
<1>2. a \in Seq(ReplyMsgs) BY DEF RepliedOK
<1>3. b \in Seq(ReplyMsgs) /\ \A p \in 1..Len(b) : (p \in 1..Len(a) /\ b[p] = a[p]) \/ b[p] = c
  BY <1>1, <1>2, QueueAppend
<1>4. RepliedOK(b, t) BY <1>3 DEF RepliedOK
<1> QED BY <1>1, <1>4

LEMMA MessagesTail ==
  ASSUME NEW t
  PROVE  /\ \A q : SentOK(q, t) /\ q # <<>> => SentOK(Tail(q), t)
         /\ \A a : RepliedOK(a, t) /\ a # <<>> => RepliedOK(Tail(a), t)
<1>1. ASSUME NEW q, SentOK(q, t), q # <<>> PROVE SentOK(Tail(q), t)
  <2>1. q \in Seq(ChunkMsgs) BY <1>1 DEF SentOK
  <2>2. PICK d : d = Tail(q) OBVIOUS
  <2>3. /\ d \in Seq(ChunkMsgs) /\ Len(d) = Len(q) - 1
        /\ \A p \in 1..Len(d) : p + 1 \in 1..Len(q) /\ d[p] = q[p + 1]
    BY <1>1, <2>1, <2>2, QueueTail
  <2>4. SentOK(d, t) BY <1>1, <2>3 DEF SentOK
  <2> QED BY <2>2, <2>4
<1>2. ASSUME NEW a, RepliedOK(a, t), a # <<>> PROVE RepliedOK(Tail(a), t)
  <2>1. a \in Seq(ReplyMsgs) BY <1>2 DEF RepliedOK
  <2>2. PICK b : b = Tail(a) OBVIOUS
  <2>3. /\ b \in Seq(ReplyMsgs) /\ Len(b) = Len(a) - 1
        /\ \A p \in 1..Len(b) : p + 1 \in 1..Len(a) /\ b[p] = a[p + 1]
    BY <1>2, <2>1, <2>2, QueueTail
  <2>4. RepliedOK(b, t) BY <1>2, <2>3 DEF RepliedOK
  <2> QED BY <2>2, <2>4
<1> QED BY <1>1, <1>2

(* The writer is gone, or what comes next is not a last chunk.             *)
LEMMA NewWriter ==
  ASSUME NEW a, NEW q \in Seq(ChunkMsgs), NEW t, NEW known, NEW r, NEW w, NEW s,
         ChunksOK(q, t, known, r, w), RepliesOK(a, q, t, known, r, w, s),
         NEW w2, w2 = S!Null \/ (q # <<>> /\ ~q[1].done)
  PROVE  ChunksOK(q, t, known, r, w2) /\ RepliesOK(a, q, t, known, r, w2, s)
<1>1. CASE w2 = S!Null BY <1>1 DEF ChunksOK, RepliesOK
<1>2. CASE q # <<>> /\ ~q[1].done
  <2>1. Len(q) \in Nat /\ 1 \in 1..Len(q) BY <1>2, QueueTail
  <2>2. ~Spent(q[1], t, known) BY <1>2, <2>1 DEF ChunksOK
  <2>3. ASSUME NEW p \in 1..Len(q) PROVE ~Spent(q[p], t, known)
    <3>1. CASE p = 1 BY <2>2, <3>1
    <3>2. CASE 1 < p BY <2>1, <2>2, <3>2 DEF ChunksOK
    <3> QED BY <2>1, <3>1, <3>2
  <2>4. \A p \in 1..Len(a) : ~Complete(a[p], t) BY <1>2, <2>1 DEF RepliesOK
  <2>5. ChunksOK(q, t, known, r, w2) BY <2>3 DEF ChunksOK
  <2>6. RepliesOK(a, q, t, known, r, w2, s) BY <2>4 DEF RepliesOK
  <2> QED BY <2>5, <2>6
<1> QED BY <1>1, <1>2

(* Every other step of the leader, the follower or the network.            *)
LEMMA LeaderCompactsKeeps == SnapInv /\ S!LeaderCompacts => SnapInv'
<1> SUFFICES ASSUME SnapInv, S!LeaderCompacts PROVE SnapInv' OBVIOUS
<1>1. /\ lsm' = lsm + 1
      /\ UNCHANGED <<term, reader, match, fterm, writer, sm, newest, chunks, replies>>
  BY DEF S!LeaderCompacts, S!follower
<1>2. SnapTypeOK BY DEF SnapInv
<1>3. ReaderOK(reader, match, lsm + 1) BY <1>2 DEF SnapTypeOK, ReaderOK, Readers
<1>4. SnapTypeOK' BY <1>1, <1>2, <1>3 DEF SnapTypeOK
<1> QED BY <1>1, <1>4 DEF SnapInv, S!MatchInstalled, Last

LEMMA LeaderRestartsKeeps == SnapInv /\ S!LeaderRestarts => SnapInv'
<1> SUFFICES ASSUME SnapInv, S!LeaderRestarts PROVE SnapInv' OBVIOUS
<1>1. /\ term' = term + 1 /\ reader' = S!Null /\ match' = 0
      /\ UNCHANGED <<lsm, fterm, writer, sm, newest, chunks, replies>>
  BY DEF S!LeaderRestarts, S!follower
<1>2. SnapTypeOK BY DEF SnapInv
<1>3. /\ term \in Nat /\ sm \in Nat /\ newest \in Nat /\ chunks \in Seq(ChunkMsgs) /\ replies \in Seq(ReplyMsgs)
      /\ \A p \in 1..Len(chunks) : chunks[p].term \in Nat /\ chunks[p].term <= term
      /\ \A p \in 1..Len(chunks) : chunks[p].done <=> chunks[p].offset >= Last
      /\ \A p \in 1..Len(replies) : replies[p].term \in Nat /\ replies[p].term <= term
  <2>1. /\ chunks \in Seq(ChunkMsgs)
        /\ \A p \in 1..Len(chunks) :
             chunks[p].term <= term /\ (chunks[p].done <=> chunks[p].offset >= Last)
    BY <1>2 DEF SnapTypeOK, SentOK
  <2>2. replies \in Seq(ReplyMsgs) /\ \A p \in 1..Len(replies) : replies[p].term <= term
    BY <1>2 DEF SnapTypeOK, RepliedOK
  <2>3. \A p \in 1..Len(chunks) : chunks[p] \in ChunkMsgs BY <2>1
  <2>4. \A p \in 1..Len(replies) : replies[p] \in ReplyMsgs BY <2>2
  <2>5. \A p \in 1..Len(chunks) : chunks[p].term \in Nat BY <2>3 DEF ChunkMsgs
  <2>6. \A p \in 1..Len(replies) : replies[p].term \in Nat BY <2>4 DEF ReplyMsgs
  <2>7. term \in Nat /\ sm \in Nat /\ newest \in Nat BY <1>2 DEF SnapTypeOK
  <2> QED BY <2>1, <2>2, <2>5, <2>6, <2>7
<1>4. PICK t : t = term + 1 OBVIOUS
<1>5. SentOK(chunks, t) /\ RepliedOK(replies, t) BY <1>3, <1>4 DEF SentOK, RepliedOK
<1>6. SnapTypeOK' BY <1>1, <1>2, <1>4, <1>5 DEF SnapTypeOK, ReaderOK
<1>7. \A p \in 1..Len(chunks) : ~Fresh(chunks[p], t, 0) /\ ~Spent(chunks[p], t, 0)
  BY <1>3, <1>4 DEF Fresh, Spent
<1>8. \A p \in 1..Len(replies) : ~Complete(replies[p], t) BY <1>3, <1>4 DEF Complete
<1>9. ChunksOK(chunks, t, 0, S!Null, writer) BY <1>7 DEF ChunksOK
<1>10. RepliesOK(replies, chunks, t, 0, S!Null, writer, newest) BY <1>8 DEF RepliesOK
<1> QED BY <1>1, <1>3, <1>4, <1>6, <1>9, <1>10 DEF SnapInv, Transfer, S!MatchInstalled, Last

LEMMA FollowerRestartsKeeps == SnapInv /\ S!FollowerRestarts => SnapInv'
<1> SUFFICES ASSUME SnapInv, S!FollowerRestarts PROVE SnapInv' OBVIOUS
<1>1. writer' = S!Null /\ UNCHANGED <<term, lsm, reader, match, fterm, sm, newest, chunks, replies>>
  BY DEF S!FollowerRestarts, S!leader
<1>2. SnapTypeOK BY DEF SnapInv
<1>3. SnapTypeOK' BY <1>1, <1>2 DEF SnapTypeOK, WriterOK
<1>4. chunks \in Seq(ChunkMsgs) BY <1>2 DEF SnapTypeOK, SentOK
<1>5. Transfer(replies, chunks, term, match, reader, S!Null, newest)
  BY <1>4, NewWriter DEF SnapInv, Transfer
<1> QED BY <1>1, <1>3, <1>5 DEF SnapInv, S!MatchInstalled, Last

LEMMA FollowerAppliesKeeps == SnapInv /\ S!FollowerApplies => SnapInv'
<1> SUFFICES ASSUME SnapInv, S!FollowerApplies PROVE SnapInv' OBVIOUS
<1>1. /\ sm' = sm + 1 /\ newest' = IF sm + 1 > newest THEN sm + 1 ELSE newest
      /\ UNCHANGED <<term, lsm, reader, match, fterm, writer, chunks, replies>>
  BY DEF S!FollowerApplies, S!leader, S!StateMachineAt
<1>2. SnapTypeOK BY DEF SnapInv
<1>3. /\ sm \in Nat /\ newest \in Nat /\ match \in Nat
      /\ reader # S!Null => reader.index \in Nat
  BY <1>2 DEF SnapTypeOK, ReaderOK, Readers
<1>4. sm' \in Nat /\ newest' \in Nat /\ sm' <= newest' /\ newest <= newest' BY <1>1, <1>3
<1>5. SnapTypeOK' BY <1>1, <1>2, <1>4 DEF SnapTypeOK
<1>6. PICK n \in Nat : n = newest' BY <1>4
<1>7. Transfer(replies, chunks, term, match, reader, writer, n)
  BY <1>3, <1>4, <1>6 DEF SnapInv, Transfer, RepliesOK
<1>8. S!MatchInstalled' BY <1>1, <1>3, <1>4 DEF SnapInv, S!MatchInstalled, Last
<1> QED BY <1>1, <1>5, <1>6, <1>7, <1>8 DEF SnapInv

LEMMA LoseKeeps == SnapInv /\ S!Lose => SnapInv'
<1> SUFFICES ASSUME SnapInv, S!Lose PROVE SnapInv' OBVIOUS
<1>1. UNCHANGED <<term, lsm, reader, match, fterm, writer, sm, newest>>
  BY DEF S!Lose, S!leader, S!follower
<1>2. SnapTypeOK BY DEF SnapInv
<1>3. /\ chunks \in Seq(ChunkMsgs) /\ replies \in Seq(ReplyMsgs)
      /\ SentOK(chunks, term) /\ RepliedOK(replies, term)
  BY <1>2 DEF SnapTypeOK, SentOK, RepliedOK
<1>4. CASE chunks # <<>> /\ chunks' = Tail(chunks) /\ UNCHANGED replies
  <2>1. SentOK(Tail(chunks), term) BY <1>3, <1>4, MessagesTail
  <2>2. SnapTypeOK' BY <1>1, <1>2, <1>4, <2>1 DEF SnapTypeOK
  <2>3. Transfer(replies, Tail(chunks), term, match, reader, writer, newest)
    BY <1>3, <1>4, ChunksTail, RepliesLess DEF SnapInv, Transfer
  <2> QED BY <1>1, <1>4, <2>2, <2>3 DEF SnapInv, S!MatchInstalled, Last
<1>5. CASE replies # <<>> /\ replies' = Tail(replies) /\ UNCHANGED chunks
  <2>1. RepliedOK(Tail(replies), term) BY <1>3, <1>5, MessagesTail
  <2>2. SnapTypeOK' BY <1>1, <1>2, <1>5, <2>1 DEF SnapTypeOK
  <2>3. Transfer(Tail(replies), chunks, term, match, reader, writer, newest)
    BY <1>3, <1>5, RepliesTail DEF SnapInv, Transfer
  <2> QED BY <1>1, <1>5, <2>2, <2>3 DEF SnapInv, S!MatchInstalled, Last
<1> QED BY <1>4, <1>5 DEF S!Lose

(* OnInstallSnapshot: the reply that counts all chunks is one to a last    *)
(* chunk of the snapshot that is being sent.                               *)
LEMMA InstallKeeps ==
  ASSUME SnapInv, chunks # <<>>, NEW m, m = Head(chunks), ~(m.term < fterm),
         fterm' = m.term, S!Install(m), chunks' = Tail(chunks),
         UNCHANGED <<term, lsm, reader, match>>
  PROVE  SnapInv' /\ sm' >= sm
<1>0. Last \in Nat BY LastFacts
<1>1. SnapTypeOK BY DEF SnapInv
<1>2. /\ chunks \in Seq(ChunkMsgs) /\ replies \in Seq(ReplyMsgs)
      /\ SentOK(chunks, term) /\ RepliedOK(replies, term) /\ WriterOK(writer)
      /\ term \in Nat /\ sm \in Nat /\ newest \in Nat /\ sm <= newest /\ match \in Nat
  BY <1>1 DEF SnapTypeOK, SentOK, RepliedOK
<1>3. m = chunks[1] /\ m \in ChunkMsgs /\ 1 \in 1..Len(chunks) BY <1>2, QueueTail
<1>4. m.term \in Nat /\ m.last_index \in Nat /\ m.offset \in Nat /\ m.done \in BOOLEAN
  BY <1>3 DEF ChunkMsgs
<1>5. m.term <= term /\ (m.done <=> m.offset >= Last) BY <1>2, <1>3 DEF SentOK
<1>6. PICK w : w = S!WriterFor(m) OBVIOUS
<1>7. /\ w \in Writers /\ w.stored \in Nat /\ (w.stored < Last \/ w.stored = 0) /\ w.index = m.last_index
      /\ writer = S!Null => w.stored = 0
  <2>1. CASE writer # S!Null /\ writer.index = m.last_index
    BY <1>2, <1>6, <2>1 DEF S!WriterFor, WriterOK, Writers
  <2>2. CASE ~(writer # S!Null /\ writer.index = m.last_index)
    <3>1. w = [index |-> m.last_index, stored |-> 0] BY <1>6, <2>2 DEF S!WriterFor, S!NewWriter
    <3> QED BY <1>0, <1>4, <3>1 DEF Writers
  <2> QED BY <2>1, <2>2
<1>8. PICK w2 : w2 = S!Write(w) OBVIOUS
<1>9. w2 \in Writers /\ w2.index = m.last_index /\ w2.stored = w.stored + 1
  BY <1>7, <1>8 DEF S!Write, Writers
<1>10. PICK q : q = Tail(chunks) OBVIOUS
<1>11. SentOK(q, term) BY <1>2, <1>10, MessagesTail
<1>12. ASSUME NEW n \in Nat, S!Reply(m.term, n), sm' \in Nat, newest' \in Nat, sm' <= newest',
              WriterOK(writer')
       PROVE  \E c \in ReplyMsgs : /\ c.term = m.term /\ c.stored = n
                                   /\ replies' = Append(replies, c)
                                   /\ SnapTypeOK'
  <2>1. PICK b \in BOOLEAN :
            replies' = Append(replies, [term |-> m.term, stored |-> n, in_term |-> b])
    BY <1>12 DEF S!Reply
  <2>2. PICK c : c = [term |-> m.term, stored |-> n, in_term |-> b] OBVIOUS
  <2>3. c \in ReplyMsgs /\ c.term = m.term /\ c.stored = n BY <1>4, <1>12, <2>2 DEF ReplyMsgs
  <2>4. RepliedOK(Append(replies, c), term) BY <1>2, <1>5, <2>3, RepliedAppend
  <2>5. SnapTypeOK'
    BY <1>1, <1>4, <1>5, <1>10, <1>11, <1>12, <2>1, <2>2, <2>4 DEF SnapTypeOK
  <2> QED BY <2>1, <2>2, <2>3, <2>5
<1>13. \/ /\ m.offset < w.stored
          /\ writer' = w /\ S!Reply(m.term, w.stored) /\ sm' = sm /\ newest' = newest
       \/ /\ m.offset = w.stored
          /\ UNCHANGED <<writer, sm, newest, replies>>
       \/ /\ m.offset > w.stored
          /\ writer' = IF m.done THEN S!Null ELSE w2
          /\ S!StateMachineAt(IF m.done /\ ~S!Stale(m) THEN w2.index ELSE sm)
          /\ S!Reply(m.term, w2.stored)
  BY <1>6, <1>8, Zenon DEF S!Install
<1>14. CASE m.offset < w.stored
  <2>1. writer' = w /\ S!Reply(m.term, w.stored) /\ sm' = sm /\ newest' = newest
    BY <1>4, <1>7, <1>14, <1>13
  <2>2. ~m.done /\ w.stored < Last BY <1>0, <1>4, <1>5, <1>7, <1>14
  <2>3. WriterOK(writer') BY <1>7, <2>1, <2>2 DEF WriterOK
  <2>4. PICK c \in ReplyMsgs : /\ c.term = m.term /\ c.stored = w.stored
                               /\ replies' = Append(replies, c) /\ SnapTypeOK'
    BY <1>2, <1>7, <1>12, <2>1, <2>3
  <2>5. ~Complete(c, term) BY <1>0, <1>7, <2>2, <2>4 DEF Complete
  <2>6. ASSUME Last > 1
        PROVE  /\ ChunksOK(q, term, match, reader, w)
               /\ RepliesOK(Append(replies, c), q, term, match, reader, w, newest)
    <3>1. /\ ChunksOK(chunks, term, match, reader, writer)
          /\ RepliesOK(replies, chunks, term, match, reader, writer, newest)
      BY <2>6 DEF SnapInv, Transfer
    <3>2. /\ ChunksOK(chunks, term, match, reader, w)
          /\ RepliesOK(replies, chunks, term, match, reader, w, newest)
      BY <1>2, <1>3, <2>2, <3>1, NewWriter
    <3>3. ChunksOK(q, term, match, reader, w) /\ RepliesOK(replies, q, term, match, reader, w, newest)
      BY <1>2, <1>10, <3>2, ChunksTail, RepliesLess
    <3> QED BY <1>2, <2>5, <3>3, RepliesMore
  <2> QED BY <1>2, <1>10, <2>1, <2>4, <2>6 DEF SnapInv, Transfer, S!MatchInstalled, Last
<1>15. CASE m.offset = w.stored
  <2>1. UNCHANGED <<writer, sm, newest, replies>> BY <1>4, <1>7, <1>15, <1>13
  <2>2. SnapTypeOK' BY <1>1, <1>4, <1>5, <1>10, <1>11, <2>1 DEF SnapTypeOK
  <2>3. Transfer(replies, q, term, match, reader, writer, newest)
    BY <1>2, <1>10, ChunksTail, RepliesLess DEF SnapInv, Transfer
  <2> QED BY <1>2, <1>10, <2>1, <2>2, <2>3 DEF SnapInv, S!MatchInstalled, Last
<1>16. CASE m.offset > w.stored
  <2>1. /\ writer' = IF m.done THEN S!Null ELSE w2
        /\ S!StateMachineAt(IF m.done /\ ~S!Stale(m) THEN w2.index ELSE sm)
        /\ S!Reply(m.term, w2.stored)
    BY <1>4, <1>7, <1>16, <1>13
  <2>2. /\ sm' \in Nat /\ sm' >= sm /\ newest' \in Nat /\ sm' <= newest' /\ newest <= newest'
        /\ m.done => newest' >= m.last_index
    <3>1. PICK i : i = IF m.done /\ ~S!Stale(m) THEN w2.index ELSE sm OBVIOUS
    <3>2. sm' = i /\ newest' = IF i > newest THEN i ELSE newest
      BY <2>1, <3>1 DEF S!StateMachineAt
    <3>3. i \in Nat /\ i >= sm /\ (m.done => i >= m.last_index)
      BY <1>2, <1>4, <1>9, <3>1 DEF S!Stale
    <3> QED BY <1>2, <1>4, <3>2, <3>3
  <2>3. WriterOK(writer')
    <3>1. CASE m.done BY <2>1, <3>1 DEF WriterOK
    <3>2. CASE ~m.done
      <4>1. w2.stored < Last BY <1>0, <1>4, <1>5, <1>7, <1>9, <1>16, <3>2
      <4> QED BY <1>9, <2>1, <3>2, <4>1 DEF WriterOK
    <3> QED BY <3>1, <3>2
  <2>4. w2.stored \in Nat BY <1>7, <1>9
  <2>5. PICK c \in ReplyMsgs : /\ c.term = m.term /\ c.stored = w2.stored
                               /\ replies' = Append(replies, c) /\ SnapTypeOK'
    BY <1>12, <2>1, <2>2, <2>3, <2>4
  <2>6. PICK s \in Nat : s = newest' BY <2>2
  <2>7. PICK v : v = writer' OBVIOUS
  <2>8. ASSUME Last > 1
        PROVE  /\ ChunksOK(q, term, match, reader, v)
               /\ RepliesOK(Append(replies, c), q, term, match, reader, v, s)
    <3>1. /\ ChunksOK(chunks, term, match, reader, writer)
          /\ RepliesOK(replies, chunks, term, match, reader, writer, newest)
      BY <2>8 DEF SnapInv, Transfer
    <3>2. v = S!Null \/ ~chunks[1].done BY <1>3, <2>1, <2>7
    <3>3. /\ ChunksOK(chunks, term, match, reader, v)
          /\ RepliesOK(replies, chunks, term, match, reader, v, newest)
      BY <1>2, <3>1, <3>2, NewWriter
    <3>4. ChunksOK(q, term, match, reader, v) /\ RepliesOK(replies, q, term, match, reader, v, newest)
      BY <1>2, <1>10, <3>3, ChunksTail, RepliesLess
    <3>5. reader # S!Null => reader.index \in Nat BY <1>1 DEF SnapTypeOK, ReaderOK, Readers
    <3>6. RepliesOK(replies, q, term, match, reader, v, s)
      BY <1>2, <2>2, <2>6, <3>4, <3>5 DEF RepliesOK
    <3>7. CASE ~Complete(c, term) BY <1>2, <3>4, <3>6, <3>7, RepliesMore
    <3>8. CASE Complete(c, term)
      <4>1. m.term = term /\ w.stored = Last - 1 BY <1>0, <1>7, <1>9, <2>5, <3>8, SMTT(30) DEF Complete
      <4>2. writer # S!Null BY <1>0, <1>7, <2>8, <4>1
      <4>3. m.done BY <1>0, <1>4, <1>5, <1>16, <4>1
      <4>4. Fresh(m, term, match)
        <5>1. ~Spent(m, term, match) BY <1>3, <3>1, <4>2 DEF ChunksOK
        <5> QED BY <1>2, <1>4, <4>1, <5>1 DEF Fresh, Spent
      <4>5. reader # S!Null /\ m.last_index = reader.index /\ reader.done
        BY <1>3, <3>1, <4>3, <4>4 DEF ChunksOK
      <4>6. reader.index <= s /\ v = S!Null BY <2>1, <2>2, <2>6, <2>7, <4>3, <4>5
      <4>7. \A n \in 1..Len(q) : Fresh(q[n], term, match) /\ q[n].done
        <5>1. /\ Len(chunks) \in Nat /\ Len(q) = Len(chunks) - 1
              /\ \A n \in 1..Len(q) : n + 1 \in 1..Len(chunks) /\ q[n] = chunks[n + 1]
          BY <1>2, <1>10, QueueTail
        <5>2. \A n \in 1..Len(q) : 1 < n + 1 BY <5>1
        <5> QED BY <1>3, <3>1, <4>3, <4>4, <5>1, <5>2 DEF ChunksOK
      <4>8. \A n \in 1..Len(replies) : ~Complete(replies[n], term) BY <3>1, <4>2 DEF RepliesOK
      <4>9. PICK b : b = Append(replies, c) OBVIOUS
      <4>10. \A n \in 1..Len(b) : Complete(b[n], term) => n = Len(replies) + 1
        <5>1. \A n \in 1..Len(b) : \/ n \in 1..Len(replies) /\ b[n] = replies[n]
                                   \/ n = Len(replies) + 1 /\ b[n] = c
          BY <1>2, <4>9, QueueAppend
        <5> QED BY <4>8, <5>1
      <4>11. RepliesOK(b, q, term, match, reader, v, s)
        BY <4>5, <4>6, <4>7, <4>10 DEF RepliesOK
      <4> QED BY <3>4, <4>9, <4>11
    <3> QED BY <3>7, <3>8
  <2>9. Transfer(replies', chunks', term, match, reader, writer', newest')
    BY <1>10, <2>5, <2>6, <2>7, <2>8 DEF Transfer
  <2>10. S!MatchInstalled' BY <1>2, <2>2 DEF SnapInv, S!MatchInstalled, Last
  <2> QED BY <2>2, <2>5, <2>9, <2>10 DEF SnapInv
<1> QED BY <1>4, <1>7, <1>14, <1>15, <1>16

LEMMA OnInstallSnapshotKeeps ==
  SnapInv /\ S!OnInstallSnapshot => SnapInv' /\ sm' >= sm
<1> SUFFICES ASSUME SnapInv, S!OnInstallSnapshot PROVE SnapInv' /\ sm' >= sm OBVIOUS
<1>1. /\ chunks # <<>> /\ chunks' = Tail(chunks)
      /\ UNCHANGED <<term, lsm, reader, match>>
  BY DEF S!OnInstallSnapshot, S!leader
<1>2. PICK m : m = Head(chunks) OBVIOUS
<1>3. CASE m.term < fterm
  <2>1. S!Reply(fterm, 0) /\ UNCHANGED <<fterm, writer, sm, newest>>
    BY <1>2, <1>3, Zenon DEF S!OnInstallSnapshot
  <2>2. SnapTypeOK BY DEF SnapInv
  <2>3. /\ chunks \in Seq(ChunkMsgs) /\ replies \in Seq(ReplyMsgs)
        /\ SentOK(chunks, term) /\ RepliedOK(replies, term)
        /\ fterm \in Nat /\ fterm <= term /\ sm \in Nat
    BY <2>2 DEF SnapTypeOK, SentOK, RepliedOK
  <2>4. PICK b \in BOOLEAN : replies' = Append(replies, [term |-> fterm, stored |-> 0, in_term |-> b])
    BY <2>1 DEF S!Reply
  <2>5. PICK c : c = [term |-> fterm, stored |-> 0, in_term |-> b] OBVIOUS
  <2>6. c \in ReplyMsgs /\ c.term = fterm /\ c.stored = 0 BY <2>3, <2>5 DEF ReplyMsgs
  <2>7. Last > 1 => ~Complete(c, term) BY <2>6, LastFacts DEF Complete
  <2>8. RepliedOK(Append(replies, c), term) BY <2>3, <2>6, RepliedAppend
  <2>9. SentOK(Tail(chunks), term) BY <1>1, <2>3, MessagesTail
  <2>10. SnapTypeOK' BY <1>1, <2>1, <2>2, <2>4, <2>5, <2>8, <2>9 DEF SnapTypeOK
  <2>11. Transfer(replies, Tail(chunks), term, match, reader, writer, newest)
    BY <1>1, <2>3, ChunksTail, RepliesLess DEF SnapInv, Transfer
  <2>12. Transfer(Append(replies, c), Tail(chunks), term, match, reader, writer, newest)
    BY <2>3, <2>6, <2>7, <2>11, RepliesMore DEF Transfer
  <2> QED BY <1>1, <2>1, <2>3, <2>4, <2>5, <2>10, <2>12 DEF SnapInv, S!MatchInstalled, Last
<1>4. CASE ~(m.term < fterm)
  <2>1. fterm' = m.term /\ S!Install(m) BY <1>2, <1>4, Zenon DEF S!OnInstallSnapshot
  <2> QED BY <1>1, <1>2, <1>4, <2>1, InstallKeeps
<1> QED BY <1>3, <1>4

(* The reply that finishes a transfer counts all chunks.  What is left of  *)
(* the transfer then only repeats its last chunk.                          *)
LEMMA FinishKeeps ==
  ASSUME SnapInv, replies # <<>>, reader # S!Null, NEW m, m = Head(replies),
         m.term >= term, S!Finished(m)
  PROVE  /\ reader.index \in Nat /\ reader.index > match
         /\ Last > 1 => reader.index <= newest
         /\ Transfer(Tail(replies), chunks, term, reader.index, S!Null, writer, newest)
<1>0. Last \in Nat BY LastFacts
<1>1. SnapTypeOK BY DEF SnapInv
<1>2. /\ term \in Nat /\ match \in Nat /\ RepliedOK(replies, term) /\ replies \in Seq(ReplyMsgs)
      /\ ReaderOK(reader, match, lsm)
  BY <1>1 DEF SnapTypeOK, RepliedOK
<1>3. /\ reader.index \in Nat /\ match < reader.index
      /\ reader.done => reader.offset = Last + 1
  BY <1>2 DEF ReaderOK, Readers
<1>4. m = replies[1] /\ m \in ReplyMsgs /\ 1 \in 1..Len(replies) BY <1>2, QueueTail
<1>5. m.term \in Nat /\ m.stored \in Nat BY <1>4 DEF ReplyMsgs
<1>6. m.term <= term BY <1>2, <1>4 DEF RepliedOK
<1>7. Complete(m, term) BY <1>0, <1>2, <1>3, <1>5, <1>6 DEF Complete, S!Finished
<1>8. ASSUME Last > 1
      PROVE  /\ reader.index <= newest
             /\ ChunksOK(chunks, term, reader.index, S!Null, writer)
             /\ RepliesOK(Tail(replies), chunks, term, reader.index, S!Null, writer, newest)
  <2>1. /\ ChunksOK(chunks, term, match, reader, writer)
        /\ RepliesOK(replies, chunks, term, match, reader, writer, newest)
    BY <1>8 DEF SnapInv, Transfer
  <2>2. /\ reader.index <= newest /\ writer = S!Null
        /\ \A n \in 1..Len(chunks) : Fresh(chunks[n], term, match) /\ chunks[n].done
    BY <1>4, <1>7, <2>1 DEF RepliesOK
  <2>3. \A n \in 1..Len(chunks) : chunks[n].term = term /\ chunks[n].last_index = reader.index
    BY <2>1, <2>2 DEF ChunksOK, Fresh
  <2>4. PICK x \in Nat : x = reader.index BY <1>3
  <2>5. \A n \in 1..Len(chunks) : ~Fresh(chunks[n], term, x) /\ Spent(chunks[n], term, x)
    BY <2>3, <2>4 DEF Fresh, Spent
  <2>6. ChunksOK(chunks, term, x, S!Null, writer) BY <2>2, <2>5 DEF ChunksOK
  <2>7. \A p \in 1..Len(Tail(replies)) : ~Complete(Tail(replies)[p], term)
    BY <1>2, <1>4, <1>7, <2>1, RepliesTail
  <2>8. RepliesOK(Tail(replies), chunks, term, x, S!Null, writer, newest) BY <2>7 DEF RepliesOK
  <2> QED BY <2>2, <2>4, <2>6, <2>8
<1> QED BY <1>2, <1>3, <1>8 DEF Transfer

LEMMA OnReplyKeeps == SnapInv /\ S!OnInstallSnapshotReply => SnapInv'
<1> SUFFICES ASSUME SnapInv, S!OnInstallSnapshotReply PROVE SnapInv' OBVIOUS
<1>1. /\ replies # <<>> /\ replies' = Tail(replies)
      /\ UNCHANGED <<term, lsm, fterm, writer, sm, newest>>
  BY DEF S!OnInstallSnapshotReply, S!follower
<1>2. SnapTypeOK BY DEF SnapInv
<1>3. /\ replies \in Seq(ReplyMsgs) /\ RepliedOK(replies, term) /\ SentOK(chunks, term)
      /\ match \in Nat /\ lsm \in Nat /\ ReaderOK(reader, match, lsm)
  BY <1>2 DEF SnapTypeOK, RepliedOK
<1>4. PICK a : a = Tail(replies) OBVIOUS
<1>5. RepliedOK(a, term) BY <1>1, <1>3, <1>4, MessagesTail
<1>6. Transfer(a, chunks, term, match, reader, writer, newest)
  BY <1>1, <1>3, <1>4, RepliesTail DEF SnapInv, Transfer
<1>7. ASSUME NEW k \in Nat, match' = k, SentOK(chunks', term), ReaderOK(reader', k, lsm),
             Transfer(a, chunks', term, k, reader', writer, newest), Last > 1 => k <= newest
      PROVE  SnapInv'
  <2>1. SnapTypeOK' BY <1>1, <1>2, <1>4, <1>5, <1>7 DEF SnapTypeOK
  <2> QED BY <1>1, <1>4, <1>7, <2>1 DEF SnapInv, S!MatchInstalled, Last
<1>8. PICK m : m = Head(replies) OBVIOUS
<1>9. Last > 1 => match <= newest BY DEF SnapInv, S!MatchInstalled, Last
<1>10. CASE UNCHANGED <<reader, match, chunks>>
  BY <1>3, <1>6, <1>7, <1>9, <1>10
<1>11. CASE reader = S!Null \/ ~(m.term >= term /\ m.in_term)
  <2>1. UNCHANGED <<reader, match, chunks>>
    BY <1>8, <1>11, Zenon DEF S!OnInstallSnapshotReply
  <2> QED BY <1>10, <2>1
<1>12. CASE ~(reader = S!Null \/ ~(m.term >= term /\ m.in_term))
  <2>1. /\ match' = IF S!Finished(m) THEN reader.index ELSE match
        /\ IF match' < lsm
             THEN S!SendChunk(IF S!Finished(m) THEN S!Null ELSE reader)
             ELSE /\ reader' = IF S!Finished(m) THEN S!Null ELSE reader
                  /\ UNCHANGED chunks
    BY <1>8, <1>12, Zenon DEF S!OnInstallSnapshotReply
  <2>2. PICK k : k = IF S!Finished(m) THEN reader.index ELSE match OBVIOUS
  <2>3. PICK r : r = IF S!Finished(m) THEN S!Null ELSE reader OBVIOUS
  <2>4. /\ k \in Nat /\ (Last > 1 => k <= newest)
        /\ ReaderOK(r, k, lsm)
        /\ Transfer(a, chunks, term, k, r, writer, newest)
    <3>1. CASE S!Finished(m)
      <4>1. k = reader.index /\ r = S!Null BY <2>2, <2>3, <3>1
      <4>2. /\ reader.index \in Nat
            /\ Last > 1 => reader.index <= newest
            /\ Transfer(a, chunks, term, reader.index, S!Null, writer, newest)
        BY <1>1, <1>4, <1>8, <1>12, <3>1, FinishKeeps
      <4> QED BY <4>1, <4>2 DEF ReaderOK
    <3>2. CASE ~S!Finished(m)
      <4>1. k = match /\ r = reader BY <2>2, <2>3, <3>2
      <4> QED BY <1>3, <1>6, <1>9, <4>1
    <3> QED BY <3>1, <3>2
  <2>5. match' = k BY <2>1, <2>2
  <2>6. CASE k < lsm
    <3>1. S!SendChunk(r) BY <2>1, <2>3, <2>5, <2>6, Zenon
    <3>2. /\ SentOK(chunks', term)
          /\ ReaderOK(reader', k, lsm)
          /\ Transfer(a, chunks', term, k, reader', writer, newest)
      BY <1>2, <2>4, <2>6, <3>1, SendKeeps
    <3> QED BY <1>7, <2>4, <2>5, <3>2
  <2>7. CASE ~(k < lsm)
    <3>1. reader' = r /\ UNCHANGED chunks BY <2>1, <2>3, <2>5, <2>7, Zenon
    <3> QED BY <1>3, <1>7, <2>4, <2>5, <3>1
  <2> QED BY <2>6, <2>7
<1> QED BY <1>11, <1>12

(* The swap cut in two: what the leader counts is what was installed once. *)
LEMMA CrashInSwapKeeps == SnapInv /\ S!CrashInSwap => SnapInv'
<1> SUFFICES ASSUME SnapInv, S!CrashInSwap PROVE SnapInv' OBVIOUS
<1>1. /\ chunks # <<>> /\ chunks' = Tail(chunks) /\ writer' = S!Null /\ sm' = 0
      /\ fterm' = Head(chunks).term
      /\ UNCHANGED <<term, lsm, reader, match, newest, replies>>
  BY DEF S!CrashInSwap, S!leader
<1>2. SnapTypeOK BY DEF SnapInv
<1>3. chunks \in Seq(ChunkMsgs) /\ SentOK(chunks, term) /\ newest \in Nat
  BY <1>2 DEF SnapTypeOK, SentOK
<1>4. Head(chunks) = chunks[1] /\ chunks[1] \in ChunkMsgs /\ 1 \in 1..Len(chunks)
  BY <1>1, <1>3, QueueTail
<1>5. chunks[1].term \in Nat /\ chunks[1].term <= term BY <1>3, <1>4 DEF SentOK, ChunkMsgs
<1>6. SentOK(Tail(chunks), term) BY <1>1, <1>3, MessagesTail
<1>7. SnapTypeOK' BY <1>1, <1>2, <1>3, <1>4, <1>5, <1>6 DEF SnapTypeOK, WriterOK
<1>8. Transfer(replies, chunks, term, match, reader, S!Null, newest)
  BY <1>3, NewWriter DEF SnapInv, Transfer
<1>9. Transfer(replies, Tail(chunks), term, match, reader, S!Null, newest)
  BY <1>1, <1>3, <1>8, ChunksTail, RepliesLess DEF Transfer
<1> QED BY <1>1, <1>7, <1>9 DEF SnapInv, S!MatchInstalled, Last

LEMMA SnapNext ==
  SnapInv /\ [S!Next]_snapVars => SnapInv' /\ (sm' >= sm \/ S!CrashInSwap)
<1> SUFFICES ASSUME SnapInv, [S!Next]_snapVars
             PROVE  SnapInv' /\ (sm' >= sm \/ S!CrashInSwap)
  OBVIOUS
<1>0. sm \in Nat BY DEF SnapInv, SnapTypeOK
<1>1. CASE UNCHANGED snapVars
  BY <1>0, <1>1 DEF snapVars, SnapInv, SnapTypeOK, S!MatchInstalled
<1>2. CASE S!OnInstallSnapshot BY <1>2, OnInstallSnapshotKeeps
<1>3. CASE S!SendInstallSnapshot
  <2>1. sm' = sm BY <1>3 DEF S!SendInstallSnapshot, S!follower
  <2> QED BY <1>0, <1>3, <2>1, SendInstallSnapshotKeeps
<1>4. CASE S!OnInstallSnapshotReply
  <2>1. sm' = sm BY <1>4 DEF S!OnInstallSnapshotReply, S!follower
  <2> QED BY <1>0, <1>4, <2>1, OnReplyKeeps
<1>5. CASE S!LeaderCompacts
  <2>1. sm' = sm BY <1>5 DEF S!LeaderCompacts, S!follower
  <2> QED BY <1>0, <1>5, <2>1, LeaderCompactsKeeps
<1>6. CASE S!LeaderRestarts
  <2>1. sm' = sm BY <1>6 DEF S!LeaderRestarts, S!follower
  <2> QED BY <1>0, <1>6, <2>1, LeaderRestartsKeeps
<1>7. CASE S!FollowerRestarts
  <2>1. sm' = sm BY <1>7 DEF S!FollowerRestarts
  <2> QED BY <1>0, <1>7, <2>1, FollowerRestartsKeeps
<1>8. CASE S!FollowerApplies
  <2>1. sm' = sm + 1 BY <1>8 DEF S!FollowerApplies, S!StateMachineAt
  <2> QED BY <1>0, <1>8, <2>1, FollowerAppliesKeeps
<1>9. CASE S!Lose
  <2>1. sm' = sm BY <1>9 DEF S!Lose, S!follower
  <2> QED BY <1>0, <1>9, <2>1, LoseKeeps
<1>10. CASE S!CrashInSwap BY <1>10, CrashInSwapKeeps
<1> QED BY <1>1, <1>2, <1>3, <1>4, <1>5, <1>6, <1>7, <1>8, <1>9, <1>10 DEF S!Next

(* For any number of chunks, snapshots, terms and messages under way, with *)
(* offsets from 0 or from 1: what the leader counts as matched after a     *)
(* transfer has been installed by the follower, if a snapshot has more     *)
(* than one chunk (than two, with offsets from 0), whatever was lost, late *)
(* or sent again and whoever restarted; and the follower's state machine   *)
(* never goes back to an earlier index, unless the follower dies between   *)
(* the two renames that swap it.                                           *)
THEOREM SnapshotsAreInstalled == StorageSpec => SnapshotSound
<1>1. StorageInit => SnapInv BY SnapInit DEF StorageInit
<1>2. [StorageNext]_allVars => [S!Next]_snapVars BY DEF StorageNext, allVars, snapVars
<1>3. SnapInv /\ [S!Next]_snapVars => SnapInv' BY SnapNext
<1>4. SnapInv /\ [S!Next]_snapVars => [sm' >= sm \/ S!CrashInSwap]_(S!vars) BY SnapNext
<1>5. SnapInv => S!MatchInstalled BY DEF SnapInv
<1> QED BY <1>1, <1>2, <1>3, <1>4, <1>5, PTL DEF StorageSpec, SnapshotSound, S!NeverGoesBack
=============================================================================
