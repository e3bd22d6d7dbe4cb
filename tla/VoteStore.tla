------------------------------ MODULE VoteStore ------------------------------
(***************************************************************************)
(* One server's term and vote between its handlers and its disk.           *)
(*                                                                         *)
(* SolidData keeps term and vote under two keys of one leveldb database    *)
(* and writes each with its own, unsynced Put.  A handler that changes     *)
(* both makes two or three Puts; VRaft takes each handler as one step,     *)
(* this module stops between the Puts, where the process may die, and lets *)
(* a power failure take the database back to any state it has had.         *)
(*                                                                         *)
(* The rest of the server is the environment: candidates ask for votes in  *)
(* any term, with a log that is good enough or not, any other message may  *)
(* bring a larger term, and the election timer may fire.                   *)
(***************************************************************************)
EXTENDS Naturals

CONSTANTS Me,          \* this server
          Candidates,  \* the servers that ask for its vote
          MaxTerm      \* bound on terms

NoVote == 0

VARIABLES
  disk,      \* [term, vote] in the database
  saved,     \* the contents a power failure may bring back
  term, vote, \* term_ and vote_ in memory
  up,
  todo,      \* the Puts the running handler has yet to make, and the request
  granted,   \* history: votes granted, and whether the log was checked
  faults     \* history: "crash", between handlers; "torn", inside one; "power"

vars == <<disk, saved, term, vote, up, todo, granted, faults>>

Idle == [step |-> "idle"]

Requests == [src : Candidates, term : 1..MaxTerm, log_ok : BOOLEAN]

-----------------------------------------------------------------------------

Put(contents) ==
  /\ disk' = contents
  /\ saved' = saved \cup {contents}

\* Mutant: the term is only kept in memory
SetTermInMemory(t) == term' = t /\ UNCHANGED <<disk, saved>>

SetTerm(t) == term' = t /\ Put([disk EXCEPT !.term = t])

SetVote(v) == vote' = v /\ Put([disk EXCEPT !.vote = v])

Init ==
  /\ disk = [term |-> 1, vote |-> NoVote]
  /\ saved = {disk}
  /\ term = 1 /\ vote = NoVote
  /\ up = TRUE
  /\ todo = Idle
  /\ granted = {}
  /\ faults = {}

(* The end of OnRequestVote: give the vote if it is free and the           *)
(* candidate's log is good enough, and reply.  The reply says granted      *)
(* whenever the vote on record is the candidate's.                         *)
Grants(m, v) == m.term = term /\ v = m.src

Reply(m, v) ==
  granted' = IF Grants(m, v)
               THEN granted \cup {[term |-> m.term, src |-> m.src, log_ok |-> m.log_ok]}
               ELSE granted

\* Mutant: the candidate's log does not count
VotesAnyLog(m) == m.term = term /\ vote = NoVote

\* Mutant: a vote already given does not count
VotesAgain(m) == m.term = term /\ m.log_ok

Votes(m) == m.term = term /\ m.log_ok /\ vote = NoVote

Decide(m) ==
  IF Votes(m)
    THEN /\ SetVote(m.src)
         /\ Reply(m, m.src)
    ELSE /\ Reply(m, vote)
         /\ UNCHANGED <<disk, saved, vote>>

(* A request for a vote: for a larger term StepDown comes first, and its   *)
(* first Put is the term.                                                  *)
OnRequestVote(m) ==
  /\ up /\ todo = Idle
  /\ IF m.term > term
       THEN /\ SetTerm(m.term)
            /\ todo' = [step |-> "clear", m |-> m]
            /\ UNCHANGED <<vote, granted>>
       ELSE /\ Decide(m)
            /\ UNCHANGED <<term, todo>>
  /\ UNCHANGED <<up, faults>>

(* Any other message with a larger term.                                   *)
OnLargerTerm(t) ==
  /\ up /\ todo = Idle
  /\ t > term
  /\ SetTerm(t)
  /\ todo' = [step |-> "clearOnly"]
  /\ UNCHANGED <<vote, up, granted, faults>>

(* StepDown's second Put.                                                  *)
ClearVote ==
  /\ up /\ todo.step \in {"clear", "clearOnly"}
  /\ SetVote(NoVote)
  /\ todo' = IF todo.step = "clear" THEN [step |-> "decide", m |-> todo.m] ELSE Idle
  /\ UNCHANGED <<term, up, granted, faults>>

DecideAfterStepDown ==
  /\ up /\ todo.step = "decide"
  /\ Decide(todo.m)
  /\ todo' = Idle
  /\ UNCHANGED <<term, up, faults>>

(* DoRequestVote: the next term, then a vote for myself.                   *)
DoRequestVote ==
  /\ up /\ todo = Idle
  /\ term < MaxTerm
  /\ SetTerm(term + 1)
  /\ todo' = [step |-> "self"]
  /\ UNCHANGED <<vote, up, granted, faults>>

VoteForMyself ==
  /\ up /\ todo.step = "self"
  /\ SetVote(Me)
  /\ granted' = granted \cup {[term |-> term, src |-> Me, log_ok |-> TRUE]}
  /\ todo' = Idle
  /\ UNCHANGED <<term, up, faults>>

(* SolidData::Init.                                                        *)
Start ==
  /\ ~up
  /\ up' = TRUE
  /\ term' = disk.term /\ vote' = disk.vote
  /\ UNCHANGED <<disk, saved, todo, granted, faults>>

Crash ==
  /\ up
  /\ faults' = faults \cup {IF todo = Idle THEN "crash" ELSE "torn"}
  /\ up' = FALSE
  /\ todo' = Idle
  /\ UNCHANGED <<disk, saved, term, vote, granted>>

PowerFailure ==
  /\ up
  /\ faults' = faults \cup {"power"}
  /\ disk' \in saved
  /\ saved' = {disk'}
  /\ up' = FALSE
  /\ todo' = Idle
  /\ UNCHANGED <<term, vote, granted>>

Next ==
  \/ \E m \in Requests : OnRequestVote(m)
  \/ \E t \in 1..MaxTerm : OnLargerTerm(t)
  \/ ClearVote
  \/ DecideAfterStepDown
  \/ DoRequestVote
  \/ VoteForMyself
  \/ Start
  \/ Crash
  \/ PowerFailure

Spec == Init /\ [][Next]_vars

-----------------------------------------------------------------------------

(* At most one server is granted the vote of a term, the server itself     *)
(* included, even if the process dies between the Puts of a handler.  (A   *)
(* power failure takes an unsynced vote back, and it is given again.)      *)
VoteOnce ==
  "power" \notin faults =>
  \A g, h \in granted : g.term = h.term => g.src = h.src

(* Between handlers the database holds the term and the vote that the      *)
(* server has in memory and answers from, whatever it came back from; a    *)
(* handler that returned has written all it decided.                       *)
WrittenThrough == (up /\ todo = Idle) => disk = [term |-> term, vote |-> vote]

(* "grant == ... /\ logOk": whoever is granted the vote of a term had, at  *)
(* least when the vote was given, a log that is good enough.  (If the      *)
(* process dies after a new term was written and before the vote was       *)
(* cleared, the old vote is granted in the new term without a look.)       *)
VotesNeedLogOk ==
  faults \subseteq {"crash"} =>
  \A g \in granted : \E h \in granted :
     h.term = g.term /\ h.src = g.src /\ h.log_ok
==============================================================================
