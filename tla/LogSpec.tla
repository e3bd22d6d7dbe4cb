------------------------------- MODULE LogSpec -------------------------------
(***************************************************************************)
(* What Raft asks of its log on disk: a run of entries with consecutive    *)
(* indices that grows at one end, is cut at either end, and after a        *)
(* failure is one of the states it has been in since an entry was last     *)
(* appended.  An append is durable when it returns; a cut may be undone.   *)
(***************************************************************************)
EXTENDS Naturals

CONSTANTS Entries,   \* what may be appended
          MaxIndex   \* bound on the index of an entry

VARIABLES log,       \* a function from indices to entries
          next,      \* the index of the next entry
          recover    \* the states <<log, next>> a failure may leave

vars == <<log, next, recover>>

Init ==
  /\ log = [i \in {} |-> <<>>]
  /\ next = 1
  /\ recover = {<<log, next>>}

Append(e) ==
  /\ next <= MaxIndex
  /\ log' = [i \in DOMAIN log \cup {next} |-> IF i = next THEN e ELSE log[i]]
  /\ next' = next + 1
  /\ recover' = {<<log', next'>>}

Keep(S) == log' = [i \in DOMAIN log \cap S |-> log[i]]

(* Cut the entries from index i on.                                        *)
Truncate(i) ==
  /\ i \in DOMAIN log
  /\ Keep(0..(i - 1))
  /\ next' = i
  /\ recover' = recover \cup {<<log', next'>>}

(* Cut the entries up to index i.                                          *)
Compact(i) ==
  /\ i \in DOMAIN log
  /\ Keep((i + 1)..MaxIndex)
  /\ UNCHANGED next
  /\ recover' = recover \cup {<<log', next'>>}

Fail ==
  \E s \in recover : /\ log' = s[1]
                     /\ next' = s[2]
                     /\ recover' = {s}

Next ==
  \/ \E e \in Entries : Append(e)
  \/ \E i \in 1..MaxIndex : Truncate(i) \/ Compact(i)
  \/ Fail

Spec == Init /\ [][Next]_vars
==============================================================================
