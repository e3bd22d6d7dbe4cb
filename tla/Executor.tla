------------------------------- MODULE Executor -------------------------------
(***************************************************************************)
(* What the threads of seda promise to those who hand them functors:       *)
(* the functors submitted under one id are carried out once each, in the   *)
(* order they were accepted, and never two of them at the same time.       *)
(* WorkThread and EventLoop are shown to implement this.                   *)
(***************************************************************************)
EXTENDS Naturals, Sequences

CONSTANTS Ids, Functors

VARIABLES submitted,  \* id -> the functors accepted, in order
          ran,        \* id -> the functors carried out, in order
          running     \* id -> whether one of them is being carried out

vars == <<submitted, ran, running>>

Init ==
  /\ submitted = [i \in Ids |-> <<>>]
  /\ ran = [i \in Ids |-> <<>>]
  /\ running = [i \in Ids |-> FALSE]

Submit(i) ==
  /\ \E f \in Functors : submitted' = [submitted EXCEPT ![i] = Append(@, f)]
  /\ UNCHANGED <<ran, running>>

Begin(i) ==
  /\ ~running[i]
  /\ Len(ran[i]) < Len(submitted[i])
  /\ running' = [running EXCEPT ![i] = TRUE]
  /\ ran' = [ran EXCEPT ![i] = Append(@, submitted[i][Len(@) + 1])]
  /\ UNCHANGED submitted

End(i) ==
  /\ running[i]
  /\ running' = [running EXCEPT ![i] = FALSE]
  /\ UNCHANGED <<submitted, ran>>

Next == \E i \in Ids : Submit(i) \/ Begin(i) \/ End(i)

Spec == Init /\ [][Next]_vars
==============================================================================
