-------------------------------- MODULE MCVdb --------------------------------
(***************************************************************************)
(* Two kinds of behaviour of Vdb: two tables of different sizes with few   *)
(* keys, one index, with trees or without, a delete and a crash, and one   *)
(* table with replicas that is searched, with two indexes, more keys and   *)
(* more restarts.                                                          *)
(***************************************************************************)
EXTENDS Vdb

CONSTANTS FirstTable, StoredKeys

VARIABLE part   \* "store" or "search"

(* The slots a table has in a part.                                        *)
Shape(t) == IF part = "search" THEN Slots(2, 2)
            ELSE IF t = FirstTable THEN Slots(2, 1) ELSE Slots(1, 1)

StoreBounds ==
  /\ used'.index <= 1 /\ used'.stop <= 1
  /\ \A t \in TableNames, k \in Keys \ StoredKeys : written'[t][k] = Nothing

SearchBounds ==
  /\ DOMAIN tables' \subseteq {FirstTable}
  /\ used'.delete = 0 /\ used'.crash = 0 /\ used'.treeless = 0

MCInit == part \in {"store", "search"} /\ Init

MCNext ==
  /\ Next
  /\ \A t \in DOMAIN tables' : DOMAIN tables'[t].uid = Shape(t)
  /\ (part = "store" /\ StoreBounds) \/ (part = "search" /\ SearchBounds)
  /\ UNCHANGED part

MCSpec == MCInit /\ [][MCNext]_<<part, vars>>
==============================================================================
