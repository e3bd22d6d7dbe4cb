------------------------------ MODULE MCVRaft ------------------------------
(***************************************************************************)
(* Model-checking instances of VRaft.                                      *)
(***************************************************************************)
EXTENDS VRaftProperties, TLC

CONSTANTS s1, s2, s3, s4

Symmetry == Permutations(Server)

(***************************************************************************)
(* Reachable states to start from: s1 led term 2 and s2 term 3, each       *)
(* appended its noop and the proposals p1 and p2 and replicated nothing,   *)
(* both restarted, s1 has since learnt of term 3 and every message is      *)
(* lost.  The two logs disagree from index 1 on.                           *)
(***************************************************************************)
RivalDisk(p1, p2) ==
    LET on(t, v, l) == [term |-> t, vote |-> v, log |-> l]
        led(t, p) == [k \in 1..Len(p) + 1 |->
                        [term |-> t, value |-> IF k = 1 THEN Noop ELSE p[k - 1]]]
    IN  (s1 :> on(3, Nil, led(2, p1))) @@ (s2 :> on(3, s2, led(3, p2))) @@ (s3 :> on(3, s2, <<>>))

RivalInit(p1, p2) == InitFrom(RivalDisk(p1, p2), {<<2, s1>>, <<3, s2>>})

(* With no proposals the logs differ in their noops only; with a proposal  *)
(* each they hold different commands at index 2, and one RPC less is       *)
(* allowed as long as one of them is left.                                 *)
RivalStart == RivalInit(<<>>, <<>>) \/ RivalInit(<<"v1">>, <<"v2">>)

HoldsProposal == \E i \in Server : \E k \in DOMAIN log[i] : log[i][k].value \in Value

RivalNext == Next /\ (HoldsProposal => used'["rpc"] < MaxRpcs)

RivalSpec == RivalStart /\ [][RivalNext]_vars
=============================================================================
