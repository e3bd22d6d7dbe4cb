----------------------------- MODULE MCMembership -----------------------------
(***************************************************************************)
(* Membership change seen by a member of the cluster and by a server that  *)
(* is started empty to be added to it.  What a server that restarted with  *)
(* a configuration in its log does is not followed any further: no         *)
(* property speaks about it.                                               *)
(***************************************************************************)
EXTENDS Membership

CONSTANTS Joiner,
          JoinBase   \* the members at first of the cluster it joins

(* The member stays one: other leaders add and remove other servers.  The  *)
(* joiner is a server that is not a member yet; others may be added before *)
(* and after it.                                                           *)
ASSUME PartsAssumption ==
  /\ ~Standby /\ Me \notin Movable
  /\ JoinBase \subseteq Servers /\ Joiner \in Servers \ JoinBase

VARIABLE part   \* "member" or "joiner"

J == INSTANCE Membership WITH Me <- Joiner, Standby <- TRUE, Base <- JoinBase

MembershipInit == (part = "member" /\ Init) \/ (part = "joiner" /\ J!Init)

MembershipNext ==
  /\ UNCHANGED part
  /\ (part = "member" /\ Next) \/ (part = "joiner" /\ J!Next)

MembershipSpec == MembershipInit /\ [][MembershipNext]_<<part, vars>>

NotReread == ~reread

-----------------------------------------------------------------------------

(* The current configuration is the last one in the log with me the        *)
(* server's own address; heartbeat timers run for exactly its peers and    *)
(* the other managers miss none of them, whatever was appended, truncated, *)
(* appended again and answered late.                                       *)
MemberFollowsLog == part = "member" => CurrentIsLastLogged /\ ManagersMatchConfig

(* No assertion of ConfigChange or ConfigRollback fails.                   *)
MemberAssertsHold == part = "member" => AssertsHold

(* A leader has one configuration beyond what is chosen, at most, and      *)
(* changing_index_ is the index of the last one as long as it is not       *)
(* chosen.                                                                 *)
MemberOneChange == part = "member" => OneChangeAtATime /\ ChangingIndexKnown

(* A server that was added and has applied that is no longer a standby,    *)
(* unless a second change reached it before.                               *)
JoinerStandbyClears == part = "joiner" => J!StandbyClears
==============================================================================
