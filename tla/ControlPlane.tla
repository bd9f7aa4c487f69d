---------------------------- MODULE ControlPlane ----------------------------
(***************************************************************************)
(* What the repairs of the control plane promise, whatever decides them:   *)
(* the etcd members of a K3s cluster change only while a majority of them  *)
(* answers, and a member that is alive leaves only an even membership.  An *)
(* odd one would pay for the departure with its tolerance to failures, or  *)
(* with its quorum.                                                        *)
(***************************************************************************)
EXTENDS Integers, FiniteSets

CONSTANT Machine

VARIABLES
  member, \* the etcd members of the cluster
  alive   \* the machines that run

planeVars == <<member, alive>>

Majority(members, running) == 2 * Cardinality(members \cap running) > Cardinality(members)

HasMajority == Majority(member, alive)

PlaneInit == member \in SUBSET Machine /\ alive \in SUBSET Machine

\* A running machine becomes a member.
Enter(m) ==
  /\ HasMajority
  /\ m \in alive \ member
  /\ member' = member \cup {m}
  /\ UNCHANGED alive

\* Members that stopped are removed.
Evict(gone) ==
  /\ HasMajority
  /\ gone # {} /\ gone \cap alive = {}
  /\ member' = member \ gone
  /\ UNCHANGED alive

\* A running member is removed.
Retire(m) ==
  /\ HasMajority
  /\ m \in member \cap alive
  /\ Cardinality(member) % 2 = 0
  /\ member' = member \ {m}
  /\ UNCHANGED alive

\* Machines stop and start whenever they want to.
PowerChange ==
  /\ alive' \in SUBSET Machine
  /\ UNCHANGED member

PlaneNext ==
  \/ \E m \in Machine : Enter(m) \/ Retire(m)
  \/ \E gone \in SUBSET member : Evict(gone)
  \/ PowerChange

PlaneSpec == PlaneInit /\ [][PlaneNext]_planeVars

----------------------------------------------------------------------------
\* The membership never loses its majority by a change of the membership: only
\* machines that stop can take it away.
MajorityIsKept == [][HasMajority /\ UNCHANGED alive => HasMajority']_planeVars
=============================================================================
