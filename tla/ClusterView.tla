---------------------------- MODULE ClusterView ----------------------------
(***************************************************************************)
(* What a machine reads in one snapshot of its Serf memberlist             *)
(* (internal/cluster/view.go).  A view v maps every machine to the status  *)
(* and the state tag under which it is known, status "absent" when it is   *)
(* not known at all.  Machines are numbered in the order of their names.   *)
(*                                                                         *)
(* The status "left" does not occur: antsd never calls Leave.              *)
(***************************************************************************)
EXTENDS Lifecycle, FiniteSetsExt

Status == {"absent", "alive", "failed"}

Member == [status : Status, state : State]

Absent == [status |-> "absent", state |-> "starting"]

AliveAs(tag) == [status |-> "alive", state |-> tag]
FailedAs(tag) == [status |-> "failed", state |-> tag]

\* aliveMemberNames
AliveMembers(v) == {m \in DOMAIN v : v[m].status = "alive"}

\* isMemberAliveOrFailed: who still counts in the population.
AliveOrFailed(v) == {m \in DOMAIN v : v[m].status \in {"alive", "failed"}}

AliveIn(v, tag) == {m \in AliveMembers(v) : v[m].state = tag}

StableServers(v) == AliveIn(v, "stable_server")

\* stableServerCount
StableServerCount(v) == Cardinality(StableServers(v))

\* findK3sJoinTarget: the lowest name wins; meaningful when CanBeJoined.
CanBeJoined(v) == StableServers(v) # {}
JoinTarget(v) == Min(StableServers(v))

\* findExistingK3sClusterMember: failed members count, they may come back.
ExistingClusterMembers(v) == {m \in AliveOrFailed(v) : v[m].state \in InCluster}

\* node.Rank: the position of self among names, in lexicographic order.
Rank(names, self) == Cardinality({m \in names : m < self})

\* isVirginMember: alive and still on its first boot.
IsVirgin(v, m) == v[m].status = "alive" /\ v[m].state \in FirstBoot

\* isRescaleCoordinator: the lowest-named stable server acts for the cluster.
IsRescaleCoordinator(v, n) == CanBeJoined(v) /\ n = Min(StableServers(v))

\* Mutant of EtcdMembershipChanging: only the first boot is looked at.
EtcdMembershipInstalling(v) == \E m \in AliveMembers(v) : v[m].state \in InstallState

\* isEtcdMembershipChanging: failed members do not block.
EtcdMembershipChanging(v) == \E m \in AliveMembers(v) : v[m].state \in ChangesEtcd

\* failedMembersNames
FailedMembers(v) == {m \in DOMAIN v : v[m].status = "failed"}

\* k3sServerCount: failed members keep their server slot.
K3sServerCount(v) ==
  Cardinality({m \in AliveOrFailed(v) : v[m].state \in HoldsServerSlot})

\* Mutant of WantedServerCount: a failed member does not keep its place.
WantedServerCountAlive(v) == DesiredServerCount(Cardinality(AliveMembers(v)))

\* desiredServerCount of the population
WantedServerCount(v) == DesiredServerCount(Cardinality(AliveOrFailed(v)))

NeedsAnotherServer(v) == K3sServerCount(v) < WantedServerCount(v)
HasTooManyServers(v) == K3sServerCount(v) > WantedServerCount(v)

\* findPromotionTarget (the lowest name) and findDemotionTarget (the highest).
PromotionTargets(v) ==
  {m \in AliveIn(v, "stable_agent") : m = Min(AliveIn(v, "stable_agent"))}
DemotionTargets(v) == {m \in StableServers(v) : m = Max(StableServers(v))}
=============================================================================
