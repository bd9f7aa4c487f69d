----------------------------- MODULE Lifecycle -----------------------------
(***************************************************************************)
(* The lifecycle states a machine advertises in its Serf "state" tag, what *)
(* each of them means to the other machines, and the size of the K3s       *)
(* control plane (internal/node/state.go, internal/node/role.go and the    *)
(* two state classes of internal/cluster/view.go).                         *)
(***************************************************************************)
EXTENDS Integers

Role == {"server", "agent"}

InstallState == {"fb_bootstrap_install_init", "fb_bootstrap_install_servers",
                 "fb_bootstrap_install_agent"}

\* IsFirstBoot: the state belongs to the first-boot protocol.
FirstBoot ==
  InstallState \cup
  {"fb_discovering", "fb_bootstrap_confirm", "fb_bootstrap_waiting",
   "fb_bootstrap_failed", "fb_joining_waiting", "fb_joining_cleanup",
   "fb_joining_agent", "fb_joining_failed"}

\* InCluster: the machine already belongs to a K3s cluster.
InCluster ==
  {"stable_server", "stable_agent", "rejoin_cluster", "rejoin_failed",
   "rescale_coordinating", "rescale_promoting", "rescale_demoting",
   "rescale_failed"}

State == {"starting"} \cup FirstBoot \cup InCluster

\* isNodeAK3sServer: the machine holds one of the cluster's server slots.
HoldsServerSlot ==
  {"stable_server", "fb_bootstrap_install_init", "fb_bootstrap_install_servers",
   "rescale_coordinating", "rescale_promoting"}

\* isNodeChangingEtcdMembership: the machine is changing the etcd membership.
ChangesEtcd ==
  {"fb_bootstrap_install_init", "fb_bootstrap_install_servers",
   "rejoin_cluster", "rescale_coordinating", "rescale_promoting",
   "rescale_demoting"}

StableState(role) == IF role = "server" THEN "stable_server" ELSE "stable_agent"

Other(role) == IF role = "server" THEN "agent" ELSE "server"

----------------------------------------------------------------------------
MaxServers == 7

\* How many of total machines run a K3s server.
DesiredServerCount(total) ==
  LET count == IF total < MaxServers THEN total ELSE MaxServers
  IN  IF total <= 0 THEN 0
      ELSE IF count % 2 = 0 THEN count - 1 ELSE count

RoleForRank(rank, total) ==
  IF rank < DesiredServerCount(total) THEN "server" ELSE "agent"
=============================================================================
