------------------------------ MODULE Bootstrap ------------------------------
(***************************************************************************)
(* The bootstrap path of the first boot (internal/cluster/bootstrap.go):   *)
(* a user asks for a new cluster, the request is broadcast, every machine  *)
(* waits, the first grace timer to expire broadcasts the start signal, and *)
(* each machine derives its role from its rank among the machines it sees  *)
(* alive.  Rank 0 founds the cluster, the next servers join one at a time, *)
(* the agents join once every server is visible.                           *)
(*                                                                         *)
(* Restarts are part of the protocol: a machine whose antsd stops comes    *)
(* back through chooseInitialState and, if it holds a state file, rejoins. *)
(* A machine that sees a cluster it is not building leaves for the joining *)
(* path, where this module stops following it.                             *)
(***************************************************************************)
EXTENDS Daemon

CONSTANTS
  Users,        \* the machines whose screen somebody uses
  GraceSuffices \* TRUE: the grace period lets every machine hear of the request

ASSUME BootstrapAssumption == Users \subseteq Node /\ GraceSuffices \in BOOLEAN

VARIABLES
  cohort,    \* cohort[n]: bootstrap.members, empty until n computes its role
  graceTimer \* graceTimer[n]: off, armed, or expired with its command queued

bootstrapVars == <<cohort, graceTimer>>
vars == <<daemonVars, bootstrapVars>>

BootstrapTypeOK ==
  /\ cohort \in [Node -> SUBSET Node]
  /\ graceTimer \in [Node -> {"off", "armed", "expired"}]

\* Every variable holds a value the code can give it: a lifecycle state the
\* source declares, a known event, a K3s role, a cohort of machines.
TypeOK == DaemonTypeOK /\ BootstrapTypeOK

\* A handler of n changes the state, the events, the operations and the
\* progress of n, and leaves the machines and their memberlists alone.
Unmoved == UNCHANGED <<up, view, diskVars>>

\* stopTimer: an expired timer has queued its command already.
Stopped(n) == [graceTimer EXCEPT ![n] = IF @ = "armed" THEN "off" ELSE @]

----------------------------------------------------------------------------
\* The role of n in the cohort it recorded (the fields rank, totalAliveMembers
\* and role of bootstrapProgress, which are set together with members).

HasRole(c) == c # {}
RoleIn(c, n) == RoleForRank(Rank(c, n), Cardinality(c))

\* Mutant of ServerTurn: the threshold counts the machine itself.
ServerTurnTooLate(c, n, v) ==
  /\ HasRole(c) /\ RoleIn(c, n) = "server"
  /\ StableServerCount(v) > Rank(c, n)
  /\ CanBeJoined(v)

\* maybeInstallServer: servers join one at a time, in rank order.
ServerTurn(c, n, v) ==
  /\ HasRole(c) /\ RoleIn(c, n) = "server"
  /\ StableServerCount(v) >= Rank(c, n)
  /\ CanBeJoined(v)

\* Mutant of AgentTurn: an agent joins the first server it sees.
AgentTurnEarly(c, n, v) ==
  HasRole(c) /\ RoleIn(c, n) = "agent" /\ CanBeJoined(v)

\* maybeInstallAgent: agents wait for the whole control plane.
AgentTurn(c, n, v) ==
  /\ HasRole(c) /\ RoleIn(c, n) = "agent"
  /\ StableServerCount(v) >= DesiredServerCount(Cardinality(c))
  /\ CanBeJoined(v)

StartOperation(n, kind, via, to) ==
  /\ Transition(n, to)
  /\ ops' = Starting(n, NewOp(kind, via))

\* maybeInstallServer then maybeInstallAgent, for a waiting machine.
InstallIfTurn(c, n, v) ==
  \/ /\ ServerTurn(c, n, v)
     /\ StartOperation(n, "server", JoinTarget(v), "fb_bootstrap_install_servers")
  \/ /\ AgentTurn(c, n, v)
     /\ StartOperation(n, "agent", JoinTarget(v), "fb_bootstrap_install_agent")

----------------------------------------------------------------------------
\* The user's buttons.

\* onRequestBootstrap: refused beside an existing cluster.
RequestBootstrap(n) ==
  /\ n \in Users /\ n \in up
  /\ state[n] = "fb_discovering"
  /\ ExistingClusterMembers(Observe(n)) = {}
  /\ Transition(n, "fb_bootstrap_confirm")
  /\ Unmoved /\ UNCHANGED <<inbox, ops, file, faults, bootstrapVars>>

\* onCancelBootstrap
CancelBootstrap(n) ==
  /\ n \in Users /\ n \in up
  /\ state[n] = "fb_bootstrap_confirm"
  /\ Transition(n, "fb_discovering")
  /\ Unmoved /\ UNCHANGED <<inbox, ops, file, faults, bootstrapVars>>

\* onConfirmBootstrap only broadcasts: this machine moves when it receives its
\* own event.  When GraceSuffices, the user confirms once the screen counts
\* every machine.
ConfirmBootstrap(n) ==
  /\ n \in Users /\ n \in up
  /\ state[n] = "fb_bootstrap_confirm"
  /\ GraceSuffices => EveryoneMet
  /\ \/ inbox' = Broadcast(n, "bootstrap-requested") /\ UNCHANGED faults
     \/ UNCHANGED inbox /\ Fault("send")
  /\ Unmoved /\ UNCHANGED <<state, ops, file, bootstrapVars>>

----------------------------------------------------------------------------
\* The two broadcasts and the grace timer.

\* Mutant of CanEnterWaiting: a late request also stops an installation.
CanEnterWaitingAlways == {"fb_discovering", "fb_bootstrap_confirm"} \cup InstallState

CanEnterWaiting == {"fb_discovering", "fb_bootstrap_confirm"}

\* onBootstrapRequested
OnBootstrapRequested(n) ==
  /\ Running(n) /\ "bootstrap-requested" \in inbox[n]
  /\ state[n] \in CanEnterWaiting
  /\ Transition(n, "fb_bootstrap_waiting")
  /\ graceTimer' = [graceTimer EXCEPT ![n] = "armed"]
  /\ inbox' = Handled(n, "bootstrap-requested")
  /\ Unmoved /\ UNCHANGED <<ops, file, faults, cohort>>

\* An event that arrives in an unexpected state is ignored.
IgnoreEvent(n, event) ==
  /\ Running(n) /\ event \in inbox[n]
  /\ \/ event = "bootstrap-requested" /\ state[n] \notin CanEnterWaiting
     \/ event = "bootstrap-start" /\ state[n] # "fb_bootstrap_waiting"
  /\ inbox' = Handled(n, event)
  /\ Unmoved /\ UNCHANGED <<state, ops, file, faults, bootstrapVars>>

\* The grace timer fires and queues its command.  When
\* GraceSuffices, the period outlasts the delivery of the confirmation and the
\* discovery (bootstrap.go:25).
TimerFires(n) ==
  /\ n \in up /\ graceTimer[n] = "armed"
  /\ GraceSuffices => EveryoneMet /\ \A m \in up : "bootstrap-requested" \notin inbox[m]
  /\ graceTimer' = [graceTimer EXCEPT ![n] = "expired"]
  /\ Unmoved /\ UNCHANGED <<state, inbox, ops, file, faults, cohort>>

\* onBootstrapWaitExpired, and failBootstrap when the broadcast fails.
OnBootstrapWaitExpired(n) ==
  /\ n \in up /\ graceTimer[n] = "expired"
  /\ graceTimer' = [graceTimer EXCEPT ![n] = "off"]
  /\ \/ /\ state[n] # "fb_bootstrap_waiting"
        /\ UNCHANGED <<state, inbox, faults>>
     \/ /\ state[n] = "fb_bootstrap_waiting"
        /\ inbox' = Broadcast(n, "bootstrap-start")
        /\ UNCHANGED <<state, faults>>
     \/ /\ state[n] = "fb_bootstrap_waiting"
        /\ Fault("send")
        /\ Transition(n, "fb_bootstrap_failed")
        /\ UNCHANGED inbox
  /\ Unmoved /\ UNCHANGED <<ops, file, cohort>>

----------------------------------------------------------------------------
\* onBootstrapStart: n records its cohort, stops its timer, and ...
ComputeRole(n) ==
  /\ Running(n) /\ "bootstrap-start" \in inbox[n]
  /\ state[n] = "fb_bootstrap_waiting"
  /\ cohort' = [cohort EXCEPT ![n] = AliveMembers(Observe(n))]
  /\ graceTimer' = Stopped(n)
  /\ inbox' = Handled(n, "bootstrap-start")
  /\ Unmoved /\ UNCHANGED <<file, faults>>

\* Mutant of IsRankZero: ranks that start at one.
IsRankOne(n) == Rank(AliveMembers(Observe(n)), n) <= 1

IsRankZero(n) == Rank(AliveMembers(Observe(n)), n) = 0

\* Mutant of InitializeCluster: the network is not checked again.
InitializeClusterAnyway(n) ==
  /\ ComputeRole(n)
  /\ IsRankZero(n)
  /\ StartOperation(n, "init", None, "fb_bootstrap_install_init")

\* ... founds the cluster, as rank 0;
InitializeCluster(n) ==
  /\ ComputeRole(n)
  /\ IsRankZero(n)
  /\ ExistingClusterMembers(Observe(n)) = {}
  /\ StartOperation(n, "init", None, "fb_bootstrap_install_init")

\* ... or refuses to, beside an existing cluster;
RefuseToInitialize(n) ==
  /\ ComputeRole(n)
  /\ IsRankZero(n)
  /\ ExistingClusterMembers(Observe(n)) # {}
  /\ Transition(n, "fb_bootstrap_failed")
  /\ UNCHANGED ops

\* ... or, with another rank, installs K3s at once or waits for its turn.
TakeRole(n) ==
  LET v == Observe(n)
      c == AliveMembers(v)
  IN  /\ ComputeRole(n)
      /\ ~IsRankZero(n)
      /\ \/ InstallIfTurn(c, n, v)
         \/ /\ ~ServerTurn(c, n, v) /\ ~AgentTurn(c, n, v)
            /\ UNCHANGED <<state, ops>>

OnBootstrapStart(n) == InitializeCluster(n) \/ RefuseToInitialize(n) \/ TakeRole(n)

----------------------------------------------------------------------------
\* A membership event reaches a machine that has not installed anything.

\* maybeStartJoiningPath: a joinable server outside the cohort of n.
SeesForeignServer(n) ==
  LET v == Observe(n)
  IN  CanBeJoined(v) /\ JoinTarget(v) \notin cohort[n]

DivertToJoining(n) ==
  /\ n \in up
  /\ state[n] \in {"fb_discovering", "fb_bootstrap_confirm", "fb_bootstrap_waiting"}
  /\ SeesForeignServer(n)
  /\ Transition(n, "fb_joining_waiting")
  /\ cohort' = [cohort EXCEPT ![n] = {}]
  /\ graceTimer' = Stopped(n)
  /\ Unmoved /\ UNCHANGED <<inbox, ops, file, faults>>

\* maybeInstallServer and maybeInstallAgent: the turn of n came.
InstallOnTurn(n) ==
  /\ n \in up /\ state[n] = "fb_bootstrap_waiting"
  /\ ~SeesForeignServer(n)
  /\ InstallIfTurn(cohort[n], n, Observe(n))
  /\ Unmoved /\ UNCHANGED <<inbox, file, faults, bootstrapVars>>

----------------------------------------------------------------------------
\* The results of the installation, dispatched by the state of n.

\* Mutant of InstalledAs: the kind of the installation is saved, not the role.
InstalledKind(s) == IF s = "fb_bootstrap_install_agent" THEN "agent" ELSE "init"

InstalledAs(s) == IF s = "fb_bootstrap_install_agent" THEN "agent" ELSE "server"

\* Mutant of OnBootstrapInstallSucceeded: the error of the operation is dropped.
OnBootstrapInstallEnded(n, op) ==
  /\ op \in ops[n] /\ op.phase \in {"ok", "error"} /\ state[n] \in InstallState
  /\ BecomeStable(n, InstalledAs(state[n]))
  /\ ops' = Without(n, op)
  /\ Unmoved /\ UNCHANGED <<inbox, bootstrapVars>>

\* onBootstrapInstallSucceeded
OnBootstrapInstallSucceeded(n, op) ==
  /\ op \in ops[n] /\ op.phase = "ok" /\ state[n] \in InstallState
  /\ BecomeStable(n, InstalledAs(state[n]))
  /\ ops' = Without(n, op)
  /\ Unmoved /\ UNCHANGED <<inbox, bootstrapVars>>

\* Mutant of FailBootstrap: the failure is logged and the state kept.
FailBootstrapSilently(n, op) ==
  /\ op \in ops[n] /\ op.phase = "error" /\ state[n] \in InstallState
  /\ graceTimer' = Stopped(n)
  /\ ops' = Without(n, op)
  /\ Unmoved /\ UNCHANGED <<state, inbox, file, faults, cohort>>

\* failBootstrap, after a failed installation
FailBootstrap(n, op) ==
  /\ op \in ops[n] /\ op.phase = "error" /\ state[n] \in InstallState
  /\ Transition(n, "fb_bootstrap_failed")
  /\ graceTimer' = Stopped(n)
  /\ ops' = Without(n, op)
  /\ Unmoved /\ UNCHANGED <<inbox, file, faults, cohort>>

----------------------------------------------------------------------------
\* A crash also loses the progress of the bootstrap.
CrashAndForget(n) ==
  /\ Crash(n)
  /\ cohort' = [cohort EXCEPT ![n] = {}]
  /\ graceTimer' = [graceTimer EXCEPT ![n] = "off"]

Init ==
  /\ DaemonInit
  /\ cohort = [n \in Node |-> {}]
  /\ graceTimer = [n \in Node |-> "off"]

UserAction(n) == RequestBootstrap(n) \/ CancelBootstrap(n) \/ ConfirmBootstrap(n)

Handler(n) ==
  \/ OnBootstrapRequested(n) \/ OnBootstrapWaitExpired(n) \/ OnBootstrapStart(n)
  \/ DivertToJoining(n) \/ InstallOnTurn(n)
  \/ \E event \in EventName : IgnoreEvent(n, event)

ResultHandler(n, op) == OnBootstrapInstallSucceeded(n, op) \/ FailBootstrap(n, op)

Next ==
  \/ Environment /\ UNCHANGED bootstrapVars
  \/ \E n \in Node : UserAction(n) \/ Handler(n) \/ TimerFires(n) \/ CrashAndForget(n)
  \/ \E n \in Node : \E op \in ops[n] :
       \/ OpStep(n, op) /\ UNCHANGED bootstrapVars
       \/ RejoinStep(n, op) /\ UNCHANGED bootstrapVars
       \/ ResultHandler(n, op)

Spec == Init /\ [][Next]_vars

\* The run loop serves both of its channels, the goroutines and the timers run,
\* gossip reaches everybody in the end, a stopped machine is started again.
\* Nothing obliges a user to act or a fault to happen.
Fairness ==
  \A n \in Node :
    /\ WF_vars(Handler(n))
    /\ WF_vars(TimerFires(n))
    /\ WF_vars((PowerOn(n) \/ ChooseInitialState(n)) /\ UNCHANGED bootstrapVars)
    /\ WF_vars(\E op \in ops[n] : OpStep(n, op) /\ UNCHANGED bootstrapVars)
    /\ WF_vars(\E op \in ops[n] : \/ RejoinStep(n, op) /\ UNCHANGED bootstrapVars
                                 \/ ResultHandler(n, op))
    /\ \A m \in Node : WF_vars((Learn(n, m) \/ DetectFailure(n, m)) /\ UNCHANGED bootstrapVars)

FairSpec == Spec /\ Fairness
----------------------------------------------------------------------------
\* Properties.

\* A K3s operation in flight belongs to the workflow its machine is in, and is
\* the only one.  onK3sOperationSucceeded has no other way to know what
\* finished than the current state (manager.go:321).
StateOfOp(kind) ==
  CASE kind = "init"   -> "fb_bootstrap_install_init"
    [] kind = "server" -> "fb_bootstrap_install_servers"
    [] kind = "agent"  -> "fb_bootstrap_install_agent"
    [] kind = "rejoin" -> "rejoin_cluster"
    [] kind = "check"  -> "fb_joining_cleanup"
    [] kind \in {"erase", "evict", "prepare"} -> "rescale_coordinating"
    [] kind = "promote" -> "rescale_promoting"
    [] kind = "demote"  -> "rescale_demoting"

ResultsReachTheirWorkflow ==
  \A n \in Node : \A op, other \in ops[n] :
    op = other /\ state[n] = StateOfOp(op.kind)

\* A machine that advertises a stable role runs K3s in that role, on data that
\* belongs to a cluster, whatever was interrupted, lost or late before.
StableIsInstalled ==
  \A n \in Node : \A role \in Role :
    state[n] = StableState(role) => unit[n] = role /\ cluster[n] # None

\* The server a machine would join has K3s data, even when the tag is old: a
\* stale memberlist never sends an installation to an empty machine.
JoinTargetsHoldACluster ==
  \A n, m \in Node :
    view[n][m].state = "stable_server" => unit[m] = "server" /\ cluster[m] # None

\* A machine whose first boot was saved never replays it: no crash, failed save
\* or unreadable file brings it back to the protocol that installs K3s
\* (rejoin.go:11).
NeverBackToFirstBoot ==
  \A n \in Node : file[n] # "none" => state[n] \notin FirstBoot

\* At most one K3s cluster exists on the network.
OneCluster ==
  \A n, m \in Node :
    cluster[n] # None /\ cluster[m] # None => cluster[n] = cluster[m]

\* Once a machine waits, every machine ends up in the cluster: nobody waits for
\* a rank that no one takes, or for a server that never shows.
BootstrapCompletes ==
  (\E n \in Node : state[n] = "fb_bootstrap_waiting")
    ~> \A n \in Node : state[n] \in {"stable_server", "stable_agent"}

\* No machine, nor several in turn, keep the other ones from changing the etcd
\* membership for ever (view.go:267: "those states must have a
\* deadline/timeout").
EtcdTurnEnds ==
  (\E n \in Node : state[n] \in ChangesEtcd) ~> \A n \in Node : state[n] \notin ChangesEtcd

\* The machines whose first boot is saved all come back to their roles after a
\* crash, as long as their disks are readable, or report that K3s did not come up
\* before the deadline: none stays behind in a step of its start, or in the
\* bootstrap (rejoin.go:29).
StableAgain ==
  (\E n \in Node : file[n] \in Role)
    ~> \A n \in Node : file[n] \in Role =>
         state[n] \in {StableState(file[n]), "rejoin_failed"}

\* The abstract formation of one cluster that this module implements.
Formed(n) ==
  IF state[n] = "stable_server" THEN "server"
  ELSE IF state[n] = "stable_agent" THEN "agent"
  ELSE IF state[n] \in InstallState THEN "entering"
  ELSE "out"

F == INSTANCE Formation WITH member <- [n \in Node |-> Formed(n)]

ImplementsFormation == F!Spec
=============================================================================
