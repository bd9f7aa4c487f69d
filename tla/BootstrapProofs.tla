-------------------------- MODULE BootstrapProofs --------------------------
(***************************************************************************)
(* Theorems about Bootstrap, for every set of machines, every kind and     *)
(* number of faults and every timing, and the facts about the operators of *)
(* Lifecycle and ClusterView that they rest on.                            *)
(***************************************************************************)
EXTENDS Bootstrap, FiniteSetTheorems, WellFoundedInduction, TLAPS

----------------------------------------------------------------------------
(* The memberlist and the size of the control plane *)

\* A non-empty set of machines has a lowest name: findK3sJoinTarget returns one
\* of the members it looked at.
LEMMA MinIsLowest ==
  ASSUME NEW S \in SUBSET Nat, S # {}
  PROVE  Min(S) \in S /\ \A m \in S : Min(S) <= m
<1> DEFINE R == OpToRel(<, Nat)
<1>1. \E x \in S : \A y \in S : ~ (<<y, x>> \in R)
  <2> HIDE DEF R
  <2>1. IsWellFoundedOn(R, Nat)
    BY NatLessThanWellFounded DEF R
  <2> QED
    BY <2>1, WFMin
<1>2. PICK x \in S : \A y \in S : ~ (<<y, x>> \in R)
  BY <1>1
<1>3. ASSUME NEW y \in S PROVE x <= y
  <2>1. <<y, x>> \in Nat \X Nat
    OBVIOUS
  <2>2. ~ (y < x)
    BY <1>2, <2>1 DEF OpToRel
  <2> QED
    BY <2>2
<1>4. \E z \in S : \A m \in S : z <= m
  BY <1>3
<1> QED
  BY <1>4 DEF Min

\* A machine that can join a cluster joins one of the stable servers it sees.
LEMMA JoinTargetIsStable ==
  ASSUME NEW v, DOMAIN v \subseteq Nat, CanBeJoined(v)
  PROVE  JoinTarget(v) \in DOMAIN v /\ v[JoinTarget(v)].state = "stable_server"
<1>1. StableServers(v) \in SUBSET Nat /\ StableServers(v) # {}
  BY DEF CanBeJoined, StableServers, AliveIn, AliveMembers
<1>2. JoinTarget(v) \in StableServers(v)
  BY <1>1, MinIsLowest DEF JoinTarget
<1> QED
  BY <1>2 DEF StableServers, AliveIn, AliveMembers

\* The control plane is an odd number of servers, never more than the machines
\* nor than the seven etcd recommends, and the largest such number.
THEOREM ControlPlaneSize ==
  ASSUME NEW total \in Nat, total > 0
  PROVE  /\ DesiredServerCount(total) \in 1..MaxServers
         /\ DesiredServerCount(total) <= total
         /\ DesiredServerCount(total) % 2 = 1
         /\ \A k \in 1..MaxServers :
              k % 2 = 1 /\ k <= total => k <= DesiredServerCount(total)
BY DEF DesiredServerCount, MaxServers

----------------------------------------------------------------------------
(* Typing *)

\* The helpers of the handlers build well-typed values.
LEMMA HelpersTyped ==
  ASSUME TypeOK, NEW n \in Node
  PROVE  /\ Observe(n) \in [Node -> Member]
         /\ DOMAIN Observe(n) = Node
         /\ AliveMembers(Observe(n)) \in SUBSET Node
         /\ \A event \in EventName :
              /\ Broadcast(n, event) \in [Node -> SUBSET EventName]
              /\ Handled(n, event) \in [Node -> SUBSET EventName]
         /\ Stopped(n) \in [Node -> {"off", "armed", "expired"}]
<1>1. AliveAs(state[n]) \in Member
  BY DEF TypeOK, DaemonTypeOK, AliveAs, Member, Status
<1>2. Observe(n) \in [Node -> Member]
  BY <1>1 DEF TypeOK, DaemonTypeOK, Observe
<1> QED
  BY <1>2 DEF TypeOK, DaemonTypeOK, BootstrapTypeOK, AliveMembers, Broadcast, Handled, Stopped

LEMMA OpsTyped ==
  ASSUME TypeOK, NEW n \in Node
  PROVE  /\ \A kind \in {"init", "rejoin"} :
              Starting(n, NewOp(kind, None)) \in [Node -> SUBSET Op]
         /\ \A kind \in {"server", "agent"}, via \in Node :
              Starting(n, NewOp(kind, via)) \in [Node -> SUBSET Op]
         /\ \A op \in ops[n] :
              /\ op \in Op
              /\ Without(n, op) \in [Node -> SUBSET Op]
              /\ \A phase \in OpPhase : InPhase(n, op, phase) \in [Node -> SUBSET Op]
<1> USE DEF TypeOK, DaemonTypeOK
<1>1. ASSUME NEW kind \in {"init", "rejoin"} PROVE NewOp(kind, None) \in Op
  BY DEF NewOp, Op, OpPhase
<1>2. ASSUME NEW kind \in {"server", "agent"}, NEW via \in Node PROVE NewOp(kind, via) \in Op
  BY DEF NewOp, Op, OpPhase
<1>3. ASSUME NEW op \in ops[n], NEW phase \in OpPhase
      PROVE  op \in Op /\ [kind |-> op.kind, via |-> op.via, phase |-> phase] \in Op
  BY DEF Op
<1> QED
  BY <1>1, <1>2, <1>3 DEF Starting, Without, InPhase, OpPhase

\* A machine begins an installation through a machine of the network.
LEMMA InstallTargetTyped ==
  ASSUME TypeOK, NEW n \in Node, CanBeJoined(Observe(n))
  PROVE  JoinTarget(Observe(n)) \in Node
<1>1. DOMAIN Observe(n) = Node
  BY HelpersTyped
<1> QED
  BY <1>1, JoinTargetIsStable, DaemonAssumption

LEMMA InitTyped == Init => TypeOK
<1> SUFFICES ASSUME Init PROVE TypeOK
  OBVIOUS
<1> USE DEF Init, DaemonInit, TypeOK, DaemonTypeOK, InstalledUnit, StateFile, BootstrapTypeOK
<1>1. state \in [Node -> State]
  BY DEF State, FirstBoot, InCluster
<1>2. view \in [Node -> [Node -> Member]]
  BY <1>1 DEF Absent, AliveAs, Member, Status, State
<1>3. ASSUME NEW n \in Established PROVE Min(Established) \in Node
  BY MinIsLowest, DaemonAssumption
<1>4. cluster \in [Node -> Node \cup {None}]
  BY <1>3
<1> QED
  BY <1>1, <1>2, <1>4, DaemonAssumption DEF Role
\* Every state name a step moves to is a lifecycle state.
LEMMA StatesNamed ==
  /\ {"starting", "fb_discovering", "fb_bootstrap_confirm", "fb_bootstrap_waiting",
       "fb_bootstrap_failed", "fb_joining_waiting", "rejoin_cluster", "rejoin_failed"}
       \subseteq State
  /\ InstallState \subseteq State
  /\ \A role \in Role : StableState(role) \in State
BY DEF State, FirstBoot, InCluster, InstallState, Role, StableState

LEMMA TransitionTyped ==
  ASSUME TypeOK, NEW n \in Node, NEW to \in State, Transition(n, to)
  PROVE  state' \in [Node -> State]
BY DEF TypeOK, DaemonTypeOK, Transition

LEMMA FaultTyped ==
  ASSUME TypeOK, NEW kind, Fault(kind)
  PROVE  faults' \in 0..MaxFaults
BY DaemonAssumption DEF TypeOK, DaemonTypeOK, Fault

LEMMA BeginInstallTyped ==
  ASSUME TypeOK, NEW n \in Node, NEW c, InstallIfTurn(c, n, Observe(n))
  PROVE  state' \in [Node -> State] /\ ops' \in [Node -> SUBSET Op]
<1>1. JoinTarget(Observe(n)) \in Node
  BY InstallTargetTyped DEF InstallIfTurn, ServerTurn, AgentTurn
<1> QED
  BY <1>1, OpsTyped, TransitionTyped, StatesNamed
  DEF InstallIfTurn, StartOperation, InstallState

LEMMA BecomeStableTyped ==
  ASSUME TypeOK, NEW n \in Node, NEW role \in Role, BecomeStable(n, role)
  PROVE  /\ state' \in [Node -> State]
         /\ file' \in [Node -> Role \cup {"none", "unusable"}]
         /\ faults' \in 0..MaxFaults
BY TransitionTyped, StatesNamed, FaultTyped DEF BecomeStable, Save, TypeOK, DaemonTypeOK, StateFile

LEMMA EnvironmentTyped ==
  ASSUME TypeOK, Environment, UNCHANGED bootstrapVars
  PROVE  TypeOK'
<1> USE DEF TypeOK, DaemonTypeOK, BootstrapTypeOK, bootstrapVars, diskVars
<1>1. ASSUME NEW n \in Node, NEW m \in Node, Learn(n, m) PROVE TypeOK'
  <2>1. AliveAs(state[m]) \in Member
    BY DEF AliveAs, Member, Status
  <2> QED
    BY <1>1, <2>1 DEF Learn
<1>2. ASSUME NEW n \in Node, NEW m \in Node, DetectFailure(n, m) PROVE TypeOK'
  <2>1. FailedAs(view[n][m].state) \in Member
    BY DEF FailedAs, Member, Status
  <2> QED
    BY <1>2, <2>1 DEF DetectFailure
<1>3. ASSUME NEW n \in Node, NEW m \in Node, Suspect(n, m) PROVE TypeOK'
  <2>1. FailedAs(view[n][m].state) \in Member
    BY DEF FailedAs, Member, Status
  <2> QED
    BY <1>3, <2>1, FaultTyped DEF Suspect
<1>4. ASSUME NEW n \in Node, NEW event \in EventName, Lose(n, event) PROVE TypeOK'
  BY <1>4, FaultTyped, HelpersTyped DEF Lose
<1>5. ASSUME NEW n \in Node, PowerOn(n) PROVE TypeOK'
  BY <1>5 DEF PowerOn
<1>6. ASSUME NEW n \in Node, ChooseInitialState(n) PROVE TypeOK'
  BY <1>6, TransitionTyped, StatesNamed, OpsTyped DEF ChooseInitialState
<1> QED
  BY <1>1, <1>2, <1>3, <1>4, <1>5, <1>6 DEF Environment

\* An installation that does not found a cluster was given a machine's address.
LEMMA OpFields ==
  ASSUME TypeOK, NEW n \in Node, NEW op \in ops[n]
  PROVE  /\ op.phase \in OpPhase
         /\ op.kind \in {"init", "rejoin", "check", "evict", "server", "agent", "erase",
                        "prepare", "promote", "demote"}
         /\ op.kind \in {"server", "agent"} => op.via \in Node
BY DEF TypeOK, DaemonTypeOK, Op

LEMMA OpStepTyped ==
  ASSUME TypeOK, NEW n \in Node, NEW op \in ops[n], OpStep(n, op), UNCHANGED bootstrapVars
  PROVE  TypeOK'
<1> USE DEF TypeOK, DaemonTypeOK, InstalledUnit, BootstrapTypeOK, bootstrapVars, diskVars
<1>1. CASE RefuseToReinstall(n, op)
  BY <1>1, OpsTyped DEF RefuseToReinstall, OpPhase
<1>2. CASE RunInstallScript(n, op)
  <2>1. (IF op.kind = "init" THEN n ELSE cluster[op.via]) \in Node \cup {None}
    BY <1>2, OpFields DEF RunInstallScript, Install
  <2> QED
    BY <1>2, <2>1, OpsTyped DEF RunInstallScript, OpPhase, RoleOf, Role
<1>3. CASE FailInstallScript(n, op)
  BY <1>3, OpsTyped, FaultTyped DEF FailInstallScript, OpPhase
<1>4. CASE CheckInstalledRole(n, op)
  BY <1>4, OpsTyped DEF CheckInstalledRole, OpPhase
<1>5. CASE BecomeReady(n, op)
  BY <1>5, OpsTyped DEF BecomeReady, OpPhase
<1>6. CASE TimeOut(n, op)
  BY <1>6, OpsTyped, FaultTyped DEF TimeOut, OpPhase
<1> QED
  BY <1>1, <1>2, <1>3, <1>4, <1>5, <1>6 DEF OpStep

LEMMA ResultTyped ==
  ASSUME TypeOK, NEW n \in Node, NEW op \in ops[n],
         \/ RejoinStep(n, op) /\ UNCHANGED bootstrapVars
         \/ ResultHandler(n, op)
  PROVE  TypeOK'
<1> USE DEF TypeOK, DaemonTypeOK, StateFile, BootstrapTypeOK, bootstrapVars, diskVars, Unmoved
<1>1. ASSUME OnRejoinReady(n, op), UNCHANGED bootstrapVars PROVE TypeOK'
  <2>1. CASE file[n] \in Role
    BY <1>1, <2>1, OpsTyped, BecomeStableTyped DEF OnRejoinReady
  <2>2. CASE file[n] \notin Role
    \* The state to enter is stable_agent whatever the file says: only the file
    \* itself needs care, and it is written back unchanged.
    <3>1. StableState(file[n]) \in State
      BY DEF StableState, State, InCluster
    <3>2. state' \in [Node -> State]
      BY <1>1, <3>1, TransitionTyped DEF OnRejoinReady, BecomeStable, Save
    <3>3. file' \in [Node -> Role \cup {"none", "unusable"}] /\ faults' \in 0..MaxFaults
      BY <1>1, FaultTyped DEF OnRejoinReady, BecomeStable, Save
    <3> QED
      BY <1>1, <3>2, <3>3, OpsTyped DEF OnRejoinReady
  <2> QED
    BY <2>1, <2>2
<1>2. ASSUME FailRejoin(n, op), UNCHANGED bootstrapVars PROVE TypeOK'
  BY <1>2, OpsTyped, TransitionTyped, StatesNamed DEF FailRejoin
<1>3. ASSUME OnBootstrapInstallSucceeded(n, op) PROVE TypeOK'
  <2>1. InstalledAs(state[n]) \in Role
    BY DEF InstalledAs, Role
  <2> QED
    BY <1>3, <2>1, OpsTyped, BecomeStableTyped DEF OnBootstrapInstallSucceeded
<1>4. ASSUME FailBootstrap(n, op) PROVE TypeOK'
  BY <1>4, OpsTyped, HelpersTyped, TransitionTyped, StatesNamed DEF FailBootstrap
<1> QED
  BY <1>1, <1>2, <1>3, <1>4 DEF RejoinStep, ResultHandler

LEMMA UserActionTyped ==
  ASSUME TypeOK, NEW n \in Node, UserAction(n)
  PROVE  TypeOK'
<1> USE DEF TypeOK, DaemonTypeOK, BootstrapTypeOK, bootstrapVars, diskVars, Unmoved
<1>1. CASE RequestBootstrap(n)
  BY <1>1, TransitionTyped, StatesNamed DEF RequestBootstrap
<1>2. CASE CancelBootstrap(n)
  BY <1>2, TransitionTyped, StatesNamed DEF CancelBootstrap
<1>3. CASE ConfirmBootstrap(n)
  BY <1>3, HelpersTyped, FaultTyped DEF ConfirmBootstrap, EventName
<1> QED
  BY <1>1, <1>2, <1>3 DEF UserAction

LEMMA ComputeRoleTyped ==
  ASSUME TypeOK, NEW n \in Node, ComputeRole(n),
         state' \in [Node -> State], ops' \in [Node -> SUBSET Op]
  PROVE  TypeOK'
BY HelpersTyped
DEF TypeOK, DaemonTypeOK, BootstrapTypeOK, bootstrapVars, diskVars, Unmoved, ComputeRole, EventName

LEMMA HandlerTyped ==
  ASSUME TypeOK, NEW n \in Node, Handler(n)
  PROVE  TypeOK'
<1> USE DEF TypeOK, DaemonTypeOK, BootstrapTypeOK, bootstrapVars, diskVars, Unmoved
<1>1. CASE OnBootstrapRequested(n)
  BY <1>1, HelpersTyped, TransitionTyped, StatesNamed DEF OnBootstrapRequested, EventName
<1>2. CASE OnBootstrapWaitExpired(n)
  BY <1>2, HelpersTyped, TransitionTyped, FaultTyped, StatesNamed
  DEF OnBootstrapWaitExpired, EventName
<1>3. CASE InitializeCluster(n)
  BY <1>3, ComputeRoleTyped, OpsTyped, TransitionTyped, StatesNamed
  DEF InitializeCluster, StartOperation, InstallState
<1>4. CASE RefuseToInitialize(n)
  BY <1>4, ComputeRoleTyped, TransitionTyped, StatesNamed DEF RefuseToInitialize
<1>5. CASE TakeRole(n)
  BY <1>5, ComputeRoleTyped, BeginInstallTyped DEF TakeRole
<1>6. CASE DivertToJoining(n)
  BY <1>6, HelpersTyped, TransitionTyped, StatesNamed DEF DivertToJoining
<1>7. CASE InstallOnTurn(n)
  BY <1>7, BeginInstallTyped DEF InstallOnTurn
<1>8. ASSUME NEW event \in EventName, IgnoreEvent(n, event) PROVE TypeOK'
  BY <1>8, HelpersTyped DEF IgnoreEvent
<1> QED
  BY <1>1, <1>2, <1>3, <1>4, <1>5, <1>6, <1>7, <1>8 DEF Handler, OnBootstrapStart

LEMMA TimerAndCrashTyped ==
  ASSUME TypeOK, NEW n \in Node, TimerFires(n) \/ CrashAndForget(n)
  PROVE  TypeOK'
<1> USE DEF TypeOK, DaemonTypeOK, InstalledUnit, StateFile, BootstrapTypeOK, bootstrapVars, diskVars, Unmoved
<1>1. CASE TimerFires(n)
  BY <1>1 DEF TimerFires
<1>2. CASE CrashAndForget(n)
  <2>1. [m \in Node |-> Absent] \in [Node -> Member] /\ "starting" \in State
    BY StatesNamed DEF Absent, Member, Status
  <2> QED
    BY <1>2, <2>1, FaultTyped DEF CrashAndForget, Crash
<1> QED
  BY <1>1, <1>2

\* Typing is an inductive invariant by itself.
LEMMA NextTyped == TypeOK /\ [Next]_vars => TypeOK'
<1> SUFFICES ASSUME TypeOK, [Next]_vars PROVE TypeOK'
  OBVIOUS
<1>1. CASE Environment /\ UNCHANGED bootstrapVars
  BY <1>1, EnvironmentTyped
<1>2. ASSUME NEW n \in Node,
             UserAction(n) \/ Handler(n) \/ TimerFires(n) \/ CrashAndForget(n)
      PROVE  TypeOK'
  BY <1>2, UserActionTyped, HandlerTyped, TimerAndCrashTyped
<1>3. ASSUME NEW n \in Node, NEW op \in ops[n],
             \/ OpStep(n, op) /\ UNCHANGED bootstrapVars
             \/ RejoinStep(n, op) /\ UNCHANGED bootstrapVars
             \/ ResultHandler(n, op)
      PROVE  TypeOK'
  BY <1>3, OpStepTyped, ResultTyped
<1>4. CASE UNCHANGED vars
  BY <1>4 DEF vars, daemonVars, bootstrapVars, diskVars, TypeOK, DaemonTypeOK, BootstrapTypeOK
<1> QED
  BY <1>1, <1>2, <1>3, <1>4 DEF Next

\* Whatever fails and whenever, every machine stays in a lifecycle state the
\* source declares and every record keeps its shape.
THEOREM TypeCorrectness == Spec => []TypeOK
  BY InitTyped, NextTyped, PTL DEF Spec
=============================================================================
