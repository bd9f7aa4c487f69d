------------------------- MODULE BootstrapFormation -------------------------
(***************************************************************************)
(* The bootstrap of a steady network, where every machine is on and known  *)
(* to the others before it starts, and none stops or is suspected.  One    *)
(* machine alone may found a cluster, whatever events are lost, timers     *)
(* race, installations fail or files cannot be saved.                      *)
(*                                                                         *)
(* When no K3s installation fails either, the bootstrap implements         *)
(* Formation: the servers enter one at a time in the order of their names  *)
(* and the agents after all of them, whatever events are lost or late,     *)
(* whoever requests the bootstrap and however often it starts.             *)
(***************************************************************************)
EXTENDS BootstrapSafety

\* The networks these theorems are about.
SteadyNetwork ==
  /\ Acquainted
  /\ Late = {} /\ Established = {}
  /\ Faults \cap {"crash", "suspect"} = {}

\* Every machine sees every machine alive.
EveryoneSeen ==
  /\ up = Node
  /\ \A n \in Node : state[n] # "starting"
  /\ \A n, m \in Node : n # m => view[n][m].status = "alive"

CohortsWhole == \A n \in Node : cohort[n] \in {{}, Node}

\* The machine of the lowest name founds the only cluster.
SoleFounder ==
  \A n \in Node :
    /\ cluster[n] \in {None, Min(Node)}
    /\ \A op \in ops[n] : op.kind = "init" => n = Min(Node)

SteadyInv == TypeOK /\ EveryoneSeen /\ CohortsWhole /\ SoleFounder

----------------------------------------------------------------------------
LEMMA SteadyInit ==
  ASSUME SteadyNetwork, Init
  PROVE  SteadyInv
<1>1. TypeOK
  BY InitTyped
<1> USE DEF Init, DaemonInit, SteadyNetwork
<1>2. EveryoneSeen
  BY DEF EveryoneSeen, AliveAs
<1>3. CohortsWhole /\ SoleFounder
  BY DEF CohortsWhole, SoleFounder
<1> QED
  BY <1>1, <1>2, <1>3 DEF SteadyInv

\* No fault takes a machine out of the sight of the others.
LEMMA SeenStep ==
  ASSUME SteadyNetwork, SteadyInv, [Next]_vars
  PROVE  EveryoneSeen'
<1> USE DEF SteadyNetwork, SteadyInv, EveryoneSeen, TypeOK, DaemonTypeOK
<1>1. CASE UNCHANGED <<up, view>> /\ UNCHANGED state
  BY <1>1
<1>2. ASSUME NEW n \in Node, NEW to, Transition(n, to), to # "starting", UNCHANGED <<up, view>>
      PROVE  EveryoneSeen'
  BY <1>2 DEF Transition
<1>3. CASE Environment
  <2>1. ASSUME NEW n \in Node, NEW m \in Node, Learn(n, m) PROVE EveryoneSeen'
    BY <2>1 DEF Learn, AliveAs
  <2>2. ASSUME NEW n \in Node, NEW m \in Node, DetectFailure(n, m) \/ Suspect(n, m) PROVE FALSE
    BY <2>2 DEF DetectFailure, Suspect, Fault
  <2>3. ASSUME NEW n \in Node, PowerOn(n) \/ ChooseInitialState(n) PROVE FALSE
    BY <2>3 DEF PowerOn, ChooseInitialState
  <2> QED
    BY <1>1, <1>3, <2>1, <2>2, <2>3 DEF Environment, Lose
<1>4. ASSUME NEW n \in Node, UserAction(n) \/ TimerFires(n) PROVE EveryoneSeen'
  BY <1>1, <1>2, <1>4 DEF UserAction, RequestBootstrap, CancelBootstrap, ConfirmBootstrap,
                          TimerFires, Unmoved
<1>5. ASSUME NEW n \in Node, Handler(n) PROVE EveryoneSeen'
  <2>1. UNCHANGED <<up, view>>
    BY <1>5 DEF Handler, OnBootstrapRequested, OnBootstrapWaitExpired, OnBootstrapStart,
                InitializeCluster, RefuseToInitialize, TakeRole, ComputeRole, DivertToJoining,
                InstallOnTurn, IgnoreEvent, Unmoved
  <2>2. UNCHANGED state \/ \E to \in FirstBoot : Transition(n, to)
    BY <1>5 DEF Handler, OnBootstrapRequested, OnBootstrapWaitExpired, OnBootstrapStart,
                InitializeCluster, RefuseToInitialize, TakeRole, InstallIfTurn, StartOperation,
                DivertToJoining, InstallOnTurn, IgnoreEvent, FirstBoot, InstallState
  <2> QED
    BY <1>1, <1>2, <2>1, <2>2 DEF FirstBoot, InstallState
<1>6. ASSUME NEW n \in Node, CrashAndForget(n) PROVE FALSE
  BY <1>6 DEF CrashAndForget, Crash, Fault
<1>7. ASSUME NEW n \in Node, NEW op \in ops[n], OpStep(n, op) PROVE EveryoneSeen'
  BY <1>1, <1>7 DEF OpStep, RefuseToReinstall, RunInstallScript, FailInstallScript,
                    CheckInstalledRole, BecomeReady, TimeOut
<1>8. ASSUME NEW n \in Node, NEW op \in ops[n], RejoinStep(n, op) \/ ResultHandler(n, op)
      PROVE  EveryoneSeen'
  <2>1. UNCHANGED <<up, view>>
    BY <1>8 DEF RejoinStep, OnRejoinReady, FailRejoin, ResultHandler,
                OnBootstrapInstallSucceeded, FailBootstrap, Unmoved
  <2>2. \E to \in State \ {"starting"} : Transition(n, to)
    BY <1>8 DEF RejoinStep, OnRejoinReady, FailRejoin, ResultHandler, BecomeStable, Save, StableState,
                OnBootstrapInstallSucceeded, FailBootstrap, State, FirstBoot, InCluster
  <2> QED
    BY <1>2, <2>1, <2>2
<1>9. CASE UNCHANGED vars
  BY <1>1, <1>9 DEF vars, daemonVars
<1> QED
  BY <1>3, <1>4, <1>5, <1>6, <1>7, <1>8, <1>9 DEF Next

\* What a machine reads in its memberlist is the whole network.
LEMMA WholeNetworkSeen ==
  ASSUME SteadyInv, NEW n \in Node
  PROVE  AliveMembers(Observe(n)) = Node
BY DEF SteadyInv, EveryoneSeen, AliveMembers, Observe, AliveAs, TypeOK, DaemonTypeOK

LEMMA CohortStep ==
  ASSUME SteadyNetwork, SteadyInv, [Next]_vars
  PROVE  CohortsWhole'
<1> USE DEF SteadyInv, CohortsWhole, TypeOK, BootstrapTypeOK
<1>1. CASE UNCHANGED cohort
  BY <1>1
<1>2. ASSUME NEW n \in Node, NEW c \in {{}, Node}, cohort' = [cohort EXCEPT ![n] = c]
      PROVE  CohortsWhole'
  BY <1>2
<1>3. ASSUME NEW n \in Node, UserAction(n) \/ TimerFires(n) \/ Handler(n) \/ CrashAndForget(n)
      PROVE  UNCHANGED cohort \/ \E c \in {{}, Node} : cohort' = [cohort EXCEPT ![n] = c]
  <2>1. AliveMembers(Observe(n)) = Node
    BY WholeNetworkSeen
  <2>2. CASE UserAction(n) \/ TimerFires(n) \/ CrashAndForget(n)
    BY <2>2 DEF UserAction, RequestBootstrap, CancelBootstrap, ConfirmBootstrap, TimerFires,
                CrashAndForget, bootstrapVars
  <2>3. CASE Handler(n)
    BY <2>1, <2>3 DEF Handler, OnBootstrapRequested, OnBootstrapWaitExpired, OnBootstrapStart,
                InitializeCluster, RefuseToInitialize, TakeRole, ComputeRole, DivertToJoining,
                InstallOnTurn, IgnoreEvent, bootstrapVars
  <2> QED
    BY <1>3, <2>2, <2>3
<1>4. ASSUME NEW n \in Node, NEW op \in ops[n], ResultHandler(n, op) PROVE UNCHANGED cohort
  BY <1>4 DEF ResultHandler, OnBootstrapInstallSucceeded, FailBootstrap, bootstrapVars
<1>5. CASE UNCHANGED vars \/ UNCHANGED bootstrapVars
  BY <1>1, <1>5 DEF vars, bootstrapVars
<1> QED
  BY <1>1, <1>2, <1>3, <1>4, <1>5 DEF Next

\* Only the machine of the lowest name is of rank 0.
LEMMA RankZeroIsLowest ==
  ASSUME NEW n \in Node, Rank(Node, n) = 0
  PROVE  n = Min(Node)
<1> DEFINE lower == {m \in Node : m < n}
<1>1. IsFiniteSet(lower)
  BY FS_Subset, DaemonAssumption
<1>2. \A m \in Node : ~(m < n)
  BY <1>1, FS_EmptySet DEF Rank
<1>3. Min(Node) \in Node /\ Min(Node) <= n
  BY MinIsLowest, DaemonAssumption
<1>4. Min(Node) \in Nat /\ n \in Nat
  BY <1>3, DaemonAssumption
<1> QED
  BY <1>2, <1>3, <1>4

\* The operations of one machine change; none of the new ones founds a cluster
\* elsewhere than on the lowest machine.
LEMMA FounderKept ==
  ASSUME SteadyInv, NEW n \in Node, UNCHANGED cluster,
         \A m \in Node \ {n} : ops'[m] = ops[m],
         \A op \in ops'[n] : op.kind = "init" => n = Min(Node) \/ \E o \in ops[n] : o.kind = "init"
  PROVE  SoleFounder'
BY DEF SteadyInv, SoleFounder

LEMMA FounderHandlers ==
  ASSUME SteadyInv, NEW n \in Node,
         UserAction(n) \/ TimerFires(n) \/ Handler(n) \/ CrashAndForget(n)
  PROVE  SoleFounder'
<1>1. UNCHANGED cluster
  BY DEF UserAction, RequestBootstrap, CancelBootstrap, ConfirmBootstrap, TimerFires,
         CrashAndForget, Crash, Handler, OnBootstrapRequested, OnBootstrapWaitExpired,
         OnBootstrapStart, InitializeCluster, RefuseToInitialize, TakeRole, ComputeRole,
         DivertToJoining, InstallOnTurn, IgnoreEvent, Unmoved, diskVars
<1>2. CASE UNCHANGED ops
  BY <1>1, <1>2, FounderKept
<1>3. CASE InitializeCluster(n)
  <2>1. n = Min(Node)
    BY <1>3, WholeNetworkSeen, RankZeroIsLowest DEF InitializeCluster, IsRankZero
  <2>2. \A m \in Node \ {n} : ops'[m] = ops[m]
    BY <1>3 DEF InitializeCluster, StartOperation, Starting, SteadyInv, TypeOK, DaemonTypeOK
  <2> QED
    BY <1>1, <2>1, <2>2, FounderKept
<1>4. ASSUME NEW c, InstallIfTurn(c, n, Observe(n)) PROVE SoleFounder'
  <2>1. PICK kind, via : /\ kind \in {"server", "agent"}
                         /\ ops' = [ops EXCEPT ![n] = @ \cup {NewOp(kind, via)}]
    BY <1>4 DEF InstallIfTurn, StartOperation, Starting
  <2>2. NewOp(kind, via).kind # "init"
    BY <2>1 DEF NewOp
  <2>3. /\ \A m \in Node \ {n} : ops'[m] = ops[m]
        /\ \A op \in ops'[n] : op \in ops[n] \/ op = NewOp(kind, via)
    BY <2>1 DEF SteadyInv, TypeOK, DaemonTypeOK
  <2> QED
    BY <1>1, <2>2, <2>3, FounderKept
<1>5. CASE CrashAndForget(n)
  BY <1>1, <1>5, FounderKept DEF CrashAndForget, Crash, SteadyInv, TypeOK, DaemonTypeOK
<1> QED
  BY <1>2, <1>3, <1>4, <1>5
     DEF UserAction, RequestBootstrap, CancelBootstrap, ConfirmBootstrap, TimerFires, Handler,
         OnBootstrapRequested, OnBootstrapWaitExpired, OnBootstrapStart, RefuseToInitialize,
         TakeRole, DivertToJoining, InstallOnTurn, IgnoreEvent

LEMMA FounderOps ==
  ASSUME SteadyInv, NEW n \in Node, NEW op \in ops[n], OpStep(n, op)
  PROVE  SoleFounder'
<1> USE DEF SteadyInv, TypeOK, DaemonTypeOK
<1>1. PICK phase \in OpPhase : ops' = InPhase(n, op, phase)
  BY DEF OpStep, RefuseToReinstall, RunInstallScript, FailInstallScript, CheckInstalledRole,
         BecomeReady, TimeOut, OpPhase
<1>2. /\ \A m \in Node \ {n} : ops'[m] = ops[m]
      /\ \A o \in ops'[n] : o.kind = "init" => \E p \in ops[n] : p.kind = "init"
  BY <1>1 DEF InPhase
<1>3. CASE RunInstallScript(n, op)
  <2>1. (IF op.kind = "init" THEN n ELSE cluster[op.via]) \in {None, Min(Node)}
    BY <1>3, OpFields DEF RunInstallScript, Install, SoleFounder
  <2>2. \A m \in Node : cluster'[m] \in {None, Min(Node)}
    BY <1>3, <2>1 DEF RunInstallScript, SoleFounder
  <2> QED
    BY <1>2, <2>2 DEF SoleFounder
<1>4. CASE ~RunInstallScript(n, op)
  <2>1. UNCHANGED cluster
    BY <1>4 DEF OpStep, RefuseToReinstall, FailInstallScript, CheckInstalledRole, BecomeReady,
                TimeOut, diskVars
  <2> QED
    BY <1>2, <2>1, FounderKept
<1> QED
  BY <1>3, <1>4

LEMMA FounderResults ==
  ASSUME SteadyInv, NEW n \in Node, NEW op \in ops[n],
         RejoinStep(n, op) \/ ResultHandler(n, op)
  PROVE  SoleFounder'
<1>1. UNCHANGED cluster /\ ops' = Without(n, op)
  BY DEF RejoinStep, OnRejoinReady, FailRejoin, ResultHandler, OnBootstrapInstallSucceeded,
         FailBootstrap, Unmoved, diskVars
<1>2. /\ \A m \in Node \ {n} : ops'[m] = ops[m]
      /\ \A o \in ops'[n] : o \in ops[n]
  BY <1>1 DEF Without, SteadyInv, TypeOK, DaemonTypeOK
<1> QED
  BY <1>1, <1>2, FounderKept

LEMMA FounderEnvironment ==
  ASSUME SteadyNetwork, SteadyInv, Environment
  PROVE  SoleFounder'
<1>1. UNCHANGED <<cluster, ops>>
  BY DEF Environment, Learn, DetectFailure, Suspect, Lose, PowerOn, ChooseInitialState, diskVars,
         SteadyInv, EveryoneSeen
<1> QED
  BY <1>1 DEF SteadyInv, SoleFounder

LEMMA SteadyStep ==
  ASSUME SteadyNetwork, SteadyInv, [Next]_vars
  PROVE  SteadyInv'
<1>1. SoleFounder'
  <2>1. CASE UNCHANGED vars
    BY <2>1 DEF vars, daemonVars, diskVars, SteadyInv, SoleFounder
  <2> QED
    BY <2>1, FounderEnvironment, FounderHandlers, FounderOps, FounderResults DEF Next
<1> QED
  BY <1>1, SeenStep, CohortStep, NextTyped DEF SteadyInv

----------------------------------------------------------------------------
LEMMA Steady ==
  ASSUME SteadyNetwork
  PROVE  Spec => []SteadyInv
<1>1. Init => SteadyInv
  BY SteadyInit
<1>2. SteadyInv /\ [Next]_vars => SteadyInv'
  BY SteadyStep
<1> QED
  BY <1>1, <1>2, PTL DEF Spec

\* On a steady network only one cluster is ever created (bootstrap.md:297).
THEOREM OneClusterOnly ==
  ASSUME SteadyNetwork
  PROVE  Spec => []OneCluster
<1>1. SteadyInv => OneCluster
  BY DEF SteadyInv, SoleFounder, OneCluster
<1> QED
  BY <1>1, Steady, PTL

----------------------------------------------------------------------------
(* The implementation of Formation *)

\* The networks this theorem is about: no installation fails either.
FormingNetwork ==
  /\ SteadyNetwork
  /\ Faults \subseteq {"lose", "send", "save", "torn"}

\* A machine that has not installed K3s has an empty disk, and an installation
\* neither fails nor finds the disk occupied.
InstallationsSucceed ==
  \A n \in Node :
    /\ state[n] \in FirstBoot \ InstallState => unit[n] = "none"
    /\ \A op \in ops[n] :
         op.phase # "error" /\ (op.phase = "start" => unit[n] = "none")

NobodyRejoins == \A n \in Node : state[n] \in FirstBoot \cup {"stable_server", "stable_agent"}

\* The memberlists name no stable server that is not one.
TagsAreTrue ==
  \A n, m \in Node : view[n][m].state = "stable_server" => state[m] = "stable_server"

\* Whoever enters has the role of its rank, ...
RolesOfRanks ==
  \A n \in Node :
    /\ state[n] \in InstallState => InstalledAs(state[n]) = F!RoleOf(n)
    /\ \A role \in Role : state[n] = StableState(role) => role = F!RoleOf(n)

\* ... and enters after those that come before it.
EntersInOrder ==
  \A n \in Node : Formed(n) # "out" => \A m \in F!Before(n) : state[m] = "stable_server"

FormationInv ==
  /\ InstallationsSucceed
  /\ NobodyRejoins
  /\ TagsAreTrue
  /\ RolesOfRanks
  /\ EntersInOrder

----------------------------------------------------------------------------
(* Ranks and roles *)

LEMMA AbstractRoles ==
  ASSUME NEW n \in Node
  PROVE  F!RoleOf(n) = RoleIn(Node, n)
<1>1. F!Cardinality(Node) = Cardinality(Node)
  BY DEF F!Cardinality, Cardinality
<1>2. F!Position(n) = Rank(Node, n)
  BY DEF F!Position, Rank, F!Cardinality, Cardinality
<1>3. F!RoleForRank(F!Position(n), F!Cardinality(Node)) = RoleForRank(Rank(Node, n), Cardinality(Node))
  BY <1>1, <1>2 DEF F!RoleForRank, RoleForRank, F!DesiredServerCount, DesiredServerCount, F!MaxServers, MaxServers
<1> QED
  BY <1>3 DEF F!RoleOf, RoleIn

LEMMA RankIsNat ==
  ASSUME NEW n \in Node
  PROVE  Rank(Node, n) \in Nat
<1>1. IsFiniteSet({m \in Node : m < n})
  BY FS_Subset, DaemonAssumption
<1> QED
  BY <1>1, FS_CardinalityType DEF Rank

LEMMA RankFollowsNames ==
  ASSUME NEW m \in Node, NEW n \in Node, m < n
  PROVE  Rank(Node, m) < Rank(Node, n)
<1> DEFINE Lower(x) == {y \in Node : y < x}
<1>1. m \in Nat /\ n \in Nat /\ \A y \in Node : y \in Nat
  BY DaemonAssumption
<1>2. Lower(m) \in SUBSET Lower(n) /\ m \in Lower(n) /\ m \notin Lower(m)
  <2>1. \A y \in Node : y < m => y < n
    BY <1>1
  <2>2. ~ (m < m)
    BY <1>1
  <2> QED
    BY <2>1, <2>2
<1>3. IsFiniteSet(Lower(n))
  BY FS_Subset, DaemonAssumption
<1>4. Cardinality(Lower(m)) <= Cardinality(Lower(n)) /\ Cardinality(Lower(m)) # Cardinality(Lower(n))
  BY <1>2, <1>3, FS_Subset
<1>5. Rank(Node, m) = Cardinality(Lower(m)) /\ Rank(Node, n) = Cardinality(Lower(n))
  BY DEF Rank
<1> HIDE DEF Lower
<1> QED
  BY <1>4, <1>5, RankIsNat

\* The stable servers are the lowest machines: while m is not one of them, a
\* machine sees at most as many as there are names below m.
LEMMA SeenBelow ==
  ASSUME TypeOK, TagsAreTrue, RolesOfRanks, EntersInOrder,
         NEW n \in Node, state[n] # "stable_server",
         NEW m \in Node, state[m] # "stable_server"
  PROVE  StableServerCount(Observe(n)) \in Nat /\ StableServerCount(Observe(n)) <= Rank(Node, m)
<1> DEFINE seen == StableServers(Observe(n))
           lower == {k \in Node : k < m}
<1>1. seen \subseteq {k \in Node : state[k] = "stable_server"}
  <2>1. ASSUME NEW k \in seen PROVE k \in Node /\ Observe(n)[k].state = "stable_server"
    BY HelpersTyped DEF StableServers, AliveIn, AliveMembers
  <2>2. ASSUME NEW k \in seen PROVE k # n
    BY <2>1 DEF Observe, AliveAs, TypeOK, DaemonTypeOK
  <2>3. ASSUME NEW k \in seen PROVE view[n][k].state = "stable_server"
    BY <2>1, <2>2 DEF Observe, TypeOK, DaemonTypeOK
  <2> HIDE DEF seen
  <2> QED
    BY <2>1, <2>3 DEF TagsAreTrue
<1>2. ASSUME NEW k \in Node, state[k] = "stable_server" PROVE k < m
  <2>1. Formed(k) # "out" /\ F!RoleOf(k) = "server"
    BY <1>2 DEF Formed, RolesOfRanks, StableState, Role
  <2>2. k < m \/ k = m \/ m < k
    BY DaemonAssumption
  <2>3. m < k => state[m] = "stable_server"
    BY <2>1 DEF EntersInOrder, F!Before
  <2> QED
    BY <1>2, <2>2, <2>3
<1>3. seen \in SUBSET lower
  BY <1>1, <1>2
<1>4. IsFiniteSet(lower)
  BY FS_Subset, DaemonAssumption
<1>5. Cardinality(seen) \in Nat /\ Cardinality(seen) <= Cardinality(lower)
  BY <1>3, <1>4, FS_Subset, FS_CardinalityType
<1> QED
  BY <1>5 DEF StableServerCount, Rank

\* When its turn comes, a machine has the role of its rank and those before it
\* are in.
LEMMA TurnInOrder ==
  ASSUME TypeOK, CohortsWhole, FormationInv, NEW n \in Node, state[n] # "stable_server",
         NEW c \in {{}, Node}
  PROVE  /\ ServerTurn(c, n, Observe(n)) =>
              F!RoleOf(n) = "server" /\ \A m \in F!Before(n) : state[m] = "stable_server"
         /\ AgentTurn(c, n, Observe(n)) =>
              F!RoleOf(n) = "agent" /\ \A m \in F!Before(n) : state[m] = "stable_server"
<1> USE DEF FormationInv
<1>1. CASE ServerTurn(c, n, Observe(n))
  <2>1. F!RoleOf(n) = "server" /\ StableServerCount(Observe(n)) >= Rank(Node, n)
    BY <1>1, AbstractRoles DEF ServerTurn, HasRole
  <2>2. ASSUME NEW m \in Node, m < n PROVE state[m] = "stable_server"
    <3> SUFFICES ASSUME state[m] # "stable_server" PROVE FALSE
      OBVIOUS
    <3>1. StableServerCount(Observe(n)) \in Nat /\ StableServerCount(Observe(n)) <= Rank(Node, m)
      BY SeenBelow
    <3>2. Rank(Node, m) < Rank(Node, n)
      BY <2>2, RankFollowsNames
    <3> QED
      BY <2>1, <3>1, <3>2, RankIsNat
  <2>3. ~ AgentTurn(c, n, Observe(n))
    BY <1>1 DEF ServerTurn, AgentTurn
  <2> QED
    BY <2>1, <2>2, <2>3 DEF F!Before
<1>2. CASE AgentTurn(c, n, Observe(n))
  <2> DEFINE D == DesiredServerCount(Cardinality(Node))
  <2>1. F!RoleOf(n) = "agent" /\ StableServerCount(Observe(n)) >= D
    BY <1>2, AbstractRoles DEF AgentTurn, HasRole
  <2>2. D \in Nat
    <3>1. Cardinality(Node) \in Nat
      BY FS_CardinalityType, DaemonAssumption
    <3> QED
      BY <3>1 DEF DesiredServerCount, MaxServers
  <2>3. ASSUME NEW m \in Node, F!RoleOf(m) = "server" PROVE state[m] = "stable_server"
    <3> SUFFICES ASSUME state[m] # "stable_server" PROVE FALSE
      OBVIOUS
    <3>1. StableServerCount(Observe(n)) \in Nat /\ StableServerCount(Observe(n)) <= Rank(Node, m)
      BY SeenBelow
    <3>2. Rank(Node, m) < D
      BY <2>3, AbstractRoles DEF RoleIn, RoleForRank
    <3> HIDE DEF D
    <3> QED
      BY <2>1, <2>2, <3>1, <3>2, RankIsNat
  <2>4. ~ ServerTurn(c, n, Observe(n))
    BY <1>2 DEF ServerTurn, AgentTurn
  <2> QED
    BY <2>1, <2>3, <2>4 DEF F!Before, F!Servers
<1> QED
  BY <1>1, <1>2

----------------------------------------------------------------------------
(* What a step does to the states. *)

NotEntered ==
  {"fb_discovering", "fb_bootstrap_confirm", "fb_bootstrap_waiting", "fb_bootstrap_failed",
   "fb_joining_waiting"}

\* A machine stays out of the cluster.
StaysOut(n) ==
  /\ state[n] \in NotEntered
  /\ \E to \in NotEntered : Transition(n, to)
  /\ UNCHANGED <<ops, unit>>

\* A machine whose turn it is starts its installation.
Enters(n) ==
  /\ state[n] = "fb_bootstrap_waiting"
  /\ \A m \in F!Before(n) : state[m] = "stable_server"
  /\ \E to \in InstallState : Transition(n, to) /\ InstalledAs(to) = F!RoleOf(n)
  /\ UNCHANGED unit
  /\ \E kind, via : ops' = Starting(n, NewOp(kind, via))

\* Its installation ends.
Settles(n) ==
  /\ state[n] \in InstallState
  /\ Transition(n, StableState(InstalledAs(state[n])))
  /\ UNCHANGED unit
  /\ \E op \in ops[n] : ops' = Without(n, op)

\* Its installation advances.
Advances(n) ==
  /\ UNCHANGED state
  /\ \E op \in ops[n], phase \in OpPhase \ {"start", "error"} : ops' = InPhase(n, op, phase)
  /\ \A m \in Node \ {n} : unit'[m] = unit[m]
  /\ state[n] \in InstallState \/ UNCHANGED unit

Inv == TypeOK /\ EveryoneSeen /\ CohortsWhole /\ ResultsReachTheirWorkflow /\ FormationInv

LEMMA LowestEnters ==
  ASSUME TypeOK, NEW n \in Node, n = Min(Node)
  PROVE  F!RoleOf(n) = "server" /\ F!Before(n) = {}
<1>1. \A m \in Node : ~ (m < n)
  <2>1. \A m \in Node : n <= m /\ n \in Nat /\ m \in Nat
    BY MinIsLowest, DaemonAssumption
  <2> QED
    BY <2>1
<1>2. Rank(Node, n) = 0
  BY <1>1, FS_EmptySet DEF Rank
<1>3. Cardinality(Node) \in Nat /\ Cardinality(Node) > 0
  BY FS_CardinalityType, FS_EmptySet, DaemonAssumption
<1>4. 0 < DesiredServerCount(Cardinality(Node))
  BY <1>3 DEF DesiredServerCount, MaxServers
<1>5. F!RoleOf(n) = "server"
  BY <1>2, <1>4, AbstractRoles DEF RoleIn, RoleForRank
<1> QED
  BY <1>1, <1>5 DEF F!Before

\* An installation starts in the order of the ranks.
LEMMA InstallEnters ==
  ASSUME Inv, NEW n \in Node, state[n] = "fb_bootstrap_waiting",
         \/ InitializeCluster(n)
         \/ \E c \in {{}, Node} : InstallIfTurn(c, n, Observe(n)) /\ UNCHANGED unit
  PROVE  Enters(n)
<1> USE DEF Inv
<1>1. CASE InitializeCluster(n)
  <2>1. n = Min(Node)
    <3>1. AliveMembers(Observe(n)) = Node
      BY DEF EveryoneSeen, AliveMembers, Observe, AliveAs, TypeOK, DaemonTypeOK
    <3> QED
      BY <1>1, <3>1, RankZeroIsLowest DEF InitializeCluster, IsRankZero
  <2>2. /\ Transition(n, "fb_bootstrap_install_init")
        /\ ops' = Starting(n, NewOp("init", None))
        /\ UNCHANGED unit
    BY <1>1 DEF InitializeCluster, ComputeRole, StartOperation, Unmoved, diskVars
  <2> QED
    BY <2>1, <2>2, LowestEnters DEF Enters, InstallState, InstalledAs
<1>2. ASSUME NEW c \in {{}, Node}, InstallIfTurn(c, n, Observe(n)), UNCHANGED unit
      PROVE  Enters(n)
  <2>1. CASE ServerTurn(c, n, Observe(n))
    <3>1. ~ AgentTurn(c, n, Observe(n))
      BY <2>1 DEF ServerTurn, AgentTurn
    <3>2. /\ Transition(n, "fb_bootstrap_install_servers")
          /\ \E via : ops' = Starting(n, NewOp("server", via))
      BY <1>2, <3>1 DEF InstallIfTurn, StartOperation
    <3> QED
      BY <1>2, <2>1, <3>2, TurnInOrder DEF Enters, InstallState, InstalledAs
  <2>2. CASE AgentTurn(c, n, Observe(n))
    <3>1. ~ ServerTurn(c, n, Observe(n))
      BY <2>2 DEF ServerTurn, AgentTurn
    <3>2. /\ Transition(n, "fb_bootstrap_install_agent")
          /\ \E via : ops' = Starting(n, NewOp("agent", via))
      BY <1>2, <3>1 DEF InstallIfTurn, StartOperation
    <3> QED
      BY <1>2, <2>2, <3>2, TurnInOrder DEF Enters, InstallState, InstalledAs
  <2> QED
    BY <1>2, <2>1, <2>2 DEF InstallIfTurn
<1> QED
  BY <1>1, <1>2

\* The states move in one of four ways.
Moves ==
  \/ UNCHANGED <<state, ops, unit>>
  \/ \E n \in Node : StaysOut(n) \/ Enters(n) \/ Settles(n) \/ Advances(n)

LEMMA HandlerMoves ==
  ASSUME FormingNetwork, Inv, NEW n \in Node, UserAction(n) \/ Handler(n) \/ TimerFires(n)
  PROVE  Moves
<1> USE DEF Unmoved, diskVars, NotEntered
<1>1. CASE UserAction(n) \/ TimerFires(n)
  BY <1>1 DEF UserAction, RequestBootstrap, CancelBootstrap, ConfirmBootstrap, TimerFires,
              StaysOut, Moves
<1>2. CASE OnBootstrapRequested(n) \/ DivertToJoining(n)
  BY <1>2 DEF OnBootstrapRequested, DivertToJoining, CanEnterWaiting, StaysOut, Moves
<1>3. CASE OnBootstrapWaitExpired(n) \/ \E event \in EventName : IgnoreEvent(n, event)
  BY <1>3 DEF OnBootstrapWaitExpired, IgnoreEvent, StaysOut, Moves
<1>4. CASE InitializeCluster(n)
  BY <1>4, InstallEnters DEF InitializeCluster, ComputeRole, Moves
<1>5. CASE RefuseToInitialize(n)
  BY <1>5 DEF RefuseToInitialize, ComputeRole, StaysOut, Moves
<1>6. CASE TakeRole(n)
  <2>1. AliveMembers(Observe(n)) = Node
    BY DEF Inv, EveryoneSeen, AliveMembers, Observe, AliveAs, TypeOK, DaemonTypeOK
  <2>2. /\ state[n] = "fb_bootstrap_waiting" /\ UNCHANGED unit
        /\ \/ InstallIfTurn(Node, n, Observe(n))
           \/ UNCHANGED <<state, ops>>
    BY <1>6, <2>1 DEF TakeRole, ComputeRole
  <2> QED
    BY <2>2, InstallEnters DEF Moves
<1>7. CASE InstallOnTurn(n)
  BY <1>7, InstallEnters DEF InstallOnTurn, Moves, Inv, CohortsWhole
<1> QED
  BY <1>1, <1>2, <1>3, <1>4, <1>5, <1>6, <1>7 DEF Handler, OnBootstrapStart

LEMMA OpMoves ==
  ASSUME FormingNetwork, Inv, NEW n \in Node, NEW op \in ops[n],
         OpStep(n, op) \/ RejoinStep(n, op) \/ ResultHandler(n, op)
  PROVE  Moves
<1> USE DEF Inv, FormationInv, FormingNetwork
<1>1. op.kind # "rejoin"
  BY DEF NobodyRejoins, ResultsReachTheirWorkflow, StateOfOp, FirstBoot, InstallState
<1>2. op.phase # "error" /\ (op.phase = "start" => unit[n] = "none")
  BY DEF InstallationsSucceed
<1>3. CASE RefuseToReinstall(n, op) \/ FailInstallScript(n, op) \/ CheckInstalledRole(n, op)
           \/ TimeOut(n, op)
  BY <1>1, <1>2, <1>3 DEF RefuseToReinstall, FailInstallScript, CheckInstalledRole, TimeOut, Fault
<1>4. CASE RunInstallScript(n, op) \/ BecomeReady(n, op)
  <2>1. Install(op) => state[n] \in InstallState
    BY DEF Install, ResultsReachTheirWorkflow, StateOfOp, InstallState
  <2> QED
    BY <1>4, <2>1 DEF RunInstallScript, BecomeReady, Advances, Moves, OpPhase, diskVars, TypeOK,
                      DaemonTypeOK
<1>5. CASE RejoinStep(n, op)
  BY <1>5 DEF RejoinStep, OnRejoinReady, FailRejoin, NobodyRejoins, FirstBoot, InstallState
<1>6. CASE ResultHandler(n, op)
  BY <1>2, <1>6 DEF ResultHandler, OnBootstrapInstallSucceeded, FailBootstrap, BecomeStable, Save,
                    Settles, Moves, Unmoved, diskVars
<1> QED
  BY <1>3, <1>4, <1>5, <1>6 DEF OpStep

LEMMA StepMoves ==
  ASSUME FormingNetwork, Inv, [Next]_vars
  PROVE  Moves
<1>1. CASE Environment
  BY <1>1 DEF Environment, Learn, DetectFailure, Suspect, Lose, PowerOn, ChooseInitialState,
              Moves, diskVars, Inv, EveryoneSeen
<1>2. ASSUME NEW n \in Node, CrashAndForget(n) PROVE FALSE
  BY <1>2 DEF CrashAndForget, Crash, Fault, FormingNetwork, SteadyNetwork
<1>3. CASE UNCHANGED vars
  BY <1>3 DEF vars, daemonVars, diskVars, Moves
<1> QED
  BY <1>1, <1>2, <1>3, HandlerMoves, OpMoves DEF Next

----------------------------------------------------------------------------
(* The invariant *)

LEMMA FormationInit ==
  ASSUME FormingNetwork, Init
  PROVE  FormationInv
<1> USE DEF Init, DaemonInit, FormingNetwork, SteadyNetwork
<1>1. InstallationsSucceed /\ NobodyRejoins
  BY DEF InstallationsSucceed, NobodyRejoins, FirstBoot
<1>2. TagsAreTrue
  BY DEF TagsAreTrue, AliveAs, Absent
<1>3. RolesOfRanks /\ EntersInOrder
  BY DEF RolesOfRanks, EntersInOrder, Formed, StableState, InstallState
<1> QED
  BY <1>1, <1>2, <1>3 DEF FormationInv

\* A stable machine stays stable.
LEMMA StableStays ==
  ASSUME Inv, Moves, NEW m \in Node, NEW role \in Role, state[m] = StableState(role)
  PROVE  state'[m] = StableState(role)
BY DEF Moves, StaysOut, Enters, Settles, Advances, NotEntered, InstallState, Transition,
       StableState, Inv, TypeOK, DaemonTypeOK

LEMMA InstallationsStep ==
  ASSUME Inv, Moves
  PROVE  InstallationsSucceed'
<1> USE DEF Inv, FormationInv, InstallationsSucceed, TypeOK, DaemonTypeOK
<1>1. CASE UNCHANGED <<state, ops, unit>>
  BY <1>1
<1>2. ASSUME NEW n \in Node, StaysOut(n) PROVE InstallationsSucceed'
  <2>1. unit[n] = "none"
    BY <1>2 DEF StaysOut, NotEntered, FirstBoot, InstallState
  <2>2. \A m \in Node \ {n} : state'[m] = state[m]
    BY <1>2 DEF StaysOut, Transition
  <2> QED
    BY <1>2, <2>1, <2>2 DEF StaysOut
<1>3. ASSUME NEW n \in Node, Enters(n) PROVE InstallationsSucceed'
  <2>1. unit[n] = "none"
    BY <1>3 DEF Enters, FirstBoot, InstallState
  <2>2. PICK kind, via : ops' = [ops EXCEPT ![n] = @ \cup {NewOp(kind, via)}]
    BY <1>3 DEF Enters, Starting
  <2>3. NewOp(kind, via).phase = "start"
    BY DEF NewOp
  <2>4. /\ state'[n] \in InstallState
        /\ \A m \in Node \ {n} : state'[m] = state[m] /\ ops'[m] = ops[m]
        /\ \A op \in ops'[n] : op \in ops[n] \/ op.phase = "start"
    BY <1>3, <2>2, <2>3 DEF Enters, Transition
  <2> QED
    BY <1>3, <2>1, <2>4 DEF Enters
<1>4. ASSUME NEW n \in Node, Settles(n) PROVE InstallationsSucceed'
  <2>1. /\ state'[n] \notin FirstBoot
        /\ \A m \in Node \ {n} : state'[m] = state[m]
    BY <1>4 DEF Settles, Transition, StableState, FirstBoot, InstallState
  <2>2. \A m \in Node : ops'[m] \subseteq ops[m]
    BY <1>4 DEF Settles, Without
  <2> QED
    BY <1>4, <2>1, <2>2 DEF Settles
<1>5. ASSUME NEW n \in Node, Advances(n) PROVE InstallationsSucceed'
  <2>1. PICK op \in ops[n], phase \in OpPhase \ {"start", "error"} : ops' = InPhase(n, op, phase)
    BY <1>5 DEF Advances
  <2>2. ops[n] = {op}
    BY <2>1 DEF ResultsReachTheirWorkflow
  <2>3. ops' = [ops EXCEPT ![n] = {[kind |-> op.kind, via |-> op.via, phase |-> phase]}]
    BY <2>1, <2>2 DEF InPhase
  <2>4. state[n] \in FirstBoot \ InstallState => UNCHANGED unit
    BY <1>5 DEF Advances
  <2>5. /\ \A m \in Node \ {n} : ops'[m] = ops[m] /\ unit'[m] = unit[m]
        /\ \A o \in ops'[n] : o.phase \notin {"start", "error"}
    BY <1>5, <2>3 DEF Advances
  <2> QED
    BY <1>5, <2>4, <2>5 DEF Advances
<1> QED
  BY <1>1, <1>2, <1>3, <1>4, <1>5 DEF Moves

LEMMA OrderStep ==
  ASSUME Inv, Moves
  PROVE  NobodyRejoins' /\ RolesOfRanks' /\ EntersInOrder'
<1> USE DEF Inv, FormationInv, TypeOK, DaemonTypeOK
<1>1. ASSUME NEW m \in Node, state[m] = "stable_server" PROVE state'[m] = "stable_server"
  BY <1>1, StableStays DEF StableState, Role
<1>2. CASE UNCHANGED state
  BY <1>2 DEF NobodyRejoins, RolesOfRanks, EntersInOrder, Formed
<1>3. ASSUME NEW n \in Node, NEW to \in State, Transition(n, to),
             to \in FirstBoot \cup {"stable_server", "stable_agent"},
             to \in InstallState => InstalledAs(to) = F!RoleOf(n),
             \A role \in Role : to = StableState(role) => role = F!RoleOf(n),
             \/ to \in NotEntered
             \/ \A m \in F!Before(n) : state[m] = "stable_server"
      PROVE  NobodyRejoins' /\ RolesOfRanks' /\ EntersInOrder'
  <2>1. state'[n] = to /\ \A m \in Node \ {n} : state'[m] = state[m]
    BY <1>3 DEF Transition
  <2>2. NobodyRejoins'
    BY <1>3, <2>1 DEF NobodyRejoins
  <2>3. RolesOfRanks'
    BY <1>3, <2>1 DEF RolesOfRanks
  <2>4. EntersInOrder'
    <3>1. ASSUME NEW k \in Node, Formed(k)' # "out", NEW m \in F!Before(k)
          PROVE  state[m] = "stable_server" /\ m \in Node
      <4>1. m \in Node
        BY DEF F!Before, F!Servers
      <4>2. CASE k = n
        BY <1>3, <2>1, <3>1, <4>1, <4>2 DEF Formed, NotEntered, InstallState
      <4>3. CASE k # n
        BY <2>1, <3>1, <4>1, <4>3 DEF Formed, EntersInOrder
      <4> QED
        BY <4>2, <4>3
    <3> QED
      BY <1>1, <3>1 DEF EntersInOrder
  <2> QED
    BY <2>2, <2>3, <2>4
<1>4. ASSUME NEW n \in Node, StaysOut(n)
      PROVE  NobodyRejoins' /\ RolesOfRanks' /\ EntersInOrder'
  <2>1. PICK to \in NotEntered : Transition(n, to)
    BY <1>4 DEF StaysOut
  <2>2. to \in State /\ to \in FirstBoot /\ to \notin InstallState
        /\ \A role \in Role : to # StableState(role)
    BY DEF NotEntered, State, FirstBoot, InstallState, StableState
  <2> QED
    BY <1>3, <2>1, <2>2
<1>5. ASSUME NEW n \in Node, Enters(n)
      PROVE  NobodyRejoins' /\ RolesOfRanks' /\ EntersInOrder'
  <2>1. PICK to \in InstallState : Transition(n, to) /\ InstalledAs(to) = F!RoleOf(n)
    BY <1>5 DEF Enters
  <2>2. to \in State /\ to \in FirstBoot /\ \A role \in Role : to # StableState(role)
    BY DEF State, FirstBoot, InstallState, StableState
  <2> QED
    BY <1>3, <1>5, <2>1, <2>2 DEF Enters
<1>6. ASSUME NEW n \in Node, Settles(n)
      PROVE  NobodyRejoins' /\ RolesOfRanks' /\ EntersInOrder'
  <2> DEFINE to == StableState(InstalledAs(state[n]))
  <2>1. Transition(n, to) /\ InstalledAs(state[n]) = F!RoleOf(n)
    BY <1>6 DEF Settles, RolesOfRanks
  <2>2. /\ to \in {"stable_server", "stable_agent"} /\ to \in State /\ to \notin InstallState
        /\ \A role \in Role : to = StableState(role) => role = InstalledAs(state[n])
    BY DEF State, InCluster, InstallState, StableState, Role, InstalledAs
  <2>3. \A m \in F!Before(n) : state[m] = "stable_server"
    BY <1>6 DEF Settles, EntersInOrder, Formed, InstallState
  <2> HIDE DEF to
  <2> QED
    BY <1>3, <2>1, <2>2, <2>3
<1> QED
  BY <1>2, <1>4, <1>5, <1>6 DEF Moves, Advances

LEMMA FormationStep ==
  ASSUME FormingNetwork, Inv, [Next]_vars
  PROVE  FormationInv'
<1>1. Moves
  BY StepMoves
<1>2. TagsAreTrue'
  <2> SUFFICES ASSUME NEW n \in Node, NEW m \in Node, view'[n][m].state = "stable_server"
               PROVE  state'[m] = "stable_server"
    BY DEF TagsAreTrue
  <2>1. state[m] = "stable_server"
    BY ViewStep DEF Inv, FormationInv, TagsAreTrue
  <2> QED
    BY <1>1, <2>1, StableStays DEF StableState, Role
<1> QED
  BY <1>1, <1>2, InstallationsStep, OrderStep DEF FormationInv

----------------------------------------------------------------------------
(* The refinement *)

LEMMA FormationStarts == ASSUME Init, FormingNetwork PROVE F!Init
BY DEF Init, DaemonInit, FormingNetwork, SteadyNetwork, F!Init, Formed, InstallState

\* Every step is a step of Formation or leaves it alone.
LEMMA FormationRefined ==
  ASSUME FormingNetwork, Inv, [Next]_vars
  PROVE  [F!Next]_([n \in Node |-> Formed(n)])
<1> DEFINE member == [n \in Node |-> Formed(n)]
<1> USE DEF Inv, FormationInv, TypeOK, DaemonTypeOK
<1>1. Moves
  BY StepMoves
<1>2. CASE UNCHANGED state
  BY <1>2 DEF Formed
<1>3. ASSUME NEW n \in Node, StaysOut(n) PROVE UNCHANGED member
  BY <1>3 DEF StaysOut, NotEntered, Transition, Formed, InstallState
<1>4. ASSUME NEW n \in Node, Enters(n) PROVE F!Enter(n)
  <2>1. \A m \in F!Before(n) : m \in Node /\ member[m] = "server"
    BY <1>4 DEF Enters, F!Before, F!Servers, Formed
  <2>2. member[n] = "out"
    BY <1>4 DEF Enters, Formed, InstallState
  <2>3. member' = [member EXCEPT ![n] = "entering"]
    BY <1>4 DEF Enters, Formed, InstallState, Transition
  <2> QED
    BY <2>1, <2>2, <2>3 DEF F!Enter
<1>5. ASSUME NEW n \in Node, Settles(n) PROVE F!Complete(n)
  <2>1. member[n] = "entering"
    BY <1>5 DEF Settles, Formed, InstallState
  <2>2. state' = [state EXCEPT ![n] = StableState(F!RoleOf(n))] /\ F!RoleOf(n) \in Role
    BY <1>5 DEF Settles, RolesOfRanks, Transition, InstalledAs, Role
  <2>3. member' = [member EXCEPT ![n] = F!RoleOf(n)]
    BY <2>2 DEF Formed, StableState, Role
  <2> QED
    BY <2>1, <2>3 DEF F!Complete
<1> QED
  BY <1>1, <1>2, <1>3, <1>4, <1>5 DEF Moves, Advances, F!Next

\* The bootstrap forms one cluster in the order Formation promises.
THEOREM BootstrapFormsTheCluster ==
  ASSUME FormingNetwork
  PROVE  Spec => ImplementsFormation
<1>1. Spec => [](SafetyInv /\ SteadyInv)
  BY Safety, Steady, PTL DEF FormingNetwork
<1>2. SafetyInv /\ SteadyInv /\ FormationInv => Inv
  BY DEF SafetyInv, SteadyInv, Inv
<1>3. Init => FormationInv
  BY FormationInit
<1>4. Inv /\ [Next]_vars => FormationInv'
  BY FormationStep
<1>5. Spec => []Inv
  BY <1>1, <1>2, <1>3, <1>4, PTL DEF Spec
<1>6. Init => F!Init
  BY FormationStarts
<1>7. Inv /\ [Next]_vars => [F!Next]_([n \in Node |-> Formed(n)])
  BY FormationRefined
<1> QED
  BY <1>5, <1>6, <1>7, PTL DEF Spec, ImplementsFormation, F!Spec
=============================================================================
