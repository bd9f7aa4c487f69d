-------------------------- MODULE BootstrapSafety --------------------------
(***************************************************************************)
(* The safety of the bootstrap and of the restarts, whatever crashes, is   *)
(* lost, late or fails: results reach the workflow that asked for them,    *)
(* stable machines run what they advertise, and a saved machine never      *)
(* replays its first boot.                                                 *)
(***************************************************************************)
EXTENDS BootstrapProofs

\* What an operation in flight knows of the disks: it was given a server that
\* holds a cluster, an installation past its script left the unit of its role,
\* a rejoin past its check found the unit the state file describes.
OpsKnowTheDisk ==
  \A n \in Node : \A op \in ops[n] :
    /\ op.kind \in {"server", "agent"} => cluster[op.via] # None
    /\ Install(op) /\ op.phase \in {"wait", "ok"} => unit[n] = RoleOf(op)
    /\ op.kind = "rejoin" =>
         file[n] \in Role /\ (op.phase \in {"wait", "ok"} => unit[n] = file[n])

\* K3s is never installed without entering a cluster.
UnitsHoldData == \A n \in Node : unit[n] # "none" => cluster[n] # None

\* The inductive invariant.
SafetyInv ==
  /\ TypeOK
  /\ ResultsReachTheirWorkflow
  /\ OpsKnowTheDisk
  /\ UnitsHoldData
  /\ StableIsInstalled
  /\ JoinTargetsHoldACluster
  /\ NeverBackToFirstBoot

----------------------------------------------------------------------------
(* What a step does to the disks. *)

\* Only the install script writes K3s data, and only where there is none.
OnlyEmptyDisksAreWritten ==
  \A n \in Node : unit[n] # "none" => unit'[n] = unit[n] /\ cluster'[n] = cluster[n]

LEMMA OpStepDisk ==
  ASSUME TypeOK, NEW n \in Node, NEW op \in ops[n], OpStep(n, op)
  PROVE  OnlyEmptyDisksAreWritten
<1> USE DEF TypeOK, DaemonTypeOK, OnlyEmptyDisksAreWritten
<1>1. CASE RunInstallScript(n, op)
  BY <1>1 DEF RunInstallScript
<1>2. CASE ~RunInstallScript(n, op)
  BY <1>2 DEF OpStep, RefuseToReinstall, FailInstallScript, CheckInstalledRole, BecomeReady,
              TimeOut, diskVars
<1> QED
  BY <1>1, <1>2

LEMMA EnvironmentLeavesDisks == Environment => UNCHANGED diskVars
BY DEF Environment, Learn, DetectFailure, Suspect, Lose, PowerOn, ChooseInitialState

LEMMA HandlersLeaveDisks ==
  ASSUME NEW n \in Node,
         \/ UserAction(n) \/ Handler(n) \/ TimerFires(n) \/ CrashAndForget(n)
         \/ \E op \in ops[n] : RejoinStep(n, op) \/ ResultHandler(n, op)
  PROVE  UNCHANGED diskVars
<1>1. CASE UserAction(n)
  BY <1>1 DEF UserAction, RequestBootstrap, CancelBootstrap, ConfirmBootstrap, Unmoved
<1>2. CASE Handler(n)
  BY <1>2 DEF Handler, OnBootstrapRequested, OnBootstrapWaitExpired, OnBootstrapStart,
              InitializeCluster, RefuseToInitialize, TakeRole, ComputeRole, DivertToJoining,
              InstallOnTurn, IgnoreEvent, Unmoved
<1>3. CASE TimerFires(n) \/ CrashAndForget(n)
  BY <1>3 DEF TimerFires, CrashAndForget, Crash, Unmoved
<1>4. CASE \E op \in ops[n] : RejoinStep(n, op) \/ ResultHandler(n, op)
  BY <1>4 DEF RejoinStep, OnRejoinReady, FailRejoin, ResultHandler,
              OnBootstrapInstallSucceeded, FailBootstrap, Unmoved
<1> QED
  BY <1>1, <1>2, <1>3, <1>4

\* No step touches the disk of a machine that already holds K3s.
LEMMA DiskStep == TypeOK /\ [Next]_vars => OnlyEmptyDisksAreWritten
<1> SUFFICES ASSUME TypeOK, [Next]_vars PROVE OnlyEmptyDisksAreWritten
  OBVIOUS
<1>1. CASE UNCHANGED diskVars
  BY <1>1 DEF diskVars, OnlyEmptyDisksAreWritten
<1>2. ASSUME NEW n \in Node, NEW op \in ops[n], OpStep(n, op) PROVE OnlyEmptyDisksAreWritten
  BY <1>2, OpStepDisk
<1>3. CASE UNCHANGED vars
  BY <1>1, <1>3 DEF vars, daemonVars, diskVars
<1> QED
  BY <1>1, <1>2, <1>3, EnvironmentLeavesDisks, HandlersLeaveDisks DEF Next

----------------------------------------------------------------------------
(* The initial state. *)

LEMMA InitSafe == Init => SafetyInv
<1> SUFFICES ASSUME Init PROVE SafetyInv
  OBVIOUS
<1>1. TypeOK
  BY InitTyped
<1>2. ASSUME NEW n \in Established PROVE Min(Established) \in Node
  BY MinIsLowest, DaemonAssumption
<1> USE DEF Init, DaemonInit
<1>3. ResultsReachTheirWorkflow /\ OpsKnowTheDisk
  BY DEF ResultsReachTheirWorkflow, OpsKnowTheDisk
<1>4. UnitsHoldData
  BY <1>2, DaemonAssumption DEF UnitsHoldData
<1>5. StableIsInstalled
  BY <1>2, DaemonAssumption DEF StableIsInstalled, StableState, Role
<1>6. JoinTargetsHoldACluster
  BY <1>2, DaemonAssumption DEF JoinTargetsHoldACluster, AliveAs, Absent
<1>7. NeverBackToFirstBoot
  BY DEF NeverBackToFirstBoot, FirstBoot, InstallState
<1> QED
  BY <1>1, <1>3, <1>4, <1>5, <1>6, <1>7 DEF SafetyInv

----------------------------------------------------------------------------
(* Operations in flight. *)

\* The states in which a K3s operation runs.
Busy == InstallState \cup
  {"rejoin_cluster", "fb_joining_cleanup", "rescale_coordinating", "rescale_promoting",
   "rescale_demoting"}

\* A machine that is in no workflow has no operation in flight.
LEMMA IdleHasNoOp ==
  ASSUME ResultsReachTheirWorkflow, NEW n \in Node,
         state[n] \notin Busy,
         \A op \in ops[n] :
           op.kind \in {"init", "rejoin", "check", "evict", "server", "agent", "erase",
                        "prepare", "promote", "demote"}
  PROVE  ops[n] = {}
BY DEF ResultsReachTheirWorkflow, StateOfOp, InstallState, Busy

\* An idle machine starts an operation and enters its workflow.
LEMMA StartSafe ==
  ASSUME SafetyInv, NEW n \in Node, NEW kind, NEW via,
         state[n] \notin Busy,
         ops' = Starting(n, NewOp(kind, via)), Transition(n, StateOfOp(kind)),
         UNCHANGED <<diskVars, file>>,
         kind \in {"server", "agent"} => cluster[via] # None,
         kind = "rejoin" => file[n] \in Role
  PROVE  ResultsReachTheirWorkflow' /\ OpsKnowTheDisk'
<1> DEFINE new == NewOp(kind, via)
<1>1. new.kind = kind /\ new.via = via /\ new.phase = "start"
  BY DEF NewOp
<1> HIDE DEF new
<1>2. ops[n] = {}
  BY IdleHasNoOp, OpFields DEF SafetyInv
<1> USE DEF SafetyInv, TypeOK, DaemonTypeOK
<1>3. ops'[n] = {new} /\ state'[n] = StateOfOp(kind)
  BY <1>2 DEF Starting, Transition, new
<1>4. \A m \in Node \ {n} : ops'[m] = ops[m] /\ state'[m] = state[m]
  BY DEF Starting, Transition
<1>5. ResultsReachTheirWorkflow'
  BY <1>1, <1>3, <1>4 DEF ResultsReachTheirWorkflow
<1>6. OpsKnowTheDisk'
  <2>1. UNCHANGED <<unit, cluster, file>>
    BY DEF diskVars
  <2>2. ASSUME NEW m \in Node \ {n}, NEW op \in ops'[m]
        PROVE  /\ op.kind \in {"server", "agent"} => cluster'[op.via] # None
               /\ Install(op) /\ op.phase \in {"wait", "ok"} => unit'[m] = RoleOf(op)
               /\ op.kind = "rejoin" =>
                    file'[m] \in Role /\ (op.phase \in {"wait", "ok"} => unit'[m] = file'[m])
    BY <1>4, <2>1 DEF OpsKnowTheDisk
  <2>3. ASSUME NEW op \in ops'[n]
        PROVE  /\ op.kind \in {"server", "agent"} => cluster'[op.via] # None
               /\ ~(op.phase \in {"wait", "ok"})
               /\ op.kind = "rejoin" => file'[n] \in Role
    BY <1>1, <1>3, <2>1
  <2>4. ASSUME NEW m \in Node, NEW op \in ops'[m]
        PROVE  /\ op.kind \in {"server", "agent"} => cluster'[op.via] # None
               /\ Install(op) /\ op.phase \in {"wait", "ok"} => unit'[m] = RoleOf(op)
               /\ op.kind = "rejoin" =>
                    file'[m] \in Role /\ (op.phase \in {"wait", "ok"} => unit'[m] = file'[m])
    <3>1. CASE m = n
      BY <2>3, <3>1
    <3>2. CASE m # n
      BY <2>2, <3>2
    <3> QED
      BY <3>1, <3>2
  <2> QED
    BY <2>4 DEF OpsKnowTheDisk
<1> QED
  BY <1>5, <1>6

LEMMA BeginInstallSafe ==
  ASSUME SafetyInv, NEW n \in Node, NEW c, state[n] = "fb_bootstrap_waiting",
         InstallIfTurn(c, n, Observe(n)), UNCHANGED <<diskVars, file, view>>
  PROVE  ResultsReachTheirWorkflow' /\ OpsKnowTheDisk'
<1> DEFINE target == JoinTarget(Observe(n))
<1>1. target \in Node /\ Observe(n)[target].state = "stable_server"
  <2>1. DOMAIN Observe(n) = Node
    BY HelpersTyped DEF SafetyInv
  <2>2. CanBeJoined(Observe(n))
    BY DEF InstallIfTurn, ServerTurn, AgentTurn
  <2> QED
    BY <2>1, <2>2, JoinTargetIsStable, DaemonAssumption
<1>2. cluster[target] # None
  <2>1. target # n
    BY <1>1 DEF SafetyInv, TypeOK, DaemonTypeOK, Observe, AliveAs
  <2>2. view[n][target].state = "stable_server"
    BY <1>1, <2>1 DEF SafetyInv, TypeOK, DaemonTypeOK, Observe
  <2> QED
    BY <1>1, <2>2 DEF SafetyInv, JoinTargetsHoldACluster
<1>3. \/ /\ ops' = Starting(n, NewOp("server", target))
         /\ Transition(n, StateOfOp("server"))
      \/ /\ ops' = Starting(n, NewOp("agent", target))
         /\ Transition(n, StateOfOp("agent"))
  BY DEF InstallIfTurn, StartOperation, StateOfOp
<1> HIDE DEF target
<1> QED
  BY <1>2, <1>3, StartSafe DEF InstallState, Busy

\* The state of an idle machine moves to another idle state.
LEMMA IdleMoveSafe ==
  ASSUME SafetyInv, NEW n \in Node, NEW to,
         state[n] \notin Busy,
         Transition(n, to), UNCHANGED <<ops, diskVars, file>>
  PROVE  ResultsReachTheirWorkflow' /\ OpsKnowTheDisk'
<1>1. ops[n] = {}
  BY IdleHasNoOp, OpFields DEF SafetyInv
<1>2. \A m \in Node \ {n} : state'[m] = state[m]
  BY DEF SafetyInv, TypeOK, DaemonTypeOK, Transition
<1>3. ResultsReachTheirWorkflow'
  BY <1>1, <1>2 DEF SafetyInv, ResultsReachTheirWorkflow
<1>4. OpsKnowTheDisk'
  BY DEF SafetyInv, OpsKnowTheDisk, diskVars
<1> QED
  BY <1>3, <1>4

\* An operation advances, its machine staying in the same state.
LEMMA AdvanceSafe ==
  ASSUME SafetyInv, NEW n \in Node, NEW op \in ops[n], NEW phase \in OpPhase,
         ops' = InPhase(n, op, phase), UNCHANGED <<state, file>>,
         OnlyEmptyDisksAreWritten,
         \A m \in Node : cluster[m] # None => cluster'[m] # None,
         phase \in {"wait", "ok"} =>
           /\ Install(op) => unit'[n] = RoleOf(op)
           /\ op.kind = "rejoin" => unit'[n] = file[n],
         \A m \in Node \ {n} : unit'[m] = unit[m]
  PROVE  ResultsReachTheirWorkflow' /\ OpsKnowTheDisk'
<1> DEFINE new == [kind |-> op.kind, via |-> op.via, phase |-> phase]
<1> USE DEF SafetyInv, TypeOK, DaemonTypeOK
<1>1. ops[n] = {op}
  BY DEF ResultsReachTheirWorkflow
<1>2. ops' = [ops EXCEPT ![n] = {new}]
  BY <1>1 DEF InPhase
<1>3. new.kind = op.kind /\ new.via = op.via /\ new.phase = phase
  OBVIOUS
<1> HIDE DEF new
<1>4. ResultsReachTheirWorkflow'
  BY <1>2, <1>3 DEF ResultsReachTheirWorkflow
<1>5. OpsKnowTheDisk'
  <2>1. ASSUME NEW m \in Node \ {n}, NEW o \in ops[m]
        PROVE  /\ o.kind \in {"server", "agent"} => cluster'[o.via] # None
               /\ Install(o) /\ o.phase \in {"wait", "ok"} => unit'[m] = RoleOf(o)
               /\ o.kind = "rejoin" =>
                    file[m] \in Role /\ (o.phase \in {"wait", "ok"} => unit'[m] = file[m])
    BY OpFields DEF OpsKnowTheDisk
  <2>2. /\ new.kind \in {"server", "agent"} => cluster'[new.via] # None
        /\ Install(new) /\ new.phase \in {"wait", "ok"} => unit'[n] = RoleOf(new)
        /\ new.kind = "rejoin" =>
                    file[n] \in Role /\ (new.phase \in {"wait", "ok"} => unit'[n] = file[n])
    BY <1>3, OpFields DEF OpsKnowTheDisk, Install, RoleOf
  <2> QED
    BY <1>2, <2>1, <2>2 DEF OpsKnowTheDisk
<1> QED
  BY <1>4, <1>5

\* An operation reports its result, which leaves its machine idle.
LEMMA ResultSafe ==
  ASSUME SafetyInv, NEW n \in Node, NEW op \in ops[n], NEW to, Transition(n, to),
         ops' = Without(n, op), UNCHANGED diskVars,
         \A m \in Node \ {n} : file'[m] = file[m]
  PROVE  ResultsReachTheirWorkflow' /\ OpsKnowTheDisk'
<1> USE DEF SafetyInv, TypeOK, DaemonTypeOK
<1>1. ops' = [ops EXCEPT ![n] = {}]
  <2>1. ops[n] = {op}
    BY DEF ResultsReachTheirWorkflow
  <2>2. ops[n] \ {op} = {}
    BY <2>1
  <2> QED
    BY <2>2 DEF Without
<1>2. ops'[n] = {} /\ \A m \in Node \ {n} : ops'[m] = ops[m] /\ state'[m] = state[m]
  BY <1>1 DEF Transition
<1>3. ResultsReachTheirWorkflow'
  BY <1>2 DEF ResultsReachTheirWorkflow
<1>4. OpsKnowTheDisk'
  BY <1>2 DEF OpsKnowTheDisk, diskVars
<1> QED
  BY <1>3, <1>4

----------------------------------------------------------------------------
(* Every step keeps the operations in order.  One lemma per kind of step. *)

OpsInOrder == ResultsReachTheirWorkflow /\ OpsKnowTheDisk

LEMMA EnvironmentOps ==
  ASSUME SafetyInv, Environment
  PROVE  OpsInOrder'
<1> USE DEF OpsInOrder
<1>1. CASE UNCHANGED <<state, ops, diskVars, file>>
  BY <1>1 DEF SafetyInv, ResultsReachTheirWorkflow, OpsKnowTheDisk, diskVars
<1>2. ASSUME NEW n \in Node, ChooseInitialState(n) PROVE OpsInOrder'
  <2>1. CASE file[n] \notin Role
    BY <1>2, <2>1, IdleMoveSafe DEF ChooseInitialState, InstallState, Busy
  <2>2. CASE file[n] \in Role
    <3>1. /\ state[n] = "starting"
          /\ Transition(n, StateOfOp("rejoin"))
          /\ ops' = Starting(n, NewOp("rejoin", None))
          /\ UNCHANGED <<diskVars, file>>
      BY <1>2, <2>2 DEF ChooseInitialState, Role, StateOfOp
    <3> QED
      BY <2>2, <3>1, StartSafe DEF InstallState, Busy
  <2> QED
    BY <2>1, <2>2
<1> QED
  BY <1>1, <1>2 DEF Environment, Learn, DetectFailure, Suspect, Lose, PowerOn

LEMMA UserActionOps ==
  ASSUME SafetyInv, NEW n \in Node, UserAction(n)
  PROVE  OpsInOrder'
<1> USE DEF OpsInOrder
<1>1. CASE RequestBootstrap(n)
  BY <1>1, IdleMoveSafe DEF RequestBootstrap, InstallState, Busy, Unmoved
<1>2. CASE CancelBootstrap(n)
  BY <1>2, IdleMoveSafe DEF CancelBootstrap, InstallState, Busy, Unmoved
<1>3. CASE ConfirmBootstrap(n)
  BY <1>3 DEF ConfirmBootstrap, Unmoved, SafetyInv, ResultsReachTheirWorkflow, OpsKnowTheDisk,
              diskVars
<1> QED
  BY <1>1, <1>2, <1>3 DEF UserAction

LEMMA StutteringOps ==
  ASSUME SafetyInv, UNCHANGED <<state, ops, diskVars, file>>
  PROVE  OpsInOrder'
BY DEF OpsInOrder, SafetyInv, ResultsReachTheirWorkflow, OpsKnowTheDisk, diskVars

LEMMA HandlerOps ==
  ASSUME SafetyInv, NEW n \in Node, Handler(n)
  PROVE  OpsInOrder'
<1> USE DEF OpsInOrder, Unmoved
<1>1. CASE OnBootstrapRequested(n)
  BY <1>1, IdleMoveSafe DEF OnBootstrapRequested, CanEnterWaiting, InstallState, Busy
<1>2. CASE OnBootstrapWaitExpired(n)
  BY <1>2, IdleMoveSafe, StutteringOps DEF OnBootstrapWaitExpired, InstallState, Busy
<1>3. CASE InitializeCluster(n)
  <2>1. /\ state[n] = "fb_bootstrap_waiting"
        /\ ops' = Starting(n, NewOp("init", None))
        /\ Transition(n, StateOfOp("init"))
        /\ UNCHANGED <<diskVars, file>>
    BY <1>3 DEF InitializeCluster, ComputeRole, StartOperation, StateOfOp
  <2> QED
    BY <2>1, StartSafe DEF InstallState, Busy
<1>4. CASE RefuseToInitialize(n)
  BY <1>4, IdleMoveSafe DEF RefuseToInitialize, ComputeRole, InstallState, Busy
<1>5. CASE TakeRole(n)
  BY <1>5, BeginInstallSafe, StutteringOps DEF TakeRole, ComputeRole
<1>6. CASE DivertToJoining(n)
  BY <1>6, IdleMoveSafe DEF DivertToJoining, InstallState, Busy
<1>7. CASE InstallOnTurn(n)
  BY <1>7, BeginInstallSafe DEF InstallOnTurn
<1>8. ASSUME NEW event \in EventName, IgnoreEvent(n, event) PROVE OpsInOrder'
  BY <1>8, StutteringOps DEF IgnoreEvent
<1> QED
  BY <1>1, <1>2, <1>3, <1>4, <1>5, <1>6, <1>7, <1>8 DEF Handler, OnBootstrapStart

\* Nobody's cluster is forgotten, and an installation always enters one.
LEMMA OpStepClusters ==
  ASSUME SafetyInv, NEW n \in Node, NEW op \in ops[n], OpStep(n, op)
  PROVE  /\ \A m \in Node : cluster[m] # None => cluster'[m] # None
         /\ UnitsHoldData'
<1> USE DEF SafetyInv, TypeOK, DaemonTypeOK
<1>1. CASE RunInstallScript(n, op)
  <2>1. (IF op.kind = "init" THEN n ELSE cluster[op.via]) # None
    BY <1>1, DaemonAssumption DEF RunInstallScript, Install, OpsKnowTheDisk
  <2>2. cluster'[n] # None /\ \A m \in Node \ {n} : cluster'[m] = cluster[m] /\ unit'[m] = unit[m]
    BY <1>1, <2>1 DEF RunInstallScript
  <2> QED
    BY <2>2 DEF UnitsHoldData
<1>2. CASE ~RunInstallScript(n, op)
  <2>1. UNCHANGED <<unit, cluster>>
    BY <1>2 DEF OpStep, RefuseToReinstall, FailInstallScript, CheckInstalledRole, BecomeReady,
                TimeOut, diskVars
  <2> QED
    BY <2>1 DEF UnitsHoldData
<1> QED
  BY <1>1, <1>2

LEMMA OpStepOps ==
  ASSUME SafetyInv, NEW n \in Node, NEW op \in ops[n], OpStep(n, op)
  PROVE  OpsInOrder'
<1>1. /\ OnlyEmptyDisksAreWritten
      /\ \A m \in Node : cluster[m] # None => cluster'[m] # None
  BY OpStepDisk, OpStepClusters DEF SafetyInv
<1> USE DEF OpsInOrder, SafetyInv, TypeOK, DaemonTypeOK, OpPhase
<1>2. CASE RefuseToReinstall(n, op)
  BY <1>1, <1>2, AdvanceSafe DEF RefuseToReinstall, diskVars
<1>3. CASE RunInstallScript(n, op)
  <2>1. op.kind # "rejoin" /\ unit'[n] = RoleOf(op) /\ \A m \in Node \ {n} : unit'[m] = unit[m]
    BY <1>3 DEF RunInstallScript, Install
  <2>2. ops' = InPhase(n, op, "wait") /\ UNCHANGED <<state, file>>
    BY <1>3 DEF RunInstallScript
  <2> QED
    BY <1>1, <2>1, <2>2, AdvanceSafe
<1>4. CASE FailInstallScript(n, op)
  BY <1>1, <1>4, AdvanceSafe DEF FailInstallScript, diskVars
<1>5. CASE CheckInstalledRole(n, op)
  <2>1. op.kind = "rejoin" /\ UNCHANGED <<state, file, unit>>
    BY <1>5 DEF CheckInstalledRole, diskVars
  <2>2. CASE unit[n] = file[n]
    <3>1. ops' = InPhase(n, op, "wait")
      BY <1>5, <2>2 DEF CheckInstalledRole
    <3> QED
      BY <1>1, <2>1, <2>2, <3>1, AdvanceSafe DEF Install
  <2>3. CASE unit[n] # file[n]
    <3>1. ops' = InPhase(n, op, "error")
      BY <1>5, <2>3 DEF CheckInstalledRole
    <3> QED
      BY <1>1, <2>1, <3>1, AdvanceSafe
  <2> QED
    BY <2>2, <2>3
<1>6. CASE BecomeReady(n, op)
  <2>1. ops' = InPhase(n, op, "ok") /\ UNCHANGED <<state, file, unit>> /\ op.phase = "wait"
    BY <1>6 DEF BecomeReady, diskVars
  <2>2. /\ Install(op) => unit[n] = RoleOf(op)
        /\ op.kind = "rejoin" => unit[n] = file[n]
    BY <2>1 DEF OpsKnowTheDisk
  <2> QED
    BY <1>1, <2>1, <2>2, AdvanceSafe
<1>7. CASE TimeOut(n, op)
  BY <1>1, <1>7, AdvanceSafe DEF TimeOut, diskVars
<1> QED
  BY <1>2, <1>3, <1>4, <1>5, <1>6, <1>7 DEF OpStep

LEMMA ResultOps ==
  ASSUME SafetyInv, NEW n \in Node, NEW op \in ops[n],
         RejoinStep(n, op) \/ ResultHandler(n, op)
  PROVE  OpsInOrder'
<1> USE DEF OpsInOrder, SafetyInv, TypeOK, DaemonTypeOK, BecomeStable, Save, Unmoved
<1>1. CASE OnRejoinReady(n, op)
  BY <1>1, ResultSafe DEF OnRejoinReady
<1>2. CASE FailRejoin(n, op)
  BY <1>2, ResultSafe DEF FailRejoin
<1>3. CASE OnBootstrapInstallSucceeded(n, op)
  BY <1>3, ResultSafe DEF OnBootstrapInstallSucceeded
<1>4. CASE FailBootstrap(n, op)
  BY <1>4, ResultSafe DEF FailBootstrap
<1> QED
  BY <1>1, <1>2, <1>3, <1>4 DEF RejoinStep, ResultHandler

LEMMA CrashOps ==
  ASSUME SafetyInv, NEW n \in Node, CrashAndForget(n)
  PROVE  OpsInOrder'
<1> USE DEF SafetyInv, TypeOK, DaemonTypeOK
<1>1. ops'[n] = {} /\ UNCHANGED <<unit, cluster>>
  BY DEF CrashAndForget, Crash, diskVars
<1>2. \A m \in Node \ {n} : ops'[m] = ops[m] /\ state'[m] = state[m] /\ file'[m] = file[m]
  BY DEF CrashAndForget, Crash
<1>3. ResultsReachTheirWorkflow'
  BY <1>1, <1>2 DEF ResultsReachTheirWorkflow
<1>4. OpsKnowTheDisk'
  BY <1>1, <1>2 DEF OpsKnowTheDisk
<1> QED
  BY <1>3, <1>4 DEF OpsInOrder

----------------------------------------------------------------------------
(* Every step keeps the other parts of the invariant. *)

LEMMA UnitsHoldDataStep ==
  ASSUME SafetyInv, [Next]_vars
  PROVE  UnitsHoldData'
<1>1. CASE UNCHANGED diskVars
  BY <1>1 DEF SafetyInv, UnitsHoldData, diskVars
<1>2. ASSUME NEW n \in Node, NEW op \in ops[n], OpStep(n, op) PROVE UnitsHoldData'
  BY <1>2, OpStepClusters
<1>3. CASE UNCHANGED vars
  BY <1>1, <1>3 DEF vars, daemonVars, diskVars
<1> QED
  BY <1>1, <1>2, <1>3, EnvironmentLeavesDisks, HandlersLeaveDisks DEF Next

LEMMA OpsInOrderStep ==
  ASSUME SafetyInv, [Next]_vars
  PROVE  OpsInOrder'
<1>1. CASE UNCHANGED vars
  BY <1>1, StutteringOps DEF vars, daemonVars, diskVars
<1>2. ASSUME NEW n \in Node, TimerFires(n) PROVE OpsInOrder'
  BY <1>2, StutteringOps DEF TimerFires, Unmoved
<1> QED
  BY <1>1, <1>2, EnvironmentOps, UserActionOps, HandlerOps, CrashOps, OpStepOps, ResultOps
     DEF Next

\* A quiet step makes no machine stable, saves nothing, and takes a machine into
\* the first boot only from there or with an empty disk.
Stable == {"stable_server", "stable_agent"}

Quiet(m) ==
  /\ state'[m] = state[m] \/ state'[m] \notin Stable
  /\ file'[m] # "none" => file[m] # "none"
  /\ state'[m] \in FirstBoot => state[m] \in FirstBoot \/ file[m] = "none"

QuietStep == \A m \in Node : Quiet(m)

LEMMA QuietMove ==
  ASSUME TypeOK, NEW n \in Node, NEW to, Transition(n, to), UNCHANGED file,
         to \notin Stable, to \in FirstBoot => state[n] \in FirstBoot \/ file[n] = "none"
  PROVE  QuietStep
BY DEF QuietStep, Quiet, Transition, TypeOK, DaemonTypeOK

LEMMA QuietIdle == UNCHANGED <<state, file>> => QuietStep
BY DEF QuietStep, Quiet

LEMMA QuietEnvironment ==
  ASSUME TypeOK, Environment
  PROVE  QuietStep
<1>1. ASSUME NEW n \in Node, ChooseInitialState(n) PROVE QuietStep
  <2>1. PICK to : /\ Transition(n, to) /\ to \notin Stable
                  /\ to \in FirstBoot => file[n] = "none"
    BY <1>1 DEF ChooseInitialState, Stable, FirstBoot, InstallState
  <2> QED
    BY <1>1, <2>1, QuietMove DEF ChooseInitialState
<1> QED
  BY <1>1, QuietIdle DEF Environment, Learn, DetectFailure, Suspect, Lose, PowerOn

LEMMA QuietHandlers ==
  ASSUME TypeOK, NEW n \in Node, UserAction(n) \/ Handler(n) \/ TimerFires(n)
  PROVE  QuietStep
<1> USE DEF Stable, FirstBoot, InstallState
<1>1. CASE UserAction(n)
  BY <1>1, QuietMove, QuietIdle DEF UserAction, RequestBootstrap, CancelBootstrap,
                                    ConfirmBootstrap
<1>2. CASE TimerFires(n)
  BY <1>2, QuietIdle DEF TimerFires
<1>3. CASE OnBootstrapRequested(n) \/ DivertToJoining(n)
  BY <1>3, QuietMove DEF OnBootstrapRequested, DivertToJoining, CanEnterWaiting
<1>4. CASE OnBootstrapWaitExpired(n) \/ \E event \in EventName : IgnoreEvent(n, event)
  BY <1>4, QuietMove, QuietIdle DEF OnBootstrapWaitExpired, IgnoreEvent
<1>5. CASE OnBootstrapStart(n) \/ InstallOnTurn(n)
  <2>1. /\ state[n] = "fb_bootstrap_waiting" /\ UNCHANGED file
        /\ \/ UNCHANGED state
           \/ Transition(n, "fb_bootstrap_failed")
           \/ \E to \in InstallState : Transition(n, to)
    BY <1>5 DEF OnBootstrapStart, InitializeCluster, RefuseToInitialize, TakeRole, ComputeRole,
                InstallOnTurn, InstallIfTurn, StartOperation, Unmoved
  <2> QED
    BY <2>1, QuietMove, QuietIdle
<1> QED
  BY <1>1, <1>2, <1>3, <1>4, <1>5 DEF Handler

LEMMA QuietCrash ==
  ASSUME TypeOK, NEW n \in Node, CrashAndForget(n)
  PROVE  QuietStep
BY DEF CrashAndForget, Crash, QuietStep, Quiet, Stable, FirstBoot, InstallState, TypeOK,
       DaemonTypeOK

LEMMA QuietOps ==
  ASSUME TypeOK, NEW n \in Node, NEW op \in ops[n],
         OpStep(n, op) \/ FailRejoin(n, op) \/ FailBootstrap(n, op)
  PROVE  QuietStep
<1>1. CASE OpStep(n, op)
  BY <1>1, QuietIdle DEF OpStep, RefuseToReinstall, RunInstallScript, FailInstallScript,
                         CheckInstalledRole, BecomeReady, TimeOut
<1>2. CASE FailRejoin(n, op) \/ FailBootstrap(n, op)
  BY <1>2, QuietMove DEF FailRejoin, FailBootstrap, Stable, FirstBoot, InstallState
<1> QED
  BY <1>1, <1>2

\* The other steps are the two that end in becomeStable, with K3s installed in
\* the role they enter.
LEMMA SettlingStep ==
  ASSUME SafetyInv, NEW n \in Node, NEW op \in ops[n],
         OnRejoinReady(n, op) \/ OnBootstrapInstallSucceeded(n, op)
  PROVE  \E role \in Role :
           /\ unit[n] = role /\ cluster[n] # None /\ UNCHANGED diskVars
           /\ state' = [state EXCEPT ![n] = StableState(role)]
           /\ \A m \in Node \ {n} : file'[m] = file[m]
<1> USE DEF SafetyInv
<1>1. /\ UNCHANGED diskVars
      /\ \A m \in Node \ {n} : file'[m] = file[m]
  BY DEF OnRejoinReady, OnBootstrapInstallSucceeded, Unmoved, BecomeStable, Save, TypeOK,
         DaemonTypeOK
<1>2. /\ op.kind \in {"init", "rejoin", "check", "evict", "server", "agent", "erase",
                      "prepare", "promote", "demote"}
      /\ state[n] = StateOfOp(op.kind)
  BY OpFields DEF ResultsReachTheirWorkflow
<1>3. CASE OnRejoinReady(n, op)
  <2>1. op.kind = "rejoin" /\ op.phase = "ok"
    BY <1>2, <1>3 DEF OnRejoinReady, StateOfOp
  <2>2. file[n] \in Role /\ unit[n] = file[n]
    BY <2>1 DEF OpsKnowTheDisk
  <2>3. cluster[n] # None
    BY <2>2 DEF UnitsHoldData, Role
  <2>4. state' = [state EXCEPT ![n] = StableState(file[n])]
    BY <1>3 DEF OnRejoinReady, BecomeStable, Save, Transition
  <2> QED
    BY <1>1, <2>2, <2>3, <2>4
<1>4. CASE OnBootstrapInstallSucceeded(n, op)
  <2>1. /\ op.kind \in {"init", "server", "agent"} /\ op.phase = "ok"
        /\ InstalledAs(state[n]) = RoleOf(op)
    BY <1>2, <1>4 DEF OnBootstrapInstallSucceeded, StateOfOp, InstallState, InstalledAs, RoleOf
  <2>2. unit[n] = RoleOf(op) /\ RoleOf(op) \in Role
    BY <2>1 DEF OpsKnowTheDisk, Install, RoleOf, Role
  <2>3. cluster[n] # None
    BY <2>2 DEF UnitsHoldData, Role
  <2>4. state' = [state EXCEPT ![n] = StableState(RoleOf(op))]
    BY <1>4, <2>1 DEF OnBootstrapInstallSucceeded, BecomeStable, Save, Transition
  <2> QED
    BY <1>1, <2>2, <2>3, <2>4
<1> QED
  BY <1>3, <1>4

LEMMA QuietOrSettling ==
  ASSUME SafetyInv, [Next]_vars
  PROVE  QuietStep \/ \E n \in Node : \E op \in ops[n] :
                        OnRejoinReady(n, op) \/ OnBootstrapInstallSucceeded(n, op)
<1>1. CASE UNCHANGED vars
  BY <1>1, QuietIdle DEF vars, daemonVars
<1> QED
  BY <1>1, QuietEnvironment, QuietHandlers, QuietCrash, QuietOps
     DEF Next, RejoinStep, ResultHandler, SafetyInv

LEMMA StableStep ==
  ASSUME SafetyInv, [Next]_vars
  PROVE  StableIsInstalled'
<1> SUFFICES ASSUME NEW m \in Node, NEW role \in Role, state'[m] = StableState(role)
             PROVE  unit'[m] = role /\ cluster'[m] # None
  BY DEF StableIsInstalled
<1>1. unit[m] = role /\ cluster[m] # None => unit'[m] = role /\ cluster'[m] # None
  BY DiskStep DEF SafetyInv, OnlyEmptyDisksAreWritten, Role
<1>2. CASE state'[m] = state[m] \/ QuietStep
  <2>1. state[m] = StableState(role)
    BY <1>2 DEF QuietStep, Quiet, Stable, StableState
  <2> QED
    BY <1>1, <2>1 DEF SafetyInv, StableIsInstalled
<1>3. ASSUME NEW n \in Node, NEW op \in ops[n],
             OnRejoinReady(n, op) \/ OnBootstrapInstallSucceeded(n, op), state'[m] # state[m]
      PROVE  unit[m] = role /\ cluster[m] # None
  <2>1. PICK r \in Role : /\ unit[n] = r /\ cluster[n] # None
                          /\ state' = [state EXCEPT ![n] = StableState(r)]
    BY <1>3, SettlingStep
  <2>2. m = n
    BY <1>3, <2>1 DEF SafetyInv, TypeOK, DaemonTypeOK
  <2>3. r = role
    BY <2>1, <2>2 DEF SafetyInv, TypeOK, DaemonTypeOK, StableState, Role
  <2> QED
    BY <2>1, <2>2, <2>3
<1> QED
  BY <1>1, <1>2, <1>3, QuietOrSettling

LEMMA FirstBootStep ==
  ASSUME SafetyInv, [Next]_vars
  PROVE  NeverBackToFirstBoot'
<1>1. CASE QuietStep
  BY <1>1 DEF QuietStep, Quiet, SafetyInv, NeverBackToFirstBoot
<1>2. ASSUME NEW n \in Node, NEW op \in ops[n],
             OnRejoinReady(n, op) \/ OnBootstrapInstallSucceeded(n, op)
      PROVE  NeverBackToFirstBoot'
  <2>1. PICK r \in Role : /\ state' = [state EXCEPT ![n] = StableState(r)]
                          /\ \A m \in Node \ {n} : file'[m] = file[m]
    BY <1>2, SettlingStep
  <2>2. \A m \in Node \ {n} : state'[m] = state[m] /\ file'[m] = file[m]
    BY <2>1 DEF SafetyInv, TypeOK, DaemonTypeOK
  <2>3. state'[n] \notin FirstBoot
    BY <2>1 DEF SafetyInv, TypeOK, DaemonTypeOK, StableState, FirstBoot, InstallState
  <2> QED
    BY <2>2, <2>3 DEF SafetyInv, NeverBackToFirstBoot
<1> QED
  BY <1>1, <1>2, QuietOrSettling

\* A memberlist only ever takes a tag from its owner.
LEMMA ViewStep ==
  ASSUME TypeOK, [Next]_vars, NEW n \in Node, NEW m \in Node,
         view'[n][m].state = "stable_server"
  PROVE  view[n][m].state = "stable_server" \/ state[m] = "stable_server"
<1> USE DEF TypeOK, DaemonTypeOK
<1>1. CASE UNCHANGED view
  BY <1>1
<1>2. ASSUME NEW a \in Node, NEW b \in Node, Learn(a, b)
      PROVE  view[n][m].state = "stable_server" \/ state[m] = "stable_server"
  BY <1>2 DEF Learn, AliveAs
<1>3. ASSUME NEW a \in Node, NEW b \in Node, DetectFailure(a, b) \/ Suspect(a, b)
      PROVE  view[n][m].state = "stable_server" \/ state[m] = "stable_server"
  BY <1>3 DEF DetectFailure, Suspect, FailedAs
<1>4. ASSUME NEW a \in Node, CrashAndForget(a)
      PROVE  view[n][m].state = "stable_server" \/ state[m] = "stable_server"
  BY <1>4 DEF CrashAndForget, Crash, Absent
<1>5. Environment => \/ UNCHANGED view
                     \/ \E a, b \in Node : Learn(a, b) \/ DetectFailure(a, b) \/ Suspect(a, b)
  BY DEF Environment, Lose, PowerOn, ChooseInitialState
<1>6. ASSUME NEW a \in Node, UserAction(a) \/ Handler(a) \/ TimerFires(a) PROVE UNCHANGED view
  BY <1>6 DEF UserAction, RequestBootstrap, CancelBootstrap, ConfirmBootstrap, Handler,
              OnBootstrapRequested, OnBootstrapWaitExpired, OnBootstrapStart, InitializeCluster,
              RefuseToInitialize, TakeRole, ComputeRole, DivertToJoining, InstallOnTurn,
              IgnoreEvent, TimerFires, Unmoved
<1>7. ASSUME NEW a \in Node, NEW op \in ops[a],
             OpStep(a, op) \/ RejoinStep(a, op) \/ ResultHandler(a, op)
      PROVE  UNCHANGED view
  BY <1>7 DEF OpStep, RefuseToReinstall, RunInstallScript, FailInstallScript, CheckInstalledRole,
              BecomeReady, TimeOut, RejoinStep, OnRejoinReady, FailRejoin, ResultHandler,
              OnBootstrapInstallSucceeded, FailBootstrap, Unmoved
<1>8. CASE UNCHANGED vars
  BY <1>1, <1>8 DEF vars, daemonVars
<1> QED
  BY <1>1, <1>2, <1>3, <1>4, <1>5, <1>6, <1>7, <1>8 DEF Next

LEMMA JoinTargetsStep ==
  ASSUME SafetyInv, [Next]_vars
  PROVE  JoinTargetsHoldACluster'
<1> SUFFICES ASSUME NEW n \in Node, NEW m \in Node, view'[n][m].state = "stable_server"
             PROVE  unit'[m] = "server" /\ cluster'[m] # None
  BY DEF JoinTargetsHoldACluster
<1>1. view[n][m].state = "stable_server" \/ state[m] = StableState("server")
  BY ViewStep DEF SafetyInv, StableState
<1>2. unit[m] = "server" /\ cluster[m] # None
  BY <1>1 DEF SafetyInv, JoinTargetsHoldACluster, StableIsInstalled, Role
<1> QED
  BY <1>2, DiskStep DEF SafetyInv, OnlyEmptyDisksAreWritten

----------------------------------------------------------------------------
LEMMA SafetyInvInductive == SafetyInv /\ [Next]_vars => SafetyInv'
<1> SUFFICES ASSUME SafetyInv, [Next]_vars PROVE SafetyInv'
  OBVIOUS
<1>1. TypeOK'
  BY NextTyped DEF SafetyInv
<1> QED
  BY <1>1, OpsInOrderStep, UnitsHoldDataStep, StableStep, JoinTargetsStep, FirstBootStep
     DEF OpsInOrder, SafetyInv

LEMMA Safety == Spec => []SafetyInv
BY InitSafe, SafetyInvInductive, PTL DEF Spec

\* The result of a K3s operation always finds its machine in the state that
\* started it, so that onK3sOperationSucceeded never credits it to another
\* workflow.
THEOREM ResultsNeverMisdelivered == Spec => []ResultsReachTheirWorkflow
<1>1. SafetyInv => ResultsReachTheirWorkflow
  BY DEF SafetyInv
<1> QED
  BY <1>1, Safety, PTL

\* A machine that says it is stable runs K3s in the role it advertises, as a
\* member of a cluster.
THEOREM StableMachinesAreInstalled == Spec => []StableIsInstalled
<1>1. SafetyInv => StableIsInstalled
  BY DEF SafetyInv
<1> QED
  BY <1>1, Safety, PTL

\* A server is only ever installed through a machine that holds a cluster,
\* however old the memberlist that named it.
THEOREM TargetsHoldACluster == Spec => []JoinTargetsHoldACluster
<1>1. SafetyInv => JoinTargetsHoldACluster
  BY DEF SafetyInv
<1> QED
  BY <1>1, Safety, PTL

\* A saved machine never replays its first boot.
THEOREM FirstBootIsNeverReplayed == Spec => []NeverBackToFirstBoot
<1>1. SafetyInv => NeverBackToFirstBoot
  BY DEF SafetyInv
<1> QED
  BY <1>1, Safety, PTL
=============================================================================
