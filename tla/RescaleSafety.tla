---------------------------- MODULE RescaleSafety ----------------------------
(***************************************************************************)
(* Theorems about the rescaling of a cluster that already runs: every      *)
(* machine belongs to it when the behaviour starts.  First, under every    *)
(* fault: what a machine does and what it holds always agree.  Then, as    *)
(* long as no machine stops or is suspected: the conversions exclude each  *)
(* other, and none tears an etcd member down.                              *)
(***************************************************************************)
EXTENDS RescaleProofs

\* The networks these theorems are about: a cluster without newcomers.
SettledNetwork == Settled = Node

----------------------------------------------------------------------------
(* Machines of a running cluster, under every fault *)

Converting == {"rescale_promoting", "rescale_demoting"}

\* Nothing of the first boot and of the joining path is left on n.
PastFirstBoot(n) ==
  /\ file[n] # "none"
  /\ state[n] \in {"starting"} \cup InCluster
  /\ inbox[n] = {} /\ graceTimer[n] = "off" /\ n \notin confirmed
  /\ requests[n] = {} /\ lookups[n] = {} /\ cleaning[n] = None

\* What n remembers of an order is of its own round or of its own conversion.
RemembersItsOrder(n) ==
  /\ \A order \in orders[n] : order.target = n
  /\ rescale[n].order # None =>
       \/ state[n] = "rescale_coordinating" /\ rescale[n].order.via = n
       \/ state[n] \in Converting /\ rescale[n].order.target = n

\* The disk of n is that of its state.
HoldsItsRole(n) ==
  /\ unit[n] # "none" => cluster[n] # None
  /\ state[n] = "rejoin_cluster" => file[n] \in Role
  /\ state[n] \in Serving => unit[n] = "server"
  /\ state[n] = "stable_agent" => unit[n] = "agent"

\* An operation of n obeys the order n remembers ...
ObeysTheOrder(n, op) ==
  /\ op.kind = "evict" => rescale[n].order = None
  /\ op.kind = "prepare" => rescale[n].order # None /\ op.via = rescale[n].order.target
  /\ Converts(op) => /\ rescale[n].order # None
                     /\ op.kind = ConversionKind(rescale[n].order.role)

\* ... and knows what its script left on the disk.
KnowsTheDisk(n, op) ==
  /\ op.phase = "bare" => Converts(op)
  /\ op.kind = "rejoin" /\ op.phase \in {"wait", "ok"} => unit[n] = file[n]
  /\ Converts(op) => /\ op.phase = "start" => unit[n] = Other(NewRole(op))
                     /\ op.phase = "bare" => unit[n] = "none"
                     /\ op.phase \in {"wait", "ok"} => unit[n] = NewRole(op)

\* The only operation of n is one of its state.
WorksInOrder(n) ==
  \A op \in ops[n] :
    /\ ops[n] = {op}
    /\ op.kind \in {"rejoin", "evict", "prepare", "promote", "demote"}
    /\ state[n] = StateOfOp(op.kind)
    /\ ObeysTheOrder(n, op) /\ KnowsTheDisk(n, op)

InOrder(n) == PastFirstBoot(n) /\ RemembersItsOrder(n) /\ HoldsItsRole(n) /\ WorksInOrder(n)

AllOrderly == RescaleInv /\ \A n \in Node : InOrder(n)

\* The operation of n goes on to another phase, and nothing else happens.
GoesOn(n, op) ==
  /\ \E phase \in {"wait", "ok", "error"} :
       /\ ops' = InPhase(n, op, phase)
       /\ phase = "wait" => op.kind = "rejoin" /\ unit[n] = file[n]
       /\ phase = "ok" => op.phase = "wait"
  /\ op.kind = "rejoin" \/ op.phase = "wait"
  /\ UNCHANGED <<up, state, view, inbox, diskVars, file, bootstrapVars, joinVars, rescaleVars>>

\* The steps that a machine of a running cluster is left with.
WorksOn(n, op) ==
  \/ GoesOn(n, op)
  \/ DeleteNodes(n, op) \/ FailRound(n, op)
  \/ Uninstall(n, op) \/ Reinstall(n, op) \/ WaitWithoutQuorum(n, op)

EndsWith(n, op) ==
  \/ RejoinStep(n, op) /\ UNCHANGED <<bootstrapVars, joinVars, rescaleVars>>
  \/ FinishEviction(n, op) \/ FinishConversion(n, op) \/ AbandonRound(n, op)
  \/ OnRescaleConverted(n, op) \/ FailRescale(n, op)

SettledStep(n) ==
  \/ TimeStep(n)
  \/ \E op \in ops[n] : WorksOn(n, op) \/ EndsWith(n, op)
  \/ \E order \in orders[n] : OnRescaleConvert(n, order) \/ LoseOrder(n, order)
  \/ StopAndForgetAll(n) \/ (RestartK3s(n) /\ UNCHANGED rescaleVars)
  \/ OnRescaleCheck(n) \/ OnMembershipEvent(n) \/ DropEvent(n)

LEMMA OperationAlone ==
  ASSUME AllOrderly, NEW n \in Node, NEW op \in ops[n]
  PROVE  /\ op \in Op /\ ops[n] = {op}
         /\ op.kind \in {"rejoin", "evict", "prepare", "promote", "demote"}
         /\ state[n] = StateOfOp(op.kind)
         /\ state[n] \in {"rejoin_cluster", "rescale_coordinating"} \cup Converting
<1>1. InOrder(n) /\ op \in Op
  BY DEF AllOrderly, RescaleInv, TypeOK, DaemonTypeOK
<1>2. /\ ops[n] = {op}
      /\ op.kind \in {"rejoin", "evict", "prepare", "promote", "demote"}
      /\ state[n] = StateOfOp(op.kind)
  BY <1>1 DEF InOrder, WorksInOrder
<1> QED
  BY <1>1, <1>2 DEF StateOfOp, Converting

\* A K3s operation of a running cluster installs nothing: it is only awaited.
LEMMA K3sStepGoesOn ==
  ASSUME AllOrderly, NEW n \in Node, NEW op \in ops[n], K3sStep(n, op), UNCHANGED rescaleVars
  PROVE  GoesOn(n, op)
<1>1. op.kind \in {"rejoin", "evict", "prepare", "promote", "demote"}
  BY OperationAlone
<1>2. ~Install(op) /\ op.kind # "check"
  BY <1>1 DEF Install
<1>3. CASE JoinOpStep(n, op)
  <2>1. CheckInstalledRole(n, op) \/ BecomeReady(n, op) \/ TimeOut(n, op)
    BY <1>2, <1>3 DEF JoinOpStep, OpStep, RefuseToReinstall, RunInstallScript, FailInstallScript
  <2>2. /\ UNCHANGED <<up, state, view, inbox, diskVars, file>>
        /\ \E phase \in {"wait", "ok", "error"} :
             /\ ops' = InPhase(n, op, phase)
             /\ phase = "wait" => op.kind = "rejoin" /\ unit[n] = file[n]
             /\ phase = "ok" => op.phase = "wait"
        /\ op.kind = "rejoin" \/ op.phase = "wait"
    BY <2>1 DEF CheckInstalledRole, BecomeReady, TimeOut
  <2>3. UNCHANGED nodeObjects
    <3>1. \A m \in Node : ~(unit[m] = "none" /\ unit'[m] # "none")
      BY <2>2 DEF diskVars
    <3>2. nodeObjects \in [Node -> SUBSET Node]
      BY DEF AllOrderly, RescaleInv, JoinTypeOK
    <3> QED
      BY <1>3, <3>1, <3>2 DEF JoinOpStep
  <2> QED
    BY <1>3, <2>2, <2>3 DEF JoinOpStep, GoesOn, joinVars
<1>4. CASE WaitInVain(n, op)
  BY <1>4 DEF WaitInVain, GoesOn
<1> QED
  BY <1>2, <1>3, <1>4 DEF K3sStep, CheckNotInstalled

\* The steps of the bootstrap, of the joining path and of the forget-me rounds
\* do not happen in a running cluster.
LEMMA OnlySettledSteps ==
  ASSUME AllOrderly, NEW n \in Node,
         \/ TimeStep(n) \/ WorkStep(n) \/ ResultOfWork(n) \/ EventStep(n) \/ FaultStep(n)
         \/ OnRescaleCheck(n) \/ OnMembershipEvent(n) \/ DropEvent(n)
  PROVE  SettledStep(n)
<1>1. PastFirstBoot(n)
  BY DEF AllOrderly, InOrder
<1>2. state[n] \notin FirstBoot
  BY <1>1 DEF PastFirstBoot, FirstBoot, InstallState, InCluster
<1>3. CASE WorkStep(n)
  <2>1. ~Lookups(n)
    BY <1>1 DEF Lookups, PastFirstBoot
  <2> QED
    BY <1>3, <2>1, K3sStepGoesOn DEF WorkStep, SettledStep, WorksOn
<1>4. CASE ResultOfWork(n)
  <2>1. PICK op \in ops[n] :
          \/ JoiningResult(n, op) /\ UNCHANGED rescaleVars
          \/ FinishForgettingRound(n, op) \/ FinishEviction(n, op) \/ FinishConversion(n, op)
          \/ AbandonRound(n, op)
          \/ OnRescaleConverted(n, op) \/ FailRescale(n, op)
    BY <1>4 DEF ResultOfWork
  <2>2. state[n] \in Awaiting
    BY OperationAlone DEF Awaiting, Converting
  <2>3. ~ResultHandler(n, op) /\ ~JoinerResult(n, op)
    BY <1>2, <2>2 DEF ResultHandler, OnBootstrapInstallSucceeded, FailBootstrap, JoinerResult,
          OnJoiningCleanupChecked, OnJoiningInstallSucceeded, FailJoining, IgnoreResult, FirstBoot
  <2>4. ~FinishForgettingRound(n, op)
    BY <1>1 DEF FinishForgettingRound, PastFirstBoot
  <2> QED
    BY <2>1, <2>3, <2>4 DEF JoiningResult, SettledStep, EndsWith
<1>5. CASE EventStep(n)
  <2>1. ~BootstrapHandler(n)
    BY <1>1, <1>2 DEF BootstrapHandler, OnBootstrapRequested, OnBootstrapWaitExpired, OnBootstrapStart,
          InitializeCluster, RefuseToInitialize, TakeRole, ComputeRole, InstallOnTurn, TimerFires,
          IgnoreEvent, PastFirstBoot, FirstBoot
  <2>2. ~JoinerHandler(n)
    BY <1>1, <1>2 DEF JoinerHandler, StartJoiningPath, DivertToJoining, OnJoinWaitExpired,
          MaybeJoinCluster, OnForgetRetry, OnForgotten, PastFirstBoot, FirstBoot
  <2>3. /\ \A name \in Node : ~OnForgetMe(n, name)
        /\ ~\E l \in lookups[n] : OnForgetProbedBetweenRounds(n, l)
    BY <1>1 DEF OnForgetMe, PastFirstBoot
  <2> QED
    BY <1>5, <2>1, <2>2, <2>3 DEF EventStep, JoiningStep, SettledStep
<1>6. CASE FaultStep(n)
  <2>1. ~LoseConfirmation(n) /\ \A name \in Node : ~LoseRequest(n, name)
    BY <1>1 DEF LoseConfirmation, LoseRequest, PastFirstBoot
  <2> QED
    BY <1>6, <2>1 DEF FaultStep, SettledStep
<1> QED
  BY <1>3, <1>4, <1>5, <1>6 DEF SettledStep

LEMMA NobodyPressesButtons ==
  ASSUME AllOrderly, NEW n \in Node
  PROVE  ~UserAction(n)
<1>1. PastFirstBoot(n)
  BY DEF AllOrderly, InOrder
<1> QED
  BY <1>1 DEF UserAction, RequestBootstrap, CancelBootstrap, ConfirmBootstrap, PastFirstBoot, InCluster

----------------------------------------------------------------------------
(* Every step keeps the machines in order *)

\* A step of n leaves the other machines as they are.
OthersKept(n) ==
  \A m \in Node \ {n} :
    /\ file'[m] = file[m] /\ state'[m] = state[m] /\ ops'[m] = ops[m]
    /\ unit'[m] = unit[m] /\ cluster'[m] = cluster[m]
    /\ rescale'[m].order = rescale[m].order

\* Nothing of the first boot comes back.
NothingComesBack ==
  \A m \in Node :
    /\ inbox'[m] = {} /\ graceTimer'[m] = "off" /\ m \notin confirmed'
    /\ requests'[m] = {} /\ lookups'[m] = {} /\ cleaning'[m] = None
    /\ \A order \in orders'[m] : order.target = m

LEMMA OthersInOrder ==
  ASSUME AllOrderly, RescaleInv', NEW n \in Node, OthersKept(n), NothingComesBack, InOrder(n)'
  PROVE  AllOrderly'
<1> SUFFICES ASSUME NEW m \in Node \ {n} PROVE InOrder(m)'
  BY DEF AllOrderly
<1>1. InOrder(m)
  BY DEF AllOrderly
<1>2. PastFirstBoot(m)' /\ HoldsItsRole(m)'
  BY <1>1 DEF InOrder, PastFirstBoot, HoldsItsRole, OthersKept, NothingComesBack
<1>3. RemembersItsOrder(m)'
  BY <1>1 DEF InOrder, RemembersItsOrder, OthersKept, NothingComesBack
<1>4. WorksInOrder(m)'
  BY <1>1 DEF InOrder, WorksInOrder, ObeysTheOrder, KnowsTheDisk, OthersKept
<1> QED
  BY <1>2, <1>3, <1>4 DEF InOrder

LEMMA PendingKept ==
  ASSUME AllOrderly, UNCHANGED <<inbox, graceTimer, confirmed, requests, lookups, cleaning>>,
         \A m \in Node : \A order \in orders'[m] : order \in orders[m] \/ order.target = m
  PROVE  NothingComesBack
BY DEF AllOrderly, InOrder, PastFirstBoot, RemembersItsOrder, NothingComesBack

\* A machine in another phase of its operation, with the same disk.
LEMMA GoesOnInOrder ==
  ASSUME AllOrderly, RescaleInv', NEW n \in Node, NEW op \in ops[n],
         NEW phase \in {"wait", "ok", "error"}, ops' = InPhase(n, op, phase),
         phase = "wait" => op.kind = "rejoin" /\ unit[n] = file[n],
         phase = "ok" => op.phase = "wait" \/ op.kind \in Round,
         UNCHANGED <<state, inbox, diskVars, file, bootstrapVars, joinerVars, coordinatorVars>>,
         UNCHANGED rescaleVars
  PROVE  AllOrderly'
<1>1. ops[n] = {op} /\ InOrder(n) /\ op \in Op
  BY OperationAlone DEF AllOrderly
<1>2. /\ ops'[n] = {[kind |-> op.kind, via |-> op.via, phase |-> phase]}
      /\ \A m \in Node \ {n} : ops'[m] = ops[m]
  BY <1>1 DEF InPhase, AllOrderly, RescaleInv, TypeOK, DaemonTypeOK
<1>3. OthersKept(n)
  BY <1>2 DEF OthersKept, diskVars, rescaleVars
<1>4. NothingComesBack
  BY PendingKept DEF bootstrapVars, joinerVars, coordinatorVars, rescaleVars
<1>5. PastFirstBoot(n)' /\ HoldsItsRole(n)' /\ RemembersItsOrder(n)'
  BY <1>1, <1>4 DEF InOrder, PastFirstBoot, HoldsItsRole, RemembersItsOrder, NothingComesBack,
                    diskVars, rescaleVars
<1>6. WorksInOrder(n)'
  <2> DEFINE next == [kind |-> op.kind, via |-> op.via, phase |-> phase]
  <2>1. /\ op.kind \in {"rejoin", "evict", "prepare", "promote", "demote"}
        /\ state[n] = StateOfOp(op.kind)
        /\ ObeysTheOrder(n, op) /\ KnowsTheDisk(n, op)
    BY <1>1 DEF InOrder, WorksInOrder
  <2>2. ObeysTheOrder(n, next)'
    BY <2>1 DEF ObeysTheOrder, rescaleVars, Converts
  <2>3. KnowsTheDisk(n, next)'
    <3>1. unit' = unit /\ file' = file
      BY DEF diskVars
    <3>2. CASE op.kind = "rejoin"
      BY <2>1, <3>1, <3>2 DEF KnowsTheDisk, Converts, Round
    <3>3. CASE Converts(op)
      BY <2>1, <3>1, <3>3 DEF KnowsTheDisk, Converts, NewRole, Round
    <3> QED
      BY <3>2, <3>3 DEF KnowsTheDisk, Converts
  <2> QED
    BY <1>2, <2>1, <2>2, <2>3 DEF WorksInOrder
<1> QED
  BY <1>3, <1>4, <1>5, <1>6, OthersInOrder DEF InOrder

LEMMA RoundWorkInOrder ==
  ASSUME AllOrderly, RescaleInv', NEW n \in Node, NEW op \in ops[n],
         GoesOn(n, op) \/ DeleteNodes(n, op) \/ FailRound(n, op) \/ WaitWithoutQuorum(n, op)
  PROVE  AllOrderly'
<1>1. CASE GoesOn(n, op)
  BY <1>1, GoesOnInOrder DEF GoesOn, joinVars
<1>2. CASE DeleteNodes(n, op)
  BY <1>2, GoesOnInOrder DEF DeleteNodes
<1>3. CASE FailRound(n, op)
  BY <1>3, GoesOnInOrder DEF FailRound
<1>4. CASE WaitWithoutQuorum(n, op)
  BY <1>4, GoesOnInOrder DEF WaitWithoutQuorum, ConversionFrame
<1> QED
  BY <1>1, <1>2, <1>3, <1>4

\* The disk of a machine that changes role follows the phases of the change.
LEMMA ConversionWorkInOrder ==
  ASSUME AllOrderly, RescaleInv', NEW n \in Node, NEW op \in ops[n],
         Uninstall(n, op) \/ Reinstall(n, op)
  PROVE  AllOrderly'
<1>1. /\ ops[n] = {op} /\ InOrder(n) /\ op \in Op
      /\ op.kind \in {"rejoin", "evict", "prepare", "promote", "demote"}
      /\ state[n] = StateOfOp(op.kind)
      /\ ObeysTheOrder(n, op) /\ KnowsTheDisk(n, op)
  BY OperationAlone DEF AllOrderly, InOrder, WorksInOrder
<1>2. Converts(op)
  BY <1>1 DEF Uninstall, Reinstall, KnowsTheDisk
<1>3. ConversionFrame
  BY DEF Uninstall, Reinstall
<1>4. PICK phase \in {"bare", "wait", "error"} :
        /\ ops' = InPhase(n, op, phase)
        /\ \A m \in Node \ {n} : unit'[m] = unit[m] /\ cluster'[m] = cluster[m]
        /\ unit'[n] # "none" => cluster'[n] # None
        /\ phase = "bare" => unit'[n] = "none"
        /\ phase = "wait" => unit'[n] = NewRole(op)
  <2>1. unit \in [Node -> InstalledUnit] /\ cluster \in [Node -> Node \cup {None}]
    BY DEF AllOrderly, RescaleInv, TypeOK, DaemonTypeOK
  <2>2. unit[n] # "none" => cluster[n] # None
    BY <1>1 DEF InOrder, HoldsItsRole
  <2>3. CASE Uninstall(n, op)
    BY <2>1, <2>2, <2>3 DEF Uninstall, diskVars
  <2>4. CASE Reinstall(n, op)
    <3>1. CASE UNCHANGED diskVars /\ ops' = InPhase(n, op, "error")
      BY <2>2, <3>1 DEF diskVars
    <3>2. CASE /\ Admits(op.via)
               /\ unit' = [unit EXCEPT ![n] = NewRole(op)]
               /\ cluster' = [cluster EXCEPT ![n] = cluster[op.via]]
               /\ ops' = InPhase(n, op, "wait")
      <4>1. op.via \in Node /\ unit[op.via] = "server"
        BY <3>2 DEF Admits, AllOrderly, RescaleInv, TypeOK, DaemonTypeOK
      <4>2. cluster[op.via] # None
        BY <4>1 DEF AllOrderly, InOrder, HoldsItsRole
      <4> QED
        BY <2>1, <3>2, <4>2
    <3> QED
      BY <2>4, <3>1, <3>2 DEF Reinstall
  <2> QED
    BY <2>3, <2>4
<1>5. /\ ops'[n] = {[kind |-> op.kind, via |-> op.via, phase |-> phase]}
      /\ \A m \in Node \ {n} : ops'[m] = ops[m]
  BY <1>1, <1>4 DEF InPhase, AllOrderly, RescaleInv, TypeOK, DaemonTypeOK
<1>6. OthersKept(n)
  BY <1>3, <1>4, <1>5 DEF OthersKept, ConversionFrame, rescaleVars
<1>7. NothingComesBack
  BY <1>3, PendingKept DEF ConversionFrame, bootstrapVars, joinerVars, coordinatorVars, rescaleVars
<1>8. state'[n] = state[n] /\ state[n] \in Converting
  BY <1>1, <1>2, <1>3 DEF ConversionFrame, Converts, StateOfOp, Converting
<1>9. PastFirstBoot(n)' /\ HoldsItsRole(n)' /\ RemembersItsOrder(n)'
  BY <1>1, <1>3, <1>4, <1>7, <1>8
     DEF ConversionFrame, InOrder, PastFirstBoot, HoldsItsRole, RemembersItsOrder, NothingComesBack,
         rescaleVars, Converting, Serving
<1>10. WorksInOrder(n)'
  <2> DEFINE next == [kind |-> op.kind, via |-> op.via, phase |-> phase]
  <2>1. ObeysTheOrder(n, next)'
    BY <1>1, <1>3 DEF ObeysTheOrder, rescaleVars, Converts, ConversionFrame
  <2>2. KnowsTheDisk(n, next)'
    BY <1>2, <1>4 DEF KnowsTheDisk, Converts, NewRole
  <2> QED
    BY <1>1, <1>5, <1>8, <2>1, <2>2 DEF WorksInOrder
<1> QED
  BY <1>6, <1>7, <1>9, <1>10, OthersInOrder DEF InOrder

----------------------------------------------------------------------------
(* What an evaluation does *)

\* A step leaves the state, the progress and the operations of the others.
OthersStay(n) ==
  \A m \in Node \ {n} :
    state'[m] = state[m] /\ rescale'[m] = rescale[m] /\ ops'[m] = ops[m]

\* No clock of n reaches its end.
ClocksOnly(n, s, p) ==
  /\ \A m \in Node : rescale'[n].clock[m] = "elapsed" => p.clock[m] = "elapsed"
  /\ rescale'[n].imbalance = "elapsed" => p.imbalance = "elapsed"
  /\ rescale'[n].imbalance # "off" => p.imbalance # "off" \/ s = "stable_server"

StaysIn(n, s, p, running) ==
  /\ state'[n] = s /\ ops'[n] = running
  /\ rescale'[n].order = p.order \/ (s = "stable_server" /\ rescale'[n].order = None)
  /\ rescale'[n].evicting \subseteq p.evicting

\* The turn is free, and n takes it.
TakesTheTurn(n, s, v) ==
  /\ s = "stable_server" /\ state'[n] = "rescale_coordinating"
  /\ IsRescaleCoordinator(v, n) /\ ~EtcdMembershipChanging(v)

StartsEvicting(n, s, v, p, running) ==
  /\ TakesTheTurn(n, s, v)
  /\ ops'[n] = running \cup {NewOp("evict", None)}
  /\ rescale'[n].order = None /\ rescale'[n].evicting # {}
  /\ \A m \in rescale'[n].evicting : p.clock[m] = "elapsed" /\ m \in FailedMembers(v)

StartsConverting(n, s, v, p, running) ==
  /\ TakesTheTurn(n, s, v)
  /\ rescale'[n].order \in Conversions(n, v)
  /\ ops'[n] = running \cup {NewOp("prepare", rescale'[n].order.target)}
  /\ rescale'[n].evicting = {}
  /\ p.imbalance = "elapsed" /\ rescale'[n].imbalance = "off"

\* What an evaluation does that n makes in state s, with the memberlist v, the
\* progress p and the operations running.
Evaluates(n, s, v, p, running) ==
  /\ OthersStay(n) /\ ClocksOnly(n, s, p)
  /\ \/ StaysIn(n, s, p, running)
     \/ StartsEvicting(n, s, v, p, running)
     \/ StartsConverting(n, s, v, p, running)

LEMMA TrackedClocks ==
  ASSUME NEW v, NEW r \in RescaleProgress
  PROVE  /\ Tracked(r, v).imbalance = r.imbalance
         /\ \A m \in Node : Tracked(r, v).clock[m] = "elapsed" => r.clock[m] = "elapsed"
BY DEF Tracked, RescaleProgress, Clock

LEMMA LeavesChanges ==
  ASSUME RescaleInv, NEW n \in Node, NEW s, NEW r, NEW running, Leaves(n, s, r, running)
  PROVE  OthersStay(n) /\ state'[n] = s /\ rescale'[n] = r /\ ops'[n] = running
BY DEF OthersStay, Leaves, RescaleInv, TypeOK, DaemonTypeOK

\* An evaluation that changes its progress only.
LEMMA LeavesStays ==
  ASSUME RescaleInv, NEW n \in Node, NEW s, NEW v, NEW p, NEW t, NEW running,
         Leaves(n, s, t, running),
         \A m \in Node : t.clock[m] = "elapsed" => p.clock[m] = "elapsed",
         t.imbalance = "elapsed" => p.imbalance = "elapsed",
         t.imbalance # "off" => p.imbalance # "off" \/ s = "stable_server",
         t.order = p.order \/ (s = "stable_server" /\ t.order = None),
         t.evicting \subseteq p.evicting
  PROVE  Evaluates(n, s, v, p, running)
<1>1. OthersStay(n) /\ state'[n] = s /\ rescale'[n] = t /\ ops'[n] = running
  BY LeavesChanges
<1> QED
  BY <1>1 DEF Evaluates, ClocksOnly, StaysIn

LEMMA ActAsCoordinatorEvaluates ==
  ASSUME RescaleInv, NEW n \in Node, NEW s, s = "stable_server", NEW v, DOMAIN v = Node,
         NEW r \in RescaleProgress, NEW running,
         IsRescaleCoordinator(v, n) /\ ~EtcdMembershipChanging(v),
         ActAsCoordinator(n, s, v, r, running)
  PROVE  Evaluates(n, s, v, r, running)
<1> DEFINE evict == [Reset(r) EXCEPT !.evicting = Evictable(r, v)]
           balanced == [r EXCEPT !.imbalance = "off", !.timer = FailedMembers(v) # {}]
           convert(order) == [Reset(r) EXCEPT !.imbalance = "off", !.order = order]
           later == [r EXCEPT !.imbalance = IF @ = "off" THEN "running" ELSE @, !.timer = TRUE]
<1>2. CASE Evictable(r, v) # {} /\ StartsRound(n, evict, "evict", None, running)
  <2>1. /\ evict.clock = r.clock /\ evict.imbalance = r.imbalance /\ evict.order = None
        /\ evict.evicting = Evictable(r, v)
    BY DEF Reset, RescaleProgress
  <2> HIDE DEF evict
  <2>2. Leaves(n, "rescale_coordinating", evict, running \cup {NewOp("evict", None)})
    BY <1>2 DEF StartsRound
  <2>3. /\ OthersStay(n) /\ state'[n] = "rescale_coordinating" /\ rescale'[n] = evict
        /\ ops'[n] = running \cup {NewOp("evict", None)}
    BY <2>2, LeavesChanges
  <2>4. \A m \in Evictable(r, v) : m \in Node /\ r.clock[m] = "elapsed" /\ m \in FailedMembers(v)
    BY DEF Evictable, FailedMembers
  <2>5. StartsEvicting(n, s, v, r, running)
    BY <1>2, <2>1, <2>3, <2>4 DEF StartsEvicting, TakesTheTurn
  <2>6. ClocksOnly(n, s, r)
    BY <2>1, <2>3 DEF ClocksOnly
  <2> QED
    BY <2>3, <2>5, <2>6 DEF Evaluates
<1>3. CASE Leaves(n, s, balanced, running)
  <2>1. /\ balanced.clock = r.clock /\ balanced.imbalance = "off" /\ balanced.order = r.order
        /\ balanced.evicting = r.evicting
    BY DEF RescaleProgress
  <2> HIDE DEF balanced
  <2> QED
    BY <1>3, <2>1, LeavesStays
<1>4. ASSUME NEW order \in IF r.imbalance = "elapsed" THEN Conversions(n, v) ELSE {},
             StartsRound(n, convert(order), "prepare", order.target, running)
      PROVE  Evaluates(n, s, v, r, running)
  <2>1. /\ convert(order).clock = r.clock /\ convert(order).imbalance = "off"
        /\ convert(order).order = order /\ convert(order).evicting = {}
    BY DEF Reset, RescaleProgress
  <2>2. r.imbalance = "elapsed" /\ order \in Conversions(n, v)
    BY <1>4
  <2> HIDE DEF convert
  <2>3. Leaves(n, "rescale_coordinating", convert(order), running \cup {NewOp("prepare", order.target)})
    BY <1>4 DEF StartsRound
  <2>4. /\ OthersStay(n) /\ state'[n] = "rescale_coordinating" /\ rescale'[n] = convert(order)
        /\ ops'[n] = running \cup {NewOp("prepare", order.target)}
    BY <2>3, LeavesChanges
  <2>5. StartsConverting(n, s, v, r, running)
    BY <2>1, <2>2, <2>4 DEF StartsConverting, TakesTheTurn
  <2>6. ClocksOnly(n, s, r)
    BY <2>1, <2>4 DEF ClocksOnly
  <2> QED
    BY <2>4, <2>5, <2>6 DEF Evaluates
<1>5. CASE Leaves(n, s, later, running)
  <2>1. /\ later.clock = r.clock /\ later.order = r.order /\ later.evicting = r.evicting
        /\ later.imbalance = "elapsed" => r.imbalance = "elapsed"
    BY DEF RescaleProgress
  <2> HIDE DEF later
  <2> QED
    BY <1>5, <2>1, LeavesStays
<1> QED
  BY <1>2, <1>3, <1>4, <1>5, ZenonT(30) DEF ActAsCoordinator

LEMMA MaybeRescaleEvaluates ==
  ASSUME RescaleInv, NEW n \in Node, NEW s, NEW seen, DOMAIN seen = Node,
         NEW p \in RescaleProgress, NEW running,
         MaybeRescale(n, s, seen, p, running)
  PROVE  Evaluates(n, s, [seen EXCEPT ![n] = AliveAs(s)], p, running)
<1> DEFINE v == [seen EXCEPT ![n] = AliveAs(s)]
           r == Tracked(p, v)
           idle == [r EXCEPT !.timer = FALSE]
<1> SUFFICES Evaluates(n, s, v, p, running)
  OBVIOUS
<1>1. /\ r \in RescaleProgress /\ r.order = p.order /\ r.evicting = p.evicting
      /\ r.imbalance = p.imbalance
      /\ \A m \in Node : r.clock[m] = "elapsed" => p.clock[m] = "elapsed"
  BY ClockTyped, TrackedClocks
<1>7. DOMAIN v = Node
  OBVIOUS
<1>2. \/ Leaves(n, s, r, running)
      \/ s = "stable_server" /\ Leaves(n, s, Forgotten(r), running)
      \/ Leaves(n, s, idle, running)
      \/ /\ s = "stable_server" /\ IsRescaleCoordinator(v, n) /\ ~EtcdMembershipChanging(v)
         /\ ActAsCoordinator(n, s, v, r, running)
  BY DEF MaybeRescale
<1> HIDE DEF v, r
<1>3. CASE Leaves(n, s, r, running)
  BY <1>1, <1>3, LeavesStays
<1>4. CASE s = "stable_server" /\ Leaves(n, s, Forgotten(r), running)
  <2> DEFINE t == Forgotten(r)
  <2>1. t.clock = r.clock /\ t.imbalance = "off" /\ t.order = None /\ t.evicting = {}
    BY <1>1 DEF Forgotten, Reset, RescaleProgress
  <2>2. Leaves(n, s, t, running)
    BY <1>4
  <2> HIDE DEF t
  <2> QED
    BY <1>1, <1>4, <2>1, <2>2, LeavesStays
<1>5. CASE Leaves(n, s, idle, running)
  <2>1. /\ idle.clock = r.clock /\ idle.imbalance = r.imbalance /\ idle.order = r.order
        /\ idle.evicting = r.evicting
    BY <1>1 DEF RescaleProgress
  <2> HIDE DEF idle
  <2> QED
    BY <1>1, <1>5, <2>1, LeavesStays
<1>6. CASE /\ s = "stable_server" /\ IsRescaleCoordinator(v, n) /\ ~EtcdMembershipChanging(v)
           /\ ActAsCoordinator(n, s, v, r, running)
  <2>1. Evaluates(n, s, v, r, running)
    BY <1>1, <1>6, <1>7, ActAsCoordinatorEvaluates
  <2> QED
    <3>1. ClocksOnly(n, s, p) /\ OthersStay(n)
      BY <1>1, <2>1 DEF Evaluates, ClocksOnly
    <3>2. CASE StaysIn(n, s, r, running)
      BY <1>1, <3>1, <3>2 DEF Evaluates, StaysIn
    <3>3. CASE StartsEvicting(n, s, v, r, running)
      <4>1. \A m \in rescale'[n].evicting : m \in Node
        BY <1>7, <3>3 DEF StartsEvicting, FailedMembers
      <4> QED
        BY <1>1, <3>1, <3>3, <4>1 DEF Evaluates, StartsEvicting
    <3>4. CASE StartsConverting(n, s, v, r, running)
      BY <1>1, <3>1, <3>4 DEF Evaluates, StartsConverting
    <3> QED
      BY <2>1, <3>2, <3>3, <3>4 DEF Evaluates
<1> HIDE DEF idle
<1> QED
  BY <1>2, <1>3, <1>4, <1>5, <1>6

\* The steps that leave what the first boot and the joining path keep.
NothingPending == UNCHANGED <<inbox, graceTimer, confirmed, requests, lookups, cleaning>>

\* n has nothing to await any more.
LEMMA RestsInOrder ==
  ASSUME AllOrderly, RescaleInv', NEW n \in Node, OthersKept(n), NothingComesBack,
         ops'[n] = {}, rescale'[n].order = None, unit'[n] = unit[n], cluster'[n] = cluster[n],
         file'[n] # "none", state'[n] \in ({"starting"} \cup InCluster) \ {"rejoin_cluster"},
         state'[n] \in Serving => unit[n] = "server",
         state'[n] = "stable_agent" => unit[n] = "agent"
  PROVE  AllOrderly'
<1>1. InOrder(n)
  BY DEF AllOrderly
<1>2. PastFirstBoot(n)'
  BY <1>1 DEF InOrder, PastFirstBoot, NothingComesBack
<1>3. RemembersItsOrder(n)'
  BY DEF RemembersItsOrder, NothingComesBack
<1>4. HoldsItsRole(n)'
  BY <1>1 DEF InOrder, HoldsItsRole
<1>5. WorksInOrder(n)'
  BY DEF WorksInOrder
<1> QED
  BY <1>2, <1>3, <1>4, <1>5, OthersInOrder DEF InOrder

\* n starts an operation of its state.
LEMMA StartsInOrder ==
  ASSUME AllOrderly, RescaleInv', NEW n \in Node, OthersKept(n), NothingComesBack,
         UNCHANGED <<diskVars, file>>,
         NEW op, ops'[n] = {op}, op.phase = "start",
         op.kind \in {"rejoin", "evict", "prepare", "promote", "demote"},
         state'[n] = StateOfOp(op.kind),
         op.kind = "rejoin" => file[n] \in Role,
         op.kind \in {"evict", "prepare"} => unit[n] = "server",
         rescale'[n].order # None =>
           \/ op.kind = "prepare" /\ rescale'[n].order.via = n
           \/ Converts(op) /\ rescale'[n].order.target = n,
         ObeysTheOrder(n, op)',
         Converts(op) => unit[n] = Other(NewRole(op))
  PROVE  AllOrderly'
<1>1. InOrder(n)
  BY DEF AllOrderly
<1>2. /\ state'[n] \in {"rejoin_cluster", "rescale_coordinating"} \cup Converting
      /\ state'[n] = "rejoin_cluster" => op.kind = "rejoin"
      /\ state'[n] = "rescale_coordinating" => op.kind \in {"evict", "prepare"}
      /\ state'[n] \in Converting => Converts(op)
  <2>1. CASE op.kind = "rejoin"
    BY <2>1 DEF StateOfOp, Converting
  <2>2. CASE op.kind \in {"evict", "prepare"}
    BY <2>2 DEF StateOfOp, Converting
  <2>3. CASE op.kind \in {"promote", "demote"}
    BY <2>3 DEF StateOfOp, Converting, Converts
  <2> QED
    BY <2>1, <2>2, <2>3
<1>3. PastFirstBoot(n)'
  BY <1>1, <1>2 DEF InOrder, PastFirstBoot, NothingComesBack, InCluster, Converting
<1>4. RemembersItsOrder(n)'
  <2>1. op.kind = "prepare" => state'[n] = "rescale_coordinating"
    BY DEF StateOfOp
  <2>2. Converts(op) => state'[n] \in Converting
    BY DEF StateOfOp, Converts, Converting
  <2> QED
    BY <2>1, <2>2 DEF RemembersItsOrder, NothingComesBack
<1>5. HoldsItsRole(n)'
  BY <1>1, <1>2 DEF InOrder, HoldsItsRole, diskVars, Serving, Converting
<1>6. KnowsTheDisk(n, op)'
  BY DEF KnowsTheDisk, diskVars
<1>7. WorksInOrder(n)'
  BY <1>6 DEF WorksInOrder
<1> QED
  BY <1>3, <1>4, <1>5, <1>7, OthersInOrder DEF InOrder

\* An evaluation leaves n in order, at the end of a round as between two.
LEMMA EvaluationInOrder ==
  ASSUME AllOrderly, RescaleInv', NEW n \in Node, NEW s, NEW v, DOMAIN v = Node, NEW p, NEW running,
         Evaluates(n, s, v, p, running),
         \/ s = state[n] /\ running = ops[n] /\ p.order = rescale[n].order
         \/ /\ s = "stable_server" /\ state[n] = "rescale_coordinating"
            /\ running = {} /\ p.order = None,
         NothingPending, UNCHANGED <<diskVars, file, orders>>
  PROVE  AllOrderly'
<1>1. InOrder(n)
  BY DEF AllOrderly
<1>2. OthersKept(n)
  BY DEF Evaluates, OthersStay, OthersKept, diskVars
<1>3. NothingComesBack
  BY PendingKept DEF NothingPending
<1>4. /\ s = "stable_server" => unit[n] = "server" /\ running = {} /\ file[n] # "none"
      /\ s = "stable_server" => p.order = None
  <2>1. s = "stable_server" => state[n] \in Serving /\ unit[n] = "server" /\ file[n] # "none"
    BY <1>1 DEF InOrder, HoldsItsRole, PastFirstBoot, Serving
  <2>2. state[n] = "stable_server" => ops[n] = {}
    BY OperationAlone DEF Converting
  <2>3. state[n] = "stable_server" => rescale[n].order = None
    BY <1>1 DEF InOrder, RemembersItsOrder, Converting
  <2> QED
    BY <2>1, <2>2, <2>3
<1>5. CASE StaysIn(n, s, p, running)
  <2>1. CASE s = "stable_server"
    <3>1. ops'[n] = {} /\ rescale'[n].order = None /\ state'[n] = "stable_server"
      BY <1>4, <1>5, <2>1 DEF StaysIn
    <3> QED
      BY <1>2, <1>3, <1>4, <2>1, <3>1, RestsInOrder DEF diskVars, InCluster
  <2>2. CASE s # "stable_server"
    <3>1. /\ state'[n] = state[n] /\ ops'[n] = ops[n] /\ rescale'[n].order = rescale[n].order
          /\ unit' = unit /\ cluster' = cluster /\ file' = file
      BY <1>5, <2>2 DEF StaysIn, diskVars
    <3>2. PastFirstBoot(n)' /\ HoldsItsRole(n)'
      BY <1>1, <1>3, <3>1 DEF InOrder, PastFirstBoot, HoldsItsRole, NothingComesBack
    <3>3. RemembersItsOrder(n)'
      BY <1>1, <1>3, <3>1 DEF InOrder, RemembersItsOrder, NothingComesBack
    <3>4. WorksInOrder(n)'
      BY <1>1, <3>1 DEF InOrder, WorksInOrder, ObeysTheOrder, KnowsTheDisk
    <3> QED
      BY <1>2, <1>3, <3>2, <3>3, <3>4, OthersInOrder DEF InOrder
  <2> QED
    BY <2>1, <2>2
<1>6. CASE StartsEvicting(n, s, v, p, running)
  <2> DEFINE op == NewOp("evict", None)
  <2>1. s = "stable_server" /\ state'[n] = "rescale_coordinating" /\ rescale'[n].order = None
    BY <1>6 DEF StartsEvicting, TakesTheTurn
  <2>2. ops'[n] = {op}
    BY <1>4, <1>6 DEF StartsEvicting, TakesTheTurn
  <2>3. op.kind = "evict" /\ op.phase = "start"
    BY DEF NewOp
  <2>4. ObeysTheOrder(n, op)' /\ state'[n] = StateOfOp(op.kind) /\ ~Converts(op)
    BY <2>1, <2>3 DEF ObeysTheOrder, StateOfOp, Converts
  <2> HIDE DEF op
  <2> QED
    BY <1>2, <1>3, <1>4, <2>1, <2>2, <2>3, <2>4, StartsInOrder
<1>7. CASE StartsConverting(n, s, v, p, running)
  <2> PICK order : order = rescale'[n].order
    OBVIOUS
  <2> PICK op : op = NewOp("prepare", order.target)
    OBVIOUS
  <2>1. s = "stable_server" /\ state'[n] = "rescale_coordinating" /\ order \in Conversions(n, v)
    BY <1>7 DEF StartsConverting, TakesTheTurn
  <2>2. ops'[n] = {op}
    BY <1>4, <1>7 DEF StartsConverting, TakesTheTurn
  <2>3. op.kind = "prepare" /\ op.phase = "start" /\ op.via = order.target
    BY DEF NewOp
  <2>4. order # None /\ order.via = n
    BY <2>1, ConversionsAreOrders, NoOrderAssumption DEF Conversions
  <2>5. state'[n] = StateOfOp(op.kind) /\ ~Converts(op)
    BY <2>1, <2>3 DEF StateOfOp, Converts
  <2>6. ObeysTheOrder(n, op)'
    BY <2>3, <2>4, <2>5 DEF ObeysTheOrder
  <2> QED
    BY <1>2, <1>3, <1>4, <2>1, <2>2, <2>3, <2>4, <2>5, <2>6, StartsInOrder
<1> QED
  BY <1>5, <1>6, <1>7 DEF Evaluates

\* n is in order with every step of its own, and so are the others.
LEMMA ResultsInOrder ==
  ASSUME AllOrderly, RescaleInv', NEW n \in Node, NEW op \in ops[n], EndsWith(n, op)
  PROVE  AllOrderly'
<1>1. /\ ops[n] = {op} /\ InOrder(n) /\ op \in Op
      /\ op.kind \in {"rejoin", "evict", "prepare", "promote", "demote"}
      /\ state[n] = StateOfOp(op.kind)
      /\ ObeysTheOrder(n, op) /\ KnowsTheDisk(n, op)
  BY OperationAlone DEF AllOrderly, InOrder, WorksInOrder
<1>2. /\ state \in [Node -> State] /\ ops \in [Node -> SUBSET Op] /\ file \in [Node -> StateFile]
      /\ view \in [Node -> [Node -> Member]] /\ unit \in [Node -> InstalledUnit]
      /\ rescale \in [Node -> RescaleProgress] /\ cleaning \in [Node -> Node \cup {None}]
  BY DEF AllOrderly, RescaleInv, TypeOK, DaemonTypeOK, JoinTypeOK
<1>3. /\ ops[n] \ {op} = {}
      /\ file[n] # "none" /\ cleaning[n] = None
      /\ state[n] \in Serving => unit[n] = "server"
      /\ unit[n] # "none" => cluster[n] # None
  BY <1>1 DEF InOrder, PastFirstBoot, HoldsItsRole
<1>4. CASE RejoinStep(n, op) /\ UNCHANGED <<bootstrapVars, joinVars, rescaleVars>>
  <2>1. /\ state[n] = "rejoin_cluster" /\ op.kind = "rejoin" /\ file[n] \in Role
        /\ rescale[n].order = None
    <3>1. state[n] = "rejoin_cluster"
      BY <1>4 DEF RejoinStep, OnRejoinReady, FailRejoin
    <3>2. op.kind = "rejoin"
      BY <1>1, <3>1 DEF StateOfOp
    <3> QED
      BY <1>1, <3>1, <3>2 DEF InOrder, HoldsItsRole, RemembersItsOrder, Converting
  <2>2. OthersKept(n) /\ NothingComesBack
    <3>1. NothingComesBack
      BY <1>4, PendingKept DEF RejoinStep, OnRejoinReady, FailRejoin, bootstrapVars, joinVars,
            joinerVars, coordinatorVars, rescaleVars, BecomeStable
    <3> QED
      BY <1>2, <1>4, <3>1 DEF OthersKept, RejoinStep, OnRejoinReady, FailRejoin, BecomeStable,
            Save, Transition, Without, diskVars, rescaleVars
  <2>3. ops'[n] = {} /\ rescale' = rescale /\ unit' = unit /\ cluster' = cluster
    BY <1>2, <1>3, <1>4 DEF RejoinStep, OnRejoinReady, FailRejoin, Without, diskVars, rescaleVars
  <2>4. CASE OnRejoinReady(n, op)
    <3>1. state'[n] = StableState(file[n]) /\ file'[n] = file[n]
      BY <1>2, <2>4 DEF OnRejoinReady, BecomeStable, Save, Transition
    <3>2. unit[n] = file[n]
      BY <1>1, <2>1, <2>4 DEF OnRejoinReady, KnowsTheDisk
    <3>3. /\ state'[n] \in ({"starting"} \cup InCluster) \ {"rejoin_cluster"}
          /\ state'[n] \in Serving => unit[n] = "server"
          /\ state'[n] = "stable_agent" => unit[n] = "agent"
      BY <2>1, <3>1, <3>2 DEF StableState, InCluster, Serving, Role
    <3> QED
      BY <1>3, <2>1, <2>2, <2>3, <3>1, <3>3, RestsInOrder
  <2>5. CASE FailRejoin(n, op)
    <3>1. state'[n] = "rejoin_failed" /\ file' = file
      BY <1>2, <2>5 DEF FailRejoin, Transition
    <3> QED
      BY <1>3, <2>1, <2>2, <2>3, <3>1, RestsInOrder DEF InCluster, Serving
  <2> QED
    BY <1>4, <2>4, <2>5 DEF RejoinStep
<1>5. CASE FinishEviction(n, op)
  <2>1. state[n] = "rescale_coordinating" /\ rescale[n].order = None
    BY <1>5 DEF FinishEviction, RoundEnds
  <2> DEFINE p == [rescale[n] EXCEPT !.evicting = {}]
             v == [view'[n] EXCEPT ![n] = AliveAs("stable_server")]
  <2>2. p \in RescaleProgress /\ p.order = None
    <3>1. rescale[n] \in RescaleProgress
      BY <1>2
    <3>2. p \in RescaleProgress /\ p.order = rescale[n].order
      BY <3>1 DEF RescaleProgress
    <3> QED
      BY <2>1, <3>2
  <2>3. DOMAIN view'[n] = Node
    BY DEF RescaleInv, TypeOK, DaemonTypeOK
  <2>4. MaybeRescale(n, "stable_server", view'[n], p, {})
    BY <1>3, <1>5 DEF FinishEviction
  <2> HIDE DEF p
  <2>5. Evaluates(n, "stable_server", v, p, {}) /\ DOMAIN v = Node
    BY <2>2, <2>3, <2>4, MaybeRescaleEvaluates DEF AllOrderly
  <2>6. NothingPending /\ UNCHANGED <<diskVars, file, orders>>
    BY <1>5 DEF FinishEviction, RoundFrame, NothingPending, bootstrapVars
  <2> HIDE DEF v
  <2> QED
    BY <2>1, <2>2, <2>5, <2>6, EvaluationInOrder
<1>6. CASE FinishConversion(n, op)
  <2>1. PICK r : /\ Leaves(n, "stable_server", r, {}) /\ r.order = None
    <3>1. /\ [rescale[n] EXCEPT !.order = None, !.timer = TRUE].order = None
          /\ Abandoned(rescale[n]).order = None
      BY <1>2 DEF Abandoned, RescaleProgress
    <3> QED
      BY <1>3, <1>6, <3>1 DEF FinishConversion
  <2>2. /\ OthersStay(n) /\ state'[n] = "stable_server" /\ rescale'[n] = r /\ ops'[n] = {}
    BY <2>1, LeavesChanges DEF AllOrderly
  <2>3. NothingComesBack
    <3>1. \A m \in Node : \A order \in orders'[m] : order \in orders[m] \/ order.target = m
      <4>1. orders \in [Node -> SUBSET Order]
        BY DEF AllOrderly, RescaleInv
      <4> QED
        BY <1>6, <4>1 DEF FinishConversion
    <3> QED
      BY <1>6, <3>1, PendingKept DEF FinishConversion, RoundFrame, bootstrapVars
  <2>4. state[n] \in Serving /\ UNCHANGED <<diskVars, file>>
    BY <1>6 DEF FinishConversion, RoundEnds, RoundFrame, Serving
  <2>5. OthersKept(n)
    BY <2>2, <2>4 DEF OthersStay, OthersKept, diskVars
  <2> QED
    BY <1>3, <2>1, <2>2, <2>3, <2>4, <2>5, RestsInOrder DEF InCluster, diskVars
<1>7. CASE AbandonRound(n, op)
  <2>1. Leaves(n, "stable_server", Abandoned(rescale[n]), {})
    BY <1>3, <1>7 DEF AbandonRound
  <2>2. /\ OthersStay(n) /\ state'[n] = "stable_server" /\ ops'[n] = {}
        /\ rescale'[n] = Abandoned(rescale[n])
    BY <2>1, LeavesChanges DEF AllOrderly
  <2>3. rescale'[n].order = None
    BY <1>2, <2>2 DEF Abandoned, RescaleProgress
  <2>4. state[n] \in Serving /\ UNCHANGED <<diskVars, file>> /\ UNCHANGED cleaning
    BY <1>2, <1>3, <1>7 DEF AbandonRound, RoundFrame, Serving
  <2>5. NothingComesBack
    BY <1>7, <2>4, PendingKept DEF AbandonRound, RoundFrame, bootstrapVars
  <2>6. OthersKept(n)
    BY <2>2, <2>4 DEF OthersStay, OthersKept, diskVars
  <2> QED
    BY <1>3, <2>2, <2>3, <2>4, <2>5, <2>6, RestsInOrder DEF InCluster, diskVars
<1>8. CASE OnRescaleConverted(n, op) \/ FailRescale(n, op)
  <2>1. Converts(op)
    BY <1>1, <1>8 DEF OnRescaleConverted, FailRescale, StateOfOp, Converts
  <2>2. /\ rescale'[n].order = None /\ ops'[n] = {} /\ UNCHANGED diskVars
        /\ UNCHANGED <<inbox, bootstrapVars, joinVars, orders>>
        /\ \A m \in Node \ {n} : rescale'[m] = rescale[m] /\ ops'[m] = ops[m]
    BY <1>2, <1>3, <1>8 DEF OnRescaleConverted, FailRescale, Without, Unmoved, diskVars, RescaleProgress
  <2>3. NothingComesBack
    BY <2>2, PendingKept DEF bootstrapVars, joinVars, joinerVars, coordinatorVars
  <2>4. CASE OnRescaleConverted(n, op)
    <3> DEFINE role == rescale[n].order.role
    <3>1. op.phase = "ok" /\ BecomeStable(n, role)
      BY <2>4 DEF OnRescaleConverted
    <3>2. role \in Role /\ op.kind = ConversionKind(role)
      BY <1>1, <1>2, <2>1 DEF ObeysTheOrder, RescaleProgress, Order
    <3>3. unit[n] = role
      BY <1>1, <2>1, <3>1, <3>2 DEF KnowsTheDisk, NewRole, ConversionKind, Role
    <3> HIDE DEF role
    <3>4. /\ state'[n] = StableState(role) /\ file'[n] \in {role, file[n]}
          /\ \A m \in Node \ {n} : state'[m] = state[m] /\ file'[m] = file[m]
      BY <1>2, <3>1 DEF BecomeStable, Save, Transition
    <3>5. OthersKept(n)
      BY <2>2, <3>4 DEF OthersKept, diskVars
    <3>6. /\ state'[n] \in ({"starting"} \cup InCluster) \ {"rejoin_cluster"}
          /\ state'[n] \in Serving => unit[n] = "server"
          /\ state'[n] = "stable_agent" => unit[n] = "agent"
          /\ file'[n] # "none"
      BY <1>3, <3>2, <3>3, <3>4 DEF StableState, InCluster, Serving, Role
    <3> QED
      BY <2>2, <2>3, <3>5, <3>6, RestsInOrder DEF diskVars
  <2>5. CASE FailRescale(n, op)
    <3>1. /\ state'[n] = "rescale_failed" /\ file' = file
          /\ \A m \in Node \ {n} : state'[m] = state[m]
      BY <1>2, <2>5 DEF FailRescale, Transition
    <3>2. OthersKept(n)
      BY <2>2, <3>1 DEF OthersKept, diskVars
    <3> QED
      BY <1>3, <2>2, <2>3, <3>1, <3>2, RestsInOrder DEF diskVars, InCluster, Serving
  <2> QED
    BY <1>8, <2>4, <2>5
<1> QED
  BY <1>4, <1>5, <1>6, <1>7, <1>8 DEF EndsWith

\* An order that arrives is obeyed by a machine of the role it expects.
LEMMA OrderInOrder ==
  ASSUME AllOrderly, RescaleInv', NEW n \in Node, NEW order \in orders[n],
         OnRescaleConvert(n, order)
  PROVE  AllOrderly'
<1>1. InOrder(n) /\ order.target = n
  BY DEF AllOrderly, InOrder, RemembersItsOrder
<1>2. /\ state \in [Node -> State] /\ ops \in [Node -> SUBSET Op]
      /\ rescale \in [Node -> RescaleProgress] /\ orders \in [Node -> SUBSET Order]
      /\ order \in Order
  BY DEF AllOrderly, RescaleInv, TypeOK, DaemonTypeOK
<1>3. UNCHANGED <<diskVars, file>> /\ NothingComesBack
  <2>1. \A m \in Node : orders'[m] \subseteq orders[m]
    BY <1>2 DEF OnRescaleConvert
  <2> QED
    BY <2>1, PendingKept
       DEF OnRescaleConvert, Unmoved, bootstrapVars, joinVars, joinerVars, coordinatorVars
<1>4. CASE /\ MayConvert(state[n], order.role)
           /\ rescale' = [rescale EXCEPT ![n].order = order]
           /\ StartOperation(n, ConversionKind(order.role), order.via, ConversionState(order.role))
  <2> DEFINE op == NewOp(ConversionKind(order.role), order.via)
  <2>1. order.role \in Role /\ order # None
    BY <1>2, NoOrderAssumption DEF Order
  <2>2. state[n] = StableState(Other(order.role)) /\ unit[n] = Other(order.role)
    BY <1>1, <1>4, <2>1
       DEF MayConvert, InOrder, HoldsItsRole, StableState, Other, Role, Serving
  <2>3. ops[n] = {}
    BY <2>2, OperationAlone DEF StableState, Converting
  <2>4. /\ ops'[n] = {op} /\ state'[n] = ConversionState(order.role)
        /\ rescale'[n].order = order
        /\ \A m \in Node \ {n} : state'[m] = state[m] /\ ops'[m] = ops[m] /\ rescale'[m] = rescale[m]
    BY <1>2, <1>4, <2>3 DEF StartOperation, Starting, Transition, RescaleProgress
  <2>5. /\ op.phase = "start" /\ op.kind = ConversionKind(order.role)
        /\ op.kind \in {"promote", "demote"} /\ Converts(op) /\ NewRole(op) = order.role
        /\ state'[n] = StateOfOp(op.kind)
    BY <2>1, <2>4 DEF NewOp, ConversionKind, Converts, NewRole, Role, StateOfOp, ConversionState
  <2>6. ObeysTheOrder(n, op)'
    BY <2>1, <2>4, <2>5 DEF ObeysTheOrder
  <2>7. OthersKept(n)
    BY <1>3, <2>4 DEF OthersKept, diskVars
  <2> HIDE DEF op
  <2> QED
    BY <1>1, <1>3, <2>1, <2>2, <2>4, <2>5, <2>6, <2>7, StartsInOrder
<1>5. CASE UNCHANGED <<state, ops, rescale>>
  <2>1. OthersKept(n)
    BY <1>3, <1>5 DEF OthersKept, diskVars
  <2>2. InOrder(n)'
    BY <1>1, <1>3, <1>5 DEF InOrder, PastFirstBoot, HoldsItsRole, RemembersItsOrder, WorksInOrder,
          ObeysTheOrder, KnowsTheDisk, NothingComesBack, diskVars
  <2> QED
    BY <1>3, <2>1, <2>2, OthersInOrder
<1> QED
  BY <1>4, <1>5 DEF OnRescaleConvert

\* A machine and what it holds stay as they are, but for its orders and clocks.
LEMMA KeptInOrder ==
  ASSUME AllOrderly, RescaleInv', UNCHANGED <<diskVars, file, state, ops>>, NothingComesBack,
         \A m \in Node : rescale'[m].order = rescale[m].order
  PROVE  AllOrderly'
<1> SUFFICES ASSUME NEW m \in Node PROVE InOrder(m)'
  BY DEF AllOrderly
<1>1. InOrder(m)
  BY DEF AllOrderly
<1>2. PastFirstBoot(m)' /\ HoldsItsRole(m)'
  BY <1>1 DEF InOrder, PastFirstBoot, HoldsItsRole, NothingComesBack, diskVars
<1>3. RemembersItsOrder(m)'
  BY <1>1 DEF InOrder, RemembersItsOrder, NothingComesBack
<1>4. WorksInOrder(m)'
  BY <1>1 DEF InOrder, WorksInOrder, ObeysTheOrder, KnowsTheDisk, diskVars
<1> QED
  BY <1>2, <1>3, <1>4 DEF InOrder

LEMMA TimeInOrder ==
  ASSUME AllOrderly, RescaleInv', NEW n \in Node, TimeStep(n)
  PROVE  AllOrderly'
<1>1. UNCHANGED <<allVars, orders>>
  BY DEF TimeStep, SettleEnds, HoldEnds, GraceEnds, Advance
<1>2. \A m \in Node : rescale'[m].order = rescale[m].order
  <2>1. rescale \in [Node -> RescaleProgress]
    BY DEF AllOrderly, RescaleInv
  <2>2. PICK r : rescale' = [rescale EXCEPT ![n] = r] /\ r.order = rescale[n].order
    BY <2>1 DEF TimeStep, SettleEnds, HoldEnds, GraceEnds, Advance, RescaleProgress
  <2> QED
    BY <2>1, <2>2
<1>3. NothingComesBack
  BY <1>1, PendingKept DEF allVars, vars, daemonVars, bootstrapVars, joinVars, joinerVars, coordinatorVars
<1>4. UNCHANGED <<diskVars, file, state, ops>>
  BY <1>1 DEF allVars, vars, daemonVars, diskVars
<1> QED
  BY <1>2, <1>3, <1>4, KeptInOrder

\* Orders and events that are lost, agents that register again.
LEMMA LossInOrder ==
  ASSUME AllOrderly, RescaleInv', NEW n \in Node,
         \/ \E order \in orders[n] : LoseOrder(n, order)
         \/ RestartK3s(n) /\ UNCHANGED rescaleVars
         \/ DropEvent(n)
  PROVE  AllOrderly'
<1>1. UNCHANGED <<diskVars, file, state, ops, rescale>>
  BY DEF LoseOrder, RestartK3s, DropEvent, vars, daemonVars, diskVars, rescaleVars
<1>2. NothingComesBack
  <2>1. orders \in [Node -> SUBSET Order]
    BY DEF AllOrderly, RescaleInv
  <2>2. \A m \in Node : orders'[m] \subseteq orders[m]
    BY <2>1 DEF LoseOrder, RestartK3s, DropEvent, rescaleVars
  <2>3. UNCHANGED <<inbox, graceTimer, confirmed, requests, lookups, cleaning>>
    BY DEF LoseOrder, RestartK3s, DropEvent, vars, daemonVars, bootstrapVars, joinVars, joinerVars,
           coordinatorVars
  <2> QED
    BY <2>2, <2>3, PendingKept
<1> QED
  BY <1>1, <1>2, KeptInOrder

\* A machine that stops forgets what it did.
LEMMA StopInOrder ==
  ASSUME AllOrderly, RescaleInv', NEW n \in Node, StopAndForgetAll(n)
  PROVE  AllOrderly'
<1>1. InOrder(n)
  BY DEF AllOrderly
<1>2. /\ state \in [Node -> State] /\ ops \in [Node -> SUBSET Op] /\ file \in [Node -> StateFile]
      /\ inbox \in [Node -> SUBSET EventName] /\ orders \in [Node -> SUBSET Order]
      /\ rescale \in [Node -> RescaleProgress]
      /\ graceTimer \in [Node -> {"off", "armed", "expired"}]
      /\ requests \in [Node -> SUBSET Node] /\ lookups \in [Node -> SUBSET Lookup]
      /\ cleaning \in [Node -> Node \cup {None}]
  BY DEF AllOrderly, RescaleInv, TypeOK, DaemonTypeOK, JoinTypeOK, BootstrapTypeOK
<1>3. CrashAndForget(n) /\ Crash(n)
  BY DEF StopAndForgetAll, CrashAndForgetAll, CrashAndForget
<1>4. /\ state' = [state EXCEPT ![n] = "starting"] /\ ops' = [ops EXCEPT ![n] = {}]
      /\ inbox' = [inbox EXCEPT ![n] = {}] /\ UNCHANGED diskVars
      /\ file'[n] \in {file[n], "unusable"}
      /\ \A m \in Node \ {n} : file'[m] = file[m]
  BY <1>2, <1>3 DEF Crash
<1>5. /\ rescale'[n].order = None
      /\ \A m \in Node \ {n} : rescale'[m] = rescale[m]
  BY <1>2 DEF StopAndForgetAll, NotRescaling
<1>6. OthersKept(n)
  BY <1>2, <1>4, <1>5 DEF OthersKept, diskVars
<1>7. NothingComesBack
  <2>1. \A m \in Node : InOrder(m)
    BY DEF AllOrderly
  <2>2. \A m \in Node : \A order \in orders'[m] : order.target = m
    BY <1>2, <2>1 DEF StopAndForgetAll, InOrder, RemembersItsOrder
  <2>3. \A m \in Node : inbox'[m] = {} /\ graceTimer'[m] = "off" /\ m \notin confirmed'
    BY <1>2, <1>3, <1>4, <2>1 DEF StopAndForgetAll, CrashAndForgetAll, CrashAndForget, InOrder, PastFirstBoot
  <2>4. \A m \in Node : requests'[m] = {} /\ lookups'[m] = {} /\ cleaning'[m] = None
    BY <1>2, <2>1 DEF StopAndForgetAll, CrashAndForgetAll, InOrder, PastFirstBoot
  <2> QED
    BY <2>2, <2>3, <2>4 DEF NothingComesBack
<1>8. file'[n] # "none" /\ state'[n] = "starting" /\ ops'[n] = {}
  BY <1>1, <1>2, <1>4 DEF InOrder, PastFirstBoot
<1> QED
  BY <1>4, <1>5, <1>6, <1>7, <1>8, RestsInOrder DEF diskVars, Serving

LEMMA EvaluationsInOrder ==
  ASSUME AllOrderly, RescaleInv', NEW n \in Node, OnRescaleCheck(n) \/ OnMembershipEvent(n)
  PROVE  AllOrderly'
<1>1. PICK p \in RescaleProgress :
        /\ MaybeRescale(n, state[n], view[n], p, ops[n])
        /\ p.order = rescale[n].order
  <2>1. rescale[n] \in RescaleProgress /\ [rescale[n] EXCEPT !.timer = FALSE] \in RescaleProgress
    <3>1. rescale[n] \in RescaleProgress
      BY DEF AllOrderly, RescaleInv
    <3> QED
      BY <3>1 DEF RescaleProgress
  <2>2. [rescale[n] EXCEPT !.timer = FALSE].order = rescale[n].order
    BY <2>1 DEF RescaleProgress
  <2> QED
    BY <2>1, <2>2 DEF OnRescaleCheck, OnMembershipEvent
<1> DEFINE v == [view[n] EXCEPT ![n] = AliveAs(state[n])]
<1>2. DOMAIN view[n] = Node
  BY DEF AllOrderly, RescaleInv, TypeOK, DaemonTypeOK
<1>3. Evaluates(n, state[n], v, p, ops[n]) /\ DOMAIN v = Node
  BY <1>1, <1>2, MaybeRescaleEvaluates DEF AllOrderly
<1>4. NothingPending /\ UNCHANGED <<diskVars, file, orders>>
  BY DEF OnRescaleCheck, OnMembershipEvent, Unmoved, NothingPending, bootstrapVars, joinVars,
         joinerVars, coordinatorVars
<1> HIDE DEF v
<1> QED
  BY <1>1, <1>3, <1>4, EvaluationInOrder

\* The network, and the machines that start again.
LEMMA SurroundingsInOrder ==
  ASSUME AllOrderly, RescaleInv', Surroundings, UNCHANGED rescaleVars
  PROVE  AllOrderly'
<1>1. UNCHANGED <<bootstrapVars, joinVars, rescaleVars>> /\ Environment
  BY DEF Surroundings
<1>2. \A n \in Node : inbox[n] = {}
  BY DEF AllOrderly, InOrder, PastFirstBoot
<1>3. inbox' = inbox
  BY <1>1, <1>2 DEF Environment, Learn, DetectFailure, Suspect, Lose, PowerOn, ChooseInitialState
<1>4. NothingComesBack
  BY <1>1, <1>3, PendingKept DEF bootstrapVars, joinVars, joinerVars, coordinatorVars, rescaleVars
<1>5. ASSUME NEW n \in Node, ChooseInitialState(n) PROVE AllOrderly'
  <2>1. /\ state \in [Node -> State] /\ ops \in [Node -> SUBSET Op] /\ InOrder(n)
        /\ file[n] \in StateFile
    BY DEF AllOrderly, RescaleInv, TypeOK, DaemonTypeOK
  <2>2. /\ state[n] = "starting" /\ file[n] # "none" /\ rescale' = rescale
        /\ UNCHANGED <<diskVars, file>>
    BY <1>1, <1>5, <2>1 DEF ChooseInitialState, InOrder, PastFirstBoot, rescaleVars
  <2>3. ops[n] = {} /\ rescale[n].order = None
    BY <2>1, <2>2, OperationAlone DEF InOrder, RemembersItsOrder, Converting
  <2>4. CASE file[n] = "unusable"
    <3>1. /\ state' = [state EXCEPT ![n] = "rejoin_failed"] /\ ops' = ops
      BY <1>5, <2>4 DEF ChooseInitialState, Transition, Role
    <3>2. OthersKept(n)
      BY <2>1, <2>2, <3>1 DEF OthersKept, diskVars
    <3> QED
      BY <1>4, <2>1, <2>2, <2>3, <3>1, <3>2, RestsInOrder DEF diskVars, InCluster, Serving
  <2>5. CASE file[n] \in Role
    <3> DEFINE op == NewOp("rejoin", None)
    <3>1. state' = [state EXCEPT ![n] = "rejoin_cluster"] /\ ops' = Starting(n, op)
      BY <1>5, <2>5 DEF ChooseInitialState, Transition, Role
    <3>2. OthersKept(n) /\ ops'[n] = {op} /\ state'[n] = "rejoin_cluster"
      BY <2>1, <2>2, <2>3, <3>1 DEF OthersKept, diskVars, Starting
    <3>3. op.kind = "rejoin" /\ op.phase = "start" /\ ~Converts(op) /\ StateOfOp(op.kind) = "rejoin_cluster"
      BY DEF NewOp, Converts, StateOfOp
    <3>4. ObeysTheOrder(n, op)'
      BY <3>3 DEF ObeysTheOrder, Converts
    <3> HIDE DEF op
    <3> QED
      BY <1>4, <2>2, <2>3, <2>5, <3>2, <3>3, <3>4, StartsInOrder
  <2> QED
    BY <2>1, <2>2, <2>4, <2>5 DEF StateFile
<1>6. CASE UNCHANGED <<diskVars, file, state, ops>>
  BY <1>1, <1>4, <1>6, KeptInOrder DEF rescaleVars
<1> QED
  BY <1>1, <1>5, <1>6 DEF Environment, Learn, DetectFailure, Suspect, Lose, PowerOn

LEMMA SettledInOrder ==
  ASSUME AllOrderly, RescaleInv', NEW n \in Node, SettledStep(n)
  PROVE  AllOrderly'
<1>1. ASSUME NEW op \in ops[n], WorksOn(n, op) PROVE AllOrderly'
  BY <1>1, RoundWorkInOrder, ConversionWorkInOrder DEF WorksOn
<1> QED
  BY <1>1, TimeInOrder, ResultsInOrder, OrderInOrder, LossInOrder, StopInOrder, EvaluationsInOrder
     DEF SettledStep

LEMMA NextInOrder ==
  AllOrderly /\ [RescaleNext]_everyVar => AllOrderly'
<1> SUFFICES ASSUME AllOrderly, [RescaleNext]_everyVar PROVE AllOrderly'
  OBVIOUS
<1>1. RescaleInv'
  BY RescaleNextKeeps DEF AllOrderly
<1>2. CASE Surroundings /\ UNCHANGED rescaleVars
  BY <1>1, <1>2, SurroundingsInOrder
<1>3. ASSUME NEW n \in Node,
             \/ TimeStep(n) \/ WorkStep(n) \/ ResultOfWork(n) \/ EventStep(n) \/ FaultStep(n)
             \/ OnRescaleCheck(n) \/ OnMembershipEvent(n) \/ DropEvent(n)
      PROVE  AllOrderly'
  BY <1>1, <1>3, OnlySettledSteps, SettledInOrder
<1>4. ASSUME NEW n \in Node, NEW m \in Node, Prune(n, m) PROVE AllOrderly'
  <2>1. /\ UNCHANGED <<diskVars, file, state, ops, rescale, orders>>
        /\ UNCHANGED <<inbox, graceTimer, confirmed, requests, lookups, cleaning>>
    BY <1>4 DEF Prune, bootstrapVars, joinVars, joinerVars, coordinatorVars, rescaleVars
  <2>2. NothingComesBack
    BY <2>1, PendingKept
  <2> QED
    BY <1>1, <2>1, <2>2, KeptInOrder
<1>5. CASE UNCHANGED everyVar
  <2>1. /\ UNCHANGED <<diskVars, file, state, ops, rescale, orders>>
        /\ UNCHANGED <<inbox, graceTimer, confirmed, requests, lookups, cleaning>>
    BY <1>5 DEF everyVar, allVars, vars, daemonVars, diskVars, bootstrapVars, joinVars, joinerVars,
                coordinatorVars, rescaleVars
  <2>2. NothingComesBack
    BY <2>1, PendingKept
  <2> QED
    BY <1>1, <2>1, <2>2, KeptInOrder
<1> QED
  BY <1>2, <1>3, <1>4, <1>5, NobodyPressesButtons DEF RescaleNext

LEMMA InitInOrder ==
  ASSUME RescaleInit, SettledNetwork
  PROVE  AllOrderly
<1>1. RescaleInv
  BY RescaleInitKeeps
<1> SUFFICES ASSUME NEW n \in Node PROVE InOrder(n)
  BY <1>1 DEF AllOrderly
<1>2. Established \cap Agents = {} /\ n \in Established \cup Agents
  BY RescaleAssumption DEF SettledNetwork, Settled
<1>3. /\ ops[n] = {} /\ rescale[n].order = None /\ orders[n] = {} /\ cluster[n] = Min(Established)
  BY <1>2 DEF RescaleInit, NotRescaling, SettledNetwork
<1>4. Min(Established) # None
  BY MinIsLowest, DaemonAssumption, RescaleAssumption
<1>5. CASE n \in Established
  <2>1. unit[n] = "server" /\ file[n] = "server" /\ state[n] \in {"starting", "stable_server"}
    BY <1>5 DEF RescaleInit, Settled, StableState
  <2> QED
    BY <1>3, <1>4, <2>1 DEF InOrder, PastFirstBoot, RemembersItsOrder, HoldsItsRole, WorksInOrder,
          RescaleInit, InCluster, Serving
<1>6. CASE n \in Agents
  <2>1. unit[n] = "agent" /\ file[n] = "agent" /\ state[n] \in {"starting", "stable_agent"}
    BY <1>2, <1>6 DEF RescaleInit, Settled, StableState
  <2> QED
    BY <1>3, <1>4, <2>1 DEF InOrder, PastFirstBoot, RemembersItsOrder, HoldsItsRole, WorksInOrder,
          RescaleInit, InCluster, Serving
<1> QED
  BY <1>2, <1>5, <1>6

\* In a cluster that runs already, whatever machines stop, whatever orders,
\* events and calls are lost or fail: a K3s operation in flight is the only one
\* of its machine and belongs to the workflow the machine is in.
THEOREM ResultsReachRunningClusters ==
  ASSUME SettledNetwork
  PROVE  RescaleSpec => []ResultsReachJoiningToo
<1>1. RescaleInit => AllOrderly
  BY InitInOrder
<1>2. AllOrderly /\ [RescaleNext]_everyVar => AllOrderly'
  BY NextInOrder
<1>3. AllOrderly => ResultsReachJoiningToo
  BY DEF AllOrderly, InOrder, WorksInOrder, ResultsReachJoiningToo, WorkflowsOf
<1> QED
  BY <1>1, <1>2, <1>3, PTL DEF RescaleSpec

\* In a cluster that runs already, the machines that advertise a stable role run
\* K3s in that role, on the data of a cluster, whatever conversions, rejoins and
\* crashes were interrupted on the way.
THEOREM StableIsInstalledInRunningClusters ==
  ASSUME SettledNetwork
  PROVE  RescaleSpec => []StableIsInstalled
<1>1. RescaleInit => AllOrderly
  BY InitInOrder
<1>2. AllOrderly /\ [RescaleNext]_everyVar => AllOrderly'
  BY NextInOrder
<1>3. AllOrderly => StableIsInstalled
  <2> SUFFICES ASSUME AllOrderly, NEW n \in Node, NEW role \in Role, state[n] = StableState(role)
               PROVE  unit[n] = role /\ cluster[n] # None
    BY DEF StableIsInstalled
  <2>1. HoldsItsRole(n)
    BY DEF AllOrderly, InOrder
  <2> QED
    BY <2>1 DEF HoldsItsRole, StableState, Role, Serving
<1> QED
  BY <1>1, <1>2, <1>3, PTL DEF RescaleSpec

----------------------------------------------------------------------------
(* One conversion at a time, while no machine stops or is suspected *)

\* Orders and tags arrive within the settle delay, and the machines that are
\* away stay away.  Everything else may fail.
NothingStops ==
  /\ SettledNetwork /\ DelaysSuffice /\ Returning = {}
  /\ "crash" \notin Faults /\ "suspect" \notin Faults

\* The same machines run, and see each other.
StillRunning ==
  /\ up = Node \ Absentees /\ Absentees \subseteq gone
  /\ \A n, m \in up : n # m => view[n][m].status = "alive"
  /\ \A n \in Node : IF n \in up
                     THEN state[n] \in {"stable_agent", "rescale_failed"} \cup Serving \cup Converting
                     ELSE state[n] = "starting" /\ orders[n] = {}

\* No machine that runs is taken for one that failed for good.
NoneCondemned ==
  \A n, m \in up : rescale[n].clock[m] # "elapsed" /\ m \notin rescale[n].evicting

Due(n) == rescale[n].imbalance = "elapsed"

\* n sees a server that would decide in its place.
Led(n) == \E d \in up : d < n /\ state[d] \in Serving /\ view[n][d].state \in Serving

\* Whoever noted an imbalance is a server, or comes after one ...
KnowsItsPlace(n) ==
  rescale[n].imbalance # "off" =>
    state[n] \in Serving \/ \E d \in up : d < n /\ state[d] \in Serving

\* ... and whoever may act on it is a server that all the others who could see
\* before them; the servers before it are still converting in its eyes.
LeadsTheOthers(n) ==
  Due(n) /\ ~Led(n) =>
    /\ state[n] \in Serving
    /\ \A d \in up : d < n /\ state[d] \in Serving => view[n][d].state \in Converting
    /\ \A k \in up \ {n} : Due(k) => n < k /\ view[k][n].state \in Serving

Ranked == \A n \in up : KnowsItsPlace(n) /\ LeadsTheOthers(n)

\* An order goes from the round of its coordinator to its target, and is obeyed.
Preparing(c) == state[c] = "rescale_coordinating" /\ rescale[c].order # None

InRound(order) == Preparing(order.via) /\ rescale[order.via].order = order
Sent(order) == order \in orders[order.target]
Obeyed(order) == state[order.target] \in Converting /\ rescale[order.target].order = order

NoOrderGiven ==
  \A n \in Node : ~Preparing(n) /\ orders[n] = {} /\ state[n] \notin Converting

\* While an order is under way, whoever could give another one sees why not.
Guarded(order) ==
  LET c == order.via
      m == order.target
  IN  /\ c \in up /\ state[c] \in Serving /\ c # m
      /\ \A d \in up : state[d] \in Serving => c <= d
      /\ \A n \in up : Due(n) =>
           \/ n = c /\ state[m] \in Converting /\ view[c][m].state \in Converting
           \/ c < n /\ view[n][c].state \in Serving

\* The order is in one place only, and no other one is anywhere.
UnderWay(order) ==
  \/ InRound(order) /\ \A n \in Node : /\ n # order.via => ~Preparing(n)
                                       /\ orders[n] = {} /\ state[n] \notin Converting
  \/ Sent(order) /\ \A n \in Node : /\ ~Preparing(n) /\ state[n] \notin Converting
                                    /\ orders[n] = IF n = order.target THEN {order} ELSE {}
  \/ Obeyed(order) /\ \A n \in Node : /\ n # order.target => state[n] \notin Converting
                                      /\ ~Preparing(n) /\ orders[n] = {}

OneOrder == NoOrderGiven \/ \E order \in Order : Guarded(order) /\ UnderWay(order)

\* Who prepares an order notes no imbalance.
PreparesAtEase == \A n \in up : Preparing(n) => rescale[n].imbalance = "off"

InTurn == Ranked /\ PreparesAtEase /\ OneOrder

Calm == AllOrderly /\ StillRunning /\ NoneCondemned /\ InTurn

\* A step of n: the machines that run still see each other as they did.
Alone(n) ==
  /\ n \in up /\ up' = up
  /\ \A m \in Node \ {n} : state'[m] = state[m] /\ rescale'[m] = rescale[m]
  /\ \A k, m \in up : k # m => view'[k][m] = view[k][m]

\* No clock of n about the machines that run, and none about the imbalance, ends.
NoDeadline(n) ==
  /\ \A m \in up : rescale'[n].clock[m] # "elapsed" /\ m \notin rescale'[n].evicting
  /\ rescale'[n].imbalance = "elapsed" => rescale[n].imbalance = "elapsed"
  /\ rescale'[n].imbalance # "off" => rescale[n].imbalance # "off" \/ state[n] \in Serving

\* What the steps of n do to the orders.
Quiet(n) ==
  /\ orders' = orders
  /\ state'[n] = state[n] \/ {state[n], state'[n]} \subseteq Serving
  /\ Preparing(n)' <=> Preparing(n)
  /\ Preparing(n) \/ state[n] \in Converting => rescale'[n].order = rescale[n].order
  /\ Preparing(n) => (rescale'[n].imbalance # "off" => rescale[n].imbalance # "off")

Decides(n) ==
  /\ Due(n) /\ rescale'[n].imbalance = "off" /\ orders' = orders
  /\ {state[n], state'[n]} \subseteq Serving /\ ~Preparing(n) /\ Preparing(n)'
  /\ rescale'[n].order \in Order /\ rescale'[n].order.via = n /\ rescale'[n].order.target # n
  /\ \A d \in up \ {n} : /\ view[n][d].state \notin Converting
                         /\ view[n][d].state \in Serving => n < d

Dispatches(n) ==
  /\ Preparing(n) /\ state'[n] \in Serving /\ ~Preparing(n)'
  /\ LET order == rescale[n].order
     IN  \/ orders' = orders
         \/ /\ orders' = [orders EXCEPT ![order.target] = @ \cup {order}]
            /\ order.target \in up

Drops(n, order) ==
  /\ order \in orders[n] /\ orders' = [orders EXCEPT ![n] = @ \ {order}]
  /\ state' = state /\ rescale' = rescale

Obeys(n, order) ==
  /\ order \in orders[n] /\ orders' = [orders EXCEPT ![n] = @ \ {order}]
  /\ state[n] \in {"stable_agent", "stable_server"} /\ state'[n] \in Converting
  /\ rescale'[n].order = order

IsDone(n) ==
  /\ orders' = orders
  /\ state[n] \in Converting
  /\ state'[n] \in {"stable_server", "stable_agent", "rescale_failed"}

\* The settle delay of n ends, everybody being informed.
Settles(n) ==
  /\ rescale[n].imbalance = "running" /\ AllInformed
  /\ rescale' = [rescale EXCEPT ![n].imbalance = "elapsed"]
  /\ UNCHANGED <<allVars, orders>>


LEMMA SameServersSameRanks ==
  ASSUME StillRunning, Ranked, NEW n \in Node, Alone(n), NoDeadline(n),
         state'[n] \in Serving <=> state[n] \in Serving
  PROVE  Ranked' /\ \A k \in up : Due(k)' => Due(k)
<1>1. up \subseteq Node
  BY DEF StillRunning
<1>2. \A d \in up : state'[d] \in Serving <=> state[d] \in Serving
  BY <1>1 DEF Alone
<1>3. \A k \in up : (Due(k)' => Due(k)) /\ (rescale'[k].imbalance # "off" =>
                       rescale[k].imbalance # "off" \/ state[k] \in Serving)
  BY <1>1 DEF Alone, NoDeadline, Due
<1>4. \A k, d \in up : k # d => view'[k][d] = view[k][d]
  BY DEF Alone
<1>5. up' = up
  BY DEF Alone
<1>6. \A k \in up : Led(k) => Led(k)'
  BY <1>1, <1>2, <1>4, <1>5, DaemonAssumption DEF Led
<1>7. ASSUME NEW k \in up PROVE KnowsItsPlace(k)'
  BY <1>2, <1>3, <1>5 DEF Ranked, KnowsItsPlace
<1>8. ASSUME NEW k \in up, Due(k)', ~Led(k)'
      PROVE  /\ state'[k] \in Serving
             /\ \A d \in up : d < k /\ state'[d] \in Serving => view'[k][d].state \in Converting
             /\ \A j \in up \ {k} : Due(j)' => k < j /\ view'[j][k].state \in Serving
  <2>1. Due(k) /\ ~Led(k) /\ k \in Node
    BY <1>1, <1>3, <1>6, <1>8
  <2>2. /\ state[k] \in Serving
        /\ \A d \in up : d < k /\ state[d] \in Serving => view[k][d].state \in Converting
        /\ \A j \in up \ {k} : Due(j) => k < j /\ view[j][k].state \in Serving
    BY <2>1 DEF Ranked, LeadsTheOthers
  <2> QED
    BY <1>1, <1>2, <1>3, <1>4, <2>1, <2>2, DaemonAssumption
<1> QED
  BY <1>3, <1>5, <1>7, <1>8 DEF Ranked, LeadsTheOthers

LEMMA SameServersSameGuard ==
  ASSUME StillRunning, NEW n \in Node, Alone(n),
         state'[n] \in Serving <=> state[n] \in Serving,
         state[n] \in Converting => state'[n] \in Converting,
         \A k \in up : Due(k)' => Due(k), NEW order \in Order, Guarded(order)
  PROVE  Guarded(order)'
<1>1. up \subseteq Node /\ up' = up
  BY DEF StillRunning, Alone
<1>2. \A d \in up : state'[d] \in Serving <=> state[d] \in Serving
  BY <1>1 DEF Alone
<1>3. \A d \in Node : state[d] \in Converting => state'[d] \in Converting
  BY DEF Alone
<1> DEFINE c == order.via
           m == order.target
<1>4. /\ c \in up /\ state[c] \in Serving /\ c # m /\ m \in Node
      /\ \A d \in up : state[d] \in Serving => c <= d
  BY DEF Guarded, Order
<1>5. state[m] \in Converting => m \in up /\ state'[m] \in Converting /\ view'[c][m] = view[c][m]
  BY <1>3, <1>4 DEF StillRunning, Alone, Converting
<1>6. ASSUME NEW k \in up, Due(k)'
      PROVE  \/ k = c /\ state'[m] \in Converting /\ view'[c][m].state \in Converting
             \/ c < k /\ view'[k][c].state \in Serving
  <2>1. \/ k = c /\ state[m] \in Converting /\ view[c][m].state \in Converting
        \/ c < k /\ view[k][c].state \in Serving
    BY <1>6 DEF Guarded
  <2>2. c < k => view'[k][c] = view[k][c]
    <3>1. c \in Nat /\ k \in Nat
      BY <1>1, <1>4, DaemonAssumption
    <3>2. c < k => c # k
      BY <3>1
    <3> QED
      BY <1>4, <3>2 DEF Alone
  <2> QED
    BY <1>5, <2>1, <2>2
<1> QED
  BY <1>1, <1>2, <1>4, <1>6 DEF Guarded

LEMMA QuietInTurn ==
  ASSUME StillRunning, InTurn, NEW n \in Node, Alone(n), NoDeadline(n), Quiet(n)
  PROVE  InTurn'
<1>1. state'[n] \in Serving <=> state[n] \in Serving
  BY DEF Quiet
<1>2. state'[n] \in Converting <=> state[n] \in Converting
  BY DEF Quiet, Serving, Converting
<1>3. Ranked' /\ \A k \in up : Due(k)' => Due(k)
  BY <1>1, SameServersSameRanks DEF InTurn
<1>4. \A m \in Node : /\ Preparing(m)' <=> Preparing(m)
                      /\ state'[m] \in Converting <=> state[m] \in Converting
                      /\ Preparing(m) \/ state[m] \in Converting => rescale'[m].order = rescale[m].order
  BY <1>2 DEF Alone, Quiet, Preparing
<1>5. PreparesAtEase'
  BY <1>4 DEF InTurn, PreparesAtEase, Alone, Quiet, StillRunning
<1>6. OneOrder'
  <2>1. CASE NoOrderGiven
    BY <1>4, <2>1 DEF NoOrderGiven, OneOrder, Quiet
  <2>2. ASSUME NEW order \in Order, Guarded(order), UnderWay(order)
        PROVE  OneOrder'
    <3>1. Guarded(order)'
      BY <1>1, <1>2, <1>3, <2>2, SameServersSameGuard
    <3>2. order.via \in Node /\ order.target \in Node
      BY DEF Order
    <3>3. UnderWay(order)'
      BY <1>4, <2>2, <3>2 DEF UnderWay, InRound, Sent, Obeyed, Quiet
    <3> QED
      BY <3>1, <3>3 DEF OneOrder
  <2> QED
    BY <2>1, <2>2 DEF InTurn, OneOrder
<1> QED
  BY <1>3, <1>5, <1>6 DEF InTurn

\* A coordinator that decides to give an order knows that no other one is given.
LEMMA DecidesInTurn ==
  ASSUME StillRunning, InTurn, NEW n \in Node, Alone(n), NoDeadline(n), Decides(n)
  PROVE  InTurn'
<1>1. /\ up \subseteq Node /\ up \subseteq Nat /\ n \in up /\ up' = up
      /\ \A m \in Node : state[m] \in Converting => m \in up
  BY DaemonAssumption DEF StillRunning, Alone, Converting
<1>2. state'[n] \in Serving /\ state[n] \in Serving /\ Due(n)
  BY DEF Decides
<1>3. ~Led(n)
  <2> SUFFICES ASSUME NEW d \in up, d < n, view[n][d].state \in Serving PROVE FALSE
    BY DEF Led
  <2>1. d \in Nat /\ n \in Nat
    BY <1>1
  <2>2. d # n
    BY <2>1
  <2>3. n < d
    BY <2>2 DEF Decides
  <2> QED
    BY <2>1, <2>3
<1>4. \A d \in up : state[d] \in Serving => n <= d
  <2>1. \A d \in up : d < n /\ state[d] \in Serving => view[n][d].state \in Converting
    BY <1>1, <1>2, <1>3 DEF InTurn, Ranked, LeadsTheOthers
  <2>2. \A d \in up \ {n} : state[d] \in Serving => ~(d < n)
    <3>1. \A d \in up \ {n} : view[n][d].state \notin Converting
      BY DEF Decides
    <3> QED
      BY <2>1, <3>1
  <2>3. n \in Nat /\ \A d \in up : d \in Nat
    BY <1>1
  <2> QED
    BY <2>2, <2>3
<1>5. \A k \in up \ {n} : Due(k) => n < k /\ view[k][n].state \in Serving
  BY <1>1, <1>2, <1>3 DEF InTurn, Ranked, LeadsTheOthers
<1>6. NoOrderGiven
  <2> SUFFICES ASSUME NEW o \in Order, Guarded(o) PROVE FALSE
    BY DEF InTurn, OneOrder
  <2>1. /\ o.via \in up /\ state[o.via] \in Serving /\ o.via # o.target /\ o.target \in Node
        /\ \/ /\ n = o.via /\ state[o.target] \in Converting
              /\ view[n][o.target].state \in Converting
           \/ o.via < n /\ view[n][o.via].state \in Serving
    BY <1>1, <1>2 DEF Guarded, Order
  <2>2. CASE n = o.via /\ view[n][o.target].state \in Converting /\ state[o.target] \in Converting
    BY <1>1, <2>1, <2>2 DEF Decides
  <2>3. CASE o.via < n /\ view[n][o.via].state \in Serving
    BY <1>3, <2>1, <2>3 DEF Led
  <2> QED
    BY <2>1, <2>2, <2>3
<1>7. Ranked' /\ \A k \in up : Due(k)' => Due(k)
  BY <1>2, SameServersSameRanks DEF InTurn
<1>8. PreparesAtEase'
  BY <1>1 DEF InTurn, PreparesAtEase, Alone, Decides, Preparing
<1>9. PICK o \in Order : o = rescale'[n].order
  BY DEF Decides
<1>10. o.via = n /\ o.target \in Node /\ o.target # n
  BY <1>9 DEF Decides, Order
<1>11. Guarded(o)'
  <2>1. \A d \in up : state'[d] \in Serving => n <= d
    BY <1>1, <1>4 DEF Alone
  <2>2. ASSUME NEW k \in up, Due(k)'
        PROVE  n < k /\ view'[k][n].state \in Serving
    <3>1. k # n
      BY <2>2 DEF Decides, Due
    <3>2. n < k /\ view[k][n].state \in Serving
      BY <1>5, <1>7, <2>2, <3>1
    <3> QED
      BY <1>1, <3>1, <3>2 DEF Alone
  <2> QED
    BY <1>1, <1>2, <1>10, <2>1, <2>2 DEF Guarded
<1>12. UnderWay(o)'
  <2>1. Preparing(n)' /\ orders' = orders /\ state'[n] \notin Converting
    BY <1>2 DEF Decides, Serving, Converting
  <2>2. \A m \in Node : m # n => ~Preparing(m)'
    BY <1>6 DEF NoOrderGiven, Alone, Preparing
  <2>3. \A m \in Node : orders'[m] = {} /\ state'[m] \notin Converting
    BY <1>6, <2>1 DEF NoOrderGiven, Alone
  <2> QED
    BY <1>9, <1>10, <2>1, <2>2, <2>3 DEF UnderWay, InRound
<1> QED
  BY <1>7, <1>8, <1>11, <1>12 DEF InTurn, OneOrder

\* The order leaves, or is given up.
LEMMA DispatchInTurn ==
  ASSUME StillRunning, InTurn, orders \in [Node -> SUBSET Order], NEW n \in Node, Alone(n),
         NoDeadline(n), Dispatches(n)
  PROVE  InTurn'
<1>1. /\ n \in up /\ state[n] \in Serving /\ state'[n] \in Serving
      /\ Preparing(n) /\ ~Preparing(n)' /\ state'[n] \notin Converting
  BY DEF Alone, Dispatches, Preparing, Serving, Converting
<1>2. Ranked' /\ \A k \in up : Due(k)' => Due(k)
  BY <1>1, SameServersSameRanks DEF InTurn
<1>3. PreparesAtEase'
  <2>1. up \subseteq Node /\ up' = up
    BY DEF StillRunning, Alone
  <2>2. \A m \in Node \ {n} : (Preparing(m)' <=> Preparing(m)) /\ rescale'[m] = rescale[m]
    BY DEF Alone, Preparing
  <2> QED
    BY <1>1, <2>1, <2>2 DEF InTurn, PreparesAtEase
<1>4. PICK o \in Order : Guarded(o) /\ UnderWay(o)
  BY <1>1 DEF InTurn, OneOrder, NoOrderGiven
<1>5. /\ o.via = n /\ rescale[n].order = o /\ o.target \in Node
      /\ \A m \in Node : (m # n => ~Preparing(m)) /\ orders[m] = {} /\ state[m] \notin Converting
  BY <1>1, <1>4 DEF UnderWay, InRound, Order
<1>6. \A m \in Node : ~Preparing(m)' /\ state'[m] \notin Converting
  BY <1>1, <1>5 DEF Alone, Preparing
<1>7. Guarded(o)'
  BY <1>1, <1>2, <1>4, <1>5, SameServersSameGuard
<1>8. CASE orders' = orders
  BY <1>2, <1>3, <1>5, <1>6, <1>8 DEF InTurn, OneOrder, NoOrderGiven
<1>9. CASE orders' = [orders EXCEPT ![o.target] = @ \cup {o}]
  <2>1. \A m \in Node : orders'[m] = IF m = o.target THEN {o} ELSE {}
    BY <1>5, <1>9
  <2>2. UnderWay(o)'
    <3>1. Sent(o)'
      BY <1>5, <2>1 DEF Sent
    <3> QED
      BY <1>6, <2>1, <3>1 DEF UnderWay
  <2> QED
    BY <1>2, <1>3, <1>7, <2>2 DEF InTurn, OneOrder
<1> QED
  BY <1>5, <1>8, <1>9 DEF Dispatches

\* The order is lost or ignored.
LEMMA DropInTurn ==
  ASSUME StillRunning, InTurn, orders \in [Node -> SUBSET Order], NEW n \in Node, Alone(n),
         NEW order, Drops(n, order)
  PROVE  InTurn'
<1>1. up \subseteq Node /\ up' = up /\ state' = state /\ rescale' = rescale
  BY DEF StillRunning, Alone, Drops
<1>2. Ranked'
  <2>1. \A k \in up : Led(k)' <=> Led(k)
    BY <1>1, DaemonAssumption DEF Led, Alone
  <2>2. \A k \in up : Due(k)' <=> Due(k)
    BY <1>1 DEF Due
  <2>3. ASSUME NEW k \in up PROVE KnowsItsPlace(k)' /\ LeadsTheOthers(k)'
    <3>1. KnowsItsPlace(k) /\ LeadsTheOthers(k)
      BY DEF InTurn, Ranked
    <3> QED
      BY <1>1, <2>1, <2>2, <3>1, DaemonAssumption DEF KnowsItsPlace, LeadsTheOthers, Alone
  <2> QED
    BY <1>1, <2>3 DEF Ranked
<1>3. PreparesAtEase'
  BY <1>1 DEF InTurn, PreparesAtEase, Preparing
<1>4. PICK o \in Order : UnderWay(o)
  BY DEF InTurn, OneOrder, NoOrderGiven, Drops
<1>5. Sent(o) /\ \A m \in Node : /\ ~Preparing(m) /\ state[m] \notin Converting
                                  /\ orders[m] = IF m = o.target THEN {o} ELSE {}
  BY <1>4 DEF UnderWay, Drops
<1>6. order = o /\ n = o.target
  BY <1>5 DEF Drops
<1>7. NoOrderGiven'
  BY <1>1, <1>5, <1>6 DEF NoOrderGiven, Drops, Preparing
<1> QED
  BY <1>2, <1>3, <1>7 DEF InTurn, OneOrder

\* Whoever could give another order defers to the coordinator by now.
LEMMA ObeyInTurn ==
  ASSUME StillRunning, InTurn, orders \in [Node -> SUBSET Order], NEW n \in Node, Alone(n),
         NEW order, order.target = n, Obeys(n, order),
         rescale'[n].imbalance = rescale[n].imbalance
  PROVE  InTurn'
<1>1. /\ up \subseteq Node /\ up \subseteq Nat /\ n \in up /\ up' = up
      /\ \A m \in Node : state[m] \in Converting => m \in up
  BY DaemonAssumption DEF StillRunning, Alone, Converting
<1>2. PICK o \in Order : Guarded(o) /\ UnderWay(o)
  BY DEF InTurn, OneOrder, NoOrderGiven, Obeys
<1>3. /\ \A m \in Node : /\ ~Preparing(m) /\ state[m] \notin Converting
                          /\ orders[m] = IF m = o.target THEN {o} ELSE {}
  BY <1>2 DEF UnderWay, Obeys
<1>4. order = o /\ n = o.target
  BY <1>3 DEF Obeys
<1> DEFINE c == o.via
<1>5. /\ c \in up /\ state[c] \in Serving /\ c # n /\ state'[c] = state[c]
      /\ \A d \in up : state[d] \in Serving => c <= d
      /\ \A k \in up : Due(k) => c < k /\ view[k][c].state \in Serving
  <2>1. state[n] \notin Converting
    BY <1>3
  <2> QED
    BY <1>1, <1>2, <1>4, <2>1 DEF Guarded, Alone
<1>6. \A k \in up : Due(k)' => Due(k) /\ Led(k)' /\ c < k /\ view'[k][c].state \in Serving
  <2> SUFFICES ASSUME NEW k \in up, Due(k)'
               PROVE  Due(k) /\ Led(k)' /\ c < k /\ view'[k][c].state \in Serving
    OBVIOUS
  <2>1. Due(k)
    BY <1>1 DEF Due, Alone
  <2>2. c < k /\ view[k][c].state \in Serving
    BY <1>5, <2>1
  <2>3. c # k
    BY <1>1, <1>5, <2>2
  <2>4. view'[k][c] = view[k][c]
    BY <1>5, <2>3 DEF Alone
  <2> QED
    BY <1>1, <1>5, <2>1, <2>2, <2>4 DEF Led
<1>7. ASSUME NEW k \in up, rescale'[k].imbalance # "off"
      PROVE  state'[k] \in Serving \/ \E d \in up : d < k /\ state'[d] \in Serving
  <2>1. rescale[k].imbalance # "off"
    BY <1>1, <1>7 DEF Alone
  <2>2. state[k] \in Serving \/ \E d \in up : d < k /\ state[d] \in Serving
    BY <2>1 DEF InTurn, Ranked, KnowsItsPlace
  <2>3. CASE state[k] \in Serving
    <3>1. k # n => state'[k] = state[k]
      BY <1>1 DEF Alone
    <3>2. k = n => c < k
      <4>1. c \in Nat /\ n \in Nat
        BY <1>1, <1>5
      <4>2. k = n => c <= n
        BY <1>5, <2>3
      <4> QED
        BY <1>5, <4>1, <4>2
    <3> QED
      BY <1>5, <2>3, <3>1, <3>2
  <2>4. ASSUME NEW d \in up, d < k, state[d] \in Serving
        PROVE  \E e \in up : e < k /\ state'[e] \in Serving
    <3>1. CASE d # n
      BY <1>1, <2>4, <3>1 DEF Alone
    <3>2. CASE d = n
      <4>1. c \in Nat /\ n \in Nat /\ k \in Nat
        BY <1>1, <1>5
      <4>2. c <= n
        BY <1>5, <2>4, <3>2
      <4>3. c < k
        BY <1>5, <2>4, <3>2, <4>1, <4>2
      <4> QED
        BY <1>5, <4>3
    <3> QED
      BY <3>1, <3>2
  <2> QED
    BY <2>2, <2>3, <2>4
<1>8. Ranked'
  BY <1>1, <1>6, <1>7 DEF Ranked, KnowsItsPlace, LeadsTheOthers
<1>9. state'[n] \in Converting /\ state'[n] \notin Serving /\ ~Preparing(n)'
  BY DEF Obeys, Serving, Converting, Preparing
<1>10. PreparesAtEase'
  BY <1>1, <1>9 DEF InTurn, PreparesAtEase, Alone, Preparing
<1>11. Guarded(o)'
  <2>1. \A d \in up : state'[d] \in Serving => c <= d
    BY <1>1, <1>5, <1>9 DEF Alone
  <2> QED
    BY <1>1, <1>4, <1>5, <1>6, <2>1 DEF Guarded
<1>12. UnderWay(o)'
  <2>1. \A m \in Node : /\ m # n => state'[m] \notin Converting
                        /\ ~Preparing(m)' /\ orders'[m] = {}
    BY <1>3, <1>4, <1>9 DEF Obeys, Alone, Preparing
  <2> QED
    BY <1>4, <1>9, <2>1 DEF UnderWay, Obeyed, Obeys
<1> QED
  BY <1>8, <1>10, <1>11, <1>12 DEF InTurn, OneOrder

\* A machine that changed role is a new server at most for those that defer.
LEMMA DoneInTurn ==
  ASSUME StillRunning, InTurn, NEW n \in Node, Alone(n), IsDone(n),
         rescale'[n].imbalance = rescale[n].imbalance
  PROVE  InTurn'
<1>1. /\ up \subseteq Node /\ up \subseteq Nat /\ n \in up /\ up' = up
      /\ state[n] \notin Serving /\ state'[n] \notin Converting /\ ~Preparing(n)'
  BY DaemonAssumption DEF StillRunning, Alone, Converting, Serving, IsDone, Preparing
<1>2. \A d \in up : state[d] \in Serving => state'[d] = state[d] /\ d # n
  BY <1>1 DEF Alone
<1>3. \A k \in up : rescale'[k].imbalance = rescale[k].imbalance
  BY <1>1 DEF Alone
<1>4. PICK o \in Order : Guarded(o) /\ UnderWay(o)
  BY DEF InTurn, OneOrder, NoOrderGiven, IsDone
<1>5. /\ n = o.target
      /\ \A m \in Node : (m # n => state[m] \notin Converting) /\ ~Preparing(m) /\ orders[m] = {}
  BY <1>4 DEF UnderWay, IsDone
<1>6. NoOrderGiven'
  BY <1>1, <1>5 DEF NoOrderGiven, Alone, IsDone, Preparing
<1>7. PreparesAtEase'
  BY <1>1, <1>3 DEF InTurn, PreparesAtEase, Alone, Preparing
<1>8. ASSUME NEW k \in up PROVE KnowsItsPlace(k)'
  <2>1. KnowsItsPlace(k)
    BY DEF InTurn, Ranked
  <2> QED
    BY <1>1, <1>2, <1>3, <2>1 DEF KnowsItsPlace
<1>9. \A k \in up : Led(k) => Led(k)'
  <2> SUFFICES ASSUME NEW k \in up, NEW d \in up, d < k, state[d] \in Serving,
                      view[k][d].state \in Serving
               PROVE  Led(k)'
    BY DEF Led
  <2>1. d \in Nat /\ k \in Nat
    BY <1>1
  <2>2. d # k
    BY <2>1
  <2>3. view'[k][d] = view[k][d]
    BY <2>2 DEF Alone
  <2> QED
    BY <1>1, <1>2, <2>3 DEF Led
<1>10. ASSUME NEW k \in up, Due(k)', ~Led(k)'
       PROVE  /\ state'[k] \in Serving
              /\ \A d \in up : d < k /\ state'[d] \in Serving => view'[k][d].state \in Converting
              /\ \A j \in up \ {k} : Due(j)' => k < j /\ view'[j][k].state \in Serving
  <2>1. Due(k) /\ ~Led(k)
    BY <1>3, <1>9, <1>10 DEF Due
  <2>2. /\ state[k] \in Serving
        /\ \A d \in up : d < k /\ state[d] \in Serving => view[k][d].state \in Converting
        /\ \A j \in up \ {k} : Due(j) => k < j /\ view[j][k].state \in Serving
    BY <2>1 DEF InTurn, Ranked, LeadsTheOthers
  <2>3. k = o.via /\ view[k][n].state \in Converting
    <3>1. o.via \in up /\ state[o.via] \in Serving
      BY <1>4 DEF Guarded
    <3>2. \/ k = o.via /\ view[k][n].state \in Converting
          \/ o.via < k /\ view[k][o.via].state \in Serving
      BY <1>4, <1>5, <2>1 DEF Guarded
    <3> QED
      BY <2>1, <3>1, <3>2 DEF Led
  <2>4. ASSUME NEW d \in up, d < k, state'[d] \in Serving
        PROVE  view'[k][d].state \in Converting
    <3>1. d # k /\ view'[k][d] = view[k][d]
      BY <1>1, <2>4 DEF Alone
    <3>2. d # n => state[d] \in Serving
      BY <1>1, <2>4 DEF Alone
    <3> QED
      BY <2>2, <2>3, <2>4, <3>1, <3>2
  <2>5. ASSUME NEW j \in up \ {k}, Due(j)'
        PROVE  k < j /\ view'[j][k].state \in Serving
    BY <1>3, <2>2, <2>5 DEF Due, Alone
  <2> QED
    BY <1>2, <2>2, <2>4, <2>5
<1>11. Ranked'
  BY <1>1, <1>8, <1>10 DEF Ranked, LeadsTheOthers
<1> QED
  BY <1>6, <1>7, <1>11 DEF InTurn, OneOrder

\* When a settle delay ends everybody is informed: the lowest server leads, and
\* an order that is obeyed meanwhile is seen to be.
LEMMA SettleInTurn ==
  ASSUME StillRunning, InTurn, rescale \in [Node -> RescaleProgress],
         NEW n \in Node, n \in up, Settles(n)
  PROVE  InTurn'
<1>1. /\ up \subseteq Node /\ up \subseteq Nat /\ up' = up /\ state' = state /\ view' = view
      /\ orders' = orders
      /\ \A m \in Node : state[m] \in Converting => m \in up
  BY DaemonAssumption DEF StillRunning, Settles, Converting, allVars, vars, daemonVars
<1>2. /\ \A m \in Node : rescale'[m].order = rescale[m].order
      /\ \A k \in up \ {n} : rescale'[k] = rescale[k]
      /\ rescale[n].imbalance = "running"
  BY DEF Settles, RescaleProgress
<1>3. /\ \A k, m \in up : k # m => view[k][m].state = state[m]
      /\ \A m \in Node : orders[m] = {}
  <2>1. ASSUME NEW k \in up, NEW m \in up, k # m PROVE view[k][m].state = state[m]
    <3>1. view[k][m] = AliveAs(state[m])
      BY <1>1, <2>1 DEF Settles, AllInformed
    <3> QED
      BY <3>1 DEF AliveAs
  <2>2. ASSUME NEW m \in Node PROVE orders[m] = {}
    <3>1. CASE m \in up
      BY <3>1 DEF Settles, AllInformed
    <3>2. CASE m \notin up
      BY <3>2 DEF StillRunning
    <3> QED
      BY <3>1, <3>2
  <2> QED
    BY <2>1, <2>2
<1>4. \A k \in up : rescale'[k].imbalance # "off" => rescale[k].imbalance # "off"
  BY <1>2
<1>5. \A k \in up : KnowsItsPlace(k)
  BY DEF InTurn, Ranked
<1>6. \A k, d \in up : d < k => d # k
  BY <1>1
<1>7. ASSUME NEW k \in up, ~Led(k) PROVE \A d \in up : d < k => state[d] \notin Serving
  BY <1>3, <1>6, <1>7 DEF Led
<1>8. ASSUME NEW k \in up PROVE KnowsItsPlace(k)'
  BY <1>1, <1>4, <1>5 DEF KnowsItsPlace
<1>9. \A k \in up : Led(k)' <=> Led(k)
  BY <1>1 DEF Led
<1>10. ASSUME NEW k \in up, Due(k)', ~Led(k)'
       PROVE  /\ state'[k] \in Serving
              /\ \A d \in up : d < k /\ state'[d] \in Serving => view'[k][d].state \in Converting
              /\ \A j \in up \ {k} : Due(j)' => k < j /\ view'[j][k].state \in Serving
  <2>1. \A d \in up : d < k => state[d] \notin Serving
    BY <1>7, <1>9, <1>10
  <2>2. rescale[k].imbalance # "off"
    BY <1>4, <1>10 DEF Due
  <2>3. state[k] \in Serving
    BY <1>5, <2>1, <2>2 DEF KnowsItsPlace
  <2>4. ASSUME NEW j \in up \ {k}, Due(j)' PROVE k < j /\ view'[j][k].state \in Serving
    <3>1. rescale[j].imbalance # "off"
      BY <1>4, <2>4 DEF Due
    <3>2. PICK d \in up : (d = j \/ d < j) /\ state[d] \in Serving
      BY <1>5, <3>1 DEF KnowsItsPlace
    <3>3. d \in Nat /\ j \in Nat /\ k \in Nat /\ ~(d < k)
      BY <1>1, <2>1, <3>2
    <3>4. k < j
      BY <2>4, <3>2, <3>3
    <3> QED
      BY <1>1, <1>3, <2>3, <3>4
  <2> QED
    BY <1>1, <2>1, <2>3, <2>4
<1>11. Ranked'
  BY <1>1, <1>8, <1>10 DEF Ranked, LeadsTheOthers
<1>12. PreparesAtEase'
  <2>1. ~Preparing(n)
    BY <1>2 DEF InTurn, PreparesAtEase
  <2>2. \A m \in Node : Preparing(m)' <=> Preparing(m)
    BY <1>1, <1>2 DEF Preparing
  <2> QED
    BY <1>1, <1>2, <2>1, <2>2 DEF InTurn, PreparesAtEase
<1>13. OneOrder'
  <2>1. CASE NoOrderGiven
    BY <1>1, <1>2, <2>1 DEF NoOrderGiven, OneOrder, Preparing
  <2>2. ASSUME NEW o \in Order, Guarded(o), UnderWay(o) PROVE OneOrder'
    <3>1. InRound(o) \/ Obeyed(o)
      BY <1>3, <2>2 DEF UnderWay, Sent, Order
    <3> DEFINE c == o.via
               m == o.target
    <3>2. /\ c \in up /\ state[c] \in Serving /\ c # m /\ m \in Node
          /\ \A d \in up : state[d] \in Serving => c <= d
      BY <2>2 DEF Guarded, Order
    <3>3. ASSUME NEW k \in up, Due(k)'
          PROVE  \/ k = c /\ state[m] \in Converting /\ view[c][m].state \in Converting
                 \/ c < k /\ view[k][c].state \in Serving
      <4>1. CASE k = c
        <5>1. rescale[c].imbalance # "off"
          BY <1>4, <3>3, <4>1 DEF Due
        <5>2. ~Preparing(c)
          BY <3>2, <5>1 DEF InTurn, PreparesAtEase
        <5>3. state[m] \in Converting
          BY <3>1, <5>2 DEF InRound, Obeyed
        <5> QED
          BY <1>1, <1>3, <3>2, <4>1, <5>3
      <4>2. CASE k # c
        <5>1. rescale[k].imbalance # "off"
          BY <1>4, <3>3 DEF Due
        <5>2. PICK d \in up : (d = k \/ d < k) /\ state[d] \in Serving
          BY <1>5, <5>1 DEF KnowsItsPlace
        <5>3. c <= d /\ c \in Nat /\ d \in Nat /\ k \in Nat
          BY <1>1, <3>2, <5>2
        <5>4. c < k
          BY <4>2, <5>2, <5>3
        <5> QED
          BY <1>3, <3>2, <4>2, <5>4
      <4> QED
        BY <4>1, <4>2
    <3>4. Guarded(o)'
      BY <1>1, <3>2, <3>3 DEF Guarded
    <3>5. UnderWay(o)'
      <4>1. \A k \in Node : Preparing(k)' <=> Preparing(k)
        BY <1>1, <1>2 DEF Preparing
      <4>2. o.via \in Node /\ o.target \in Node
        BY DEF Order
      <4>3. /\ InRound(o)' <=> InRound(o)
            /\ Sent(o)' <=> Sent(o)
            /\ Obeyed(o)' <=> Obeyed(o)
        BY <1>1, <1>2, <4>1, <4>2 DEF InRound, Sent, Obeyed
      <4> QED
        BY <1>1, <2>2, <4>1, <4>3 DEF UnderWay
    <3> QED
      BY <3>4, <3>5 DEF OneOrder
  <2> QED
    BY <2>1, <2>2 DEF InTurn, OneOrder
<1> QED
  BY <1>11, <1>12, <1>13 DEF InTurn

\* What the network does: n learns the state of m, or nothing about the machines
\* that run.
Informs(n, m) ==
  /\ UNCHANGED <<up, state, rescale, orders>>
  /\ \A k, j \in up : k # j => \/ view'[k][j] = view[k][j]
                               \/ k = n /\ j = m /\ view'[k][j] = AliveAs(state[j])

LEMMA InformInTurn ==
  ASSUME StillRunning, InTurn, NEW n, NEW m, Informs(n, m)
  PROVE  InTurn'
<1>1. /\ up \subseteq Node /\ up \subseteq Nat /\ up' = up /\ state' = state
      /\ rescale' = rescale /\ orders' = orders
      /\ \A k \in Node : state[k] \in Converting => k \in up
  BY DaemonAssumption DEF StillRunning, Informs, Converting
<1>2. \A k, j \in up : k # j => \/ view'[k][j] = view[k][j]
                                \/ view'[k][j].state = state[j]
  <2>1. \A j : AliveAs(state[j]).state = state[j]
    BY DEF AliveAs
  <2> QED
    BY <2>1 DEF Informs
<1>3. \A k, d \in up : d < k => d # k
  BY <1>1
<1>4. \A k \in up : Led(k) => Led(k)'
  BY <1>1, <1>2, <1>3 DEF Led
<1>5. ASSUME NEW k \in up PROVE KnowsItsPlace(k)'
  BY <1>1 DEF InTurn, Ranked, KnowsItsPlace
<1>6. ASSUME NEW k \in up, Due(k)', ~Led(k)'
      PROVE  /\ state[k] \in Serving
             /\ \A d \in up : d < k /\ state[d] \in Serving => view'[k][d].state \in Converting
             /\ \A j \in up \ {k} : Due(j) => k < j /\ view'[j][k].state \in Serving
  <2>1. Due(k) /\ ~Led(k)
    BY <1>1, <1>4, <1>6 DEF Due
  <2>2. /\ state[k] \in Serving
        /\ \A d \in up : d < k /\ state[d] \in Serving => view[k][d].state \in Converting
        /\ \A j \in up \ {k} : Due(j) => k < j /\ view[j][k].state \in Serving
    BY <2>1 DEF InTurn, Ranked, LeadsTheOthers
  <2>3. ASSUME NEW d \in up, d < k, state[d] \in Serving PROVE view'[k][d].state \in Converting
    <3>1. view'[k][d].state # state[d]
      BY <1>1, <1>6, <2>3 DEF Led
    <3> QED
      BY <1>2, <1>3, <2>2, <2>3, <3>1
  <2> QED
    BY <1>2, <2>2, <2>3
<1>7. Ranked'
  BY <1>1, <1>5, <1>6 DEF Ranked, LeadsTheOthers, Due
<1>8. PreparesAtEase'
  BY <1>1 DEF InTurn, PreparesAtEase, Preparing
<1>9. OneOrder'
  <2>1. CASE NoOrderGiven
    BY <1>1, <2>1 DEF NoOrderGiven, OneOrder, Preparing
  <2>2. ASSUME NEW o \in Order, Guarded(o), UnderWay(o) PROVE OneOrder'
    <3> DEFINE c == o.via
               t == o.target
    <3>2. /\ c \in up /\ state[c] \in Serving /\ c # t /\ t \in Node
          /\ \A d \in up : state[d] \in Serving => c <= d
      BY <2>2 DEF Guarded, Order
    <3>3. ASSUME NEW k \in up, Due(k)
          PROVE  \/ k = c /\ state[t] \in Converting /\ view'[c][t].state \in Converting
                 \/ c < k /\ view'[k][c].state \in Serving
      <4>1. CASE k = c /\ state[t] \in Converting /\ view[c][t].state \in Converting
        BY <1>1, <1>2, <3>2, <4>1
      <4>2. CASE c < k /\ view[k][c].state \in Serving
        BY <1>2, <1>3, <3>2, <4>2
      <4> QED
        BY <2>2, <3>3, <4>1, <4>2 DEF Guarded
    <3>4. Guarded(o)'
      BY <1>1, <3>2, <3>3 DEF Guarded, Due
    <3>5. UnderWay(o)'
      BY <1>1, <2>2, <3>2 DEF UnderWay, InRound, Sent, Obeyed, Preparing
    <3> QED
      BY <3>4, <3>5 DEF OneOrder
  <2> QED
    BY <2>1, <2>2 DEF InTurn, OneOrder
<1> QED
  BY <1>7, <1>8, <1>9 DEF InTurn

----------------------------------------------------------------------------
(* Every step of a running machine is one of those *)

Progresses(n) ==
  /\ Alone(n) /\ NoDeadline(n)
  /\ \/ Quiet(n) \/ Decides(n) \/ Dispatches(n)
     \/ \E order \in orders[n] : Drops(n, order)
     \/ /\ rescale'[n].imbalance = rescale[n].imbalance
        /\ IsDone(n) \/ \E order \in orders[n] : Obeys(n, order)

LEMMA ProgressInTurn ==
  ASSUME AllOrderly, StillRunning, InTurn, NEW n \in Node, Progresses(n)
  PROVE  InTurn'
<1>1. orders \in [Node -> SUBSET Order] /\ \A order \in orders[n] : order.target = n
  BY DEF AllOrderly, RescaleInv, InOrder, RemembersItsOrder
<1>2. Alone(n) /\ NoDeadline(n)
  BY DEF Progresses
<1>3. CASE Quiet(n)
  BY <1>2, <1>3, QuietInTurn
<1>4. CASE Decides(n)
  BY <1>2, <1>4, DecidesInTurn
<1>5. CASE Dispatches(n)
  BY <1>1, <1>2, <1>5, DispatchInTurn
<1>6. ASSUME NEW order \in orders[n], Drops(n, order) PROVE InTurn'
  BY <1>1, <1>2, <1>6, DropInTurn
<1>7. CASE rescale'[n].imbalance = rescale[n].imbalance /\ IsDone(n)
  BY <1>2, <1>7, DoneInTurn
<1>8. ASSUME NEW order \in orders[n], Obeys(n, order),
             rescale'[n].imbalance = rescale[n].imbalance
      PROVE  InTurn'
  BY <1>1, <1>2, <1>8, ObeyInTurn
<1> QED
  BY <1>3, <1>4, <1>5, <1>6, <1>7, <1>8 DEF Progresses

\* What such a step leaves of the machines that run.
LEMMA ProgressKeepsRunning ==
  ASSUME AllOrderly, StillRunning, NoneCondemned, gone \subseteq gone',
         NEW n \in Node, Progresses(n)
  PROVE  StillRunning' /\ NoneCondemned'
<1>1. /\ n \in up /\ up \subseteq Node /\ up' = up
      /\ \A m \in Node \ {n} : state'[m] = state[m] /\ rescale'[m] = rescale[m]
      /\ \A k, m \in up : k # m => view'[k][m] = view[k][m]
  BY DEF Progresses, Alone, StillRunning
<1>2. orders \in [Node -> SUBSET Order]
  BY DEF AllOrderly, RescaleInv
<1>3. state'[n] \in {"stable_agent", "rescale_failed"} \cup Serving \cup Converting
  <2>1. state[n] \in {"stable_agent", "rescale_failed"} \cup Serving \cup Converting
    BY <1>1 DEF StillRunning
  <2> QED
    BY <2>1 DEF Progresses, Quiet, Decides, Dispatches, Drops, Obeys, IsDone, Serving
<1>4. \A m \in Node \ up : orders'[m] = orders[m]
  BY <1>1, <1>2 DEF Progresses, Quiet, Decides, Dispatches, Drops, Obeys, IsDone
<1>5. StillRunning'
  BY <1>1, <1>3, <1>4 DEF StillRunning
<1>6. NoneCondemned'
  BY <1>1 DEF NoneCondemned, Progresses, NoDeadline
<1> QED
  BY <1>5, <1>6

LEMMA EvaluationProgresses ==
  ASSUME AllOrderly, StillRunning, NoneCondemned, NEW n \in up,
         NEW s, NEW v, DOMAIN v = Node, v[n] = AliveAs(s),
         \A d \in up \ {n} : v[d] = view[n][d],
         NEW p, NEW running, Evaluates(n, s, v, p, running),
         p.clock = rescale[n].clock, p.imbalance = rescale[n].imbalance,
         p.order = rescale[n].order, p.evicting \subseteq rescale[n].evicting,
         \/ s = state[n]
         \/ s = "stable_server" /\ state[n] = "rescale_coordinating" /\ rescale[n].order = None,
         UNCHANGED <<up, orders>>,
         \A k, m \in up : k # m => view'[k][m] = view[k][m]
  PROVE  Progresses(n)
<1>1. up \subseteq Node /\ up \subseteq Nat /\ n \in Node
  BY DaemonAssumption DEF StillRunning
<1>2. Alone(n)
  BY DEF Alone, Evaluates, OthersStay
<1>3. NoDeadline(n)
  <2>1. \A m \in up : rescale[n].clock[m] # "elapsed" /\ m \notin rescale[n].evicting
    BY DEF NoneCondemned
  <2>2. ClocksOnly(n, s, p)
    BY DEF Evaluates
  <2>3. \A m \in up : rescale'[n].clock[m] # "elapsed"
    BY <1>1, <2>1, <2>2 DEF ClocksOnly
  <2>4. \A m \in up : m \notin rescale'[n].evicting
    BY <2>1 DEF Evaluates, StaysIn, StartsEvicting, StartsConverting
  <2>5. s = "stable_server" => state[n] \in Serving
    BY DEF Serving
  <2> QED
    BY <2>2, <2>3, <2>4, <2>5 DEF NoDeadline, ClocksOnly
<1>4. s = "stable_server" => state[n] \in Serving /\ ~Preparing(n) /\ state[n] \notin Converting
  BY DEF Serving, Preparing, Converting
<1>5. CASE StaysIn(n, s, p, running)
  <2>1. state'[n] = s /\ (s # "stable_server" => rescale'[n].order = rescale[n].order)
    BY <1>5 DEF StaysIn
  <2>2. CASE s = "stable_server"
    <3>1. ~Preparing(n)' /\ state'[n] \in Serving
      BY <2>1, <2>2 DEF Preparing, Serving
    <3> QED
      BY <1>2, <1>3, <1>4, <2>2, <3>1 DEF Progresses, Quiet
  <2>3. CASE s # "stable_server"
    <3>1. state'[n] = state[n] /\ rescale'[n].order = rescale[n].order
      BY <2>1, <2>3
    <3>2. rescale'[n].imbalance # "off" => rescale[n].imbalance # "off"
      BY <2>3 DEF Evaluates, ClocksOnly
    <3>3. Preparing(n)' <=> Preparing(n)
      BY <3>1 DEF Preparing
    <3> QED
      BY <1>2, <1>3, <3>1, <3>2, <3>3 DEF Progresses, Quiet
  <2> QED
    BY <2>2, <2>3
<1>6. CASE StartsEvicting(n, s, v, p, running)
  <2>1. s = "stable_server" /\ state'[n] \in Serving /\ rescale'[n].order = None
    BY <1>6 DEF StartsEvicting, TakesTheTurn, Serving
  <2>2. ~Preparing(n)'
    BY <2>1 DEF Preparing
  <2> QED
    BY <1>2, <1>3, <1>4, <2>1, <2>2 DEF Progresses, Quiet
<1>7. CASE StartsConverting(n, s, v, p, running)
  <2>1. /\ s = "stable_server" /\ state'[n] = "rescale_coordinating"
        /\ IsRescaleCoordinator(v, n) /\ ~EtcdMembershipChanging(v)
        /\ rescale'[n].order \in Conversions(n, v)
        /\ rescale[n].imbalance = "elapsed" /\ rescale'[n].imbalance = "off"
    BY <1>7 DEF StartsConverting, TakesTheTurn
  <2>2. rescale'[n].order \in Order /\ rescale'[n].order # None
    BY <1>1, <2>1, ConversionsAreOrders, NoOrderAssumption
  <2>3. rescale'[n].order.via = n
    BY <2>1 DEF Conversions
  <2>4. v[n].state = "stable_server"
    BY <2>1 DEF AliveAs
  <2>5. rescale'[n].order.target # n
    <3>1. n \notin PromotionTargets(v)
      BY <2>4 DEF PromotionTargets, AliveIn
    <3>2. \A order \in Conversions(n, v) : order.target # n
      BY <3>1 DEF Conversions
    <3> QED
      BY <2>1, <3>2
  <2>6. ASSUME NEW d \in up \ {n}
        PROVE  view[n][d].state \notin Converting /\ (view[n][d].state \in Serving => n < d)
    <3>1. d \in Node /\ v[d] = view[n][d] /\ view[n][d].status = "alive"
      BY <1>1 DEF StillRunning
    <3>2. d \in AliveMembers(v)
      BY <3>1 DEF AliveMembers
    <3>3. v[d].state \notin ChangesEtcd
      BY <2>1, <3>2 DEF EtcdMembershipChanging
    <3>4. view[n][d].state \in Serving => n < d
      <4> HAVE view[n][d].state \in Serving
      <4>1. d \in StableServers(v)
        BY <3>1, <3>2, <3>3 DEF StableServers, AliveIn, Serving, ChangesEtcd
      <4>2. StableServers(v) \in SUBSET Nat /\ StableServers(v) # {}
        BY <4>1, DaemonAssumption DEF StableServers, AliveIn, AliveMembers
      <4>3. n <= d
        BY <2>1, <4>1, <4>2, MinIsLowest DEF IsRescaleCoordinator
      <4> QED
        BY <1>1, <4>3
    <3> QED
      BY <3>1, <3>3, <3>4 DEF Converting, ChangesEtcd
  <2>7. Preparing(n)'
    BY <2>1, <2>2 DEF Preparing
  <2>8. Decides(n)
    BY <1>4, <2>1, <2>2, <2>3, <2>5, <2>6, <2>7 DEF Decides, Due, Serving
  <2> QED
    BY <1>2, <1>3, <2>8 DEF Progresses
<1> QED
  BY <1>5, <1>6, <1>7 DEF Evaluates

LEMMA EvaluationsProgress ==
  ASSUME AllOrderly, StillRunning, NoneCondemned, NEW n \in Node,
         OnRescaleCheck(n) \/ OnMembershipEvent(n)
  PROVE  Progresses(n)
<1>1. /\ n \in up /\ rescale[n] \in RescaleProgress /\ DOMAIN view[n] = Node
      /\ UNCHANGED <<up, view, orders>>
  BY DEF OnRescaleCheck, OnMembershipEvent, Running, Unmoved, AllOrderly, RescaleInv, TypeOK, DaemonTypeOK
<1>2. PICK p \in RescaleProgress :
        /\ MaybeRescale(n, state[n], view[n], p, ops[n])
        /\ p.clock = rescale[n].clock /\ p.imbalance = rescale[n].imbalance
        /\ p.order = rescale[n].order /\ p.evicting = rescale[n].evicting
  <2> DEFINE p == [rescale[n] EXCEPT !.timer = FALSE]
  <2>1. /\ p \in RescaleProgress
        /\ p.clock = rescale[n].clock /\ p.imbalance = rescale[n].imbalance
        /\ p.order = rescale[n].order /\ p.evicting = rescale[n].evicting
    BY <1>1 DEF RescaleProgress
  <2>2. CASE OnRescaleCheck(n)
    BY <2>1, <2>2 DEF OnRescaleCheck
  <2>3. CASE OnMembershipEvent(n)
    BY <1>1, <2>3 DEF OnMembershipEvent
  <2> QED
    BY <2>2, <2>3
<1> DEFINE v == [view[n] EXCEPT ![n] = AliveAs(state[n])]
<1>3. Evaluates(n, state[n], v, p, ops[n])
  BY <1>1, <1>2, MaybeRescaleEvaluates DEF AllOrderly
<1>4. /\ DOMAIN v = Node /\ v[n] = AliveAs(state[n])
      /\ \A d \in up \ {n} : v[d] = view[n][d]
  BY <1>1 DEF StillRunning
<1> HIDE DEF v
<1> QED
  BY <1>1, <1>2, <1>3, <1>4, EvaluationProgresses

\* A machine with an operation runs, and the operation is of its round or of its
\* conversion.
LEMMA WorkersRun ==
  ASSUME AllOrderly, StillRunning, NEW n \in Node, NEW op \in ops[n]
  PROVE  /\ n \in up /\ state[n] # "rejoin_cluster"
         /\ ops[n] = {op} /\ state[n] = StateOfOp(op.kind)
<1>1. ops[n] = {op} /\ state[n] = StateOfOp(op.kind)
  BY OperationAlone
<1>2. state[n] # "starting"
  BY OperationAlone DEF Converting
<1>3. n \in up
  BY <1>2 DEF StillRunning
<1>4. state[n] \in {"stable_agent", "rescale_failed"} \cup Serving \cup Converting
  BY <1>3 DEF StillRunning
<1> QED
  BY <1>1, <1>3, <1>4 DEF Serving, Converting

\* The goroutine of n goes on.
LEMMA WorkProgresses ==
  ASSUME AllOrderly, StillRunning, NoneCondemned, NEW n \in Node, NEW op \in ops[n], WorksOn(n, op)
  PROVE  Progresses(n)
<1>1. n \in up
  BY WorkersRun
<1>2. UNCHANGED <<up, state, view, rescale, orders>>
  BY DEF WorksOn, GoesOn, DeleteNodes, FailRound, Uninstall, Reinstall, WaitWithoutQuorum,
         ConversionFrame, rescaleVars
<1>3. Alone(n)
  BY <1>1, <1>2 DEF Alone
<1>4. NoDeadline(n)
  BY <1>1, <1>2 DEF NoDeadline, NoneCondemned
<1>5. Quiet(n)
  BY <1>2 DEF Quiet, Preparing
<1> QED
  BY <1>3, <1>4, <1>5 DEF Progresses

\* A machine of n leaves its round with another progress.
LEMMA LeavesAlone ==
  ASSUME AllOrderly, StillRunning, NoneCondemned, NEW n \in up, NEW s, NEW r, NEW running,
         Leaves(n, s, r, running), UNCHANGED <<up, view>>,
         r.clock = rescale[n].clock, r.evicting \subseteq rescale[n].evicting,
         r.imbalance \in {"off", rescale[n].imbalance}
  PROVE  /\ Alone(n) /\ NoDeadline(n) /\ state'[n] = s /\ rescale'[n] = r
<1>1. n \in Node
  BY DEF StillRunning
<1>2. OthersStay(n) /\ state'[n] = s /\ rescale'[n] = r
  BY <1>1, LeavesChanges DEF AllOrderly
<1>3. Alone(n)
  BY <1>2 DEF Alone, OthersStay
<1>4. NoDeadline(n)
  BY <1>2 DEF NoDeadline, NoneCondemned
<1> QED
  BY <1>2, <1>3, <1>4

\* A round ends.
LEMMA RoundEndProgresses ==
  ASSUME AllOrderly, StillRunning, NoneCondemned, NEW n \in Node, NEW op \in ops[n],
         FinishEviction(n, op) \/ FinishConversion(n, op) \/ AbandonRound(n, op)
  PROVE  Progresses(n)
<1>1. /\ n \in up /\ up \subseteq Node /\ rescale[n] \in RescaleProgress /\ DOMAIN view[n] = Node
      /\ orders \in [Node -> SUBSET Order] /\ ops[n] \ {op} = {}
      /\ state[n] = "rescale_coordinating"
  BY WorkersRun DEF FinishEviction, FinishConversion, AbandonRound, RoundEnds, StillRunning,
     AllOrderly, RescaleInv, TypeOK, DaemonTypeOK
<1>2. CASE FinishEviction(n, op)
  <2> DEFINE p == [rescale[n] EXCEPT !.evicting = {}]
             v == [view'[n] EXCEPT ![n] = AliveAs("stable_server")]
  <2>1. /\ p \in RescaleProgress
        /\ p.clock = rescale[n].clock /\ p.imbalance = rescale[n].imbalance
        /\ p.order = rescale[n].order /\ p.evicting = {}
    BY <1>1 DEF RescaleProgress
  <2>2. \A k, m \in up : k # m => view'[k][m] = view[k][m]
    <3>1. PICK kept : view' = [x \in Node |-> [m \in Node |->
                    IF /\ m \in rescale[n].evicting \ kept
                       /\ x = n \/ (PromptRemovals /\ Hears(n, x))
                    THEN Absent ELSE view[x][m]]]
      BY <1>2 DEF FinishEviction
    <3>2. \A m \in up : m \notin rescale[n].evicting
      BY <1>1 DEF NoneCondemned
    <3> QED
      BY <1>1, <3>1, <3>2
  <2>3. DOMAIN view'[n] = Node
    BY <1>2 DEF FinishEviction
  <2>4. /\ MaybeRescale(n, "stable_server", view'[n], p, ops[n] \ {op})
        /\ UNCHANGED <<up, orders>> /\ rescale[n].order = None
    BY <1>2 DEF FinishEviction, RoundFrame
  <2> HIDE DEF p
  <2>5. Evaluates(n, "stable_server", v, p, ops[n] \ {op})
    BY <2>1, <2>3, <2>4, MaybeRescaleEvaluates DEF AllOrderly
  <2>6. /\ DOMAIN v = Node /\ v[n] = AliveAs("stable_server")
        /\ \A d \in up \ {n} : v[d] = view[n][d]
    BY <1>1, <2>2, <2>3
  <2> HIDE DEF v
  <2> QED
    BY <1>1, <2>1, <2>2, <2>4, <2>5, <2>6, EvaluationProgresses
<1>3. CASE FinishConversion(n, op)
  <2> DEFINE order == rescale[n].order
             sent == [rescale[n] EXCEPT !.order = None, !.timer = TRUE]
  <2>1. /\ sent.clock = rescale[n].clock /\ sent.imbalance = rescale[n].imbalance
        /\ sent.order = None /\ sent.evicting = rescale[n].evicting
        /\ Abandoned(rescale[n]).clock = rescale[n].clock
        /\ Abandoned(rescale[n]).imbalance = "off" /\ Abandoned(rescale[n]).evicting = {}
    BY <1>1 DEF RescaleProgress, Abandoned
  <2>2. UNCHANGED <<up, view>> /\ Preparing(n)
    BY <1>1, <1>3 DEF FinishConversion, RoundFrame, Preparing
  <2>3. \/ /\ orders' = IF Hears(n, order.target)
                        THEN [orders EXCEPT ![order.target] = @ \cup {order}] ELSE orders
           /\ Leaves(n, "stable_server", sent, ops[n] \ {op})
        \/ /\ Leaves(n, "stable_server", Abandoned(rescale[n]), ops[n] \ {op})
           /\ UNCHANGED orders
    BY <1>3, ZenonT(60) DEF FinishConversion
  <2> HIDE DEF sent
  <2>4. Alone(n) /\ NoDeadline(n) /\ state'[n] = "stable_server"
    BY <1>1, <2>1, <2>2, <2>3, LeavesAlone
  <2>5. \/ orders' = orders
        \/ /\ orders' = [orders EXCEPT ![order.target] = @ \cup {order}]
           /\ order.target \in up
    BY <2>3 DEF Hears
  <2>6. Dispatches(n)
    BY <2>2, <2>4, <2>5 DEF Dispatches, Preparing, Serving
  <2> QED
    BY <2>4, <2>6 DEF Progresses
<1>4. CASE AbandonRound(n, op)
  <2>1. /\ Abandoned(rescale[n]).clock = rescale[n].clock
        /\ Abandoned(rescale[n]).imbalance = "off" /\ Abandoned(rescale[n]).evicting = {}
    BY <1>1 DEF RescaleProgress, Abandoned
  <2>2. /\ UNCHANGED <<up, view, orders>>
        /\ Leaves(n, "stable_server", Abandoned(rescale[n]), ops[n] \ {op})
    BY <1>4 DEF AbandonRound, RoundFrame
  <2>3. Alone(n) /\ NoDeadline(n) /\ state'[n] = "stable_server"
    BY <1>1, <2>1, <2>2, LeavesAlone
  <2>4. CASE Preparing(n)
    BY <2>2, <2>3, <2>4 DEF Progresses, Dispatches, Preparing, Serving
  <2>5. CASE ~Preparing(n)
    BY <1>1, <2>2, <2>3, <2>5 DEF Progresses, Quiet, Preparing, Serving, Converting
  <2> QED
    BY <2>4, <2>5
<1> QED
  BY <1>2, <1>3, <1>4

\* A conversion ends.
LEMMA ConversionEndProgresses ==
  ASSUME AllOrderly, StillRunning, NoneCondemned, NEW n \in Node, NEW op \in ops[n],
         OnRescaleConverted(n, op) \/ FailRescale(n, op)
  PROVE  Progresses(n)
<1>1. /\ n \in up /\ state[n] \in Converting /\ UNCHANGED <<up, view, orders>>
  BY WorkersRun DEF OnRescaleConverted, FailRescale, Unmoved, Converting
<1>2. state \in [Node -> State] /\ rescale \in [Node -> RescaleProgress]
  BY DEF AllOrderly, RescaleInv, TypeOK, DaemonTypeOK
<1>3. rescale[n].order \in Order
  <2>1. rescale[n].order # None /\ rescale[n] \in RescaleProgress
    BY <1>1, <1>2 DEF AllOrderly, RescaleInv, ConversionsKeepTheirOrder, Converting
  <2> QED
    BY <2>1 DEF RescaleProgress
<1>4. /\ \A m \in Node \ {n} : state'[m] = state[m] /\ rescale'[m] = rescale[m]
      /\ rescale'[n].clock = rescale[n].clock /\ rescale'[n].imbalance = rescale[n].imbalance
      /\ rescale'[n].evicting = rescale[n].evicting
  <2>1. CASE OnRescaleConverted(n, op)
    BY <1>2, <2>1 DEF OnRescaleConverted, BecomeStable, Transition, RescaleProgress
  <2>2. CASE FailRescale(n, op)
    BY <1>2, <2>2 DEF FailRescale, Transition, RescaleProgress
  <2> QED
    BY <2>1, <2>2
<1>5. state'[n] \in {"stable_server", "stable_agent", "rescale_failed"}
  <2>1. CASE OnRescaleConverted(n, op)
    BY <1>2, <2>1 DEF OnRescaleConverted, BecomeStable, Transition, StableState
  <2>2. CASE FailRescale(n, op)
    BY <1>2, <2>2 DEF FailRescale, Transition
  <2> QED
    BY <2>1, <2>2
<1>6. Alone(n)
  BY <1>1, <1>4 DEF Alone
<1>7. NoDeadline(n)
  BY <1>1, <1>4 DEF NoDeadline, NoneCondemned
<1> QED
  BY <1>1, <1>4, <1>5, <1>6, <1>7 DEF Progresses, IsDone

\* An order is obeyed, ignored or lost.
LEMMA OrderProgresses ==
  ASSUME AllOrderly, StillRunning, NoneCondemned, NEW n \in Node, NEW order \in orders[n],
         OnRescaleConvert(n, order) \/ LoseOrder(n, order)
  PROVE  Progresses(n)
<1>1. /\ n \in up /\ UNCHANGED <<up, view>> /\ orders' = [orders EXCEPT ![n] = @ \ {order}]
  BY DEF StillRunning, OnRescaleConvert, LoseOrder, Unmoved
<1>2. /\ state \in [Node -> State] /\ rescale \in [Node -> RescaleProgress] /\ order \in Order
  BY DEF AllOrderly, RescaleInv, TypeOK, DaemonTypeOK
<1>3. CASE UNCHANGED <<state, rescale>>
  <2>1. Alone(n) /\ NoDeadline(n) /\ Drops(n, order)
    BY <1>1, <1>3 DEF Alone, NoDeadline, NoneCondemned, Drops
  <2> QED
    BY <2>1 DEF Progresses
<1>4. CASE /\ MayConvert(state[n], order.role)
           /\ rescale' = [rescale EXCEPT ![n].order = order]
           /\ StartOperation(n, ConversionKind(order.role), order.via, ConversionState(order.role))
  <2>1. /\ \A m \in Node \ {n} : state'[m] = state[m] /\ rescale'[m] = rescale[m]
        /\ rescale'[n].clock = rescale[n].clock /\ rescale'[n].imbalance = rescale[n].imbalance
        /\ rescale'[n].evicting = rescale[n].evicting /\ rescale'[n].order = order
        /\ state'[n] = ConversionState(order.role)
    BY <1>2, <1>4 DEF StartOperation, Transition, RescaleProgress
  <2>2. state'[n] \in Converting /\ state[n] \in {"stable_agent", "stable_server"}
    BY <1>4, <2>1 DEF ConversionState, Converting, MayConvert, StableState
  <2>3. Alone(n) /\ NoDeadline(n)
    BY <1>1, <2>1 DEF Alone, NoDeadline, NoneCondemned
  <2> QED
    BY <1>1, <2>1, <2>2, <2>3 DEF Progresses, Obeys
<1> QED
  BY <1>3, <1>4 DEF OnRescaleConvert, LoseOrder

\* A delay ends: no machine that runs has been away for the grace period, and
\* everybody is informed when the settle delay is over.
LEMMA TimeProgresses ==
  ASSUME NothingStops, AllOrderly, StillRunning, NoneCondemned, NEW n \in Node, TimeStep(n)
  PROVE  n \in up /\ (Progresses(n) \/ Settles(n))
<1>1. /\ n \in up /\ up \subseteq Node /\ UNCHANGED <<up, view, state, orders>>
  BY DEF TimeStep, SettleEnds, HoldEnds, GraceEnds, Advance, allVars, vars, daemonVars, StillRunning
<1>2. rescale \in [Node -> RescaleProgress] /\ rescale[n] \in RescaleProgress
  BY DEF AllOrderly, RescaleInv
<1>3. CASE SettleEnds(n)
  BY <1>1, <1>3 DEF SettleEnds, Settles, Advance, NothingStops
<1>4. CASE HoldEnds(n) \/ \E m \in Node : GraceEnds(n, m)
  <2>1. /\ \A m \in Node \ {n} : rescale'[m] = rescale[m]
        /\ rescale'[n].imbalance = rescale[n].imbalance
        /\ rescale'[n].evicting = rescale[n].evicting
        /\ rescale'[n].order = rescale[n].order
        /\ \A m \in up : rescale'[n].clock[m] = rescale[n].clock[m]
    <3>1. CASE HoldEnds(n)
      BY <1>2, <3>1 DEF HoldEnds, Advance, RescaleProgress
    <3>2. ASSUME NEW m \in Node, GraceEnds(n, m)
          PROVE  /\ rescale' = [rescale EXCEPT ![n] = [rescale[n] EXCEPT !.clock[m] = "elapsed"]]
                 /\ m \notin up
      BY <3>2 DEF GraceEnds, Advance, NothingStops
    <3>3. CASE \E m \in Node : GraceEnds(n, m)
      <4>1. PICK m \in Node : GraceEnds(n, m)
        BY <3>3
      <4>2. PICK r : /\ r = [rescale[n] EXCEPT !.clock[m] = "elapsed"]
                     /\ rescale' = [rescale EXCEPT ![n] = r] /\ m \notin up
        BY <3>2, <4>1
      <4>3. /\ r.imbalance = rescale[n].imbalance /\ r.evicting = rescale[n].evicting
            /\ r.order = rescale[n].order
            /\ \A k \in up : r.clock[k] = rescale[n].clock[k]
        BY <1>2, <4>2 DEF RescaleProgress
      <4> QED
        BY <1>2, <4>2, <4>3
    <3> QED
      BY <1>4, <3>1, <3>3
  <2>2. Alone(n) /\ NoDeadline(n)
    BY <1>1, <2>1 DEF Alone, NoDeadline, NoneCondemned
  <2>3. Quiet(n)
    BY <1>1, <2>1 DEF Quiet, Preparing
  <2> QED
    BY <1>1, <2>2, <2>3 DEF Progresses
<1> QED
  BY <1>3, <1>4 DEF TimeStep

\* Nothing happens to the machines that run.
Idle == UNCHANGED <<up, state, view, rescale, orders>>

LEMMA SettledProgresses ==
  ASSUME NothingStops, AllOrderly, StillRunning, NoneCondemned, NEW n \in Node, SettledStep(n)
  PROVE  Idle \/ (n \in up /\ (Progresses(n) \/ Settles(n)))
<1>1. CASE TimeStep(n)
  BY <1>1, TimeProgresses
<1>2. ASSUME NEW op \in ops[n], WorksOn(n, op) PROVE n \in up /\ Progresses(n)
  BY <1>2, WorkProgresses, WorkersRun
<1>3. ASSUME NEW op \in ops[n], EndsWith(n, op) PROVE n \in up /\ Progresses(n)
  <2>1. ~RejoinStep(n, op)
    BY WorkersRun DEF RejoinStep, OnRejoinReady, FailRejoin
  <2> QED
    BY <1>3, <2>1, RoundEndProgresses, ConversionEndProgresses, WorkersRun DEF EndsWith
<1>4. ASSUME NEW order \in orders[n], OnRescaleConvert(n, order) \/ LoseOrder(n, order)
      PROVE  Progresses(n)
  BY <1>4, OrderProgresses
<1>5. ~StopAndForgetAll(n)
  BY DEF StopAndForgetAll, CrashAndForgetAll, CrashAndForget, Crash, Fault, NothingStops
<1>6. CASE (RestartK3s(n) /\ UNCHANGED rescaleVars) \/ DropEvent(n)
  BY <1>6 DEF RestartK3s, DropEvent, Idle, vars, daemonVars, rescaleVars
<1>7. CASE OnRescaleCheck(n) \/ OnMembershipEvent(n)
  BY <1>7, EvaluationsProgress DEF Progresses, Alone
<1>8. Progresses(n) => n \in up
  BY DEF Progresses, Alone
<1> QED
  BY <1>1, <1>2, <1>3, <1>4, <1>5, <1>6, <1>7, <1>8 DEF SettledStep

----------------------------------------------------------------------------
(* Calm lasts *)

LEMMA NetworkInforms ==
  ASSUME NothingStops, AllOrderly, StillRunning, Surroundings, UNCHANGED rescaleVars
  PROVE  \E n, m \in Node : Informs(n, m)
<1>1. /\ Environment /\ up' \subseteq up \cup Returning \cup (Node \ gone)
      /\ view \in [Node -> [Node -> Member]] /\ up \subseteq Node
      /\ UNCHANGED <<rescale, orders>>
  BY DEF Surroundings, AllOrderly, RescaleInv, TypeOK, DaemonTypeOK, rescaleVars
<1>2. ASSUME NEW n \in Node, NEW m \in Node, Learn(n, m) PROVE Informs(n, m)
  BY <1>1, <1>2 DEF Learn, Informs
<1>3. ASSUME NEW n \in Node, NEW m \in Node, DetectFailure(n, m) PROVE Informs(n, m)
  BY <1>1, <1>3 DEF DetectFailure, Informs
<1>4. \A n, m \in Node : ~Suspect(n, m)
  BY DEF Suspect, Fault, NothingStops
<1>5. \A n \in Node, event \in EventName : ~Lose(n, event)
  BY DEF Lose, AllOrderly, InOrder, PastFirstBoot
<1>6. \A n \in Node : ~PowerOn(n)
  BY <1>1 DEF PowerOn, StillRunning, NothingStops
<1>7. \A n \in Node : ~ChooseInitialState(n)
  BY DEF ChooseInitialState, StillRunning, Serving, Converting
<1> QED
  BY <1>1, <1>2, <1>3, <1>4, <1>5, <1>6, <1>7 DEF Environment

\* A removal tells nothing about the machines that run.
LEMMA RemovalInforms ==
  ASSUME AllOrderly, NEW n \in Node, NEW m \in Node, Prune(n, m)
  PROVE  Informs(n, m)
<1>1. view \in [Node -> [Node -> Member]] /\ up \subseteq Node
  BY DEF AllOrderly, RescaleInv, TypeOK, DaemonTypeOK
<1> QED
  BY <1>1 DEF Prune, Informs, rescaleVars

LEMMA InformKeepsRunning ==
  ASSUME StillRunning, NoneCondemned, gone \subseteq gone',
         NEW n, NEW m, Informs(n, m)
  PROVE  StillRunning' /\ NoneCondemned'
<1>1. \A k, j \in up : k # j => view'[k][j].status = "alive"
  <2>1. \A j : AliveAs(state[j]).status = "alive"
    BY DEF AliveAs
  <2> QED
    BY <2>1 DEF Informs, StillRunning
<1> QED
  BY <1>1 DEF Informs, StillRunning, NoneCondemned

LEMMA SettleKeepsRunning ==
  ASSUME AllOrderly, StillRunning, NoneCondemned, gone \subseteq gone',
         NEW n \in Node, Settles(n)
  PROVE  StillRunning' /\ NoneCondemned'
<1>1. UNCHANGED <<up, state, view, orders>> /\ up \subseteq Node
  BY DEF Settles, allVars, vars, daemonVars, StillRunning
<1>2. \A m \in Node : /\ rescale'[m].clock = rescale[m].clock
                      /\ rescale'[m].evicting = rescale[m].evicting
  <2>1. rescale \in [Node -> RescaleProgress]
    BY DEF AllOrderly, RescaleInv
  <2> QED
    BY <2>1 DEF Settles, RescaleProgress
<1> QED
  BY <1>1, <1>2 DEF StillRunning, NoneCondemned

LEMMA IdleInforms ==
  ASSUME Idle, NEW n
  PROVE  Informs(n, n)
BY DEF Idle, Informs

LEMMA NextIsCalm ==
  ASSUME NothingStops
  PROVE  Calm /\ [RescaleNext]_everyVar => Calm'
<1> SUFFICES ASSUME Calm, [RescaleNext]_everyVar PROVE Calm'
  OBVIOUS
<1>1. AllOrderly /\ StillRunning /\ NoneCondemned /\ InTurn
  BY DEF Calm
<1>2. AllOrderly'
  BY <1>1, NextInOrder
<1>3. gone \subseteq gone'
  BY DEF RescaleNext, Consequences, everyVar
<1>4. ASSUME NEW n, NEW m, Informs(n, m) PROVE Calm'
  BY <1>1, <1>2, <1>3, <1>4, InformInTurn, InformKeepsRunning DEF Calm
<1>5. ASSUME NEW n \in Node, n \in up, Progresses(n) \/ Settles(n) PROVE Calm'
  <2>1. CASE Progresses(n)
    BY <1>1, <1>2, <1>3, <2>1, ProgressInTurn, ProgressKeepsRunning DEF Calm
  <2>2. CASE Settles(n)
    <3>1. rescale \in [Node -> RescaleProgress]
      BY <1>1 DEF AllOrderly, RescaleInv
    <3> QED
      BY <1>1, <1>2, <1>3, <1>5, <2>2, <3>1, SettleInTurn, SettleKeepsRunning DEF Calm
  <2> QED
    BY <1>5, <2>1, <2>2
<1>6. CASE Surroundings /\ UNCHANGED rescaleVars
  BY <1>1, <1>4, <1>6, NetworkInforms
<1>7. ASSUME NEW n \in Node,
             \/ TimeStep(n) \/ WorkStep(n) \/ ResultOfWork(n) \/ EventStep(n) \/ FaultStep(n)
             \/ OnRescaleCheck(n) \/ OnMembershipEvent(n) \/ DropEvent(n)
      PROVE  Calm'
  <2>1. SettledStep(n)
    BY <1>1, <1>7, OnlySettledSteps
  <2> QED
    BY <1>1, <1>4, <1>5, <2>1, SettledProgresses, IdleInforms
<1>8. ASSUME NEW n \in Node, NEW m \in Node, Prune(n, m) PROVE Calm'
  BY <1>1, <1>4, <1>8, RemovalInforms
<1>9. CASE UNCHANGED everyVar
  <2>1. Idle
    BY <1>9 DEF Idle, everyVar, allVars, vars, daemonVars, rescaleVars
  <2> QED
    BY <1>4, <2>1, IdleInforms
<1> QED
  BY <1>1, <1>6, <1>7, <1>8, <1>9, NobodyPressesButtons DEF RescaleNext

LEMMA InitIsCalm ==
  ASSUME NothingStops, RescaleInit
  PROVE  Calm
<1>1. AllOrderly
  BY InitInOrder DEF NothingStops
<1>2. Late = {} /\ Settled = Node
  BY RescaleAssumption, DaemonAssumption DEF NothingStops, SettledNetwork, Settled
<1>3. /\ up = Node \ Absentees /\ gone = Absentees
      /\ orders = [n \in Node |-> {}] /\ rescale = [n \in Node |-> NotRescaling]
      /\ \A n \in Node : IF n \in up THEN state[n] \in {"stable_server", "stable_agent"}
                                     ELSE state[n] = "starting"
  BY <1>2 DEF RescaleInit, StableState
<1>4. \A n, m \in up : n # m => view[n][m].status = "alive"
  <2>1. \A tag : AliveAs(tag).status = "alive"
    BY DEF AliveAs
  <2> QED
    BY <1>2, <1>3, <2>1 DEF RescaleInit
<1>5. StillRunning
  BY <1>3, <1>4 DEF StillRunning, Serving
<1>6. /\ \A n \in Node : rescale[n].imbalance = "off" /\ rescale[n].order = None
      /\ NoneCondemned
  BY <1>3 DEF NotRescaling, NoneCondemned
<1>7. Ranked /\ PreparesAtEase
  BY <1>3, <1>6 DEF Ranked, KnowsItsPlace, LeadsTheOthers, Due, PreparesAtEase
<1>8. OneOrder
  BY <1>3, <1>6 DEF OneOrder, NoOrderGiven, Preparing, Converting
<1> QED
  BY <1>1, <1>5, <1>6, <1>7, <1>8 DEF Calm, InTurn

\* While no machine stops, returns or is suspected, and orders and tags arrive
\* within the settle delay, two machines never change role together: whoever
\* could give a second order, the coordinator itself or a machine that takes its
\* turn, sees the first one prepared, or its target converting, or a lower
\* server (rescale.go:20).  Scripts, calls, broadcasts, orders and events may
\* fail or be lost.
THEOREM ConversionsExcludeEachOther ==
  ASSUME NothingStops
  PROVE  RescaleSpec => []OneConversionAtATime
<1>1. RescaleInit => Calm
  BY InitIsCalm
<1>2. Calm /\ [RescaleNext]_everyVar => Calm'
  BY NextIsCalm
<1>3. Calm => OneConversionAtATime
  <2>1. NoOrderGiven => OneConversionAtATime
    BY DEF NoOrderGiven, OneConversionAtATime, Converting
  <2>2. ASSUME NEW order \in Order, UnderWay(order) PROVE OneConversionAtATime
    <3>1. \A n \in Node \ {order.target} : state[n] \notin Converting
      BY <2>2 DEF UnderWay
    <3>2. UnderWay(order) => OneConversionAtATime
      BY <3>1 DEF OneConversionAtATime, Converting
    <3> QED
      BY <2>2, <3>2
  <2> QED
    BY <2>1, <2>2 DEF Calm, InTurn, OneOrder
<1> QED
  BY <1>1, <1>2, <1>3, PTL DEF RescaleSpec

----------------------------------------------------------------------------
(* No etcd member is torn down *)

\* m is ordered to change role, or is about to be: its deletion succeeded, its
\* order is delivered or its K3s is not uninstalled yet.
ToConvert(m) ==
  \/ orders[m] # {}
  \/ \E op \in ops[m] : Converts(op) /\ op.phase = "start"
  \/ \E n \in Node : \E op \in ops[n] :
       op.kind = "prepare" /\ op.phase \in {"wait", "ok"} /\ op.via = m

DeletedFirst == \A m \in up : ToConvert(m) => m \notin nodeObjects[TheCluster]
OnlyTheCluster == \A n \in Node : cluster[n] \in {None, TheCluster}
MembersAreRegistered == etcd[TheCluster] \subseteq nodeObjects[TheCluster]

Drained == Calm /\ DeletedFirst /\ OnlyTheCluster /\ MembersAreRegistered

\* No machine that runs registers, and none is to be converted that was not.
NobodyRegisters ==
  /\ up' = up
  /\ nodeObjects'[TheCluster] \cap up \subseteq nodeObjects[TheCluster]
  /\ \A m \in up : ToConvert(m)' => ToConvert(m)

LEMMA StaysDeleted ==
  ASSUME DeletedFirst, NobodyRegisters
  PROVE  DeletedFirst'
BY DEF DeletedFirst, NobodyRegisters

\* An operation that deleted nothing yet, and uninstalls nothing.
Harmless(op) ==
  /\ op.kind = "prepare" => op.phase \in {"start", "error"}
  /\ ~(Converts(op) /\ op.phase = "start")

\* The orders stay or leave, and the operations of n are old or harmless.
LEMMA HarmlessStep ==
  ASSUME DeletedFirst, up' = up, up \subseteq Node,
         nodeObjects'[TheCluster] \cap up \subseteq nodeObjects[TheCluster],
         \A m \in Node : orders'[m] \subseteq orders[m],
         NEW n \in Node, \A m \in Node \ {n} : ops'[m] = ops[m],
         \A new \in ops'[n] :
           \/ new \in ops[n] \/ Harmless(new)
           \/ \E op \in ops[n] : /\ op.kind = "prepare" /\ op.phase \in {"wait", "ok"}
                                 /\ new.kind = "prepare" /\ new.via = op.via
  PROVE  DeletedFirst'
<1>1. ASSUME NEW m \in up, ToConvert(m)' PROVE ToConvert(m)
  <2>1. CASE orders'[m] # {}
    BY <2>1 DEF ToConvert
  <2>2. ASSUME NEW new \in ops'[m], Converts(new), new.phase = "start" PROVE ToConvert(m)
    <3>1. new \in ops[m]
      BY <2>2 DEF Harmless, Converts
    <3> QED
      BY <2>2, <3>1 DEF ToConvert
  <2>3. ASSUME NEW k \in Node, NEW new \in ops'[k],
               new.kind = "prepare", new.phase \in {"wait", "ok"}, new.via = m
        PROVE  ToConvert(m)
    <3>1. \/ new \in ops[k]
          \/ \E op \in ops[k] : op.kind = "prepare" /\ op.phase \in {"wait", "ok"} /\ op.via = m
      BY <2>3 DEF Harmless
    <3> QED
      BY <2>3, <3>1 DEF ToConvert
  <2> QED
    BY <1>1, <2>1, <2>2, <2>3 DEF ToConvert
<1> QED
  BY <1>1, StaysDeleted DEF NobodyRegisters

\* The steps that register nobody.
LEMMA EvaluationDeletes ==
  ASSUME AllOrderly, DeletedFirst, NEW n \in Node, NEW s, NEW v, NEW p, NEW running,
         Evaluates(n, s, v, p, running), running \subseteq ops[n],
         UNCHANGED <<up, orders, nodeObjects>>
  PROVE  DeletedFirst'
<1>1. up \subseteq Node
  BY DEF AllOrderly, RescaleInv, TypeOK, DaemonTypeOK
<1>2. \A m \in Node \ {n} : ops'[m] = ops[m]
  BY DEF Evaluates, OthersStay
<1>3. \A target : Harmless(NewOp("prepare", target))
  BY DEF Harmless, NewOp, Converts
<1>4. Harmless(NewOp("evict", None))
  BY DEF Harmless, NewOp, Converts
<1>5. \A new \in ops'[n] : new \in ops[n] \/ Harmless(new)
  BY <1>3, <1>4 DEF Evaluates, StaysIn, StartsEvicting, StartsConverting
<1> QED
  BY <1>1, <1>2, <1>5, HarmlessStep

\* A round deletes the machine it is about to give an order to.
LEMMA WorkDeletes ==
  ASSUME Calm, DeletedFirst, OnlyTheCluster, NEW n \in Node, NEW op \in ops[n], WorksOn(n, op)
  PROVE  DeletedFirst'
<1>1. /\ up \subseteq Node /\ n \in up /\ ops \in [Node -> SUBSET Op] /\ op \in Op
      /\ nodeObjects \in [Node -> SUBSET Node] /\ orders \in [Node -> SUBSET Order]
      /\ TheCluster \in Node
      /\ ops[n] = {op} /\ state[n] = StateOfOp(op.kind) /\ KnowsTheDisk(n, op)
  <2>1. AllOrderly /\ StillRunning
    BY DEF Calm
  <2>2. /\ up \subseteq Node /\ ops \in [Node -> SUBSET Op]
        /\ nodeObjects \in [Node -> SUBSET Node] /\ orders \in [Node -> SUBSET Order]
    BY <2>1 DEF AllOrderly, RescaleInv, TypeOK, DaemonTypeOK, JoinTypeOK
  <2>3. Established \subseteq Nat /\ Established \subseteq Node /\ Established # {}
    BY DaemonAssumption, RescaleAssumption
  <2>4. TheCluster \in Node
    BY <2>3, MinIsLowest DEF TheCluster
  <2> QED
    BY <2>1, <2>2, <2>4, WorkersRun DEF AllOrderly, InOrder, WorksInOrder
<1>2. UNCHANGED <<up, state, orders>>
  BY DEF WorksOn, GoesOn, DeleteNodes, FailRound, Uninstall, Reinstall, WaitWithoutQuorum,
         ConversionFrame, rescaleVars
<1>3. ASSUME NEW phase, ops' = InPhase(n, op, phase)
      PROVE  /\ ops'[n] = {[kind |-> op.kind, via |-> op.via, phase |-> phase]}
             /\ \A m \in Node \ {n} : ops'[m] = ops[m]
  BY <1>1, <1>3 DEF InPhase
<1>4. ASSUME NEW phase \in {"wait", "ok", "error", "bare"}, ops' = InPhase(n, op, phase),
             nodeObjects'[TheCluster] \cap up \subseteq nodeObjects[TheCluster],
             op.kind = "prepare" => phase = "error" \/ op.phase \in {"wait", "ok"}
      PROVE  DeletedFirst'
  <2>1. PICK new : new = [kind |-> op.kind, via |-> op.via, phase |-> phase]
    OBVIOUS
  <2>2. ops'[n] = {new} /\ \A m \in Node \ {n} : ops'[m] = ops[m]
    BY <1>3, <1>4, <2>1
  <2>3. Harmless(new) \/ (op.kind = "prepare" /\ op.phase \in {"wait", "ok"}
                          /\ new.kind = "prepare" /\ new.via = op.via)
    BY <1>4, <2>1 DEF Harmless, Converts
  <2> QED
    BY <1>1, <1>2, <1>4, <2>2, <2>3, HarmlessStep
<1>5. CASE GoesOn(n, op)
  <2>1. PICK phase \in {"wait", "ok", "error"} :
          /\ ops' = InPhase(n, op, phase)
          /\ phase = "wait" => op.kind = "rejoin"
          /\ phase = "ok" => op.phase = "wait"
    BY <1>5 DEF GoesOn
  <2>2. nodeObjects' = nodeObjects
    BY <1>5 DEF GoesOn, joinVars, coordinatorVars
  <2> QED
    BY <1>4, <2>1, <2>2
<1>6. CASE DeleteNodes(n, op)
  <2>1. /\ ops' = InPhase(n, op, "ok") /\ op.kind \in Round
        /\ nodeObjects' = [nodeObjects EXCEPT ![cluster[n]] = @ \ Condemned(n, op)]
    BY <1>6 DEF DeleteNodes, Forgetting
  <2>2. nodeObjects'[TheCluster] \subseteq nodeObjects[TheCluster]
    BY <1>1, <2>1
  <2>3. CASE op.kind = "prepare"
    <3>1. cluster[n] = TheCluster
      <4>1. state[n] \in Serving
        BY <1>1, <2>3 DEF StateOfOp, Serving
      <4>2. cluster[n] # None
        BY <4>1 DEF Calm, AllOrderly, InOrder, HoldsItsRole
      <4> QED
        BY <4>2 DEF OnlyTheCluster
    <3>2. op.via \notin nodeObjects'[TheCluster]
      BY <1>1, <2>1, <2>3, <3>1 DEF Condemned
    <3>3. PICK new : new = [kind |-> op.kind, via |-> op.via, phase |-> "ok"]
      OBVIOUS
    <3>4. ops'[n] = {new} /\ \A m \in Node \ {n} : ops'[m] = ops[m]
      BY <1>3, <2>1, <3>3
    <3>5. new.kind = "prepare" /\ new.via = op.via /\ ~Converts(new)
      BY <2>3, <3>3 DEF Converts
    <3>6. ASSUME NEW m \in up, ToConvert(m)', m # op.via PROVE ToConvert(m)
      <4>1. CASE orders'[m] # {}
        BY <1>2, <4>1 DEF ToConvert
      <4>2. CASE \E o \in ops'[m] : Converts(o) /\ o.phase = "start"
        BY <1>1, <3>4, <3>5, <4>2 DEF ToConvert
      <4>3. CASE \E k \in Node : \E o \in ops'[k] :
                   o.kind = "prepare" /\ o.phase \in {"wait", "ok"} /\ o.via = m
        BY <3>4, <3>5, <3>6, <4>3 DEF ToConvert
      <4> QED
        BY <3>6, <4>1, <4>2, <4>3 DEF ToConvert
    <3> QED
      BY <1>2, <2>2, <3>2, <3>6 DEF DeletedFirst
  <2>4. CASE op.kind # "prepare"
    BY <1>4, <2>1, <2>2, <2>4
  <2> QED
    BY <2>3, <2>4
<1>7. CASE FailRound(n, op)
  <2>1. nodeObjects'[TheCluster] \subseteq nodeObjects[TheCluster]
    BY <1>1, <1>7 DEF FailRound, Forgetting
  <2> QED
    BY <1>4, <1>7, <2>1 DEF FailRound
<1>8. CASE Uninstall(n, op) \/ WaitWithoutQuorum(n, op)
  <2>1. /\ ops' = InPhase(n, op, "bare") \/ ops' = InPhase(n, op, "error")
        /\ op.kind = "prepare" => ops' = InPhase(n, op, "error")
        /\ nodeObjects' = nodeObjects
    BY <1>8 DEF Uninstall, WaitWithoutQuorum, Converts
  <2> QED
    BY <1>4, <2>1
<1>9. CASE Reinstall(n, op)
  <2>1. Converts(op) /\ op.phase = "bare" /\ state[n] \in Converting
    BY <1>1, <1>9 DEF Reinstall, KnowsTheDisk, StateOfOp, Converting, Converts
  <2>2. ~ToConvert(n)
    <3>1. PICK order \in Order : UnderWay(order)
      BY <2>1 DEF Calm, InTurn, OneOrder, NoOrderGiven
    <3>2. \A m \in Node : ~Preparing(m) /\ orders[m] = {}
      BY <2>1, <3>1 DEF UnderWay
    <3>3. ASSUME NEW k \in Node, NEW o \in ops[k], o.kind = "prepare" PROVE FALSE
      <4>1. /\ state[k] = StateOfOp(o.kind) /\ ObeysTheOrder(k, o)
        BY <3>3 DEF Calm, AllOrderly, InOrder, WorksInOrder
      <4> QED
        BY <3>2, <3>3, <4>1 DEF ObeysTheOrder, StateOfOp, Preparing
    <3> QED
      BY <1>1, <2>1, <3>2, <3>3 DEF ToConvert
  <2>3. \/ ops' = InPhase(n, op, "wait") \/ ops' = InPhase(n, op, "error")
    BY <1>9 DEF Reinstall
  <2>4. \A m \in Node \ {n} : m \in nodeObjects'[TheCluster] => m \in nodeObjects[TheCluster]
    BY <1>1, <1>9 DEF Reinstall
  <2>5. ASSUME NEW m \in up, ToConvert(m)' PROVE ToConvert(m)
    <3>1. PICK phase \in {"wait", "error"} : ops' = InPhase(n, op, phase)
      BY <2>3
    <3>2. PICK new : new = [kind |-> op.kind, via |-> op.via, phase |-> phase]
      OBVIOUS
    <3>3. ops'[n] = {new} /\ \A k \in Node \ {n} : ops'[k] = ops[k]
      BY <1>3, <3>1, <3>2
    <3>4. new.kind # "prepare" /\ new.phase # "start"
      BY <2>1, <3>2 DEF Converts
    <3>5. CASE orders'[m] # {}
      BY <1>2, <3>5 DEF ToConvert
    <3>6. CASE \E o \in ops'[m] : Converts(o) /\ o.phase = "start"
      BY <1>1, <3>3, <3>4, <3>6 DEF ToConvert
    <3>7. CASE \E k \in Node : \E o \in ops'[k] :
                 o.kind = "prepare" /\ o.phase \in {"wait", "ok"} /\ o.via = m
      BY <3>3, <3>4, <3>7 DEF ToConvert
    <3> QED
      BY <2>5, <3>5, <3>6, <3>7 DEF ToConvert
  <2> QED
    BY <1>1, <1>2, <2>2, <2>4, <2>5 DEF DeletedFirst
<1> QED
  BY <1>5, <1>6, <1>7, <1>8, <1>9 DEF WorksOn

\* An order leaves for a machine that is deleted; the results of the other
\* operations delete and register nobody.
LEMMA ResultDeletes ==
  ASSUME Calm, DeletedFirst, NEW n \in Node, NEW op \in ops[n], EndsWith(n, op)
  PROVE  DeletedFirst'
<1>1. /\ AllOrderly /\ StillRunning /\ up \subseteq Node /\ n \in up
      /\ ops \in [Node -> SUBSET Op] /\ orders \in [Node -> SUBSET Order]
      /\ DOMAIN view[n] = Node /\ rescale[n] \in RescaleProgress
      /\ ops[n] = {op} /\ state[n] # "rejoin_cluster"
  <2>1. AllOrderly /\ StillRunning
    BY DEF Calm
  <2> QED
    BY <2>1, WorkersRun DEF AllOrderly, RescaleInv, TypeOK, DaemonTypeOK
<1>2. ~RejoinStep(n, op)
  BY <1>1 DEF RejoinStep, OnRejoinReady, FailRejoin
<1>3. CASE FinishEviction(n, op)
  <2> DEFINE p == [rescale[n] EXCEPT !.evicting = {}]
  <2>1. /\ MaybeRescale(n, "stable_server", view'[n], p, ops[n] \ {op})
        /\ UNCHANGED <<up, orders, nodeObjects>> /\ DOMAIN view'[n] = Node
    BY <1>3 DEF FinishEviction, RoundFrame
  <2>2. p \in RescaleProgress
    BY <1>1 DEF RescaleProgress
  <2> HIDE DEF p
  <2>3. PICK v : Evaluates(n, "stable_server", v, p, ops[n] \ {op})
    BY <1>1, <2>1, <2>2, MaybeRescaleEvaluates DEF AllOrderly
  <2> QED
    BY <1>1, <2>1, <2>3, EvaluationDeletes
<1>4. CASE FinishConversion(n, op)
  <2> DEFINE order == rescale[n].order
  <2>1. /\ ops' = [ops EXCEPT ![n] = ops[n] \ {op}] /\ UNCHANGED <<up, nodeObjects>>
        /\ state[n] = "rescale_coordinating" /\ op.phase = "ok" /\ order # None
    BY <1>4 DEF FinishConversion, RoundFrame, RoundEnds, Leaves
  <2>2. op.kind = "prepare" /\ op.via = order.target
    <3>1. /\ ObeysTheOrder(n, op) /\ state[n] = StateOfOp(op.kind)
          /\ op.kind \in {"rejoin", "evict", "prepare", "promote", "demote"}
      BY <1>1 DEF AllOrderly, InOrder, WorksInOrder
    <3> QED
      BY <2>1, <3>1 DEF ObeysTheOrder, StateOfOp
  <2>3. ToConvert(order.target)
    BY <2>1, <2>2 DEF ToConvert
  <2>4. \A m \in Node : orders'[m] # {} => orders[m] # {} \/ m = order.target
    BY <1>1, <1>4 DEF FinishConversion
  <2>5. \A m \in Node : ops'[m] \subseteq ops[m]
    BY <1>1, <2>1
  <2>6. \A m \in up : ToConvert(m)' => ToConvert(m)
    BY <1>1, <2>3, <2>4, <2>5 DEF ToConvert
  <2> QED
    BY <2>1, <2>6, StaysDeleted DEF NobodyRegisters
<1>5. CASE AbandonRound(n, op) \/ OnRescaleConverted(n, op) \/ FailRescale(n, op)
  <2>1. /\ UNCHANGED <<up, orders, nodeObjects>>
        /\ ops' = [ops EXCEPT ![n] = ops[n] \ {op}]
    BY <1>5 DEF AbandonRound, OnRescaleConverted, FailRescale, RoundFrame, Leaves, Without, Unmoved,
                joinVars, coordinatorVars
  <2>2. /\ \A m \in Node \ {n} : ops'[m] = ops[m]
        /\ \A new \in ops'[n] : new \in ops[n]
    BY <1>1, <2>1
  <2> QED
    BY <1>1, <2>1, <2>2, HarmlessStep
<1> QED
  BY <1>2, <1>3, <1>4, <1>5 DEF EndsWith

\* The machine that obeys was deleted before it was given the order.
LEMMA OrderDeletes ==
  ASSUME AllOrderly, DeletedFirst, NEW n \in Node, NEW order \in orders[n],
         OnRescaleConvert(n, order) \/ LoseOrder(n, order)
  PROVE  DeletedFirst'
<1>1. /\ up \subseteq Node /\ ops \in [Node -> SUBSET Op] /\ orders \in [Node -> SUBSET Order]
      /\ order \in Order
  BY DEF AllOrderly, RescaleInv, TypeOK, DaemonTypeOK
<1>2. /\ UNCHANGED <<up, nodeObjects>> /\ orders' = [orders EXCEPT ![n] = @ \ {order}]
      /\ ToConvert(n)
  BY DEF OnRescaleConvert, LoseOrder, Unmoved, joinVars, coordinatorVars, ToConvert
<1>3. PICK new : /\ new.kind # "prepare"
                 /\ ops' = ops \/ ops' = [ops EXCEPT ![n] = @ \cup {new}]
  <2>1. NewOp(ConversionKind(order.role), order.via).kind # "prepare"
    BY DEF NewOp, ConversionKind
  <2> QED
    BY <2>1 DEF OnRescaleConvert, LoseOrder, StartOperation, Starting
<1>4. \A m \in Node \ {n} : ToConvert(m)' => ToConvert(m)
  BY <1>1, <1>2, <1>3 DEF ToConvert
<1> QED
  BY <1>1, <1>2, <1>4, StaysDeleted DEF NobodyRegisters

LEMMA SettledDeletes ==
  ASSUME NothingStops, Calm, DeletedFirst, OnlyTheCluster, NEW n \in Node, SettledStep(n)
  PROVE  DeletedFirst'
<1>1. /\ AllOrderly /\ StillRunning /\ up \subseteq Node
      /\ nodeObjects \in [Node -> SUBSET Node] /\ DOMAIN view[n] = Node
      /\ rescale[n] \in RescaleProgress
  BY DEF Calm, AllOrderly, RescaleInv, TypeOK, DaemonTypeOK, JoinTypeOK
<1>2. CASE TimeStep(n) \/ DropEvent(n) \/ (RestartK3s(n) /\ UNCHANGED rescaleVars)
  <2>1. UNCHANGED <<up, ops, orders>>
    BY <1>2 DEF TimeStep, SettleEnds, HoldEnds, GraceEnds, Advance, DropEvent, RestartK3s, allVars,
                vars, daemonVars, rescaleVars
  <2>2. nodeObjects'[TheCluster] \cap up \subseteq nodeObjects[TheCluster]
    <3>1. CASE RestartK3s(n)
      BY <1>1, <3>1 DEF RestartK3s
    <3>2. CASE TimeStep(n) \/ DropEvent(n)
      BY <3>2 DEF TimeStep, SettleEnds, HoldEnds, GraceEnds, Advance, DropEvent, allVars, joinVars,
                  coordinatorVars
    <3> QED
      BY <1>2, <3>1, <3>2
  <2> QED
    BY <1>1, <2>1, <2>2, HarmlessStep
<1>3. CASE OnRescaleCheck(n) \/ OnMembershipEvent(n)
  <2>1. PICK p \in RescaleProgress : MaybeRescale(n, state[n], view[n], p, ops[n])
    <3>1. [rescale[n] EXCEPT !.timer = FALSE] \in RescaleProgress
      BY <1>1 DEF RescaleProgress
    <3> QED
      BY <1>1, <1>3, <3>1 DEF OnRescaleCheck, OnMembershipEvent
  <2>2. PICK v : Evaluates(n, state[n], v, p, ops[n])
    BY <1>1, <2>1, MaybeRescaleEvaluates DEF AllOrderly
  <2>3. UNCHANGED <<up, orders, nodeObjects>>
    BY <1>3 DEF OnRescaleCheck, OnMembershipEvent, Unmoved, joinVars, coordinatorVars
  <2> QED
    BY <1>1, <2>2, <2>3, EvaluationDeletes
<1>4. ~StopAndForgetAll(n)
  BY DEF StopAndForgetAll, CrashAndForgetAll, CrashAndForget, Crash, Fault, NothingStops
<1> QED
  BY <1>1, <1>2, <1>3, <1>4, WorkDeletes, ResultDeletes, OrderDeletes DEF SettledStep

\* K3s is uninstalled and installed by the conversions only.
LEMMA OnlyConversionsMoveData ==
  ASSUME AllOrderly, [RescaleNext]_everyVar
  PROVE  \/ UNCHANGED diskVars
         \/ \E n \in Node : \E op \in ops[n] : Uninstall(n, op) \/ Reinstall(n, op)
<1>1. CASE Surroundings
  BY <1>1 DEF Surroundings, Environment, Learn, DetectFailure, Suspect, Lose, PowerOn,
              ChooseInitialState
<1>2. ASSUME NEW n \in Node, SettledStep(n)
      PROVE  UNCHANGED diskVars \/ \E op \in ops[n] : Uninstall(n, op) \/ Reinstall(n, op)
  <2>1. CASE TimeStep(n) \/ (RestartK3s(n) /\ UNCHANGED rescaleVars) \/ DropEvent(n)
    BY <2>1 DEF TimeStep, SettleEnds, HoldEnds, GraceEnds, Advance, DropEvent, RestartK3s, allVars,
                vars, daemonVars, diskVars
  <2>2. CASE StopAndForgetAll(n)
    BY <2>2 DEF StopAndForgetAll, CrashAndForgetAll, CrashAndForget, Crash
  <2>3. CASE OnRescaleCheck(n) \/ OnMembershipEvent(n)
    BY <2>3 DEF OnRescaleCheck, OnMembershipEvent, Unmoved
  <2>4. CASE \E order \in orders[n] : OnRescaleConvert(n, order) \/ LoseOrder(n, order)
    BY <2>4 DEF OnRescaleConvert, LoseOrder, Unmoved
  <2>5. ASSUME NEW op \in ops[n], WorksOn(n, op), ~Uninstall(n, op), ~Reinstall(n, op)
        PROVE  UNCHANGED diskVars
    BY <2>5 DEF WorksOn, GoesOn, DeleteNodes, FailRound, WaitWithoutQuorum
  <2>6. ASSUME NEW op \in ops[n], EndsWith(n, op) PROVE UNCHANGED diskVars
    BY <2>6 DEF EndsWith, RejoinStep, OnRejoinReady, FailRejoin, FinishEviction, FinishConversion,
                AbandonRound, OnRescaleConverted, FailRescale, RoundFrame, Unmoved
  <2> QED
    BY <1>2, <2>1, <2>2, <2>3, <2>4, <2>5, <2>6 DEF SettledStep
<1>3. CASE UNCHANGED everyVar
  BY <1>3 DEF everyVar, allVars, vars, daemonVars, diskVars
<1>4. ASSUME NEW n \in Node, NEW m \in Node, Prune(n, m) PROVE UNCHANGED diskVars
  BY <1>4 DEF Prune
<1> QED
  BY <1>1, <1>2, <1>3, <1>4, OnlySettledSteps, NobodyPressesButtons DEF RescaleNext

LEMMA DataStaysInTheCluster ==
  ASSUME AllOrderly, OnlyTheCluster, [RescaleNext]_everyVar
  PROVE  OnlyTheCluster'
<1>1. ops \in [Node -> SUBSET Op] /\ unit \in [Node -> InstalledUnit]
      /\ cluster \in [Node -> Node \cup {None}]
  BY DEF AllOrderly, RescaleInv, TypeOK, DaemonTypeOK
<1>2. CASE UNCHANGED diskVars
  BY <1>2 DEF OnlyTheCluster, diskVars
<1>3. ASSUME NEW n \in Node, NEW op \in ops[n], Uninstall(n, op) PROVE OnlyTheCluster'
  BY <1>1, <1>3 DEF OnlyTheCluster, Uninstall, diskVars
<1>4. ASSUME NEW n \in Node, NEW op \in ops[n], Reinstall(n, op) PROVE OnlyTheCluster'
  <2>1. CASE Admits(op.via) /\ cluster' = [cluster EXCEPT ![n] = cluster[op.via]]
    <3>1. op.via \in Node
      BY <2>1 DEF Admits, AllOrderly, RescaleInv, TypeOK, DaemonTypeOK
    <3> QED
      BY <1>1, <2>1, <3>1 DEF OnlyTheCluster
  <2>2. CASE UNCHANGED diskVars
    BY <1>2, <2>2
  <2> QED
    BY <1>4, <2>1, <2>2 DEF Reinstall
<1> QED
  BY <1>2, <1>3, <1>4, OnlyConversionsMoveData

LEMMA InitIsDrained ==
  ASSUME NothingStops, RescaleInit
  PROVE  Drained
<1>1. Calm
  BY InitIsCalm
<1>2. Established \subseteq Nat /\ Established \subseteq Node /\ Established # {}
  BY DaemonAssumption, RescaleAssumption
<1>3. TheCluster \in Node
  BY <1>2, MinIsLowest DEF TheCluster
<1>4. DeletedFirst
  BY DEF DeletedFirst, ToConvert, RescaleInit
<1>5. OnlyTheCluster
  BY DEF OnlyTheCluster, TheCluster, RescaleInit
<1>6. MembersAreRegistered
  BY <1>3 DEF MembersAreRegistered, TheCluster, RescaleInit, Settled
<1> QED
  BY <1>1, <1>4, <1>5, <1>6 DEF Drained

LEMMA NextIsDrained ==
  ASSUME NothingStops
  PROVE  Drained /\ [RescaleNext]_everyVar => Drained'
<1> SUFFICES ASSUME Drained, [RescaleNext]_everyVar PROVE Drained'
  OBVIOUS
<1>1. Calm /\ DeletedFirst /\ OnlyTheCluster /\ MembersAreRegistered /\ AllOrderly /\ StillRunning
  BY DEF Drained, Calm
<1>2. Calm'
  BY <1>1, NextIsCalm
<1>3. OnlyTheCluster'
  BY <1>1, DataStaysInTheCluster
<1>4. MembersAreRegistered'
  <2>1. TheCluster \in Node
    <3>1. Established \subseteq Nat /\ Established \subseteq Node /\ Established # {}
      BY DaemonAssumption, RescaleAssumption
    <3> QED
      BY <3>1, MinIsLowest DEF TheCluster
  <2>2. CASE UNCHANGED everyVar
    BY <1>1, <2>2 DEF MembersAreRegistered, everyVar, allVars, joinVars, coordinatorVars
  <2>3. ASSUME NEW handled, Consequences(handled) PROVE MembersAreRegistered'
    BY <2>1, <2>3 DEF Consequences, MembersAreRegistered
  <2> QED
    BY <2>2, <2>3 DEF RescaleNext
<1>5. DeletedFirst'
  <2>1. CASE Surroundings /\ UNCHANGED rescaleVars
    <3>1. PICK n, m \in Node : Informs(n, m)
      BY <1>1, <2>1, NetworkInforms
    <3>2. UNCHANGED <<up, state, orders>>
      BY <3>1 DEF Informs
    <3>3. ops' = ops
      <4>1. \A k \in Node : ~ChooseInitialState(k)
        BY <1>1 DEF ChooseInitialState, StillRunning, Serving, Converting
      <4> QED
        BY <2>1, <4>1 DEF Surroundings, Environment, Learn, DetectFailure, Suspect, Lose, PowerOn
    <3>4. nodeObjects' = nodeObjects
      BY <2>1 DEF Surroundings, joinVars, coordinatorVars
    <3> QED
      BY <1>1, <3>2, <3>3, <3>4 DEF DeletedFirst, ToConvert
  <2>2. ASSUME NEW n \in Node,
               \/ TimeStep(n) \/ WorkStep(n) \/ ResultOfWork(n) \/ EventStep(n) \/ FaultStep(n)
               \/ OnRescaleCheck(n) \/ OnMembershipEvent(n) \/ DropEvent(n)
        PROVE  DeletedFirst'
    BY <1>1, <2>2, OnlySettledSteps, SettledDeletes
  <2>3. ASSUME NEW n \in Node, NEW m \in Node, Prune(n, m) PROVE DeletedFirst'
    <3>1. UNCHANGED <<up, ops, orders, nodeObjects>>
      BY <2>3 DEF Prune, joinVars, rescaleVars
    <3> QED
      BY <1>1, <3>1 DEF DeletedFirst, ToConvert
  <2>4. CASE UNCHANGED everyVar
    <3>1. UNCHANGED <<up, ops, orders, nodeObjects>>
      BY <2>4 DEF everyVar, allVars, vars, daemonVars, joinVars, coordinatorVars, rescaleVars
    <3> QED
      BY <1>1, <3>1 DEF DeletedFirst, ToConvert
  <2> QED
    BY <1>1, <2>1, <2>2, <2>3, <2>4, NobodyPressesButtons DEF RescaleNext
<1> QED
  BY <1>2, <1>3, <1>4, <1>5 DEF Drained

\* While no machine stops, returns or is suspected, and orders and tags arrive
\* within the settle delay: a machine uninstalls its K3s server only after the
\* coordinator deleted it from the cluster, so that it is no etcd member any
\* more, and nothing registers it again between the two (rescale.go:375-376).
THEOREM TornDownAfterDeletion ==
  ASSUME NothingStops
  PROVE  RescaleSpec => MembersAreNotTornDown
<1>1. RescaleInit => Drained
  BY InitIsDrained
<1>2. Drained /\ [RescaleNext]_everyVar => Drained'
  BY NextIsDrained
<1>3. Drained /\ [RescaleNext]_everyVar =>
        [\A n \in Node : unit[n] = "server" /\ unit'[n] = "none" => n \notin etcd[cluster[n]]]_everyVar
  <2> SUFFICES ASSUME Drained, [RescaleNext]_everyVar,
                      NEW n \in Node, unit[n] = "server", unit'[n] = "none"
               PROVE  n \notin etcd[cluster[n]]
    OBVIOUS
  <2>1. AllOrderly /\ StillRunning /\ DeletedFirst /\ OnlyTheCluster /\ MembersAreRegistered
    BY DEF Drained, Calm
  <2>2. unit \in [Node -> InstalledUnit] /\ ops \in [Node -> SUBSET Op]
    BY <2>1 DEF AllOrderly, RescaleInv, TypeOK, DaemonTypeOK
  <2>3. \E k \in Node : \E op \in ops[k] : Uninstall(k, op) \/ Reinstall(k, op)
    BY <2>1, OnlyConversionsMoveData DEF diskVars
  <2> PICK m \in Node : \E op \in ops[m] : Uninstall(m, op) \/ Reinstall(m, op)
    BY <2>3
  <2> PICK op \in ops[m] : Uninstall(m, op) \/ Reinstall(m, op)
    OBVIOUS
  <2>4. \A o \in ops[m] : NewRole(o) # "none"
    BY DEF NewRole
  <2>5. n = m /\ Uninstall(n, op)
    BY <2>2, <2>4 DEF Uninstall, Reinstall, diskVars
  <2>6. ToConvert(n) /\ n \in up
    <3>1. op.phase = "start" /\ Converts(op) /\ op \in ops[n]
      BY <2>5 DEF Uninstall
    <3> QED
      BY <2>1, <3>1, WorkersRun DEF ToConvert
  <2>7. n \notin etcd[TheCluster]
    BY <2>1, <2>6 DEF DeletedFirst, MembersAreRegistered
  <2>8. cluster[n] = TheCluster
    BY <2>1 DEF AllOrderly, InOrder, HoldsItsRole, OnlyTheCluster
  <2> QED
    BY <2>7, <2>8
<1> QED
  BY <1>1, <1>2, <1>3, PTL DEF RescaleSpec, MembersAreNotTornDown

=============================================================================
