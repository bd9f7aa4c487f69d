---------------------------- MODULE RescaleProofs ----------------------------
(***************************************************************************)
(* Theorems about Rescale, for every set of machines, every kind and       *)
(* number of faults and every timing.                                      *)
(***************************************************************************)
EXTENDS Rescale, JoiningProofs

----------------------------------------------------------------------------
(* The progress of a machine *)

\* The part of RescaleTypeOK that the joining path knows nothing of.
RescaleVarsOK ==
  /\ rescale \in [Node -> RescaleProgress]
  /\ orders \in [Node -> SUBSET Order]
  /\ woken \subseteq up
  /\ etcd \in [Node -> SUBSET Node]
  /\ gone \subseteq Node
  /\ removals \in [Node -> SUBSET Node]

LEMMA RescaleTypeSplit == RescaleTypeOK <=> TypeOK /\ JoinTypeOK /\ RescaleVarsOK
BY JoiningTypeSplit DEF RescaleTypeOK, RescaleVarsOK

\* What every step preserves.
RescaleInv ==
  /\ TypeOK /\ JoinTypeOK
  /\ rescale \in [Node -> RescaleProgress]
  /\ orders \in [Node -> SUBSET Order]
  /\ ConversionsKeepTheirOrder

LEMMA ClockTyped ==
  ASSUME NEW v, NEW r \in RescaleProgress
  PROVE  /\ Tracked(r, v) \in RescaleProgress
         /\ Tracked(r, v).order = r.order /\ Tracked(r, v).evicting = r.evicting
<1>1. [m \in Node |-> IF m \notin FailedMembers(v) THEN "off"
                      ELSE IF r.clock[m] = "off" THEN "running" ELSE r.clock[m]] \in [Node -> Clock]
  <2>1. \A m \in Node : r.clock[m] \in Clock
    BY DEF RescaleProgress
  <2> QED
    BY <2>1 DEF Clock
<1> QED
  BY <1>1 DEF Tracked, RescaleProgress

LEMMA RescaleProgressTyped ==
  ASSUME NEW r \in RescaleProgress
  PROVE  /\ Reset(r) \in RescaleProgress
         /\ Forgotten(r) \in RescaleProgress
         /\ Abandoned(r) \in RescaleProgress
         /\ NotRescaling \in RescaleProgress
         /\ \A t \in BOOLEAN : [r EXCEPT !.timer = t] \in RescaleProgress
         /\ [r EXCEPT !.evicting = {}] \in RescaleProgress
         /\ \A names \in SUBSET Node : [Reset(r) EXCEPT !.evicting = names] \in RescaleProgress
         /\ \A order \in Order \cup {None} : [r EXCEPT !.order = order] \in RescaleProgress
         /\ \A order \in Order :
              [Reset(r) EXCEPT !.imbalance = "off", !.order = order] \in RescaleProgress
         /\ \A c \in Clock, t \in BOOLEAN :
              [r EXCEPT !.imbalance = c, !.timer = t] \in RescaleProgress
<1> USE DEF RescaleProgress
<1>1. Reset(r) \in RescaleProgress
  BY DEF Reset
<1>2. \A s \in RescaleProgress : [s EXCEPT !.imbalance = "off"] \in RescaleProgress
  BY DEF Clock
<1>3. \A s \in RescaleProgress, t \in BOOLEAN :
        [s EXCEPT !.timer = t] \in RescaleProgress /\ [s EXCEPT !.hold = t] \in RescaleProgress
  OBVIOUS
<1>4. \A s \in RescaleProgress, names \in SUBSET Node :
        [s EXCEPT !.evicting = names] \in RescaleProgress
  OBVIOUS
<1>5. \A s \in RescaleProgress, order \in Order \cup {None} :
        [s EXCEPT !.order = order] \in RescaleProgress
  OBVIOUS
<1>6. \A s \in RescaleProgress, c \in Clock : [s EXCEPT !.imbalance = c] \in RescaleProgress
  OBVIOUS
<1>7. NotRescaling \in RescaleProgress
  BY DEF NotRescaling, Clock
<1> HIDE DEF RescaleProgress
<1>8. Forgotten(r) \in RescaleProgress
  BY <1>1, <1>2, <1>3 DEF Forgotten
<1>9. Abandoned(r) \in RescaleProgress
  <2>1. [r EXCEPT !.order = None] \in RescaleProgress
    BY <1>5
  <2>2. [r EXCEPT !.order = None, !.evicting = {}] \in RescaleProgress
    BY <1>4, <2>1
  <2>3. [r EXCEPT !.order = None, !.evicting = {}, !.imbalance = "off"] \in RescaleProgress
    BY <1>2, <2>2
  <2>4. [r EXCEPT !.order = None, !.evicting = {}, !.imbalance = "off", !.hold = TRUE]
          \in RescaleProgress
    BY <1>3, <2>3
  <2> QED
    BY <1>3, <2>4 DEF Abandoned
<1> QED
  BY <1>1, <1>2, <1>3, <1>4, <1>5, <1>6, <1>7, <1>8, <1>9

LEMMA ConversionsAreOrders ==
  ASSUME NEW n \in Node, NEW v, DOMAIN v = Node
  PROVE  Conversions(n, v) \subseteq Order
<1>1. AliveMembers(v) \subseteq Node
  BY DEF AliveMembers
<1>2. PromotionTargets(v) \subseteq Node /\ DemotionTargets(v) \subseteq Node
  BY <1>1 DEF PromotionTargets, DemotionTargets, AliveIn, StableServers
<1>3. ASSUME NEW m \in Node, NEW role \in Role
      PROVE  [target |-> m, role |-> role, via |-> n] \in Order
  BY DEF Order
<1>4. "server" \in Role /\ "agent" \in Role
  BY DEF Role
<1> QED
  BY <1>2, <1>3, <1>4 DEF Conversions

LEMMA RoundOpsTyped ==
  ASSUME NEW running \in SUBSET Op
  PROVE  /\ running \cup {NewOp("evict", None)} \in SUBSET Op
         /\ \A m \in Node, kind \in {"prepare", "promote", "demote"} :
              running \cup {NewOp(kind, m)} \in SUBSET Op
BY DEF NewOp, Op, OpPhase

\* What an evaluation leaves: n goes on in the state it is in, or starts a round.
Evaluated(n, s, order) ==
  /\ state' \in [Node -> State] /\ ops' \in [Node -> SUBSET Op]
  /\ rescale' \in [Node -> RescaleProgress]
  /\ \A m \in Node \ {n} : state'[m] = state[m] /\ rescale'[m] = rescale[m]
  /\ state'[n] \in {s, "rescale_coordinating"}
  /\ s # "stable_server" => state'[n] = s /\ rescale'[n].order = order

LEMMA LeavesEvaluated ==
  ASSUME RescaleInv, NEW n \in Node, NEW s \in State, NEW to \in {s, "rescale_coordinating"},
         NEW r \in RescaleProgress, NEW running \in SUBSET Op, NEW order,
         s # "stable_server" => to = s /\ r.order = order,
         Leaves(n, to, r, running)
  PROVE  Evaluated(n, s, order)
BY JoiningStatesNamed DEF Leaves, Evaluated, RescaleInv, TypeOK, DaemonTypeOK

LEMMA ActsEvaluated ==
  ASSUME RescaleInv, NEW n \in Node, NEW s \in State, s = "stable_server",
         NEW v, DOMAIN v = Node, NEW r \in RescaleProgress, NEW running \in SUBSET Op, NEW order,
         ActAsCoordinator(n, s, v, r, running)
  PROVE  Evaluated(n, s, order)
<1>1. CASE StartsRound(n, [Reset(r) EXCEPT !.evicting = Evictable(r, v)], "evict", None, running)
  <2>1. Evictable(r, v) \in SUBSET Node
    BY DEF Evictable, FailedMembers
  <2> QED
    BY <1>1, <2>1, RescaleProgressTyped, RoundOpsTyped, LeavesEvaluated DEF StartsRound
<1>2. CASE Leaves(n, s, [r EXCEPT !.imbalance = "off", !.timer = FailedMembers(v) # {}], running)
  <2>1. [r EXCEPT !.imbalance = "off", !.timer = FailedMembers(v) # {}] \in RescaleProgress
    BY DEF RescaleProgress, Clock
  <2> QED
    BY <1>2, <2>1, LeavesEvaluated
<1>3. ASSUME NEW choice \in Conversions(n, v),
             StartsRound(n, [Reset(r) EXCEPT !.imbalance = "off", !.order = choice],
                         "prepare", choice.target, running)
      PROVE  Evaluated(n, s, order)
  <2>1. choice \in Order /\ choice.target \in Node
    BY ConversionsAreOrders DEF Order
  <2> QED
    BY <1>3, <2>1, RescaleProgressTyped, RoundOpsTyped, LeavesEvaluated DEF StartsRound
<1>4. CASE Leaves(n, s, [r EXCEPT !.imbalance = IF @ = "off" THEN "running" ELSE @,
                                  !.timer = TRUE], running)
  <2>1. [r EXCEPT !.imbalance = IF @ = "off" THEN "running" ELSE @, !.timer = TRUE]
          \in RescaleProgress
    BY DEF RescaleProgress, Clock
  <2> QED
    BY <1>4, <2>1, LeavesEvaluated
<1> QED
  BY <1>1, <1>2, <1>3, <1>4 DEF ActAsCoordinator

\* An evaluation keeps every record in shape, and touches neither the state nor
\* the order of a machine that is not stable.
LEMMA MaybeRescaleEvaluated ==
  ASSUME RescaleInv, NEW n \in Node, NEW s \in State, NEW seen \in [Node -> Member],
         NEW progress \in RescaleProgress, NEW running \in SUBSET Op,
         MaybeRescale(n, s, seen, progress, running)
  PROVE  Evaluated(n, s, progress.order)
<1> DEFINE v == [seen EXCEPT ![n] = AliveAs(s)]
           r == Tracked(progress, v)
<1>1. DOMAIN v = Node
  OBVIOUS
<1>2. r \in RescaleProgress /\ r.order = progress.order
  BY ClockTyped
<1> HIDE DEF v, r
<1>3. CASE Leaves(n, s, r, running)
  BY <1>2, <1>3, LeavesEvaluated
<1>4. CASE s = "stable_server" /\ Leaves(n, s, Forgotten(r), running)
  BY <1>2, <1>4, RescaleProgressTyped, LeavesEvaluated
<1>5. CASE s = "stable_server" /\ Leaves(n, s, [r EXCEPT !.timer = FALSE], running)
  BY <1>2, <1>5, RescaleProgressTyped, LeavesEvaluated
<1>6. CASE s = "stable_server" /\ ActAsCoordinator(n, s, v, r, running)
  BY <1>1, <1>2, <1>6, ActsEvaluated
<1> QED
  BY <1>3, <1>4, <1>5, <1>6 DEF MaybeRescale, v, r

----------------------------------------------------------------------------
(* The steps that the rescaling shares with the joining path *)

\* No machine begins to change role.
NoneConverts ==
  \A m \in Node : state'[m] = state[m] \/ state'[m] \notin {"rescale_promoting", "rescale_demoting"}

LEMMA NoneConvertsKeeps ==
  ASSUME RescaleInv, NoneConverts, UNCHANGED rescale
  PROVE  ConversionsKeepTheirOrder'
BY DEF RescaleInv, NoneConverts, ConversionsKeepTheirOrder

LEMMA TransitionConvertsNone ==
  ASSUME RescaleInv, NEW n \in Node, NEW to, Transition(n, to),
         to \notin {"rescale_promoting", "rescale_demoting"}
  PROVE  NoneConverts
BY DEF RescaleInv, TypeOK, DaemonTypeOK, Transition, NoneConverts

LEMMA StableConvertsNone ==
  ASSUME RescaleInv, NEW n \in Node, NEW role, BecomeStable(n, role)
  PROVE  NoneConverts
BY TransitionConvertsNone DEF BecomeStable, StableState

LEMMA UnmovedConvertsNone ==
  ASSUME UNCHANGED state
  PROVE  NoneConverts
BY DEF NoneConverts

LEMMA EnvironmentConvertsNone ==
  ASSUME RescaleInv, Environment
  PROVE  NoneConverts
<1>1. ASSUME NEW n \in Node, ChooseInitialState(n) PROVE NoneConverts
  BY <1>1, TransitionConvertsNone DEF ChooseInitialState
<1>2. CASE UNCHANGED state
  BY <1>2, UnmovedConvertsNone
<1> QED
  BY <1>1, <1>2 DEF Environment, Learn, DetectFailure, Suspect, Lose, PowerOn

LEMMA InstallConvertsNone ==
  ASSUME RescaleInv, NEW n \in Node, NEW c, NEW v, InstallIfTurn(c, n, v)
  PROVE  NoneConverts
BY TransitionConvertsNone DEF InstallIfTurn, StartOperation

LEMMA BootstrapConvertsNone ==
  ASSUME RescaleInv, NEW n \in Node, UserAction(n) \/ BootstrapHandler(n)
  PROVE  NoneConverts
<1>1. CASE UserAction(n)
  BY <1>1, TransitionConvertsNone, UnmovedConvertsNone
     DEF UserAction, RequestBootstrap, CancelBootstrap, ConfirmBootstrap
<1>2. CASE OnBootstrapRequested(n) \/ OnBootstrapWaitExpired(n)
  BY <1>2, TransitionConvertsNone, UnmovedConvertsNone
     DEF OnBootstrapRequested, OnBootstrapWaitExpired
<1>3. CASE OnBootstrapStart(n)
  BY <1>3, TransitionConvertsNone, UnmovedConvertsNone, InstallConvertsNone
     DEF OnBootstrapStart, InitializeCluster, RefuseToInitialize, TakeRole, StartOperation
<1>4. CASE InstallOnTurn(n)
  BY <1>4, InstallConvertsNone DEF InstallOnTurn
<1>5. CASE TimerFires(n) \/ \E event \in EventName : IgnoreEvent(n, event)
  BY <1>5, UnmovedConvertsNone DEF TimerFires, IgnoreEvent
<1> QED
  BY <1>1, <1>2, <1>3, <1>4, <1>5 DEF BootstrapHandler

LEMMA ProceedConvertsNone ==
  ASSUME RescaleInv, NEW n \in Node, NEW cleaned, Proceed(n, cleaned)
  PROVE  NoneConverts
BY TransitionConvertsNone DEF Proceed, StartOperation

LEMMA JoinerConvertsNone ==
  ASSUME RescaleInv, NEW n \in Node, JoinerHandler(n)
  PROVE  NoneConverts
<1>1. CASE StartJoiningPath(n)
  BY <1>1, TransitionConvertsNone DEF StartJoiningPath, DivertToJoining
<1>2. CASE OnJoinWaitExpired(n) \/ MaybeJoinCluster(n)
  BY <1>2, ProceedConvertsNone, UnmovedConvertsNone DEF OnJoinWaitExpired, MaybeJoinCluster
<1>3. CASE OnForgetRetry(n)
  BY <1>3, UnmovedConvertsNone DEF OnForgetRetry
<1>4. CASE OnForgotten(n)
  BY <1>4, ProceedConvertsNone, TransitionConvertsNone, UnmovedConvertsNone DEF OnForgotten
<1> QED
  BY <1>1, <1>2, <1>3, <1>4 DEF JoinerHandler

LEMMA ResultConvertsNone ==
  ASSUME RescaleInv, NEW n \in Node, NEW op \in ops[n],
         RejoinStep(n, op) \/ ResultHandler(n, op) \/ JoinerResult(n, op)
  PROVE  NoneConverts
<1>1. CASE RejoinStep(n, op)
  BY <1>1, StableConvertsNone, TransitionConvertsNone DEF RejoinStep, OnRejoinReady, FailRejoin
<1>2. CASE ResultHandler(n, op)
  BY <1>2, StableConvertsNone, TransitionConvertsNone
     DEF ResultHandler, OnBootstrapInstallSucceeded, FailBootstrap
<1>3. CASE JoinerResult(n, op)
  BY <1>3, StableConvertsNone, TransitionConvertsNone, UnmovedConvertsNone
     DEF JoinerResult, OnJoiningCleanupChecked, OnJoiningInstallSucceeded, FailJoining, IgnoreResult
<1> QED
  BY <1>1, <1>2, <1>3

\* A step of an earlier module is a step here when nobody begins a conversion.
LEMMA SharedStep ==
  ASSUME RescaleInv, TypeOK', JoinTypeOK', NoneConverts, UNCHANGED rescaleVars
  PROVE  RescaleInv'
BY NoneConvertsKeeps DEF RescaleInv, rescaleVars

LEMMA K3sStepKeeps ==
  ASSUME RescaleInv, NEW n \in Node, NEW op \in ops[n], K3sStep(n, op), UNCHANGED rescaleVars
  PROVE  RescaleInv'
<1>1. Progress(n)
  BY DEF K3sStep, Progress
<1>2. UNCHANGED state
  BY DEF K3sStep, JoinOpStep, WaitInVain, CheckNotInstalled, OpStep, RefuseToReinstall,
         RunInstallScript, FailInstallScript, CheckInstalledRole, BecomeReady, TimeOut
<1> QED
  BY <1>1, <1>2, JoiningProgressTyped, UnmovedConvertsNone, SharedStep DEF RescaleInv

LEMMA LookupsKeep ==
  ASSUME RescaleInv, NEW n \in Node, Lookups(n), UNCHANGED rescaleVars
  PROVE  RescaleInv'
<1>1. Progress(n)
  BY DEF Lookups, Progress
<1>2. UNCHANGED state
  BY DEF Lookups, AnswerLookup, FailLookup, vars, daemonVars
<1> QED
  BY <1>1, <1>2, JoiningProgressTyped, UnmovedConvertsNone, SharedStep DEF RescaleInv

LEMMA JoiningStepKeeps ==
  ASSUME RescaleInv, NEW n \in Node, JoiningStep(n), UNCHANGED rescaleVars
  PROVE  RescaleInv'
<1> USE DEF RescaleInv
<1>1. CASE BootstrapHandler(n) /\ UNCHANGED joinVars
  BY <1>1, BootstrapStepTyped, JoiningUntouched, BootstrapConvertsNone, SharedStep
<1>2. CASE JoinerHandler(n)
  BY <1>2, JoinerTyped, JoinerConvertsNone, SharedStep
<1>3. ASSUME NEW name \in Node, OnForgetMe(n, name) PROVE RescaleInv'
  <2>1. UNCHANGED state /\ CoordinatorHandler(n)
    BY <1>3 DEF OnForgetMe, vars, daemonVars, CoordinatorHandler
  <2> QED
    BY <2>1, CoordinatorTyped, UnmovedConvertsNone, SharedStep
<1> QED
  BY <1>1, <1>2, <1>3 DEF JoiningStep

LEMMA JoiningResultKeeps ==
  ASSUME RescaleInv, NEW n \in Node, NEW op \in ops[n], JoiningResult(n, op), UNCHANGED rescaleVars
  PROVE  RescaleInv'
<1>1. TypeOK' /\ JoinTypeOK'
  BY ResultTyped, JoinerResultTyped, JoiningUntouched DEF RescaleInv, JoiningResult
<1>2. NoneConverts
  BY ResultConvertsNone DEF JoiningResult
<1> QED
  BY <1>1, <1>2, SharedStep

----------------------------------------------------------------------------
(* The steps of the rescaling *)

\* After an evaluation by n in its own state, or in the stable state that a
\* round leads back to.
LEMMA EvaluatedKeeps ==
  ASSUME RescaleInv, NEW n \in Node, NEW s, NEW order, Evaluated(n, s, order),
         \/ s = "stable_server"
         \/ s = state[n] /\ order = rescale[n].order
  PROVE  ConversionsKeepTheirOrder'
<1>1. ASSUME NEW m \in Node \ {n},
             state'[m] \in {"rescale_promoting", "rescale_demoting"}
      PROVE  rescale'[m].order # None /\ state'[m] = ConversionState(rescale'[m].order.role)
  BY <1>1 DEF RescaleInv, ConversionsKeepTheirOrder, Evaluated
<1>2. ASSUME state'[n] \in {"rescale_promoting", "rescale_demoting"}
      PROVE  rescale'[n].order # None /\ state'[n] = ConversionState(rescale'[n].order.role)
  BY <1>2 DEF RescaleInv, ConversionsKeepTheirOrder, Evaluated
<1> QED
  BY <1>1, <1>2 DEF ConversionsKeepTheirOrder

LEMMA EvaluationKeeps ==
  ASSUME RescaleInv, NEW n \in Node, OnMembershipEvent(n) \/ OnRescaleCheck(n)
  PROVE  RescaleInv'
<1>1. /\ state[n] \in State /\ view[n] \in [Node -> Member] /\ ops[n] \in SUBSET Op
      /\ rescale[n] \in RescaleProgress
      /\ file \in [Node -> StateFile] /\ faults \in 0..MaxFaults
  BY DEF RescaleInv, TypeOK, DaemonTypeOK
<1>2. Evaluated(n, state[n], rescale[n].order)
  <2>1. CASE OnMembershipEvent(n)
    BY <1>1, <2>1, MaybeRescaleEvaluated DEF OnMembershipEvent
  <2>2. CASE OnRescaleCheck(n)
    <3>1. [rescale[n] EXCEPT !.timer = FALSE] \in RescaleProgress
      BY <1>1, RescaleProgressTyped
    <3>2. [rescale[n] EXCEPT !.timer = FALSE].order = rescale[n].order
      BY <1>1 DEF RescaleProgress
    <3> QED
      BY <1>1, <2>2, <3>1, <3>2, MaybeRescaleEvaluated DEF OnRescaleCheck
  <2> QED
    BY <2>1, <2>2
<1>3. /\ Unmoved /\ UNCHANGED <<inbox, file, faults, bootstrapVars>>
      /\ UNCHANGED joinVars /\ UNCHANGED orders
  BY DEF OnMembershipEvent, OnRescaleCheck
<1>4. TypeOK' /\ JoinTypeOK'
  BY <1>1, <1>2, <1>3, MovedTyped, JoiningUntouched DEF Evaluated, RescaleInv
<1> QED
  BY <1>2, <1>3, <1>4, EvaluatedKeeps DEF RescaleInv, Evaluated

\* A step that changes no variable of the joining path and only the progress
\* of n, its order apart.
LEMMA TimeKeeps ==
  ASSUME RescaleInv, NEW n \in Node, TimeStep(n)
  PROVE  RescaleInv'
<1>1. PICK r \in RescaleProgress : Advance(n, r) /\ r.order = rescale[n].order
  <2>1. rescale[n] \in RescaleProgress
    BY DEF RescaleInv
  <2>2. /\ \A m \in Node : [rescale[n] EXCEPT !.clock[m] = "elapsed"] \in RescaleProgress
        /\ [rescale[n] EXCEPT !.imbalance = "elapsed"] \in RescaleProgress
        /\ [rescale[n] EXCEPT !.hold = FALSE] \in RescaleProgress
    BY <2>1 DEF RescaleProgress, Clock
  <2>3. /\ \A m \in Node : [rescale[n] EXCEPT !.clock[m] = "elapsed"].order = rescale[n].order
        /\ [rescale[n] EXCEPT !.imbalance = "elapsed"].order = rescale[n].order
        /\ [rescale[n] EXCEPT !.hold = FALSE].order = rescale[n].order
    BY <2>1 DEF RescaleProgress
  <2> QED
    BY <2>2, <2>3 DEF TimeStep, SettleEnds, HoldEnds, GraceEnds
<1>2. UNCHANGED vars /\ UNCHANGED joinVars /\ UNCHANGED orders
  BY <1>1 DEF Advance, allVars
<1>3. TypeOK' /\ JoinTypeOK'
  BY <1>2, JoiningUntouched, NextTyped DEF RescaleInv
<1>4. rescale' \in [Node -> RescaleProgress] /\ ConversionsKeepTheirOrder'
  <2>1. UNCHANGED state
    BY <1>2 DEF vars, daemonVars
  <2> QED
    BY <1>1, <2>1 DEF Advance, RescaleInv, ConversionsKeepTheirOrder
<1> QED
  BY <1>2, <1>3, <1>4 DEF RescaleInv

\* The names that a round deletes, and what is left of the cluster's names.
LEMMA NamesTyped ==
  ASSUME RescaleInv, NEW n \in Node, NEW names, Forgetting(n, names)
  PROVE  nodeObjects' \in [Node -> SUBSET Node]
BY DEF Forgetting, RescaleInv, JoinTypeOK

LEMMA RoundWorkKeeps ==
  ASSUME RescaleInv, NEW n \in Node, NEW op \in ops[n], DeleteNodes(n, op) \/ FailRound(n, op)
  PROVE  RescaleInv'
<1> USE DEF joinerVars, coordinatorVars
<1>1. nodeObjects' \in [Node -> SUBSET Node]
  BY NamesTyped DEF DeleteNodes, FailRound, RescaleInv, JoinTypeOK
<1>2. TypeOK'
  <2>1. faults' \in 0..MaxFaults
    BY FaultTyped DEF DeleteNodes, FailRound, RescaleInv, TypeOK, DaemonTypeOK
  <2> QED
    BY <2>1, AdvanceTyped DEF DeleteNodes, FailRound, RescaleInv, OpPhase
<1>3. JoinTypeOK'
  BY <1>1 DEF DeleteNodes, FailRound, RescaleInv, JoinTypeOK
<1>4. UNCHANGED state /\ UNCHANGED rescaleVars
  BY DEF DeleteNodes, FailRound
<1> QED
  BY <1>2, <1>3, <1>4, UnmovedConvertsNone, SharedStep

\* The end of a round, whose frame leaves the machines and their disks alone.
LEMMA RoundFrameTyped ==
  ASSUME RescaleInv, RoundFrame, state' \in [Node -> State], ops' \in [Node -> SUBSET Op],
         view' \in [Node -> [Node -> Member]], faults' \in 0..MaxFaults,
         confirmed' \subseteq Node, cleaning' \in [Node -> Node \cup {None}]
  PROVE  TypeOK' /\ JoinTypeOK'
BY DEF RoundFrame, RescaleInv, TypeOK, DaemonTypeOK, BootstrapTypeOK, JoinTypeOK,
       bootstrapVars, diskVars

LEMMA FinishForgettingRoundKeeps ==
  ASSUME RescaleInv, NEW n \in Node, NEW op \in ops[n], FinishForgettingRound(n, op)
  PROVE  RescaleInv'
<1>1. Evaluated(n, "stable_server", rescale[n].order)
  BY MaybeRescaleEvaluated, JoiningStatesNamed
     DEF FinishForgettingRound, RescaleInv, TypeOK, DaemonTypeOK
<1>2. confirmed' \subseteq Node /\ faults' \in 0..MaxFaults
  BY ConfirmTyped DEF FinishForgettingRound, RescaleInv
<1>3. TypeOK' /\ JoinTypeOK'
  BY <1>1, <1>2, RoundFrameTyped
     DEF FinishForgettingRound, Evaluated, RescaleInv, TypeOK, DaemonTypeOK, JoinTypeOK
<1> QED
  BY <1>1, <1>3, EvaluatedKeeps DEF FinishForgettingRound, RescaleInv, Evaluated

LEMMA FinishEvictionKeeps ==
  ASSUME RescaleInv, NEW n \in Node, NEW op \in ops[n], FinishEviction(n, op)
  PROVE  RescaleInv'
<1>1. view' \in [Node -> [Node -> Member]] /\ faults' \in 0..MaxFaults
  <2>1. PICK kept \in SUBSET rescale[n].evicting :
       /\ IF kept = {} THEN UNCHANGED faults ELSE Fault("send")
       /\ view' = [x \in Node |-> [m \in Node |->
                    IF /\ m \in rescale[n].evicting \ kept
                       /\ x = n \/ (PromptRemovals /\ Hears(n, x))
                    THEN Absent ELSE view[x][m]]]
    BY DEF FinishEviction
  <2>2. Absent \in Member
    BY DEF Absent, Member, Status, State
  <2>3. view' \in [Node -> [Node -> Member]]
    BY <2>1, <2>2 DEF RescaleInv, TypeOK, DaemonTypeOK
  <2>4. faults' \in 0..MaxFaults
    BY <2>1, FaultTyped DEF RescaleInv, TypeOK, DaemonTypeOK
  <2> QED
    BY <2>3, <2>4
<1>2. [rescale[n] EXCEPT !.evicting = {}] \in RescaleProgress
  BY RescaleProgressTyped DEF RescaleInv
<1>3. Evaluated(n, "stable_server", [rescale[n] EXCEPT !.evicting = {}].order)
  <2>1. view'[n] \in [Node -> Member] /\ ops[n] \ {op} \in SUBSET Op /\ "stable_server" \in State
    BY <1>1, JoiningStatesNamed DEF RescaleInv, TypeOK, DaemonTypeOK
  <2> QED
    BY <1>2, <2>1, MaybeRescaleEvaluated DEF FinishEviction
<1>4. TypeOK' /\ JoinTypeOK'
  BY <1>1, <1>3, RoundFrameTyped DEF FinishEviction, Evaluated, RescaleInv, JoinTypeOK
<1> QED
  BY <1>3, <1>4, EvaluatedKeeps DEF FinishEviction, RescaleInv, Evaluated

\* A round that ends without an evaluation leads back to the stable state.
LEMMA RoundLeavesKeep ==
  ASSUME RescaleInv, NEW n \in Node, NEW op \in ops[n], NEW r \in RescaleProgress,
         Leaves(n, "stable_server", r, ops[n] \ {op})
  PROVE  /\ state' \in [Node -> State] /\ ops' \in [Node -> SUBSET Op]
         /\ rescale' \in [Node -> RescaleProgress]
         /\ ConversionsKeepTheirOrder'
<1>1. Evaluated(n, "stable_server", r.order)
  BY JoiningStatesNamed, LeavesEvaluated DEF RescaleInv, TypeOK, DaemonTypeOK
<1> QED
  BY <1>1, EvaluatedKeeps DEF Evaluated

LEMMA FinishConversionKeeps ==
  ASSUME RescaleInv, NEW n \in Node, NEW op \in ops[n], FinishConversion(n, op)
  PROVE  RescaleInv'
<1>1. rescale[n] \in RescaleProgress
  BY DEF RescaleInv
<1>2. /\ [rescale[n] EXCEPT !.order = None, !.timer = TRUE] \in RescaleProgress
      /\ Abandoned(rescale[n]) \in RescaleProgress
  <2>1. [rescale[n] EXCEPT !.order = None] \in RescaleProgress
    BY <1>1, RescaleProgressTyped
  <2> QED
    BY <1>1, <2>1, RescaleProgressTyped
<1>3. /\ state' \in [Node -> State] /\ ops' \in [Node -> SUBSET Op]
      /\ rescale' \in [Node -> RescaleProgress]
      /\ ConversionsKeepTheirOrder'
  BY <1>2, RoundLeavesKeep DEF FinishConversion
<1>4. orders' \in [Node -> SUBSET Order]
  <2>1. rescale[n].order \in Order
    BY <1>1 DEF FinishConversion, RescaleProgress
  <2> QED
    BY <2>1 DEF FinishConversion, RescaleInv
<1>5. faults' \in 0..MaxFaults
  BY FaultTyped DEF FinishConversion, RescaleInv, TypeOK, DaemonTypeOK
<1>6. TypeOK' /\ JoinTypeOK'
  BY <1>3, <1>5, RoundFrameTyped DEF FinishConversion, RescaleInv, TypeOK, DaemonTypeOK, JoinTypeOK
<1> QED
  BY <1>3, <1>4, <1>6 DEF RescaleInv

LEMMA AbandonRoundKeeps ==
  ASSUME RescaleInv, NEW n \in Node, NEW op \in ops[n], AbandonRound(n, op)
  PROVE  RescaleInv'
<1>1. Abandoned(rescale[n]) \in RescaleProgress
  BY RescaleProgressTyped DEF RescaleInv
<1>2. /\ state' \in [Node -> State] /\ ops' \in [Node -> SUBSET Op]
      /\ rescale' \in [Node -> RescaleProgress]
      /\ ConversionsKeepTheirOrder'
  BY <1>1, RoundLeavesKeep DEF AbandonRound
<1>3. TypeOK' /\ JoinTypeOK'
  BY <1>2, RoundFrameTyped DEF AbandonRound, RescaleInv, TypeOK, DaemonTypeOK, JoinTypeOK
<1> QED
  BY <1>2, <1>3 DEF AbandonRound, RescaleInv

LEMMA ProbedKeeps ==
  ASSUME RescaleInv, NEW n \in Node, NEW l \in lookups[n], OnForgetProbedBetweenRounds(n, l)
  PROVE  RescaleInv'
<1>1. TypeOK' /\ JoinTypeOK'
  BY CoordinatorTyped DEF OnForgetProbedBetweenRounds, CoordinatorHandler, RescaleInv
<1>2. rescale' \in [Node -> RescaleProgress]
  BY RescaleProgressTyped DEF OnForgetProbedBetweenRounds, RescaleInv
<1>3. /\ \A m \in Node \ {n} : state'[m] = state[m] /\ rescale'[m] = rescale[m]
      /\ state'[n] = state[n] \/ state'[n] = "rescale_coordinating"
  BY DEF OnForgetProbedBetweenRounds, OnForgetProbed, StartOperation, Transition, RescaleInv,
         TypeOK, DaemonTypeOK
<1>4. state'[n] = state[n] => rescale'[n] = rescale[n]
  BY DEF OnForgetProbedBetweenRounds
<1>5. ConversionsKeepTheirOrder'
  BY <1>3, <1>4 DEF RescaleInv, ConversionsKeepTheirOrder
<1> QED
  BY <1>1, <1>2, <1>5 DEF OnForgetProbedBetweenRounds, RescaleInv

----------------------------------------------------------------------------
(* The machine that changes role, and what happens around it *)

LEMMA OnRescaleConvertKeeps ==
  ASSUME RescaleInv, NEW n \in Node, NEW order \in orders[n], OnRescaleConvert(n, order)
  PROVE  RescaleInv'
<1>1. order \in Order /\ order.role \in Role /\ order.via \in Node
  BY DEF RescaleInv, Order
<1>2. orders' \in [Node -> SUBSET Order]
  BY DEF OnRescaleConvert, RescaleInv
<1>3. /\ Unmoved /\ UNCHANGED <<inbox, file, faults, bootstrapVars>> /\ UNCHANGED joinVars
      /\ file \in [Node -> StateFile] /\ faults \in 0..MaxFaults
  BY DEF OnRescaleConvert, RescaleInv, TypeOK, DaemonTypeOK
<1>4. CASE UNCHANGED <<state, ops, rescale>>
  <2>1. TypeOK' /\ JoinTypeOK'
    BY <1>3, <1>4, MovedTyped, JoiningUntouched DEF RescaleInv, TypeOK, DaemonTypeOK
  <2>2. ConversionsKeepTheirOrder'
    BY <1>4 DEF RescaleInv, ConversionsKeepTheirOrder
  <2> QED
    BY <1>2, <1>4, <2>1, <2>2 DEF RescaleInv
<1>5. CASE /\ rescale' = [rescale EXCEPT ![n].order = order]
           /\ StartOperation(n, ConversionKind(order.role), order.via, ConversionState(order.role))
  <2>1. ConversionState(order.role) \in State
    BY DEF ConversionState, State, InCluster
  <2>2. state' \in [Node -> State]
    BY <1>5, <2>1, TransitionTyped DEF StartOperation, RescaleInv
  <2>3. ops' \in [Node -> SUBSET Op]
    <3>1. ops[n] \cup {NewOp(ConversionKind(order.role), order.via)} \in SUBSET Op
      BY <1>1, RoundOpsTyped DEF ConversionKind, RescaleInv, TypeOK, DaemonTypeOK
    <3> QED
      BY <1>5, <3>1 DEF StartOperation, Starting, RescaleInv, TypeOK, DaemonTypeOK
  <2>4. TypeOK' /\ JoinTypeOK'
    BY <1>3, <2>2, <2>3, MovedTyped, JoiningUntouched DEF RescaleInv
  <2>5. rescale' \in [Node -> RescaleProgress]
    <3>1. [rescale[n] EXCEPT !.order = order] \in RescaleProgress
      BY <1>1, RescaleProgressTyped DEF RescaleInv
    <3> QED
      BY <1>5, <3>1 DEF RescaleInv
  <2>6. ConversionsKeepTheirOrder'
    <3>1. /\ rescale'[n].order = order /\ state'[n] = ConversionState(order.role)
          /\ \A m \in Node \ {n} : rescale'[m] = rescale[m] /\ state'[m] = state[m]
      BY <1>5 DEF StartOperation, Transition, RescaleInv, RescaleProgress, TypeOK, DaemonTypeOK
    <3>2. order # None
      BY <1>1, NoOrderAssumption
    <3> QED
      BY <3>1, <3>2 DEF RescaleInv, ConversionsKeepTheirOrder
  <2> QED
    BY <1>2, <2>4, <2>5, <2>6 DEF RescaleInv
<1> QED
  BY <1>4, <1>5 DEF OnRescaleConvert

LEMMA RescaleOpsTyped ==
  ASSUME RescaleInv, NEW n \in Node, NEW op \in ops[n], NEW phase \in OpPhase
  PROVE  InPhase(n, op, phase) \in [Node -> SUBSET Op] /\ Without(n, op) \in [Node -> SUBSET Op]
BY OpsTyped DEF RescaleInv

\* The reinstallation leaves K3s out, or in with its new role.
LEMMA ConversionWorkKeeps ==
  ASSUME RescaleInv, NEW n \in Node, NEW op \in ops[n],
         Uninstall(n, op) \/ Reinstall(n, op) \/ WaitWithoutQuorum(n, op)
  PROVE  RescaleInv'
<1> USE DEF joinerVars, coordinatorVars, diskVars
<1>1. ops' \in [Node -> SUBSET Op]
  BY RescaleOpsTyped DEF Uninstall, Reinstall, WaitWithoutQuorum, OpPhase
<1>2. faults' \in 0..MaxFaults
  BY FaultTyped DEF Uninstall, Reinstall, WaitWithoutQuorum, RescaleInv, TypeOK, DaemonTypeOK
<1>3. /\ unit' \in [Node -> InstalledUnit]
      /\ cluster' \in [Node -> Node \cup {None}]
      /\ nodeObjects' \in [Node -> SUBSET Node]
  <2> USE DEF RescaleInv, TypeOK, DaemonTypeOK, JoinTypeOK
  <2>1. CASE Uninstall(n, op)
    <3>1. /\ unit' = unit \/ unit' = [unit EXCEPT ![n] = "none"]
          /\ cluster' = cluster \/ cluster' = [cluster EXCEPT ![n] = None]
          /\ nodeObjects' = nodeObjects
      BY <2>1 DEF Uninstall
    <3>2. "none" \in InstalledUnit
      BY DEF InstalledUnit
    <3>3. unit' \in [Node -> InstalledUnit]
      BY <3>1, <3>2
    <3>4. cluster' \in [Node -> Node \cup {None}]
      BY <3>1
    <3> QED
      BY <3>1, <3>3, <3>4
  <2>2. CASE Reinstall(n, op)
    <3>1. CASE UNCHANGED <<unit, cluster, nodeObjects>>
      BY <3>1
    <3>2. CASE /\ Admits(op.via)
               /\ unit' = [unit EXCEPT ![n] = NewRole(op)]
               /\ cluster' = [cluster EXCEPT ![n] = cluster[op.via]]
               /\ nodeObjects' = [nodeObjects EXCEPT ![cluster[op.via]] = @ \cup {n}]
      <4>1. op.via \in Node
        BY <3>2 DEF Admits
      <4>2. NewRole(op) \in InstalledUnit
        BY DEF NewRole, InstalledUnit, Role
      <4>3. cluster[op.via] \in Node \cup {None}
        BY <4>1
      <4>4. unit' \in [Node -> InstalledUnit]
        BY <3>2, <4>2
      <4>5. cluster' \in [Node -> Node \cup {None}]
        BY <3>2, <4>3
      <4>6. nodeObjects' \in [Node -> SUBSET Node]
        BY <3>2
      <4> QED
        BY <4>4, <4>5, <4>6
    <3> QED
      BY <2>2, <3>1, <3>2 DEF Reinstall
  <2>3. CASE WaitWithoutQuorum(n, op)
    BY <2>3 DEF WaitWithoutQuorum
  <2> QED
    BY <2>1, <2>2, <2>3
<1>4. ConversionFrame
  BY DEF Uninstall, Reinstall, WaitWithoutQuorum
<1>5. TypeOK' /\ JoinTypeOK'
  BY <1>1, <1>2, <1>3, <1>4
     DEF ConversionFrame, RescaleInv, TypeOK, DaemonTypeOK, BootstrapTypeOK, JoinTypeOK, bootstrapVars
<1>6. UNCHANGED state /\ UNCHANGED rescaleVars
  BY <1>4 DEF ConversionFrame
<1> QED
  BY <1>5, <1>6, UnmovedConvertsNone, SharedStep

\* n drops its order together with the state that needs it.
LEMMA ConversionDropped ==
  ASSUME RescaleInv, NEW n \in Node, NEW to \in State,
         to \notin {"rescale_promoting", "rescale_demoting"}, Transition(n, to),
         rescale' \in [Node -> RescaleProgress],
         \A m \in Node \ {n} : rescale'[m] = rescale[m]
  PROVE  ConversionsKeepTheirOrder'
BY DEF Transition, RescaleInv, TypeOK, DaemonTypeOK, ConversionsKeepTheirOrder

LEMMA ConversionResultKeeps ==
  ASSUME RescaleInv, NEW n \in Node, NEW op \in ops[n],
         OnRescaleConverted(n, op) \/ FailRescale(n, op)
  PROVE  RescaleInv'
<1>1. /\ rescale[n] \in RescaleProgress /\ rescale[n].order \in Order
      /\ rescale[n].order.role \in Role
  <2>1. rescale[n].order # None /\ rescale[n].order \in Order \cup {None}
    BY DEF OnRescaleConverted, FailRescale, RescaleInv, ConversionsKeepTheirOrder, RescaleProgress
  <2> QED
    BY <2>1 DEF RescaleInv, Order
<1>2. /\ [rescale[n] EXCEPT !.order = None] \in RescaleProgress
      /\ [[rescale[n] EXCEPT !.order = None] EXCEPT !.timer = FALSE] \in RescaleProgress
  BY <1>1, RescaleProgressTyped
<1>3. /\ rescale' \in [Node -> RescaleProgress]
      /\ \A m \in Node \ {n} : rescale'[m] = rescale[m]
  <2>1. CASE OnRescaleConverted(n, op)
    BY <1>2, <2>1 DEF OnRescaleConverted, RescaleInv
  <2>2. CASE FailRescale(n, op)
    BY <1>2, <2>2 DEF FailRescale, RescaleInv
  <2> QED
    BY <2>1, <2>2
<1>4. /\ Unmoved /\ UNCHANGED <<inbox, bootstrapVars>> /\ UNCHANGED joinVars
      /\ UNCHANGED orders /\ ops' = Without(n, op)
  BY DEF OnRescaleConverted, FailRescale
<1>5. /\ state' \in [Node -> State] /\ file' \in [Node -> StateFile] /\ faults' \in 0..MaxFaults
      /\ ConversionsKeepTheirOrder'
  <2>1. CASE OnRescaleConverted(n, op)
    <3>1. BecomeStable(n, rescale[n].order.role)
      BY <2>1 DEF OnRescaleConverted
    <3>2. ConversionsKeepTheirOrder'
      BY <1>1, <1>3, <3>1, StatesNamed, ConversionDropped DEF BecomeStable, StableState
    <3> QED
      BY <1>1, <3>1, <3>2, BecomeStableTyped DEF RescaleInv, StateFile
  <2>2. CASE FailRescale(n, op)
    <3>1. "rescale_failed" \in State
      BY DEF State, InCluster
    <3> QED
      BY <1>3, <2>2, <3>1, TransitionTyped, ConversionDropped
         DEF FailRescale, RescaleInv, TypeOK, DaemonTypeOK
  <2> QED
    BY <2>1, <2>2
<1>6. TypeOK' /\ JoinTypeOK'
  BY <1>4, <1>5, EndedTyped, JoiningUntouched DEF RescaleInv
<1> QED
  BY <1>3, <1>4, <1>5, <1>6 DEF RescaleInv

LEMMA RescaleFaultKeeps ==
  ASSUME RescaleInv, NEW n \in Node, FaultStep(n)
  PROVE  RescaleInv'
<1>1. CASE StopAndForgetAll(n)
  <2>1. TypeOK' /\ JoinTypeOK'
    BY <1>1, JoiningFaultTyped DEF StopAndForgetAll, RescaleInv
  <2>2. rescale' \in [Node -> RescaleProgress] /\ orders' \in [Node -> SUBSET Order]
    <3>1. NotRescaling \in RescaleProgress
      BY RescaleProgressTyped DEF RescaleInv
    <3> QED
      BY <1>1, <3>1 DEF StopAndForgetAll, RescaleInv
  <2>3. ConversionsKeepTheirOrder'
    BY <1>1, <2>2, StatesNamed, ConversionDropped
       DEF StopAndForgetAll, CrashAndForgetAll, CrashAndForget, Crash, Transition, RescaleInv
  <2> QED
    BY <2>1, <2>2, <2>3 DEF RescaleInv
<1>2. ASSUME NEW order \in orders[n], LoseOrder(n, order) PROVE RescaleInv'
  <2>1. faults' \in 0..MaxFaults
    BY <1>2, FaultTyped DEF LoseOrder, RescaleInv
  <2>2. TypeOK' /\ JoinTypeOK'
    BY <1>2, <2>1 DEF LoseOrder, RescaleInv, TypeOK, DaemonTypeOK, BootstrapTypeOK, JoinTypeOK,
                      bootstrapVars, joinVars, joinerVars, coordinatorVars, diskVars
  <2>3. ConversionsKeepTheirOrder'
    BY <1>2 DEF LoseOrder, RescaleInv, ConversionsKeepTheirOrder
  <2> QED
    BY <1>2, <2>2, <2>3 DEF LoseOrder, RescaleInv
<1>3. ASSUME \/ RestartK3s(n) \/ LoseConfirmation(n)
             \/ \E name \in Node : LoseRequest(n, name),
             UNCHANGED rescaleVars
      PROVE  RescaleInv'
  <2>1. TypeOK' /\ JoinTypeOK'
    BY <1>3, JoiningFaultTyped DEF RescaleInv
  <2>2. UNCHANGED state
    BY <1>3 DEF RestartK3s, LoseConfirmation, LoseRequest, vars, daemonVars
  <2> QED
    BY <1>3, <2>1, <2>2, UnmovedConvertsNone, SharedStep
<1> QED
  BY <1>1, <1>2, <1>3 DEF FaultStep

LEMMA DropEventKeeps ==
  ASSUME RescaleInv, NEW n \in Node, DropEvent(n)
  PROVE  RescaleInv'
<1>1. faults' \in 0..MaxFaults
  BY FaultTyped DEF DropEvent, RescaleInv
<1>2. TypeOK' /\ JoinTypeOK'
  BY <1>1 DEF DropEvent, RescaleInv, TypeOK, DaemonTypeOK, BootstrapTypeOK, JoinTypeOK,
              bootstrapVars, joinVars, joinerVars, coordinatorVars, diskVars
<1>3. UNCHANGED state /\ UNCHANGED rescaleVars
  BY DEF DropEvent
<1> QED
  BY <1>2, <1>3, UnmovedConvertsNone, SharedStep

----------------------------------------------------------------------------
(* The specification *)

LEMMA RescaleInitKeeps == RescaleInit => RescaleInv /\ RescaleVarsOK
<1> SUFFICES ASSUME RescaleInit PROVE RescaleInv /\ RescaleVarsOK
  OBVIOUS
<1> USE DEF RescaleInit
<1>1. Settled \subseteq Node /\ Min(Established) \in Node
  BY MinIsLowest, DaemonAssumption, RescaleAssumption DEF Settled
<1>2. state \in [Node -> State]
  BY DEF State, FirstBoot, InCluster, StableState
<1>3. view \in [Node -> [Node -> Member]]
  BY DEF Absent, AliveAs, Member, Status, State, FirstBoot, InCluster, StableState
<1>4. DaemonTypeOK
  BY <1>1, <1>2, <1>3, DaemonAssumption DEF DaemonTypeOK, InstalledUnit, StateFile, Role
<1>5. JoinTypeOK
  BY <1>1, JoiningAssumption DEF JoinTypeOK, JoiningProgress, NotJoining
<1>6. NotRescaling \in RescaleProgress
  BY DEF RescaleProgress, NotRescaling, Clock
<1>7. ConversionsKeepTheirOrder
  BY DEF ConversionsKeepTheirOrder, StableState
<1> QED
  BY <1>1, <1>4, <1>5, <1>6, <1>7, DaemonAssumption, RescaleAssumption
     DEF RescaleInv, RescaleVarsOK, TypeOK, BootstrapTypeOK

LEMMA StepOfNodeKeeps ==
  ASSUME RescaleInv, NEW n \in Node,
         \/ TimeStep(n) \/ WorkStep(n) \/ ResultOfWork(n) \/ EventStep(n) \/ FaultStep(n)
         \/ OnRescaleCheck(n) \/ OnMembershipEvent(n) \/ DropEvent(n)
  PROVE  RescaleInv'
<1>1. CASE WorkStep(n)
  BY <1>1, K3sStepKeeps, RoundWorkKeeps, ConversionWorkKeeps, LookupsKeep DEF WorkStep
<1>2. CASE ResultOfWork(n)
  BY <1>2, JoiningResultKeeps, FinishForgettingRoundKeeps, FinishEvictionKeeps,
     FinishConversionKeeps, AbandonRoundKeeps, ConversionResultKeeps DEF ResultOfWork
<1>3. CASE EventStep(n)
  BY <1>3, JoiningStepKeeps, OnRescaleConvertKeeps, ProbedKeeps DEF EventStep
<1> QED
  BY <1>1, <1>2, <1>3, TimeKeeps, RescaleFaultKeeps, EvaluationKeeps, DropEventKeeps

LEMMA RescaleNextKeeps == RescaleInv /\ [RescaleNext]_everyVar => RescaleInv'
<1> SUFFICES ASSUME RescaleInv, [RescaleNext]_everyVar PROVE RescaleInv'
  OBVIOUS
<1>1. CASE Surroundings /\ UNCHANGED rescaleVars
  <2>1. TypeOK' /\ JoinTypeOK'
    BY <1>1, EnvironmentTyped, JoiningUntouched DEF Surroundings, RescaleInv
  <2> QED
    BY <1>1, <2>1, EnvironmentConvertsNone, SharedStep DEF Surroundings
<1>2. ASSUME NEW n \in Node, UserAction(n), UNCHANGED <<joinVars, rescaleVars>> PROVE RescaleInv'
  <2>1. TypeOK' /\ JoinTypeOK'
    BY <1>2, BootstrapStepTyped, JoiningUntouched DEF RescaleInv
  <2> QED
    BY <1>2, <2>1, BootstrapConvertsNone, SharedStep
<1>3. ASSUME NEW n \in Node, NEW m \in Node, Prune(n, m) PROVE RescaleInv'
  <2>1. /\ UNCHANGED <<up, state, inbox, ops, diskVars, file, faults, bootstrapVars, joinVars, rescaleVars>>
        /\ view' = [view EXCEPT ![n][m] = Absent] /\ Absent \in Member
    BY <1>3 DEF Prune, Absent, Member, Status, State
  <2>2. TypeOK' /\ JoinTypeOK'
    BY <2>1, JoiningUntouched DEF RescaleInv, TypeOK, DaemonTypeOK, BootstrapTypeOK, bootstrapVars, diskVars
  <2> QED
    BY <2>1, <2>2, UnmovedConvertsNone, SharedStep
<1>4. CASE UNCHANGED everyVar
  <2>1. UNCHANGED vars /\ UNCHANGED joinVars /\ UNCHANGED rescaleVars /\ UNCHANGED state
    BY <1>4 DEF everyVar, allVars, vars, daemonVars
  <2> QED
    BY <2>1, NextTyped, JoiningUntouched, UnmovedConvertsNone, SharedStep DEF RescaleInv
<1> QED
  BY <1>1, <1>2, <1>3, <1>4, StepOfNodeKeeps DEF RescaleNext

\* The variables that only record what a step entails.
LEMMA ConsequencesTyped ==
  RescaleInv' /\ RescaleVarsOK /\ [RescaleNext]_everyVar => RescaleVarsOK'
<1> SUFFICES ASSUME RescaleInv', RescaleVarsOK, [RescaleNext]_everyVar PROVE RescaleVarsOK'
  OBVIOUS
<1>1. CASE UNCHANGED everyVar
  BY <1>1 DEF everyVar, allVars, vars, daemonVars, rescaleVars, RescaleVarsOK
<1>2. ASSUME NEW handled, Consequences(handled) PROVE RescaleVarsOK'
  BY <1>2 DEF Consequences, RescaleInv, RescaleVarsOK, JoinTypeOK
<1> QED
  BY <1>1, <1>2 DEF RescaleNext

\* Whatever fails and whenever, the rescaling keeps the shape of every record it
\* shares with the joining path and the bootstrap.
THEOREM RescaleTypeCorrectness == RescaleSpec => []RescaleTypeOK
<1>1. RescaleInit => RescaleInv /\ RescaleVarsOK
  BY RescaleInitKeeps
<1>2. (RescaleInv /\ RescaleVarsOK) /\ [RescaleNext]_everyVar => (RescaleInv /\ RescaleVarsOK)'
  BY RescaleNextKeeps, ConsequencesTyped
<1>3. RescaleInv /\ RescaleVarsOK => RescaleTypeOK
  BY RescaleTypeSplit DEF RescaleInv
<1> QED
  BY <1>1, <1>2, <1>3, PTL DEF RescaleSpec

\* Whatever orders, results, timers and crashes overlap, a machine that changes
\* role still knows the order it obeys when the change is over.
THEOREM OrdersOutliveConversions == RescaleSpec => []ConversionsKeepTheirOrder
<1>1. RescaleInit => RescaleInv
  BY RescaleInitKeeps
<1>2. RescaleInv /\ [RescaleNext]_everyVar => RescaleInv'
  BY RescaleNextKeeps
<1>3. RescaleInv => ConversionsKeepTheirOrder
  BY DEF RescaleInv
<1> QED
  BY <1>1, <1>2, <1>3, PTL DEF RescaleSpec
=============================================================================
