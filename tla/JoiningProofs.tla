--------------------------- MODULE JoiningProofs ---------------------------
(***************************************************************************)
(* Theorems about Joining, for every set of machines, every number of      *)
(* faults and every timing.  Each names the kinds of fault it excludes.    *)
(***************************************************************************)
EXTENDS Joining, BootstrapProofs

----------------------------------------------------------------------------
(* Typing *)

\* The part of JoiningTypeOK that the bootstrap knows nothing of.
JoinTypeOK ==
  /\ joining \in [Node -> JoiningProgress]
  /\ requests \in [Node -> SUBSET Node]
  /\ confirmed \subseteq Node
  /\ lookups \in [Node -> SUBSET Lookup]
  /\ cleaning \in [Node -> Node \cup {None}]
  /\ nodeObjects \in [Node -> SUBSET Node]

LEMMA JoiningTypeSplit == JoiningTypeOK <=> TypeOK /\ JoinTypeOK
BY DEF JoiningTypeOK, JoinTypeOK

\* The state names of the joining path and of the rounds.
LEMMA JoiningStatesNamed ==
  {"fb_joining_waiting", "fb_joining_cleanup", "fb_joining_agent", "fb_joining_failed",
   "rescale_coordinating", "stable_server"} \subseteq State
BY DEF State, FirstBoot, InCluster

LEMMA JoiningOpsTyped ==
  ASSUME TypeOK, NEW n \in Node
  PROVE  /\ Starting(n, NewOp("check", None)) \in [Node -> SUBSET Op]
         /\ \A via \in Node : /\ Starting(n, NewOp("agent", via)) \in [Node -> SUBSET Op]
                              /\ Starting(n, NewOp("erase", via)) \in [Node -> SUBSET Op]
<1> USE DEF TypeOK, DaemonTypeOK
<1>1. NewOp("check", None) \in Op
  BY DEF NewOp, Op, OpPhase
<1>2. ASSUME NEW via \in Node PROVE NewOp("agent", via) \in Op /\ NewOp("erase", via) \in Op
  BY DEF NewOp, Op, OpPhase
<1> QED
  BY <1>1, <1>2 DEF Starting

\* A joiner that proceeds checks its disk or installs an agent.
LEMMA ProceedTyped ==
  ASSUME TypeOK, NEW n \in Node, NEW cleaned, CanBeJoined(Observe(n)), Proceed(n, cleaned)
  PROVE  state' \in [Node -> State] /\ ops' \in [Node -> SUBSET Op]
BY InstallTargetTyped, JoiningOpsTyped, JoiningStatesNamed, TransitionTyped
   DEF Proceed, StartOperation

\* What a handler of the joining path does to the variables of the bootstrap.
LEMMA MovedTyped ==
  ASSUME TypeOK, state' \in [Node -> State], ops' \in [Node -> SUBSET Op],
         file' \in [Node -> StateFile], faults' \in 0..MaxFaults,
         Unmoved, UNCHANGED <<inbox, bootstrapVars>>
  PROVE  TypeOK'
BY DEF TypeOK, DaemonTypeOK, BootstrapTypeOK, bootstrapVars, diskVars, Unmoved

\* A machine that hears a confirmation is a machine, whatever name was sent.
LEMMA ConfirmTyped ==
  ASSUME TypeOK, JoinTypeOK, NEW n \in Node, NEW name, ConfirmForgotten(n, name)
  PROVE  confirmed' \subseteq Node /\ faults' \in 0..MaxFaults
BY FaultTyped DEF ConfirmForgotten, Hears, JoinTypeOK, TypeOK, DaemonTypeOK

\* The progress of a joiner keeps its shape whatever a handler sets.
LEMMA ProgressTyped ==
  ASSUME JoinTypeOK, NEW n \in Node
  PROVE  /\ \A t \in {"off", "grace", "retry"} :
              /\ [joining EXCEPT ![n].timer = t] \in [Node -> JoiningProgress]
              /\ [joining EXCEPT ![n].timer = t, ![n].settled = TRUE] \in [Node -> JoiningProgress]
              /\ [joining EXCEPT ![n].timer = t, ![n].cleaned = TRUE] \in [Node -> JoiningProgress]
         /\ [joining EXCEPT ![n] = NotJoining] \in [Node -> JoiningProgress]
<1>1. /\ joining \in [Node -> JoiningProgress]
      /\ joining[n] \in JoiningProgress
  BY DEF JoinTypeOK
<1>2. ASSUME NEW t \in {"off", "grace", "retry"}
      PROVE  /\ [joining[n] EXCEPT !.timer = t] \in JoiningProgress
             /\ [joining[n] EXCEPT !.timer = t, !.settled = TRUE] \in JoiningProgress
             /\ [joining[n] EXCEPT !.timer = t, !.cleaned = TRUE] \in JoiningProgress
  BY <1>1 DEF JoiningProgress
<1>3. NotJoining \in JoiningProgress
  BY DEF JoiningProgress, NotJoining
<1> QED
  BY <1>1, <1>2, <1>3

LEMMA SendForgetMeTyped ==
  ASSUME TypeOK, JoinTypeOK, NEW n \in Node, SendForgetMe(n)
  PROVE  JoinTypeOK' /\ faults' \in 0..MaxFaults
<1>1. joining' \in [Node -> JoiningProgress]
  BY ProgressTyped DEF SendForgetMe
<1>2. requests' \in [Node -> SUBSET Node]
  BY DEF SendForgetMe, JoinTypeOK
<1>3. faults' \in 0..MaxFaults
  BY FaultTyped DEF SendForgetMe, TypeOK, DaemonTypeOK
<1> QED
  BY <1>1, <1>2, <1>3 DEF SendForgetMe, JoinTypeOK

LEMMA JoinerTyped ==
  ASSUME TypeOK, JoinTypeOK, NEW n \in Node, JoinerHandler(n)
  PROVE  TypeOK' /\ JoinTypeOK'
<1> USE DEF coordinatorVars, joinVars, joinerVars
<1>f. file \in [Node -> StateFile] /\ faults \in 0..MaxFaults /\ state \in [Node -> State]
      /\ ops \in [Node -> SUBSET Op]
  BY DEF TypeOK, DaemonTypeOK
<1>1. CASE StartJoiningPath(n)
  <2>1. TypeOK'
    BY <1>1, HandlerTyped DEF StartJoiningPath, Handler, OnBootstrapStart
  <2>2. joining' \in [Node -> JoiningProgress]
    BY <1>1, ProgressTyped DEF StartJoiningPath
  <2> QED
    BY <1>1, <2>1, <2>2 DEF StartJoiningPath, JoinTypeOK
<1>2. CASE OnJoinWaitExpired(n)
  <2>1. state' \in [Node -> State] /\ ops' \in [Node -> SUBSET Op]
    BY <1>2, <1>f, ProceedTyped DEF OnJoinWaitExpired
  <2>2. joining' \in [Node -> JoiningProgress]
    BY <1>2, ProgressTyped DEF OnJoinWaitExpired
  <2>3. TypeOK'
    BY <1>2, <1>f, <2>1, MovedTyped DEF OnJoinWaitExpired
  <2> QED
    BY <1>2, <2>2, <2>3 DEF OnJoinWaitExpired, JoinTypeOK
<1>3. CASE MaybeJoinCluster(n)
  <2>1. TypeOK'
    BY <1>3, <1>f, ProceedTyped, MovedTyped DEF MaybeJoinCluster
  <2> QED
    BY <1>3, <2>1 DEF MaybeJoinCluster, JoinTypeOK
<1>4. CASE OnForgetRetry(n)
  BY <1>4, <1>f, SendForgetMeTyped, MovedTyped DEF OnForgetRetry
<1>5. CASE OnForgotten(n)
  <2>1. state' \in [Node -> State] /\ ops' \in [Node -> SUBSET Op]
    BY <1>5, <1>f, ProceedTyped, TransitionTyped, JoiningStatesNamed DEF OnForgotten
  <2>2. confirmed' \subseteq Node
    BY <1>5 DEF OnForgotten, JoinTypeOK
  <2>3. joining' \in [Node -> JoiningProgress]
    <3>1. [joining EXCEPT ![n].timer = "off", ![n].cleaned = TRUE] \in [Node -> JoiningProgress]
      BY ProgressTyped
    <3>2. joining \in [Node -> JoiningProgress]
      BY DEF JoinTypeOK
    <3> QED
      BY <1>5, <3>1, <3>2 DEF OnForgotten
  <2>4. TypeOK'
    BY <1>5, <1>f, <2>1, MovedTyped DEF OnForgotten
  <2> QED
    BY <1>5, <2>2, <2>3, <2>4 DEF OnForgotten, JoinTypeOK
<1> QED
  BY <1>1, <1>2, <1>3, <1>4, <1>5 DEF JoinerHandler

LEMMA CoordinatorTyped ==
  ASSUME TypeOK, JoinTypeOK, NEW n \in Node, CoordinatorHandler(n)
  PROVE  TypeOK' /\ JoinTypeOK'
<1> USE DEF JoinTypeOK, coordinatorVars, joinVars, joinerVars
<1>1. ASSUME NEW name \in Node, OnForgetMe(n, name) PROVE TypeOK' /\ JoinTypeOK'
  <2>1. [name |-> name, phase |-> "asked"] \in Lookup
    BY DEF Lookup
  <2>2. TypeOK'
    BY <1>1 DEF OnForgetMe, vars, daemonVars, bootstrapVars, diskVars, TypeOK, DaemonTypeOK,
                BootstrapTypeOK
  <2> QED
    BY <1>1, <2>1, <2>2 DEF OnForgetMe
<1>2. ASSUME NEW l \in lookups[n], OnForgetProbed(n, l) PROVE TypeOK' /\ JoinTypeOK'
  <2>1. l.name \in Node
    BY DEF Lookup
  <2>2. state' \in [Node -> State] /\ ops' \in [Node -> SUBSET Op]
    <3>1. CASE StartOperation(n, "erase", l.name, "rescale_coordinating")
      BY <2>1, <3>1, JoiningOpsTyped, TransitionTyped, JoiningStatesNamed DEF StartOperation
    <3>2. CASE UNCHANGED <<state, ops>>
      BY <3>2 DEF TypeOK, DaemonTypeOK
    <3> QED
      BY <1>2, <3>1, <3>2 DEF OnForgetProbed
  <2>3. confirmed' \subseteq Node /\ faults' \in 0..MaxFaults
    <3>1. CASE ConfirmForgotten(n, l.name)
      BY <2>1, <3>1, ConfirmTyped
    <3>2. CASE UNCHANGED <<confirmed, faults>>
      BY <3>2 DEF TypeOK, DaemonTypeOK
    <3> QED
      BY <1>2, <3>1, <3>2 DEF OnForgetProbed
  <2>4. lookups' \in [Node -> SUBSET Lookup] /\ cleaning' \in [Node -> Node \cup {None}]
    BY <1>2, <2>1 DEF OnForgetProbed
  <2>5. TypeOK'
    BY <1>2, <2>2, <2>3, MovedTyped DEF OnForgetProbed, TypeOK, DaemonTypeOK
  <2> QED
    BY <1>2, <2>3, <2>4, <2>5 DEF OnForgetProbed
<1> QED
  BY <1>1, <1>2 DEF CoordinatorHandler

\* An operation that only advances.
LEMMA AdvanceTyped ==
  ASSUME TypeOK, NEW n \in Node, NEW op \in ops[n], NEW phase \in OpPhase,
         ops' = InPhase(n, op, phase), faults' \in 0..MaxFaults,
         UNCHANGED <<up, state, view, inbox, diskVars, file, bootstrapVars>>
  PROVE  TypeOK'
BY OpsTyped DEF TypeOK, DaemonTypeOK, BootstrapTypeOK, bootstrapVars, diskVars

LEMMA JoiningProgressTyped ==
  ASSUME TypeOK, JoinTypeOK, NEW n \in Node, Progress(n)
  PROVE  TypeOK' /\ JoinTypeOK'
<1> USE DEF JoinTypeOK, coordinatorVars, joinVars, joinerVars
<1>1. ASSUME NEW op \in ops[n], JoinOpStep(n, op) PROVE TypeOK' /\ JoinTypeOK'
  <2>1. TypeOK'
    BY <1>1, OpStepTyped DEF JoinOpStep
  <2> QED
    BY <1>1, <2>1 DEF JoinOpStep
<1>2. ASSUME NEW op \in ops[n], WaitInVain(n, op) PROVE TypeOK' /\ JoinTypeOK'
  BY <1>2, AdvanceTyped DEF WaitInVain, OpPhase, TypeOK, DaemonTypeOK
<1>3. ASSUME NEW op \in ops[n], CheckNotInstalled(n, op) PROVE TypeOK' /\ JoinTypeOK'
  <2>1. (IF unit[n] = "none" THEN "ok" ELSE "error") \in OpPhase
    BY DEF OpPhase
  <2> QED
    BY <1>3, <2>1, AdvanceTyped DEF CheckNotInstalled, TypeOK, DaemonTypeOK
<1>4. ASSUME NEW op \in ops[n], EraseNode(n, op) PROVE TypeOK' /\ JoinTypeOK'
  BY <1>4, AdvanceTyped DEF EraseNode, OpPhase, TypeOK, DaemonTypeOK
<1>5. ASSUME NEW op \in ops[n], FailErase(n, op) PROVE TypeOK' /\ JoinTypeOK'
  <2>1. nodeObjects' \in [Node -> SUBSET Node]
    BY <1>5 DEF FailErase
  <2> QED
    BY <1>5, <2>1, AdvanceTyped, FaultTyped DEF FailErase, OpPhase
<1>6. ASSUME NEW l \in lookups[n], AnswerLookup(n, l) PROVE TypeOK' /\ JoinTypeOK'
  <2>1. [l EXCEPT !.phase = IF l.name \in nodeObjects[cluster[n]] THEN "found" ELSE "absent"]
          \in Lookup
    BY DEF Lookup
  <2>2. TypeOK'
    BY <1>6 DEF AnswerLookup, vars, daemonVars, bootstrapVars, diskVars, TypeOK, DaemonTypeOK,
                BootstrapTypeOK
  <2> QED
    BY <1>6, <2>1, <2>2 DEF AnswerLookup
<1>7. ASSUME NEW l \in lookups[n], FailLookup(n, l) PROVE TypeOK' /\ JoinTypeOK'
  <2>1. TypeOK'
    BY <1>7, FaultTyped DEF FailLookup, bootstrapVars, diskVars, TypeOK, DaemonTypeOK,
                            BootstrapTypeOK
  <2> QED
    BY <1>7, <2>1 DEF FailLookup
<1> QED
  BY <1>1, <1>2, <1>3, <1>4, <1>5, <1>6, <1>7 DEF Progress

\* A result that ends an operation.
LEMMA EndedTyped ==
  ASSUME TypeOK, NEW n \in Node, NEW op \in ops[n], ops' = Without(n, op),
         state' \in [Node -> State], file' \in [Node -> StateFile], faults' \in 0..MaxFaults,
         Unmoved, UNCHANGED <<inbox, bootstrapVars>>
  PROVE  TypeOK'
BY OpsTyped, MovedTyped

LEMMA JoinerResultTyped ==
  ASSUME TypeOK, JoinTypeOK, NEW n \in Node, NEW op \in ops[n], JoinerResult(n, op)
  PROVE  TypeOK' /\ JoinTypeOK'
<1> USE DEF JoinTypeOK, coordinatorVars, joinVars, joinerVars
<1>1. CASE OnJoiningCleanupChecked(n, op)
  BY <1>1, SendForgetMeTyped, EndedTyped DEF OnJoiningCleanupChecked, TypeOK, DaemonTypeOK
<1>2. CASE OnJoiningInstallSucceeded(n, op)
  <2>1. "agent" \in Role
    BY DEF Role
  <2> QED
    BY <1>2, <2>1, BecomeStableTyped, EndedTyped DEF OnJoiningInstallSucceeded, StateFile
<1>3. CASE FailJoining(n, op)
  <2>1. "fb_joining_failed" \in State
    BY JoiningStatesNamed
  <2>2. state' \in [Node -> State]
    BY <1>3, <2>1, TransitionTyped DEF FailJoining
  <2>3. TypeOK'
    BY <1>3, <2>2, EndedTyped DEF FailJoining, TypeOK, DaemonTypeOK
  <2>4. joining' \in [Node -> JoiningProgress]
    BY <1>3 DEF FailJoining, JoiningProgress
  <2> QED
    BY <1>3, <2>3, <2>4 DEF FailJoining
<1>4. CASE IgnoreResult(n, op)
  BY <1>4, EndedTyped DEF IgnoreResult, TypeOK, DaemonTypeOK
<1> QED
  BY <1>1, <1>2, <1>3, <1>4 DEF JoinerResult

LEMMA RoundResultTyped ==
  ASSUME TypeOK, JoinTypeOK, NEW n \in Node, NEW op \in ops[n],
         FinishForgetting(n, op) \/ AbandonCoordination(n, op)
  PROVE  TypeOK' /\ JoinTypeOK'
<1> USE DEF coordinatorVars, joinVars, joinerVars
<1>1. Transition(n, "stable_server") => state' \in [Node -> State]
  BY TransitionTyped, JoiningStatesNamed
<1>2. file \in [Node -> StateFile] /\ faults \in 0..MaxFaults
  BY DEF TypeOK, DaemonTypeOK
<1>3. CASE FinishForgetting(n, op)
  <2>1. confirmed' \subseteq Node /\ faults' \in 0..MaxFaults
    BY <1>3, ConfirmTyped DEF FinishForgetting
  <2>2. TypeOK'
    BY <1>1, <1>2, <1>3, <2>1, EndedTyped DEF FinishForgetting
  <2> QED
    BY <1>3, <2>1, <2>2 DEF FinishForgetting, JoinTypeOK
<1>4. CASE AbandonCoordination(n, op)
  <2>1. TypeOK'
    BY <1>1, <1>2, <1>4, EndedTyped DEF AbandonCoordination
  <2> QED
    BY <1>4, <2>1 DEF AbandonCoordination, JoinTypeOK
<1> QED
  BY <1>3, <1>4

\* Losses and crashes.
LEMMA JoiningFaultTyped ==
  ASSUME TypeOK, JoinTypeOK, NEW n \in Node,
         \/ RestartK3s(n) \/ LoseConfirmation(n) \/ CrashAndForgetAll(n)
         \/ \E name \in Node : LoseRequest(n, name)
  PROVE  TypeOK' /\ JoinTypeOK'
<1> USE DEF coordinatorVars, joinVars, joinerVars
<1>1. CASE RestartK3s(n)
  <2>1. TypeOK'
    BY <1>1 DEF RestartK3s, vars, daemonVars, bootstrapVars, diskVars, TypeOK, DaemonTypeOK,
                BootstrapTypeOK
  <2> QED
    BY <1>1, <2>1 DEF RestartK3s, JoinTypeOK
<1>2. CASE LoseConfirmation(n)
  <2>1. TypeOK'
    BY <1>2, FaultTyped DEF LoseConfirmation, bootstrapVars, diskVars, TypeOK, DaemonTypeOK,
                            BootstrapTypeOK
  <2> QED
    BY <1>2, <2>1 DEF LoseConfirmation, JoinTypeOK
<1>3. CASE CrashAndForgetAll(n)
  <2>1. TypeOK'
    BY <1>3, TimerAndCrashTyped DEF CrashAndForgetAll
  <2>2. joining' \in [Node -> JoiningProgress]
    BY <1>3, ProgressTyped DEF CrashAndForgetAll
  <2> QED
    BY <1>3, <2>1, <2>2 DEF CrashAndForgetAll, JoinTypeOK
<1>4. ASSUME NEW name \in Node, LoseRequest(n, name) PROVE TypeOK' /\ JoinTypeOK'
  <2>1. TypeOK'
    BY <1>4, FaultTyped DEF LoseRequest, bootstrapVars, diskVars, TypeOK, DaemonTypeOK,
                            BootstrapTypeOK
  <2> QED
    BY <1>4, <2>1 DEF LoseRequest, JoinTypeOK
<1> QED
  BY <1>1, <1>2, <1>3, <1>4

LEMMA BootstrapStepTyped ==
  ASSUME TypeOK, NEW n \in Node, UserAction(n) \/ BootstrapHandler(n)
  PROVE  TypeOK'
BY UserActionTyped, HandlerTyped, TimerAndCrashTyped DEF BootstrapHandler, Handler

\* A step that the joining path has no part in.
LEMMA JoiningUntouched == JoinTypeOK /\ UNCHANGED joinVars => JoinTypeOK'
BY DEF JoinTypeOK, joinVars, joinerVars, coordinatorVars

LEMMA JoiningInitTyped == JoiningInit => TypeOK /\ JoinTypeOK
<1> SUFFICES ASSUME JoiningInit PROVE TypeOK /\ JoinTypeOK
  OBVIOUS
<1>1. TypeOK
  BY InitTyped DEF JoiningInit
<1>2. joining \in [Node -> JoiningProgress]
  BY DEF JoiningInit, JoiningProgress, NotJoining
<1>3. nodeObjects \in [Node -> SUBSET Node]
  BY JoiningAssumption, DaemonAssumption DEF JoiningInit
<1> QED
  BY <1>1, <1>2, <1>3 DEF JoiningInit, JoinTypeOK

LEMMA ResultStepTyped ==
  ASSUME TypeOK, JoinTypeOK, NEW n \in Node, ResultStep(n)
  PROVE  TypeOK' /\ JoinTypeOK'
<1>1. PICK op \in ops[n] :
        \/ RejoinStep(n, op) /\ UNCHANGED <<bootstrapVars, joinVars>>
        \/ ResultHandler(n, op) /\ UNCHANGED joinVars
        \/ JoinerResult(n, op)
        \/ FinishForgetting(n, op) \/ AbandonCoordination(n, op)
  BY DEF ResultStep
<1> QED
  BY <1>1, ResultTyped, JoinerResultTyped, RoundResultTyped, JoiningUntouched

LEMMA JoiningNextTyped == TypeOK /\ JoinTypeOK /\ [JoiningNext]_allVars => TypeOK' /\ JoinTypeOK'
<1> SUFFICES ASSUME TypeOK, JoinTypeOK, [JoiningNext]_allVars PROVE TypeOK' /\ JoinTypeOK'
  OBVIOUS
<1>1. CASE Environment /\ UNCHANGED <<bootstrapVars, joinVars>>
  BY <1>1, EnvironmentTyped, JoiningUntouched
<1>2. ASSUME NEW n \in Node, UserAction(n) \/ BootstrapHandler(n), UNCHANGED joinVars
      PROVE  TypeOK' /\ JoinTypeOK'
  BY <1>2, BootstrapStepTyped, JoiningUntouched
<1>3. ASSUME NEW n \in Node, JoinerHandler(n) \/ CoordinatorHandler(n) \/ Progress(n)
      PROVE  TypeOK' /\ JoinTypeOK'
  BY <1>3, JoinerTyped, CoordinatorTyped, JoiningProgressTyped
<1>4. ASSUME NEW n \in Node,
             \/ RestartK3s(n) \/ LoseConfirmation(n) \/ CrashAndForgetAll(n)
             \/ \E name \in Node : LoseRequest(n, name)
      PROVE  TypeOK' /\ JoinTypeOK'
  BY <1>4, JoiningFaultTyped
<1>5. CASE UNCHANGED allVars
  <2>1. UNCHANGED vars /\ UNCHANGED joinVars
    BY <1>5 DEF allVars
  <2> QED
    BY <2>1, JoiningUntouched, NextTyped
<1> QED
  BY <1>1, <1>2, <1>3, <1>4, <1>5, ResultStepTyped DEF JoiningNext, Underneath

\* Whatever fails and whenever, the joining path and the forget-me rounds keep
\* the shape of every record, next to the bootstrap they share machines with.
THEOREM JoiningTypeCorrectness == JoiningSpec => []JoiningTypeOK
<1>1. JoiningInit => TypeOK /\ JoinTypeOK
  BY JoiningInitTyped
<1>2. (TypeOK /\ JoinTypeOK) /\ [JoiningNext]_allVars => (TypeOK /\ JoinTypeOK)'
  BY JoiningNextTyped
<1> QED
  BY <1>1, <1>2, JoiningTypeSplit, PTL DEF JoiningSpec

----------------------------------------------------------------------------
(* Operations and results, as long as nobody crashes *)

\* What the joiner remembers agrees with its state; while its check runs, and
\* until it asks for its name, nothing is asked on its behalf.
JoinerInOrder ==
  \A n \in Node :
    /\ state[n] \in {"starting", "fb_discovering", "fb_bootstrap_confirm", "fb_bootstrap_waiting"}
         => joining[n] = NotJoining
    /\ state[n] = "fb_joining_waiting" /\ joining[n].settled => joining[n].timer = "off"
    /\ state[n] = "fb_joining_cleanup" /\ ops[n] # {}
         => joining[n].timer = "off" /\ ~joining[n].cleaned
    /\ state[n] = "fb_joining_agent" => joining[n].cleaned
    /\ NothingAsked(n) \/ joining[n].timer = "retry" \/ joining[n].cleaned

\* The operations of the machines other than n, and their states, stay.
OnlyMoves(n) == \A m \in Node \ {n} : ops'[m] = ops[m] /\ state'[m] = state[m]

LEMMA AloneIn ==
  ASSUME ResultsReachJoiningToo, NEW n \in Node, NEW op \in ops[n]
  PROVE  ops[n] = {op} /\ state[n] \in WorkflowsOf(op.kind)
BY DEF ResultsReachJoiningToo

\* A machine that awaits no result has no operation.
LEMMA NotAwaiting ==
  ASSUME TypeOK, ResultsReachJoiningToo, NEW n \in Node, state[n] \notin Awaiting
  PROVE  ops[n] = {}
<1> SUFFICES ASSUME NEW op \in ops[n] PROVE FALSE
  OBVIOUS
<1>1. state[n] \in WorkflowsOf(op.kind) /\ op \in Op
  BY AloneIn DEF TypeOK, DaemonTypeOK
<1> QED
  BY <1>1 DEF WorkflowsOf, StateOfOp, Awaiting, InstallState, Op

LEMMA MovesIdle ==
  ASSUME TypeOK, ResultsReachJoiningToo, NEW n \in Node, ops[n] = {}, UNCHANGED ops, OnlyMoves(n)
  PROVE  ResultsReachJoiningToo'
BY DEF ResultsReachJoiningToo, OnlyMoves

LEMMA StartsAlone ==
  ASSUME TypeOK, ResultsReachJoiningToo, NEW n \in Node, ops[n] = {},
         NEW kind, NEW via, NEW to, StartOperation(n, kind, via, to), to \in WorkflowsOf(kind)
  PROVE  ResultsReachJoiningToo' /\ OnlyMoves(n) /\ state'[n] = to
<1>1. /\ OnlyMoves(n) /\ state'[n] = to
      /\ ops'[n] = {NewOp(kind, via)}
  BY DEF StartOperation, Transition, Starting, OnlyMoves, TypeOK, DaemonTypeOK
<1>2. NewOp(kind, via).kind = kind
  BY DEF NewOp
<1> QED
  BY <1>1, <1>2 DEF ResultsReachJoiningToo, OnlyMoves

LEMMA AdvancesAlone ==
  ASSUME TypeOK, ResultsReachJoiningToo, NEW n \in Node, NEW op \in ops[n], NEW phase,
         ops' = InPhase(n, op, phase), UNCHANGED state
  PROVE  /\ ResultsReachJoiningToo' /\ OnlyMoves(n)
         /\ ops[n] # {} /\ ops'[n] # {} /\ state'[n] = state[n]
<1>1. ops'[n] = {[kind |-> op.kind, via |-> op.via, phase |-> phase]} /\ OnlyMoves(n)
  BY AloneIn DEF InPhase, OnlyMoves, TypeOK, DaemonTypeOK
<1>2. state[n] \in WorkflowsOf(op.kind)
  BY AloneIn
<1> QED
  BY <1>1, <1>2 DEF ResultsReachJoiningToo, OnlyMoves

LEMMA EndsAlone ==
  ASSUME TypeOK, ResultsReachJoiningToo, NEW n \in Node, NEW op \in ops[n],
         ops' = Without(n, op), \A m \in Node \ {n} : state'[m] = state[m]
  PROVE  ResultsReachJoiningToo' /\ OnlyMoves(n) /\ ops'[n] = {}
<1>1. ops'[n] = {} /\ OnlyMoves(n)
  BY AloneIn DEF Without, OnlyMoves, TypeOK, DaemonTypeOK
<1> QED
  BY <1>1 DEF ResultsReachJoiningToo, OnlyMoves

LEMMA TransitionMoves ==
  ASSUME TypeOK, NEW n \in Node, NEW to, Transition(n, to)
  PROVE  (\A m \in Node \ {n} : state'[m] = state[m]) /\ state'[n] = to
BY DEF Transition, TypeOK, DaemonTypeOK

----------------------------------------------------------------------------
PreJoining == {"starting", "fb_discovering", "fb_bootstrap_confirm", "fb_bootstrap_waiting"}
OnThePath == {"fb_joining_waiting", "fb_joining_cleanup", "fb_joining_agent"}

\* n moves without entering the joining path, and nothing new is asked.
KeepsOffThePath(n) ==
  /\ OnlyMoves(n)
  /\ state'[n] \in PreJoining => state[n] \in PreJoining
  /\ state'[n] \in OnThePath => state'[n] = state[n] /\ (ops[n] = {} => ops'[n] = {})

NothingNew ==
  /\ UNCHANGED joining
  /\ \A m \in Node : NothingAsked(m) => NothingAsked(m)'

LEMMA NothingNewFromJoinVars == UNCHANGED joinVars => NothingNew
BY DEF NothingNew, NothingAsked, joinVars, joinerVars, coordinatorVars

LEMMA OrderKept ==
  ASSUME JoinerInOrder, NothingNew,
         (\E n \in Node : KeepsOffThePath(n)) \/ UNCHANGED <<state, ops>>
  PROVE  JoinerInOrder'
<1>1. ASSUME NEW n \in Node, KeepsOffThePath(n) PROVE JoinerInOrder'
  <2> SUFFICES ASSUME NEW m \in Node
               PROVE  /\ state'[m] \in PreJoining => joining'[m] = NotJoining
                      /\ state'[m] = "fb_joining_waiting" /\ joining'[m].settled
                           => joining'[m].timer = "off"
                      /\ state'[m] = "fb_joining_cleanup" /\ ops'[m] # {}
                           => joining'[m].timer = "off" /\ ~joining'[m].cleaned
                      /\ state'[m] = "fb_joining_agent" => joining'[m].cleaned
                      /\ NothingAsked(m)' \/ joining'[m].timer = "retry" \/ joining'[m].cleaned
    BY DEF JoinerInOrder, PreJoining
  <2>1. joining'[m] = joining[m] /\ (NothingAsked(m) => NothingAsked(m)')
    BY DEF NothingNew
  <2>2. CASE m = n
    BY <1>1, <2>1, <2>2 DEF KeepsOffThePath, JoinerInOrder, PreJoining, OnThePath
  <2>3. CASE m # n
    BY <1>1, <2>1, <2>3 DEF KeepsOffThePath, OnlyMoves, JoinerInOrder, PreJoining
  <2> QED
    BY <2>2, <2>3
<1>2. CASE UNCHANGED <<state, ops>>
  BY <1>2 DEF JoinerInOrder, NothingNew
<1> QED
  BY <1>1, <1>2

\* Both invariants, for the steps that leave states and operations alone.
OrderInv == ResultsReachJoiningToo /\ JoinerInOrder

LEMMA IdleOrder ==
  ASSUME OrderInv, UNCHANGED <<state, ops>>, NothingNew
  PROVE  OrderInv'
BY OrderKept DEF OrderInv, ResultsReachJoiningToo

LEMMA EnvironmentOrder ==
  ASSUME TypeOK, OrderInv, Environment, UNCHANGED joinVars
  PROVE  OrderInv'
<1>1. NothingNew
  BY NothingNewFromJoinVars
<1>2. ASSUME NEW n \in Node, ChooseInitialState(n) PROVE OrderInv'
  <2>1. ops[n] = {} /\ state[n] = "starting"
    BY <1>2, NotAwaiting DEF ChooseInitialState, OrderInv, Awaiting, InstallState
  <2>2. CASE UNCHANGED ops
    <3>1. (\A m \in Node \ {n} : state'[m] = state[m])
          /\ state'[n] \in {"fb_discovering", "rejoin_failed", "rejoin_cluster"}
      BY <1>2, TransitionMoves DEF ChooseInitialState
    <3>2. KeepsOffThePath(n)
      BY <2>1, <2>2, <3>1 DEF KeepsOffThePath, OnlyMoves, PreJoining, OnThePath
    <3> QED
      BY <1>1, <2>1, <2>2, <3>2, MovesIdle, OrderKept DEF OrderInv, KeepsOffThePath
  <2>3. CASE StartOperation(n, "rejoin", None, "rejoin_cluster")
    <3>1. "rejoin_cluster" \in WorkflowsOf("rejoin")
      BY DEF WorkflowsOf, StateOfOp
    <3>2. ResultsReachJoiningToo' /\ OnlyMoves(n) /\ state'[n] = "rejoin_cluster"
      BY <2>1, <2>3, <3>1, StartsAlone DEF OrderInv
    <3>3. KeepsOffThePath(n)
      BY <3>2 DEF KeepsOffThePath, PreJoining, OnThePath
    <3> QED
      BY <1>1, <3>2, <3>3, OrderKept DEF OrderInv
  <2> QED
    BY <1>2, <2>2, <2>3 DEF ChooseInitialState, StartOperation
<1>3. CASE \E n, m \in Node : Learn(n, m) \/ DetectFailure(n, m) \/ Suspect(n, m)
  BY <1>1, <1>3, IdleOrder DEF Learn, DetectFailure, Suspect
<1>4. CASE \E n \in Node, event \in EventName : Lose(n, event)
  BY <1>1, <1>4, IdleOrder DEF Lose
<1>5. CASE \E n \in Node : PowerOn(n)
  BY <1>1, <1>5, IdleOrder DEF PowerOn
<1> QED
  BY <1>2, <1>3, <1>4, <1>5 DEF Environment

\* An installation of the bootstrap starts in a state without operation.
LEMMA BootstrapInstallOrder ==
  ASSUME TypeOK, OrderInv, NEW n \in Node, ops[n] = {},
         \/ \E c, v : InstallIfTurn(c, n, v)
         \/ StartOperation(n, "init", None, "fb_bootstrap_install_init")
  PROVE  ResultsReachJoiningToo' /\ KeepsOffThePath(n)
<1>1. PICK kind \in {"init", "server", "agent"} : \E via : \E to \in InstallState :
        StartOperation(n, kind, via, to) /\ to \in WorkflowsOf(kind)
  BY DEF InstallIfTurn, WorkflowsOf, StateOfOp, InstallState
<1>2. ResultsReachJoiningToo' /\ OnlyMoves(n) /\ state'[n] \in InstallState
  BY <1>1, StartsAlone DEF OrderInv
<1> QED
  BY <1>2 DEF KeepsOffThePath, PreJoining, OnThePath, InstallState

LEMMA BootstrapOrder ==
  ASSUME TypeOK, OrderInv, NEW n \in Node, UserAction(n) \/ BootstrapHandler(n), UNCHANGED joinVars
  PROVE  OrderInv'
<1>1. NothingNew
  BY NothingNewFromJoinVars
<1>2. state[n] \in PreJoining => ops[n] = {}
  BY NotAwaiting DEF OrderInv, PreJoining, Awaiting, InstallState
<1>3. ASSUME NEW to \in PreJoining \cup {"fb_bootstrap_failed"}, Transition(n, to), UNCHANGED ops,
             state[n] \in PreJoining
      PROVE  OrderInv'
  <2>1. OnlyMoves(n) /\ state'[n] = to
    BY <1>3, TransitionMoves DEF OnlyMoves
  <2>2. KeepsOffThePath(n)
    BY <1>3, <2>1 DEF KeepsOffThePath, PreJoining, OnThePath
  <2> QED
    BY <1>1, <1>2, <1>3, <2>1, <2>2, MovesIdle, OrderKept DEF OrderInv
<1>4. ASSUME state[n] \in PreJoining,
             \/ \E c, v : InstallIfTurn(c, n, v)
             \/ StartOperation(n, "init", None, "fb_bootstrap_install_init")
      PROVE  OrderInv'
  BY <1>1, <1>2, <1>4, BootstrapInstallOrder, OrderKept DEF OrderInv
<1>5. CASE UNCHANGED <<state, ops>>
  BY <1>1, <1>5, IdleOrder
<1>6. CASE UserAction(n)
  BY <1>3, <1>5, <1>6
     DEF UserAction, RequestBootstrap, CancelBootstrap, ConfirmBootstrap, PreJoining
<1>7. CASE OnBootstrapRequested(n)
  BY <1>3, <1>7 DEF OnBootstrapRequested, CanEnterWaiting, PreJoining
<1>8. CASE OnBootstrapWaitExpired(n)
  BY <1>3, <1>5, <1>8 DEF OnBootstrapWaitExpired, PreJoining
<1>9. CASE OnBootstrapStart(n)
  <2>1. state[n] \in PreJoining
    BY <1>9 DEF OnBootstrapStart, InitializeCluster, RefuseToInitialize, TakeRole, ComputeRole,
                PreJoining
  <2> QED
    BY <1>3, <1>4, <1>5, <1>9, <2>1
       DEF OnBootstrapStart, InitializeCluster, RefuseToInitialize, TakeRole
<1>10. CASE InstallOnTurn(n)
  BY <1>4, <1>10 DEF InstallOnTurn, PreJoining
<1>11. CASE TimerFires(n) \/ \E event \in EventName : IgnoreEvent(n, event)
  BY <1>5, <1>11 DEF TimerFires, IgnoreEvent
<1> QED
  BY <1>6, <1>7, <1>8, <1>9, <1>10, <1>11 DEF BootstrapHandler

----------------------------------------------------------------------------
\* What JoinerInOrder says of one machine.
Orderly(m) ==
  /\ state[m] \in PreJoining => joining[m] = NotJoining
  /\ state[m] = "fb_joining_waiting" /\ joining[m].settled => joining[m].timer = "off"
  /\ state[m] = "fb_joining_cleanup" /\ ops[m] # {}
       => joining[m].timer = "off" /\ ~joining[m].cleaned
  /\ state[m] = "fb_joining_agent" => joining[m].cleaned
  /\ NothingAsked(m) \/ joining[m].timer = "retry" \/ joining[m].cleaned

LEMMA OrderlyEach == JoinerInOrder <=> \A m \in Node : Orderly(m)
BY DEF JoinerInOrder, Orderly, PreJoining

\* The machines that a step of n does not concern.
LEMMA OthersOrderly ==
  ASSUME JoinerInOrder, NEW n \in Node, OnlyMoves(n),
         \A m \in Node \ {n} : joining'[m] = joining[m] /\ (NothingAsked(m) => NothingAsked(m)'),
         Orderly(n)'
  PROVE  JoinerInOrder'
<1>1. ASSUME NEW m \in Node, m # n PROVE Orderly(m)'
  <2>1. Orderly(m)
    BY OrderlyEach
  <2>2. joining'[m] = joining[m] /\ (NothingAsked(m) => NothingAsked(m)') /\ ops'[m] = ops[m]
        /\ state'[m] = state[m]
    BY <1>1 DEF OnlyMoves
  <2> QED
    BY <2>1, <2>2 DEF Orderly
<1>2. \A m \in Node : Orderly(m)'
  BY <1>1
<1> QED
  BY <1>2 DEF JoinerInOrder, Orderly, PreJoining

\* A step that sends no request leaves what is asked as it is, or shrinks it.
LEMMA FewerAsked ==
  ASSUME TypeOK, JoinTypeOK, UNCHANGED <<lookups, cleaning>>, confirmed' \subseteq confirmed,
         \A m \in Node : requests'[m] \subseteq requests[m]
  PROVE  \A m \in Node : NothingAsked(m) => NothingAsked(m)'
BY DEF NothingAsked

\* The next step of a joiner that has nothing running.
LEMMA ProceedOrder ==
  ASSUME TypeOK, OrderInv, NEW n \in Node, ops[n] = {}, NEW cleaned \in BOOLEAN,
         Proceed(n, cleaned)
  PROVE  /\ ResultsReachJoiningToo' /\ OnlyMoves(n)
         /\ state'[n] = IF cleaned THEN "fb_joining_agent" ELSE "fb_joining_cleanup"
<1>1. /\ "fb_joining_agent" \in WorkflowsOf("agent")
      /\ "fb_joining_cleanup" \in WorkflowsOf("check")
  BY DEF WorkflowsOf, StateOfOp
<1>2. CASE cleaned
  BY <1>1, <1>2, StartsAlone DEF Proceed, OrderInv
<1>3. CASE ~cleaned
  BY <1>1, <1>3, StartsAlone DEF Proceed, OrderInv
<1> QED
  BY <1>2, <1>3

LEMMA JoinerOrder ==
  ASSUME TypeOK, JoinTypeOK, OrderInv, NEW n \in Node, JoinerHandler(n)
  PROVE  OrderInv'
<1> USE DEF joinVars, joinerVars, coordinatorVars
<1>0. /\ Orderly(n) /\ joining[n] \in JoiningProgress
      /\ \A m \in Node \ {n} : \A p : [joining EXCEPT ![n] = p][m] = joining[m]
  BY OrderlyEach DEF OrderInv, JoinTypeOK
<1>1. CASE StartJoiningPath(n)
  <2>1. ops[n] = {} /\ joining[n] = NotJoining
    BY <1>0, <1>1, NotAwaiting
       DEF StartJoiningPath, DivertToJoining, OrderInv, Orderly, PreJoining, Awaiting, InstallState
  <2>2. OnlyMoves(n) /\ UNCHANGED ops /\ state'[n] = "fb_joining_waiting"
    BY <1>1, TransitionMoves DEF StartJoiningPath, DivertToJoining, OnlyMoves
  <2>3. /\ joining'[n].settled = FALSE
        /\ \A m \in Node \ {n} : joining'[m] = joining[m]
        /\ \A m \in Node : NothingAsked(m) => NothingAsked(m)'
    BY <1>1, <2>1 DEF StartJoiningPath, NotJoining, JoinTypeOK, JoiningProgress, NothingAsked
  <2>4. NothingAsked(n)
    BY <1>0, <2>1 DEF Orderly, NotJoining
  <2>5. Orderly(n)'
    BY <2>2, <2>3, <2>4 DEF Orderly, PreJoining
  <2> QED
    BY <2>1, <2>2, <2>3, <2>5, MovesIdle, OthersOrderly DEF OrderInv
<1>2. CASE OnJoinWaitExpired(n)
  <2>1. ops[n] = {} /\ state[n] = "fb_joining_waiting" /\ joining[n].timer = "grace"
    BY <1>2, NotAwaiting DEF OnJoinWaitExpired, OrderInv, Awaiting, InstallState
  <2>2. /\ joining'[n].timer = "off" /\ joining'[n].cleaned = joining[n].cleaned
        /\ \A m \in Node \ {n} : joining'[m] = joining[m]
        /\ \A m \in Node : NothingAsked(m) => NothingAsked(m)'
    BY <1>2 DEF OnJoinWaitExpired, JoinTypeOK, JoiningProgress, NothingAsked
  <2>3. NothingAsked(n) \/ joining[n].cleaned
    BY <1>0, <2>1 DEF Orderly
  <2>4. CASE UNCHANGED <<state, ops>>
    <3>1. OnlyMoves(n) /\ Orderly(n)'
      BY <2>1, <2>2, <2>3, <2>4 DEF OnlyMoves, Orderly, PreJoining
    <3> QED
      BY <2>1, <2>2, <2>4, <3>1, MovesIdle, OthersOrderly DEF OrderInv
  <2>5. CASE Proceed(n, joining[n].cleaned)
    <3>1. joining[n].cleaned \in BOOLEAN
      BY <1>0 DEF JoiningProgress
    <3>2. /\ ResultsReachJoiningToo' /\ OnlyMoves(n)
          /\ state'[n] = IF joining[n].cleaned THEN "fb_joining_agent" ELSE "fb_joining_cleanup"
      BY <2>1, <2>5, <3>1, ProceedOrder
    <3>3. Orderly(n)'
      BY <2>2, <2>3, <3>2 DEF Orderly, PreJoining
    <3> QED
      BY <2>2, <3>2, <3>3, OthersOrderly DEF OrderInv
  <2> QED
    BY <1>2, <2>4, <2>5 DEF OnJoinWaitExpired
<1>3. CASE MaybeJoinCluster(n)
  <2>1. ops[n] = {} /\ state[n] = "fb_joining_waiting" /\ joining[n].timer = "off"
    BY <1>0, <1>3, NotAwaiting DEF MaybeJoinCluster, OrderInv, Awaiting, InstallState, Orderly
  <2>2. NothingNew
    BY <1>3, NothingNewFromJoinVars DEF MaybeJoinCluster
  <2>3. joining[n].cleaned \in BOOLEAN
    BY <1>0 DEF JoiningProgress
  <2>4. /\ ResultsReachJoiningToo' /\ OnlyMoves(n)
        /\ state'[n] = IF joining[n].cleaned THEN "fb_joining_agent" ELSE "fb_joining_cleanup"
    BY <1>3, <2>1, <2>3, ProceedOrder DEF MaybeJoinCluster
  <2>5. Orderly(n)'
    BY <1>0, <2>1, <2>2, <2>4 DEF Orderly, PreJoining, NothingNew
  <2> QED
    BY <2>2, <2>4, <2>5, OthersOrderly DEF OrderInv, NothingNew
<1>4. CASE OnForgetRetry(n)
  <2>1. /\ joining'[n].timer = "retry" /\ UNCHANGED <<state, ops>>
        /\ state[n] = "fb_joining_cleanup" /\ joining[n].timer = "retry"
        /\ \A m \in Node \ {n} : joining'[m] = joining[m]
    BY <1>4 DEF OnForgetRetry, SendForgetMe, JoinTypeOK, JoiningProgress
  <2>2. \A m \in Node \ {n} : NothingAsked(m) => NothingAsked(m)'
    BY <1>4 DEF OnForgetRetry, SendForgetMe, NothingAsked
  <2>3. OnlyMoves(n) /\ Orderly(n)'
    BY <1>0, <2>1 DEF OnlyMoves, Orderly, PreJoining
  <2>4. ResultsReachJoiningToo'
    BY <2>1 DEF OrderInv, ResultsReachJoiningToo
  <2> QED
    BY <2>1, <2>2, <2>3, <2>4, OthersOrderly DEF OrderInv
<1>5. CASE OnForgotten(n)
  <2>1. \A m \in Node : NothingAsked(m) => NothingAsked(m)'
    BY <1>5, FewerAsked DEF OnForgotten
  <2>2. CASE UNCHANGED <<state, ops, joining>>
    BY <2>1, <2>2, IdleOrder DEF NothingNew
  <2>3. CASE /\ state[n] = "fb_joining_cleanup"
             /\ joining' = [joining EXCEPT ![n].timer = "off", ![n].cleaned = TRUE]
             /\ IF CanBeJoined(Observe(n)) THEN Proceed(n, TRUE)
                ELSE Transition(n, "fb_joining_waiting") /\ UNCHANGED ops
    <3>1. ops[n] = {}
      BY <1>0, <1>5, <2>3 DEF OnForgotten, Orderly, NothingAsked
    <3>2. /\ joining'[n].timer = "off" /\ joining'[n].cleaned
          /\ \A m \in Node \ {n} : joining'[m] = joining[m]
      BY <2>3 DEF JoinTypeOK, JoiningProgress
    <3>3. CASE Proceed(n, TRUE)
      <4>1. ResultsReachJoiningToo' /\ OnlyMoves(n) /\ state'[n] = "fb_joining_agent"
        BY <3>1, <3>3, ProceedOrder
      <4>2. Orderly(n)'
        BY <3>2, <4>1 DEF Orderly, PreJoining
      <4> QED
        BY <2>1, <3>2, <4>1, <4>2, OthersOrderly DEF OrderInv
    <3>4. CASE Transition(n, "fb_joining_waiting") /\ UNCHANGED ops
      <4>1. OnlyMoves(n) /\ state'[n] = "fb_joining_waiting"
        BY <3>4, TransitionMoves DEF OnlyMoves
      <4>2. Orderly(n)'
        BY <3>2, <4>1 DEF Orderly, PreJoining
      <4> QED
        BY <2>1, <3>1, <3>2, <3>4, <4>1, <4>2, MovesIdle, OthersOrderly DEF OrderInv
    <3> QED
      BY <2>3, <3>3, <3>4
  <2> QED
    BY <1>5, <2>2, <2>3 DEF OnForgotten
<1> QED
  BY <1>1, <1>2, <1>3, <1>4, <1>5 DEF JoinerHandler

LEMMA CoordinatorOrder ==
  ASSUME TypeOK, JoinTypeOK, OrderInv, NEW n \in Node, CoordinatorHandler(n)
  PROVE  OrderInv'
<1> USE DEF joinVars, joinerVars, coordinatorVars
<1>1. ASSUME NEW name \in Node, OnForgetMe(n, name) PROVE OrderInv'
  <2>1. UNCHANGED <<state, ops, joining, confirmed, cleaning>>
    BY <1>1 DEF OnForgetMe, vars, daemonVars
  <2>2. ASSUME NEW m \in Node, NothingAsked(m) PROVE NothingAsked(m)'
    BY <1>1, <2>2 DEF OnForgetMe, NothingAsked, JoinTypeOK
  <2> QED
    BY <2>1, <2>2, IdleOrder DEF NothingNew
<1>2. ASSUME NEW l \in lookups[n], OnForgetProbed(n, l) PROVE OrderInv'
  <2>1. UNCHANGED <<joining, requests>> /\ ~NothingAsked(l.name)
    BY <1>2 DEF OnForgetProbed, NothingAsked
  <2>2. ASSUME NEW m \in Node, NothingAsked(m) PROVE NothingAsked(m)'
    <3>1. m # l.name
      BY <2>1, <2>2
    <3> QED
      BY <1>2, <2>2, <3>1 DEF OnForgetProbed, ConfirmForgotten, NothingAsked, JoinTypeOK
  <2>3. NothingNew
    BY <2>1, <2>2 DEF NothingNew
  <2>4. CASE UNCHANGED <<state, ops>>
    BY <2>3, <2>4, IdleOrder
  <2>5. CASE CanForget(n, l.name) /\ StartOperation(n, "erase", l.name, "rescale_coordinating")
    <3>1. ops[n] = {}
      BY <2>5, NotAwaiting DEF CanForget, OrderInv, Awaiting, InstallState
    <3>2. "rescale_coordinating" \in WorkflowsOf("erase")
      BY DEF WorkflowsOf, StateOfOp
    <3>3. ResultsReachJoiningToo' /\ OnlyMoves(n) /\ state'[n] = "rescale_coordinating"
      BY <2>5, <3>1, <3>2, StartsAlone DEF OrderInv
    <3>4. KeepsOffThePath(n)
      BY <3>3 DEF KeepsOffThePath, PreJoining, OnThePath
    <3> QED
      BY <2>3, <3>3, <3>4, OrderKept DEF OrderInv
  <2> QED
    BY <1>2, <2>4, <2>5 DEF OnForgetProbed
<1> QED
  BY <1>1, <1>2 DEF CoordinatorHandler

LEMMA AdvanceOrder ==
  ASSUME TypeOK, OrderInv, NEW n \in Node, NEW op \in ops[n], NEW phase,
         ops' = InPhase(n, op, phase), UNCHANGED state, NothingNew
  PROVE  OrderInv'
<1>1. /\ ResultsReachJoiningToo' /\ OnlyMoves(n)
      /\ ops[n] # {} /\ ops'[n] # {} /\ state'[n] = state[n]
  BY AdvancesAlone DEF OrderInv
<1>2. KeepsOffThePath(n)
  BY <1>1 DEF KeepsOffThePath
<1> QED
  BY <1>1, <1>2, OrderKept DEF OrderInv

LEMMA ProgressOrder ==
  ASSUME TypeOK, JoinTypeOK, OrderInv, NEW n \in Node, Progress(n)
  PROVE  OrderInv'
<1> USE DEF joinVars, joinerVars, coordinatorVars
<1>1. ASSUME NEW op \in ops[n], JoinOpStep(n, op) PROVE OrderInv'
  <2>1. NothingNew
    BY <1>1 DEF JoinOpStep, NothingNew, NothingAsked
  <2>2. UNCHANGED state /\ \E phase : ops' = InPhase(n, op, phase)
    BY <1>1 DEF JoinOpStep, OpStep, RefuseToReinstall, RunInstallScript, FailInstallScript,
                CheckInstalledRole, BecomeReady, TimeOut
  <2> QED
    BY <2>1, <2>2, AdvanceOrder
<1>2. ASSUME NEW op \in ops[n],
             \/ WaitInVain(n, op) \/ CheckNotInstalled(n, op)
             \/ EraseNode(n, op) \/ FailErase(n, op)
      PROVE  OrderInv'
  <2>1. NothingNew
    BY <1>2 DEF WaitInVain, CheckNotInstalled, EraseNode, FailErase, NothingNew, NothingAsked
  <2>2. UNCHANGED state /\ \E phase : ops' = InPhase(n, op, phase)
    BY <1>2 DEF WaitInVain, CheckNotInstalled, EraseNode, FailErase
  <2> QED
    BY <2>1, <2>2, AdvanceOrder
<1>3. ASSUME NEW l \in lookups[n], AnswerLookup(n, l) \/ FailLookup(n, l) PROVE OrderInv'
  <2>1. UNCHANGED <<state, ops, joining, confirmed, requests, cleaning>>
    BY <1>3 DEF AnswerLookup, FailLookup, vars, daemonVars
  <2>2. ASSUME NEW m \in Node, NothingAsked(m) PROVE NothingAsked(m)'
    <3>1. ASSUME NEW k \in Node, NEW a \in lookups'[k] PROVE a.name # m
      BY <1>3, <2>2, <3>1 DEF AnswerLookup, FailLookup, NothingAsked, JoinTypeOK, Lookup
    <3> QED
      BY <2>1, <2>2, <3>1 DEF NothingAsked
  <2> QED
    BY <2>1, <2>2, IdleOrder DEF NothingNew
<1> QED
  BY <1>1, <1>2, <1>3 DEF Progress

\* A result that takes n off the joining path.
LEMMA EndOrder ==
  ASSUME TypeOK, OrderInv, NEW n \in Node, NEW op \in ops[n], ops' = Without(n, op),
         NothingNew, NEW to \in State \ (PreJoining \cup OnThePath), Transition(n, to)
  PROVE  OrderInv'
<1>1. (\A m \in Node \ {n} : state'[m] = state[m]) /\ state'[n] = to
  BY TransitionMoves
<1>2. ResultsReachJoiningToo' /\ OnlyMoves(n)
  BY <1>1, EndsAlone DEF OrderInv
<1>3. KeepsOffThePath(n)
  BY <1>1, <1>2 DEF KeepsOffThePath
<1> QED
  BY <1>2, <1>3, OrderKept DEF OrderInv

LEMMA ResultOrder ==
  ASSUME TypeOK, JoinTypeOK, OrderInv, NEW n \in Node, ResultStep(n)
  PROVE  OrderInv'
<1> USE DEF joinVars, joinerVars, coordinatorVars
<1>0. /\ Orderly(n) /\ joining[n] \in JoiningProgress
      /\ \A role : StableState(role) \in State \ (PreJoining \cup OnThePath)
      /\ {"fb_joining_failed", "fb_bootstrap_failed", "rejoin_failed"}
           \subseteq State \ (PreJoining \cup OnThePath)
  BY OrderlyEach
     DEF OrderInv, JoinTypeOK, StableState, State, FirstBoot, InCluster, PreJoining, OnThePath
<1>1. ASSUME NEW op \in ops[n], RejoinStep(n, op), UNCHANGED joinVars PROVE OrderInv'
  BY <1>0, <1>1, EndOrder, NothingNewFromJoinVars
     DEF RejoinStep, OnRejoinReady, FailRejoin, BecomeStable
<1>2. ASSUME NEW op \in ops[n], ResultHandler(n, op), UNCHANGED joinVars PROVE OrderInv'
  BY <1>0, <1>2, EndOrder, NothingNewFromJoinVars
     DEF ResultHandler, OnBootstrapInstallSucceeded, FailBootstrap, BecomeStable
<1>3. ASSUME NEW op \in ops[n], OnJoiningCleanupChecked(n, op) PROVE OrderInv'
  <2>1. ResultsReachJoiningToo' /\ OnlyMoves(n) /\ ops'[n] = {} /\ UNCHANGED state
    BY <1>3, EndsAlone DEF OnJoiningCleanupChecked, OrderInv
  <2>2. /\ joining'[n].timer = "retry" /\ state[n] = "fb_joining_cleanup"
        /\ \A m \in Node \ {n} : joining'[m] = joining[m]
    BY <1>3 DEF OnJoiningCleanupChecked, SendForgetMe, JoinTypeOK, JoiningProgress
  <2>3. \A m \in Node \ {n} : NothingAsked(m) => NothingAsked(m)'
    BY <1>3 DEF OnJoiningCleanupChecked, SendForgetMe, NothingAsked
  <2>4. Orderly(n)'
    BY <2>1, <2>2 DEF Orderly, PreJoining
  <2> QED
    BY <2>1, <2>2, <2>3, <2>4, OthersOrderly DEF OrderInv
<1>4. ASSUME NEW op \in ops[n], OnJoiningInstallSucceeded(n, op) PROVE OrderInv'
  BY <1>0, <1>4, EndOrder, NothingNewFromJoinVars DEF OnJoiningInstallSucceeded, BecomeStable
<1>5. ASSUME NEW op \in ops[n], FailJoining(n, op) PROVE OrderInv'
  <2>1. (\A m \in Node \ {n} : state'[m] = state[m]) /\ state'[n] = "fb_joining_failed"
    BY <1>5, TransitionMoves DEF FailJoining
  <2>2. ResultsReachJoiningToo' /\ OnlyMoves(n)
    BY <1>5, <2>1, EndsAlone DEF FailJoining, OrderInv
  <2>3. /\ joining'[n].cleaned = joining[n].cleaned
        /\ \A m \in Node \ {n} : joining'[m] = joining[m]
        /\ \A m \in Node : NothingAsked(m) => NothingAsked(m)'
    BY <1>5 DEF FailJoining, JoinTypeOK, JoiningProgress, NothingAsked
  <2>4. NothingAsked(n) \/ joining[n].cleaned
    BY <1>0, <1>5 DEF FailJoining, Orderly
  <2>5. Orderly(n)'
    BY <2>1, <2>3, <2>4 DEF Orderly, PreJoining
  <2> QED
    BY <2>2, <2>3, <2>5, OthersOrderly DEF OrderInv
<1>6. ASSUME NEW op \in ops[n], IgnoreResult(n, op) PROVE OrderInv'
  BY <1>6, NotAwaiting DEF IgnoreResult, OrderInv
<1>7. ASSUME NEW op \in ops[n], FinishForgetting(n, op) \/ AbandonCoordination(n, op)
      PROVE  OrderInv'
  <2>1. ASSUME NEW m \in Node, NothingAsked(m) PROVE NothingAsked(m)'
    BY <1>7, <2>1, DaemonAssumption
       DEF FinishForgetting, AbandonCoordination, ConfirmForgotten, NothingAsked, JoinTypeOK
  <2>2. NothingNew
    BY <1>7, <2>1 DEF FinishForgetting, AbandonCoordination, NothingNew
  <2>3. "stable_server" \in State \ (PreJoining \cup OnThePath)
    BY DEF State, FirstBoot, InCluster, PreJoining, OnThePath
  <2> QED
    BY <1>7, <2>2, <2>3, EndOrder DEF FinishForgetting, AbandonCoordination
<1> QED
  BY <1>1, <1>2, <1>3, <1>4, <1>5, <1>6, <1>7 DEF ResultStep, JoinerResult

LEMMA LossOrder ==
  ASSUME TypeOK, JoinTypeOK, OrderInv, NEW n \in Node,
         \/ RestartK3s(n) \/ LoseConfirmation(n)
         \/ \E name \in Node : LoseRequest(n, name)
  PROVE  OrderInv'
<1> USE DEF joinVars, joinerVars, coordinatorVars
<1>1. UNCHANGED <<state, ops, joining>>
  BY DEF RestartK3s, LoseConfirmation, LoseRequest, vars, daemonVars
<1>2. \A m \in Node : NothingAsked(m) => NothingAsked(m)'
  BY FewerAsked DEF RestartK3s, LoseConfirmation, LoseRequest, JoinTypeOK
<1> QED
  BY <1>1, <1>2, IdleOrder DEF NothingNew

LEMMA InitOrder == JoiningInit => OrderInv
<1> SUFFICES ASSUME JoiningInit PROVE OrderInv
  OBVIOUS
<1>1. ResultsReachJoiningToo
  BY DEF JoiningInit, Init, DaemonInit, ResultsReachJoiningToo
<1>2. ASSUME NEW n \in Node PROVE Orderly(n)
  <2>1. state[n] \in {"stable_server", "starting", "fb_discovering"} /\ joining[n] = NotJoining
    BY DEF JoiningInit, Init, DaemonInit
  <2>2. NothingAsked(n)
    BY DaemonAssumption DEF JoiningInit, NothingAsked
  <2> QED
    BY <2>1, <2>2 DEF Orderly
<1> QED
  BY <1>1, <1>2, OrderlyEach DEF OrderInv

LEMMA StepOrder ==
  ASSUME "crash" \notin Faults, TypeOK, JoinTypeOK, OrderInv, [JoiningNext]_allVars
  PROVE  OrderInv'
<1>1. CASE Environment /\ UNCHANGED <<bootstrapVars, joinVars>>
  BY <1>1, EnvironmentOrder
<1>2. ASSUME NEW n \in Node, UserAction(n) \/ BootstrapHandler(n), UNCHANGED joinVars
      PROVE  OrderInv'
  BY <1>2, BootstrapOrder
<1>3. ASSUME NEW n \in Node, JoinerHandler(n) \/ CoordinatorHandler(n) \/ Progress(n)
      PROVE  OrderInv'
  BY <1>3, JoinerOrder, CoordinatorOrder, ProgressOrder
<1>4. ASSUME NEW n \in Node, CrashAndForgetAll(n) PROVE FALSE
  BY <1>4 DEF CrashAndForgetAll, CrashAndForget, Crash, Fault
<1>5. CASE UNCHANGED allVars
  BY <1>5, IdleOrder, NothingNewFromJoinVars DEF allVars, vars, daemonVars
<1> QED
  BY <1>1, <1>2, <1>3, <1>4, <1>5, LossOrder, ResultOrder DEF JoiningNext, Underneath

\* As long as antsd does not stop, the result of an operation of K3s always
\* reaches the workflow that started it, the joining path and the forget-me
\* rounds included, whatever is lost, late or repeated: a late confirmation
\* never moves a machine whose check still runs (manager.go:321).
THEOREM JoiningResultsReachTheirWorkflow ==
  ASSUME "crash" \notin Faults
  PROVE  JoiningSpec => []ResultsReachJoiningToo
<1> DEFINE Inv == TypeOK /\ JoinTypeOK /\ OrderInv
<1>1. JoiningInit => Inv
  BY JoiningInitTyped, InitOrder
<1>2. Inv /\ [JoiningNext]_allVars => Inv'
  BY JoiningNextTyped, StepOrder
<1>3. Inv => ResultsReachJoiningToo
  BY DEF OrderInv
<1> QED
  BY <1>1, <1>2, <1>3, PTL DEF JoiningSpec

----------------------------------------------------------------------------
(* Names are freed before K3s is installed: beside a running cluster, as    *)
(* long as nobody asks for another one, and whatever fails or crashes       *)

TheCluster == Min(Established)

\* The cluster does not know the name of a machine that holds no K3s.
Free(name) ==
  Established # {} /\ unit[name] = "none" => name \notin nodeObjects[TheCluster]

LEMMA TheClusterIsFounded == Established # {} => TheCluster \in Node
BY MinIsLowest, DaemonAssumption DEF TheCluster

Bootstrapping == {"fb_bootstrap_confirm", "fb_bootstrap_waiting"} \cup InstallState

\* m does not bootstrap, and takes only the founders of the cluster for servers.
TrustsFounders(m) ==
  /\ inbox[m] = {} /\ state[m] \notin Bootstrapping
  /\ m \in Established => cluster[m] = TheCluster /\ unit[m] = "server"
  /\ \/ file[m] = "server" \/ state[m] \in {"stable_server", "rescale_coordinating"}
     \/ lookups[m] # {}
     => m \in Established
  /\ \A k \in Node : view[m][k].state = "stable_server" => k \in Established

\* The operations of m are those its state allows, as far as rounds need it ...
OpsInOrder(m) ==
  /\ state[m] \in {"starting", "stable_server"} => ops[m] = {}
  /\ state[m] = "rejoin_cluster" => \A op, other \in ops[m] : op = other
  /\ state[m] = "rescale_coordinating" =>
       \A op, other \in ops[m] : op = other /\ op.kind = "erase" /\ op.via = cleaning[m]

\* ... and each has a reason: an agent is installed in the cluster under a free
\* name, a name is erased by a founder and is free when that succeeds.
Justified(m, op) ==
  /\ op.kind \notin {"init", "server"}
  /\ op.kind = "agent" => op.via \in Established /\ Free(m)
  /\ op.kind = "erase" =>
       m \in Established /\ op.phase # "wait" /\ (op.phase = "ok" => Free(op.via))

\* What m was told, or found out, of a name is true.
WellInformed(m) ==
  /\ m \in confirmed \/ joining[m].cleaned => Free(m)
  /\ \A l \in lookups[m] : l.phase = "absent" => Free(l.name)

Sound(m) ==
  /\ TrustsFounders(m) /\ OpsInOrder(m) /\ WellInformed(m)
  /\ \A op \in ops[m] : Justified(m, op)

AllSound == \A m \in Node : Sound(m)

\* Only an installation changes what is installed, and K3s registers the name
\* of a machine only when it runs there.
LEMMA DiskStep ==
  ASSUME TypeOK, JoinTypeOK, [JoiningNext]_allVars
  PROVE  \/ \E n \in Node : \E op \in ops[n] : JoinOpStep(n, op)
         \/ /\ UNCHANGED diskVars
            /\ \A c \in Node : nodeObjects'[c] \subseteq
                                 nodeObjects[c] \cup {k \in Node : unit[k] # "none"}
<1> USE DEF joinVars, joinerVars, coordinatorVars, diskVars
<1> DEFINE Kept == /\ UNCHANGED diskVars
                   /\ \A c \in Node : nodeObjects'[c] \subseteq
                                        nodeObjects[c] \cup {k \in Node : unit[k] # "none"}
<1>1. nodeObjects \in [Node -> SUBSET Node]
  BY DEF JoinTypeOK
<1>2. UNCHANGED <<diskVars, nodeObjects>> => Kept
  OBVIOUS
<1>3. CASE Environment /\ UNCHANGED <<bootstrapVars, joinVars>>
  BY <1>2, <1>3 DEF Environment, Learn, DetectFailure, Suspect, Lose, PowerOn, ChooseInitialState
<1>4. ASSUME NEW n \in Node, UserAction(n) \/ BootstrapHandler(n), UNCHANGED joinVars
      PROVE  UNCHANGED <<diskVars, nodeObjects>>
  BY <1>4 DEF UserAction, RequestBootstrap, CancelBootstrap, ConfirmBootstrap, BootstrapHandler,
    OnBootstrapRequested, OnBootstrapWaitExpired, OnBootstrapStart, InitializeCluster,
    RefuseToInitialize, TakeRole, ComputeRole, InstallOnTurn, TimerFires, IgnoreEvent, Unmoved
<1>5. ASSUME NEW n \in Node, JoinerHandler(n) \/ CoordinatorHandler(n)
      PROVE  UNCHANGED <<diskVars, nodeObjects>>
  BY <1>5 DEF JoinerHandler, CoordinatorHandler, StartJoiningPath, DivertToJoining,
    OnJoinWaitExpired, MaybeJoinCluster, OnForgetRetry, SendForgetMe, OnForgotten, OnForgetMe,
    OnForgetProbed, Unmoved, vars, daemonVars
<1>6. ASSUME NEW n \in Node, ResultStep(n)
      PROVE  UNCHANGED <<diskVars, nodeObjects>>
  BY <1>6 DEF ResultStep, RejoinStep, OnRejoinReady, FailRejoin, ResultHandler,
    OnBootstrapInstallSucceeded, FailBootstrap, JoinerResult, OnJoiningCleanupChecked,
    SendForgetMe, OnJoiningInstallSucceeded, FailJoining, IgnoreResult, FinishForgetting,
    AbandonCoordination, Unmoved
<1>7. ASSUME NEW n \in Node, Progress(n), ~ \E op \in ops[n] : JoinOpStep(n, op)
      PROVE  Kept
  <2>1. ASSUME NEW op \in ops[n], EraseNode(n, op) \/ FailErase(n, op)
        PROVE  Kept
    BY <1>1, <2>1 DEF EraseNode, FailErase
  <2>2. ASSUME NEW op \in ops[n], WaitInVain(n, op) \/ CheckNotInstalled(n, op)
        PROVE  UNCHANGED <<diskVars, nodeObjects>>
    BY <2>2 DEF WaitInVain, CheckNotInstalled
  <2>3. ASSUME NEW l \in lookups[n], AnswerLookup(n, l) \/ FailLookup(n, l)
        PROVE  UNCHANGED <<diskVars, nodeObjects>>
    BY <2>3 DEF AnswerLookup, FailLookup, vars, daemonVars
  <2> QED
    BY <1>2, <1>7, <2>1, <2>2, <2>3 DEF Progress
<1>8. ASSUME NEW n \in Node, RestartK3s(n) PROVE Kept
  BY <1>1, <1>8 DEF RestartK3s, vars, daemonVars
<1>9. ASSUME NEW n \in Node,
             \/ LoseConfirmation(n) \/ CrashAndForgetAll(n)
             \/ \E name \in Node : LoseRequest(n, name)
      PROVE  UNCHANGED <<diskVars, nodeObjects>>
  BY <1>9 DEF LoseConfirmation, LoseRequest, CrashAndForgetAll, CrashAndForget, Crash
<1>10. CASE UNCHANGED allVars
  BY <1>2, <1>10 DEF allVars, vars, daemonVars
<1> QED
  BY <1>2, <1>3, <1>4, <1>5, <1>6, <1>7, <1>8, <1>9, <1>10 DEF JoiningNext, Underneath

\* K3s stays where it is installed, and a free name stays free.
LEMMA DiskKept ==
  ASSUME TypeOK, JoinTypeOK, [JoiningNext]_allVars, NEW m \in Node
  PROVE  /\ unit[m] # "none" => unit'[m] = unit[m] /\ cluster'[m] = cluster[m]
         /\ Free(m) => Free(m)'
<1> USE DEF diskVars
<1>1. TypeOK' /\ JoinTypeOK'
  BY JoiningNextTyped
<1>2. CASE \E n \in Node : \E op \in ops[n] : JoinOpStep(n, op)
  <2>1. PICK n \in Node : \E op \in ops[n] : JoinOpStep(n, op)
    BY <1>2
  <2>2. unit[m] # "none" => unit'[m] = unit[m] /\ cluster'[m] = cluster[m]
    BY <2>1 DEF JoinOpStep, OpStep, RefuseToReinstall, RunInstallScript, FailInstallScript,
                CheckInstalledRole, BecomeReady, TimeOut, TypeOK, DaemonTypeOK
  <2>3. \A c \in Node : nodeObjects'[c] \subseteq
                          nodeObjects[c] \cup {k \in Node : unit'[k] # "none"}
    BY <2>1 DEF JoinOpStep
  <2> QED
    BY <1>1, <2>2, <2>3, TheClusterIsFounded DEF Free
<1>3. CASE /\ UNCHANGED diskVars
           /\ \A c \in Node : nodeObjects'[c] \subseteq
                                nodeObjects[c] \cup {k \in Node : unit[k] # "none"}
  BY <1>3, TheClusterIsFounded DEF Free
<1> QED
  BY <1>2, <1>3, DiskStep

\* What a step of n may change of the other machines: nothing but what they
\* are asked and, truthfully, told.
Elsewhere(n) ==
  /\ \A m \in Node \ {n} :
       UNCHANGED <<inbox[m], state[m], view[m], ops[m], file[m], lookups[m], cleaning[m],
                   joining[m]>>
  /\ \A m \in confirmed' \ confirmed : Free(m)

Unnoticed == UNCHANGED <<inbox, state, view, ops, file, lookups, cleaning, joining>>

LEMMA OthersSound ==
  ASSUME TypeOK, JoinTypeOK, AllSound, [JoiningNext]_allVars, NEW n \in Node, Elsewhere(n),
         Sound(n)'
  PROVE  AllSound'
<1>1. ASSUME NEW m \in Node, m # n PROVE Sound(m)'
  <2>1. Sound(m)
    BY DEF AllSound
  <2>2. /\ UNCHANGED <<inbox[m], state[m], view[m], ops[m], file[m], lookups[m], cleaning[m],
                       joining[m]>>
        /\ m \in confirmed' => m \in confirmed \/ Free(m)
    BY <1>1 DEF Elsewhere
  <2>3. \A k \in Node : Free(k) => Free(k)'
    BY DiskKept
  <2>4. TrustsFounders(m)'
    BY <2>1, <2>2, DiskKept DEF Sound, TrustsFounders
  <2>5. OpsInOrder(m)'
    BY <2>1, <2>2 DEF Sound, OpsInOrder
  <2>6. WellInformed(m)'
    BY <2>1, <2>2, <2>3 DEF Sound, WellInformed, JoinTypeOK, Lookup
  <2>7. \A op \in ops'[m] : Justified(m, op)'
    <3> SUFFICES ASSUME NEW op \in ops[m] PROVE Justified(m, op)'
      BY <2>2
    <3>1. Justified(m, op) /\ (op.kind = "erase" => op.via \in Node)
      BY <2>1 DEF Sound, TypeOK, DaemonTypeOK, Op
    <3> QED
      BY <3>1, <2>3 DEF Justified
  <2> QED
    BY <2>4, <2>5, <2>6, <2>7 DEF Sound
<1> QED
  BY <1>1 DEF AllSound

\* A step that nothing of this depends on.
LEMMA UnnoticedSound ==
  ASSUME TypeOK, JoinTypeOK, AllSound, [JoiningNext]_allVars, Unnoticed,
         confirmed' \subseteq confirmed
  PROVE  AllSound'
<1> SUFFICES ASSUME NEW n \in Node PROVE Sound(n)'
  BY DEF AllSound
<1>1. Sound(n)
  BY DEF AllSound
<1>2. \A k \in Node : Free(k) => Free(k)'
  BY DiskKept
<1>3. TrustsFounders(n)' /\ OpsInOrder(n)'
  BY <1>1, DiskKept DEF Unnoticed, Sound, TrustsFounders, OpsInOrder
<1>4. WellInformed(n)'
  BY <1>1, <1>2 DEF Unnoticed, Sound, WellInformed, JoinTypeOK, Lookup
<1>5. ASSUME NEW op \in ops[n] PROVE Justified(n, op)'
  <2>1. Justified(n, op) /\ (op.kind = "erase" => op.via \in Node)
    BY <1>1 DEF Sound, TypeOK, DaemonTypeOK, Op
  <2> QED
    BY <1>2, <2>1 DEF Justified
<1> QED
  BY <1>3, <1>4, <1>5 DEF Unnoticed, Sound

\* The operations of n that go on or end, while its state and its memory stay.
LEMMA FewerOpsSound ==
  ASSUME TypeOK, JoinTypeOK, AllSound, [JoiningNext]_allVars, NEW n \in Node,
         ops'[n] \subseteq ops[n]
  PROVE  \A op \in ops'[n] : Justified(n, op)'
<1> SUFFICES ASSUME NEW op \in ops[n] PROVE Justified(n, op)'
  OBVIOUS
<1>1. Justified(n, op) /\ (op.kind = "erase" => op.via \in Node)
  BY DEF AllSound, Sound, TypeOK, DaemonTypeOK, Op
<1>2. \A k \in Node : Free(k) => Free(k)'
  BY DiskKept
<1> QED
  BY <1>1, <1>2 DEF Justified

\* n keeps its files and its sight, and no state or lookup makes it a founder.
LEMMA TrustKept ==
  ASSUME TypeOK, JoinTypeOK, AllSound, [JoiningNext]_allVars, NEW n \in Node,
         UNCHANGED <<inbox, view>>,
         state'[n] \notin Bootstrapping,
         file'[n] = "server" \/ lookups'[n] # {}
         \/ state'[n] \in {"stable_server", "rescale_coordinating"} => n \in Established
  PROVE  TrustsFounders(n)'
BY DiskKept DEF AllSound, Sound, TrustsFounders

\* What n knows stays true.
LEMMA WellInformedKept ==
  ASSUME TypeOK, JoinTypeOK, AllSound, [JoiningNext]_allVars, NEW n \in Node,
         n \in confirmed' => n \in confirmed \/ Free(n),
         joining'[n].cleaned => n \in confirmed \/ joining[n].cleaned,
         \A l \in lookups'[n] : l \in lookups[n] \/ l.phase # "absent"
  PROVE  WellInformed(n)'
<1>1. WellInformed(n) /\ \A k \in Node : Free(k) => Free(k)'
  BY DiskKept DEF AllSound, Sound
<1>2. \A l \in lookups[n] : l.name \in Node
  BY DEF JoinTypeOK, Lookup
<1> QED
  BY <1>1, <1>2 DEF WellInformed

LEMMA EnvironmentSound ==
  ASSUME TypeOK, JoinTypeOK, AllSound, Environment, UNCHANGED <<bootstrapVars, joinVars>>
  PROVE  AllSound'
<1> USE DEF joinVars, joinerVars, coordinatorVars
<1>0. [JoiningNext]_allVars
  BY DEF JoiningNext, Underneath
<1>1. ASSUME NEW n \in Node, NEW m \in Node, Learn(n, m) \/ DetectFailure(n, m) \/ Suspect(n, m)
      PROVE  AllSound'
  <2>1. /\ UNCHANGED <<inbox, state, ops, file, joinVars>>
        /\ \A k \in Node \ {n} : view'[k] = view[k]
        /\ \A k \in Node : view'[n][k].state = "stable_server" =>
             view[n][k].state = "stable_server" \/ state[k] = "stable_server"
    BY <1>1 DEF Learn, DetectFailure, Suspect, AliveAs, FailedAs, TypeOK, DaemonTypeOK
  <2>2. Elsewhere(n)
    BY <2>1 DEF Elsewhere
  <2>3. TrustsFounders(n)'
    BY <1>0, <2>1, DiskKept DEF AllSound, Sound, TrustsFounders
  <2>4. OpsInOrder(n)'
    BY <2>1 DEF AllSound, Sound, OpsInOrder
  <2> QED
    BY <1>0, <2>1, <2>2, <2>3, <2>4, FewerOpsSound, WellInformedKept, OthersSound DEF Sound
<1>2. ASSUME NEW n \in Node, NEW event \in EventName, Lose(n, event) PROVE FALSE
  BY <1>2 DEF Lose, AllSound, Sound, TrustsFounders
<1>3. ASSUME NEW n \in Node, PowerOn(n) PROVE AllSound'
  BY <1>0, <1>3, UnnoticedSound DEF PowerOn, Unnoticed
<1>4. ASSUME NEW n \in Node, ChooseInitialState(n) PROVE AllSound'
  <2>1. /\ state'[n] \in {"fb_discovering", "rejoin_failed", "rejoin_cluster"}
        /\ UNCHANGED <<inbox, view, file, joinVars>>
        /\ ops[n] = {} /\ \/ ops'[n] = {}
                          \/ ops'[n] = {NewOp("rejoin", None)} /\ state'[n] = "rejoin_cluster"
        /\ \A m \in Node \ {n} : state'[m] = state[m] /\ ops'[m] = ops[m]
    BY <1>4 DEF ChooseInitialState, Transition, Starting, TypeOK, DaemonTypeOK, AllSound, Sound,
                OpsInOrder
  <2>2. Elsewhere(n)
    BY <2>1 DEF Elsewhere
  <2>3. TrustsFounders(n)'
    BY <1>0, <2>1, TrustKept DEF AllSound, Sound, TrustsFounders, Bootstrapping, InstallState
  <2>4. OpsInOrder(n)'
    BY <2>1 DEF OpsInOrder
  <2>5. \A op \in ops'[n] : Justified(n, op)'
    BY <2>1 DEF Justified, NewOp
  <2> QED
    BY <1>0, <2>1, <2>2, <2>3, <2>4, <2>5, WellInformedKept, OthersSound DEF Sound
<1> QED
  BY <1>1, <1>2, <1>3, <1>4 DEF Environment

\* Without a user nobody bootstraps, and what is left of it is idle.
LEMMA BootstrapIdle ==
  ASSUME Users = {}, AllSound, NEW n \in Node, UserAction(n) \/ BootstrapHandler(n),
         UNCHANGED joinVars
  PROVE  Unnoticed /\ UNCHANGED <<up, confirmed>>
<1>1. inbox[n] = {} /\ state[n] \notin Bootstrapping
  BY DEF AllSound, Sound, TrustsFounders
<1>2. OnBootstrapWaitExpired(n) \/ TimerFires(n)
  BY <1>1 DEF UserAction, RequestBootstrap, CancelBootstrap, ConfirmBootstrap, BootstrapHandler,
    OnBootstrapRequested, OnBootstrapStart, InitializeCluster, RefuseToInitialize, TakeRole,
    ComputeRole, InstallOnTurn, IgnoreEvent, Bootstrapping
<1> QED
  BY <1>1, <1>2 DEF OnBootstrapWaitExpired, TimerFires, Unmoved, Unnoticed, Bootstrapping,
    joinVars, joinerVars, coordinatorVars

LEMMA BootstrapSound ==
  ASSUME Users = {}, TypeOK, JoinTypeOK, AllSound, NEW n \in Node,
         UserAction(n) \/ BootstrapHandler(n), UNCHANGED joinVars
  PROVE  AllSound'
<1>1. [JoiningNext]_allVars
  BY DEF JoiningNext, Underneath
<1> QED
  BY <1>1, BootstrapIdle, UnnoticedSound

\* A founder that n sees, or is, is the server that n would join.
LEMMA JoinTargetFounded ==
  ASSUME TypeOK, AllSound, NEW n \in Node, CanBeJoined(Observe(n))
  PROVE  JoinTarget(Observe(n)) \in Established
<1>1. DOMAIN Observe(n) = Node
  BY HelpersTyped
<1>2. /\ JoinTarget(Observe(n)) \in Node
      /\ Observe(n)[JoinTarget(Observe(n))].state = "stable_server"
  BY <1>1, JoinTargetIsStable, DaemonAssumption
<1> QED
  BY <1>2 DEF AllSound, Sound, TrustsFounders, Observe, AliveAs, TypeOK, DaemonTypeOK

\* A joiner only installs an agent once it was told that its name is free.
LEMMA ProceedSound ==
  ASSUME TypeOK, JoinTypeOK, AllSound, [JoiningNext]_allVars, NEW n \in Node,
         NEW cleaned \in BOOLEAN, CanBeJoined(Observe(n)), Proceed(n, cleaned),
         cleaned => Free(n), UNCHANGED <<inbox, view, file, lookups, cleaning>>
  PROVE  /\ \A m \in Node \ {n} : UNCHANGED <<state[m], ops[m]>>
         /\ TrustsFounders(n)' /\ OpsInOrder(n)'
         /\ \A op \in ops'[n] : Justified(n, op)'
<1>1. /\ \/ ops' = Starting(n, NewOp("check", None))
         \/ Free(n) /\ ops' = Starting(n, NewOp("agent", JoinTarget(Observe(n))))
      /\ \E to \in {"fb_joining_agent", "fb_joining_cleanup"} : Transition(n, to)
  BY DEF Proceed, StartOperation
<1>2. /\ state'[n] \in {"fb_joining_agent", "fb_joining_cleanup"}
      /\ \A m \in Node \ {n} : UNCHANGED <<state[m], ops[m]>>
  BY <1>1 DEF Transition, Starting, TypeOK, DaemonTypeOK
<1>3. TrustsFounders(n)' /\ OpsInOrder(n)'
  BY <1>2, TrustKept DEF AllSound, Sound, TrustsFounders, OpsInOrder, Bootstrapping, InstallState
<1>4. \A op \in ops'[n] : \/ op \in ops[n] \/ op.kind = "check"
                          \/ op.kind = "agent" /\ op.via \in Established /\ Free(n)
  <2>1. \/ ops'[n] = ops[n] \cup {NewOp("check", None)}
        \/ Free(n) /\ ops'[n] = ops[n] \cup {NewOp("agent", JoinTarget(Observe(n)))}
    BY <1>1 DEF Starting, TypeOK, DaemonTypeOK
  <2>2. /\ NewOp("check", None).kind = "check"
        /\ NewOp("agent", JoinTarget(Observe(n))).kind = "agent"
        /\ NewOp("agent", JoinTarget(Observe(n))).via \in Established
    BY JoinTargetFounded DEF NewOp
  <2> QED
    BY <2>1, <2>2
<1>5. ASSUME NEW op \in ops'[n] PROVE Justified(n, op)'
  <2>1. CASE op \in ops[n]
    <3>1. Justified(n, op) /\ (op.kind = "erase" => op.via \in Node)
      BY <2>1 DEF AllSound, Sound, TypeOK, DaemonTypeOK, Op
    <3> QED
      BY <3>1, DiskKept DEF Justified
  <2>2. CASE op \notin ops[n]
    BY <1>4, <2>2, DiskKept DEF Justified
  <2> QED
    BY <2>1, <2>2
<1> QED
  BY <1>2, <1>3, <1>5

LEMMA JoinerSound ==
  ASSUME TypeOK, JoinTypeOK, AllSound, NEW n \in Node, JoinerHandler(n)
  PROVE  AllSound'
<1> USE DEF joinVars, joinerVars, coordinatorVars
<1>0. /\ [JoiningNext]_allVars
      /\ joining \in [Node -> JoiningProgress] /\ joining[n].cleaned \in BOOLEAN
      /\ \A k \in Node : Free(k) => Free(k)'
  BY DiskKept DEF JoiningNext, JoinTypeOK, JoiningProgress
<1>1. CASE StartJoiningPath(n)
  <2>1. /\ state'[n] = "fb_joining_waiting" /\ \A m \in Node \ {n} : state'[m] = state[m]
        /\ \A m \in Node \ {n} : joining'[m] = joining[m]
        /\ joining'[n].cleaned = joining[n].cleaned
        /\ UNCHANGED <<inbox, view, ops, file, confirmed, lookups, cleaning>>
    BY <1>0, <1>1 DEF StartJoiningPath, DivertToJoining, Transition, Unmoved, TypeOK, DaemonTypeOK,
                JoiningProgress
  <2>2. Elsewhere(n)
    BY <2>1 DEF Elsewhere
  <2>3. TrustsFounders(n)' /\ OpsInOrder(n)'
    BY <1>0, <2>1, TrustKept DEF AllSound, Sound, TrustsFounders, OpsInOrder, Bootstrapping, InstallState
  <2> QED
    BY <1>0, <2>1, <2>2, <2>3, FewerOpsSound, WellInformedKept, OthersSound DEF Sound
<1>2. CASE OnJoinWaitExpired(n)
  <2>1. /\ \A m \in Node \ {n} : joining'[m] = joining[m]
        /\ joining'[n].cleaned = joining[n].cleaned
        /\ UNCHANGED <<inbox, view, file, confirmed, lookups, cleaning>>
    BY <1>0, <1>2 DEF OnJoinWaitExpired, Unmoved, JoiningProgress
  <2>2. WellInformed(n)'
    BY <1>0, <2>1, WellInformedKept
  <2>3. CASE UNCHANGED <<state, ops>>
    <3>1. Elsewhere(n) /\ TrustsFounders(n)' /\ OpsInOrder(n)'
      BY <1>0, <2>1, <2>3, TrustKept DEF Elsewhere, AllSound, Sound, TrustsFounders, OpsInOrder
    <3> QED
      BY <1>0, <2>2, <2>3, <3>1, FewerOpsSound, OthersSound DEF Sound
  <2>4. CASE CanBeJoined(Observe(n)) /\ Proceed(n, joining[n].cleaned)
    <3>1. joining[n].cleaned => Free(n)
      BY DEF AllSound, Sound, WellInformed
    <3>2. /\ \A m \in Node \ {n} : UNCHANGED <<state[m], ops[m]>>
          /\ TrustsFounders(n)' /\ OpsInOrder(n)'
          /\ \A op \in ops'[n] : Justified(n, op)'
      BY <1>0, <2>1, <2>4, <3>1, ProceedSound
    <3>3. Elsewhere(n)
      BY <2>1, <3>2 DEF Elsewhere
    <3> QED
      BY <1>0, <2>2, <3>2, <3>3, OthersSound DEF Sound
  <2> QED
    BY <1>2, <2>3, <2>4 DEF OnJoinWaitExpired
<1>3. CASE MaybeJoinCluster(n)
  <2>1. UNCHANGED <<inbox, view, file, joining, confirmed, lookups, cleaning>>
    BY <1>3 DEF MaybeJoinCluster, Unmoved
  <2>2. WellInformed(n)'
    BY <1>0, <2>1, WellInformedKept
  <2>3. joining[n].cleaned => Free(n)
    BY DEF AllSound, Sound, WellInformed
  <2>4. /\ \A m \in Node \ {n} : UNCHANGED <<state[m], ops[m]>>
        /\ TrustsFounders(n)' /\ OpsInOrder(n)'
        /\ \A op \in ops'[n] : Justified(n, op)'
    BY <1>0, <1>3, <2>1, <2>3, ProceedSound DEF MaybeJoinCluster
  <2>5. Elsewhere(n)
    BY <2>1, <2>4 DEF Elsewhere
  <2> QED
    BY <1>0, <2>2, <2>4, <2>5, OthersSound DEF Sound
<1>4. CASE OnForgetRetry(n)
  <2>1. /\ \A m \in Node \ {n} : joining'[m] = joining[m]
        /\ joining'[n].cleaned = joining[n].cleaned
        /\ UNCHANGED <<inbox, view, state, ops, file, confirmed, lookups, cleaning>>
    BY <1>0, <1>4 DEF OnForgetRetry, SendForgetMe, Unmoved, JoiningProgress
  <2>2. Elsewhere(n) /\ TrustsFounders(n)' /\ OpsInOrder(n)'
    BY <1>0, <2>1, TrustKept DEF Elsewhere, AllSound, Sound, TrustsFounders, OpsInOrder
  <2> QED
    BY <1>0, <2>1, <2>2, FewerOpsSound, WellInformedKept, OthersSound DEF Sound
<1>5. CASE OnForgotten(n)
  <2>1. /\ Free(n) /\ confirmed' \subseteq confirmed
        /\ UNCHANGED <<inbox, view, file, lookups, cleaning>>
        /\ \A m \in Node \ {n} : joining'[m] = joining[m]
    BY <1>0, <1>5 DEF OnForgotten, Unmoved, AllSound, Sound, WellInformed
  <2>2. WellInformed(n)'
    BY <1>0, <2>1 DEF AllSound, Sound, WellInformed, JoinTypeOK, Lookup
  <2>3. CASE UNCHANGED <<state, ops>>
    <3>1. Elsewhere(n) /\ TrustsFounders(n)' /\ OpsInOrder(n)'
      BY <1>0, <2>1, <2>3, TrustKept DEF Elsewhere, AllSound, Sound, TrustsFounders, OpsInOrder
    <3> QED
      BY <1>0, <2>2, <2>3, <3>1, FewerOpsSound, OthersSound DEF Sound
  <2>4. CASE CanBeJoined(Observe(n)) /\ Proceed(n, TRUE)
    <3>1. /\ \A m \in Node \ {n} : UNCHANGED <<state[m], ops[m]>>
          /\ TrustsFounders(n)' /\ OpsInOrder(n)'
          /\ \A op \in ops'[n] : Justified(n, op)'
      BY <1>0, <2>1, <2>4, ProceedSound
    <3>2. Elsewhere(n)
      BY <2>1, <3>1 DEF Elsewhere
    <3> QED
      BY <1>0, <2>2, <3>1, <3>2, OthersSound DEF Sound
  <2>5. CASE Transition(n, "fb_joining_waiting") /\ UNCHANGED ops
    <3>1. /\ state'[n] = "fb_joining_waiting"
          /\ \A m \in Node \ {n} : state'[m] = state[m]
      BY <2>5, TransitionMoves
    <3>2. Elsewhere(n) /\ TrustsFounders(n)' /\ OpsInOrder(n)'
      BY <1>0, <2>1, <2>5, <3>1, TrustKept
         DEF Elsewhere, AllSound, Sound, TrustsFounders, OpsInOrder, Bootstrapping, InstallState
    <3> QED
      BY <1>0, <2>2, <2>5, <3>2, FewerOpsSound, OthersSound DEF Sound
  <2> QED
    BY <1>5, <2>3, <2>4, <2>5 DEF OnForgotten
<1> QED
  BY <1>1, <1>2, <1>3, <1>4, <1>5 DEF JoinerHandler

LEMMA CoordinatorSound ==
  ASSUME TypeOK, JoinTypeOK, AllSound, NEW n \in Node, CoordinatorHandler(n)
  PROVE  AllSound'
<1> USE DEF joinVars, joinerVars, coordinatorVars
<1>0. [JoiningNext]_allVars /\ lookups \in [Node -> SUBSET Lookup]
  BY DEF JoiningNext, JoinTypeOK
<1>1. ASSUME NEW name \in Node, OnForgetMe(n, name) PROVE AllSound'
  <2>1. /\ UNCHANGED <<inbox, state, view, ops, file, joining, confirmed, cleaning>>
        /\ \A m \in Node \ {n} : lookups'[m] = lookups[m]
        /\ \A l \in lookups'[n] : l \in lookups[n] \/ l.phase # "absent"
        /\ lookups'[n] # {} => lookups[n] # {} \/ state[n] = "stable_server"
    BY <1>0, <1>1 DEF OnForgetMe, CanForget, vars, daemonVars
  <2>2. Elsewhere(n) /\ TrustsFounders(n)' /\ OpsInOrder(n)'
    BY <1>0, <2>1, TrustKept DEF Elsewhere, AllSound, Sound, TrustsFounders, OpsInOrder
  <2> QED
    BY <1>0, <2>1, <2>2, FewerOpsSound, WellInformedKept, OthersSound DEF Sound
<1>2. ASSUME NEW l \in lookups[n], OnForgetProbed(n, l) PROVE AllSound'
  <2>1. /\ UNCHANGED <<inbox, view, file, joining>>
        /\ \A m \in Node \ {n} : lookups'[m] = lookups[m]
        /\ lookups'[n] \subseteq lookups[n]
        /\ l.name \in Node /\ n \in Established
    BY <1>0, <1>2 DEF OnForgetProbed, Unmoved, AllSound, Sound, TrustsFounders, Lookup
  <2>2. \A m \in confirmed' \ confirmed : Free(m)
    BY <1>2 DEF OnForgetProbed, ConfirmForgotten, AllSound, Sound, WellInformed
  <2>3. WellInformed(n)'
    BY <1>0, <2>1, <2>2, WellInformedKept
  <2>4. CASE UNCHANGED <<state, ops, cleaning>>
    <3>1. Elsewhere(n) /\ TrustsFounders(n)' /\ OpsInOrder(n)'
      BY <1>0, <2>1, <2>2, <2>4, TrustKept DEF Elsewhere, AllSound, Sound, TrustsFounders, OpsInOrder
    <3> QED
      BY <1>0, <2>3, <2>4, <3>1, FewerOpsSound, OthersSound DEF Sound
  <2>5. CASE /\ CanForget(n, l.name)
             /\ StartOperation(n, "erase", l.name, "rescale_coordinating")
             /\ cleaning' = [cleaning EXCEPT ![n] = l.name]
    <3>1. ops[n] = {}
      BY <2>5 DEF CanForget, AllSound, Sound, OpsInOrder
    <3>2. /\ state'[n] = "rescale_coordinating" /\ ops'[n] = {NewOp("erase", l.name)}
          /\ cleaning'[n] = l.name
          /\ \A m \in Node \ {n} : UNCHANGED <<state[m], ops[m], cleaning[m]>>
      BY <2>5, <3>1 DEF StartOperation, Transition, Starting, TypeOK, DaemonTypeOK, JoinTypeOK
    <3>3. Elsewhere(n)
      BY <2>1, <2>2, <3>2 DEF Elsewhere
    <3>4. TrustsFounders(n)' /\ OpsInOrder(n)'
      BY <1>0, <2>1, <3>2, TrustKept DEF OpsInOrder, NewOp, Bootstrapping, InstallState
    <3>5. \A op \in ops'[n] : Justified(n, op)'
      BY <2>1, <3>2 DEF Justified, NewOp
    <3> QED
      BY <1>0, <2>3, <3>3, <3>4, <3>5, OthersSound DEF Sound
  <2> QED
    BY <1>2, <2>4, <2>5 DEF OnForgetProbed
<1> QED
  BY <1>1, <1>2 DEF CoordinatorHandler

\* An operation of n advances; a name that it erased is free from then on.
LEMMA AdvanceSound ==
  ASSUME TypeOK, JoinTypeOK, AllSound, [JoiningNext]_allVars, NEW n \in Node, NEW op \in ops[n],
         NEW phase, ops' = InPhase(n, op, phase),
         UNCHANGED <<inbox, state, view, file, lookups, cleaning, joining, confirmed>>,
         op.kind = "erase" => phase # "wait" /\ (phase = "ok" => Free(op.via)')
  PROVE  AllSound'
<1> DEFINE new == [kind |-> op.kind, via |-> op.via, phase |-> phase]
<1>1. /\ ops'[n] = (ops[n] \ {op}) \cup {new}
      /\ \A m \in Node \ {n} : ops'[m] = ops[m]
  BY DEF InPhase, TypeOK, DaemonTypeOK
<1>2. new.kind = op.kind /\ new.via = op.via /\ new.phase = phase
  OBVIOUS
<1> HIDE DEF new
<1>3. Elsewhere(n)
  BY <1>1 DEF Elsewhere
<1>4. TrustsFounders(n)'
  BY TrustKept DEF AllSound, Sound, TrustsFounders
<1>5. OpsInOrder(n)'
  BY <1>1, <1>2 DEF AllSound, Sound, OpsInOrder
<1>6. WellInformed(n)'
  BY WellInformedKept
<1>7. Justified(n, new)'
  BY <1>2, DiskKept DEF AllSound, Sound, Justified
<1>8. ASSUME NEW other \in ops[n] PROVE Justified(n, other)'
  <2>1. Justified(n, other) /\ (other.kind = "erase" => other.via \in Node)
    BY DEF AllSound, Sound, TypeOK, DaemonTypeOK, Op
  <2> QED
    BY <2>1, DiskKept DEF Justified
<1>9. \A other \in ops'[n] : Justified(n, other)'
  BY <1>1, <1>7, <1>8
<1> QED
  BY <1>3, <1>4, <1>5, <1>6, <1>9, OthersSound DEF Sound

LEMMA ProgressSound ==
  ASSUME TypeOK, JoinTypeOK, AllSound, NEW n \in Node, Progress(n)
  PROVE  AllSound'
<1> USE DEF joinVars, joinerVars, coordinatorVars
<1>0. [JoiningNext]_allVars /\ lookups \in [Node -> SUBSET Lookup]
  BY DEF JoiningNext, JoinTypeOK
<1>1. ASSUME NEW op \in ops[n], JoinOpStep(n, op) PROVE AllSound'
  <2>1. op.kind # "erase"
    BY <1>1 DEF AllSound, Sound, Justified, JoinOpStep, OpStep, RefuseToReinstall, RunInstallScript,
                FailInstallScript, CheckInstalledRole, BecomeReady, TimeOut, Install
  <2>2. /\ \E phase : ops' = InPhase(n, op, phase)
        /\ UNCHANGED <<inbox, state, view, file, lookups, cleaning, joining, confirmed>>
    BY <1>1 DEF JoinOpStep, OpStep, RefuseToReinstall, RunInstallScript, FailInstallScript,
                CheckInstalledRole, BecomeReady, TimeOut
  <2> QED
    BY <1>0, <2>1, <2>2, AdvanceSound
<1>2. ASSUME NEW op \in ops[n], WaitInVain(n, op) \/ CheckNotInstalled(n, op) \/ FailErase(n, op)
      PROVE  AllSound'
  <2>1. \E phase : /\ ops' = InPhase(n, op, phase)
                   /\ op.kind = "erase" => phase = "error"
    BY <1>2 DEF WaitInVain, CheckNotInstalled, FailErase
  <2>2. UNCHANGED <<inbox, state, view, file, lookups, cleaning, joining, confirmed>>
    BY <1>2 DEF WaitInVain, CheckNotInstalled, FailErase
  <2> QED
    BY <1>0, <2>1, <2>2, AdvanceSound
<1>3. ASSUME NEW op \in ops[n], EraseNode(n, op) PROVE AllSound'
  <2>1. n \in Established /\ cluster[n] = TheCluster /\ TheCluster \in Node
    BY <1>3, TheClusterIsFounded DEF EraseNode, AllSound, Sound, TrustsFounders, Justified
  <2>2. Free(op.via)'
    BY <1>3, <2>1 DEF EraseNode, Free, JoinTypeOK
  <2>3. /\ ops' = InPhase(n, op, "ok")
        /\ UNCHANGED <<inbox, state, view, file, lookups, cleaning, joining, confirmed>>
    BY <1>3 DEF EraseNode
  <2> QED
    BY <1>0, <2>2, <2>3, AdvanceSound
<1>4. ASSUME NEW l \in lookups[n], AnswerLookup(n, l) PROVE AllSound'
  <2>1. n \in Established /\ cluster[n] = TheCluster
    BY <1>4 DEF AllSound, Sound, TrustsFounders
  <2>2. /\ UNCHANGED <<inbox, state, view, ops, file, joining, confirmed, cleaning, unit, nodeObjects>>
        /\ \A m \in Node \ {n} : lookups'[m] = lookups[m]
    BY <1>0, <1>4 DEF AnswerLookup, vars, daemonVars, diskVars
  <2>3. Elsewhere(n) /\ TrustsFounders(n)' /\ OpsInOrder(n)'
    BY <1>0, <2>1, <2>2, TrustKept DEF Elsewhere, AllSound, Sound, TrustsFounders, OpsInOrder
  <2>4. ASSUME NEW a \in lookups'[n], a.phase = "absent" PROVE Free(a.name)'
    <3>1. \/ a \in lookups[n]
          \/ \E p : /\ a = [l EXCEPT !.phase = p]
                    /\ p = "absent" => l.name \notin nodeObjects[cluster[n]]
      BY <1>0, <1>4, <2>4 DEF AnswerLookup
    <3>2. \A p : [l EXCEPT !.phase = p].name = l.name /\ [l EXCEPT !.phase = p].phase = p
      BY <1>0 DEF Lookup
    <3>3. CASE a \in lookups[n]
      BY <2>2, <2>4, <3>3 DEF AllSound, Sound, WellInformed, Free
    <3>4. CASE a \notin lookups[n]
      <4>1. a.name = l.name /\ l.name \notin nodeObjects[TheCluster]
        BY <2>1, <2>4, <3>1, <3>2, <3>4
      <4> QED
        BY <2>2, <4>1 DEF Free
    <3> QED
      BY <3>3, <3>4
  <2>5. WellInformed(n)'
    BY <2>2, <2>4 DEF AllSound, Sound, WellInformed, Free
  <2> QED
    BY <1>0, <2>2, <2>3, <2>5, FewerOpsSound, OthersSound DEF Sound
<1>5. ASSUME NEW l \in lookups[n], FailLookup(n, l) PROVE AllSound'
  <2>1. /\ UNCHANGED <<inbox, state, view, ops, file, joining, confirmed, cleaning>>
        /\ \A m \in Node \ {n} : lookups'[m] = lookups[m]
        /\ lookups'[n] \subseteq lookups[n]
    BY <1>0, <1>5 DEF FailLookup
  <2>2. Elsewhere(n) /\ TrustsFounders(n)' /\ OpsInOrder(n)'
    BY <1>0, <2>1, TrustKept DEF Elsewhere, AllSound, Sound, TrustsFounders, OpsInOrder
  <2> QED
    BY <1>0, <2>1, <2>2, FewerOpsSound, WellInformedKept, OthersSound DEF Sound
<1> QED
  BY <1>1, <1>2, <1>3, <1>4, <1>5 DEF Progress

\* A result ends an operation of n and takes n to another state, for good.
LEMMA EndSound ==
  ASSUME TypeOK, JoinTypeOK, AllSound, [JoiningNext]_allVars, NEW n \in Node, NEW op \in ops[n],
         ops' = Without(n, op), UNCHANGED <<inbox, view, lookups>>,
         \A m \in Node \ {n} : UNCHANGED <<state[m], file[m], cleaning[m], joining[m]>>,
         state'[n] \notin Bootstrapping \cup {"starting", "rejoin_cluster", "rescale_coordinating"},
         state'[n] = "stable_server" => n \in Established /\ ops[n] = {op},
         file'[n] \in {file[n], "agent"}, joining'[n].cleaned = joining[n].cleaned,
         \A m \in confirmed' \ confirmed : Free(m)
  PROVE  AllSound'
<1>1. /\ ops'[n] = ops[n] \ {op}
      /\ \A m \in Node \ {n} : ops'[m] = ops[m]
  BY DEF Without, TypeOK, DaemonTypeOK
<1>2. Elsewhere(n)
  BY <1>1 DEF Elsewhere
<1>3. TrustsFounders(n)'
  BY TrustKept DEF AllSound, Sound, TrustsFounders
<1>4. OpsInOrder(n)'
  BY <1>1 DEF OpsInOrder
<1>5. WellInformed(n)'
  BY WellInformedKept
<1>6. \A other \in ops'[n] : Justified(n, other)'
  BY <1>1, FewerOpsSound
<1> QED
  BY <1>2, <1>3, <1>4, <1>5, <1>6, OthersSound DEF Sound

LEMMA ResultSound ==
  ASSUME TypeOK, JoinTypeOK, AllSound, NEW n \in Node, ResultStep(n)
  PROVE  AllSound'
<1> USE DEF joinVars, joinerVars, coordinatorVars
<1>0. /\ [JoiningNext]_allVars /\ Sound(n)
      /\ joining \in [Node -> JoiningProgress]
  BY DEF JoiningNext, JoinTypeOK, AllSound
<1>1. PICK op \in ops[n] :
        \/ RejoinStep(n, op) /\ UNCHANGED <<bootstrapVars, joinVars>>
        \/ ResultHandler(n, op) /\ UNCHANGED joinVars
        \/ JoinerResult(n, op)
        \/ FinishForgetting(n, op) \/ AbandonCoordination(n, op)
  BY DEF ResultStep
<1>2. /\ ops' = Without(n, op)
      /\ UNCHANGED <<inbox, view, lookups>>
  BY <1>1 DEF RejoinStep, OnRejoinReady, FailRejoin, ResultHandler,
     OnBootstrapInstallSucceeded, FailBootstrap, JoinerResult, OnJoiningCleanupChecked,
     SendForgetMe, OnJoiningInstallSucceeded, FailJoining, IgnoreResult, FinishForgetting,
     AbandonCoordination, Unmoved
<1>3. \A to : Transition(n, to) =>
        state'[n] = to /\ \A m \in Node \ {n} : state'[m] = state[m]
  BY TransitionMoves
<1>4. \A role : Save(n, role) =>
        /\ file'[n] \in {file[n], role} /\ \A m \in Node \ {n} : file'[m] = file[m]
  BY DEF Save, TypeOK, DaemonTypeOK
<1>5. CASE RejoinStep(n, op) /\ UNCHANGED joinVars
  <2>1. ops[n] = {op}
    BY <1>0, <1>5 DEF RejoinStep, OnRejoinReady, FailRejoin, Sound, OpsInOrder
  <2>2. /\ \A m \in Node \ {n} : UNCHANGED <<state[m], file[m]>>
        /\ file'[n] = file[n]
        /\ \/ state'[n] = "rejoin_failed" \/ state'[n] = "stable_agent"
           \/ state'[n] = "stable_server" /\ file[n] = "server"
    BY <1>3, <1>4, <1>5 DEF RejoinStep, OnRejoinReady, FailRejoin, BecomeStable, StableState
  <2> QED
    BY <1>0, <1>2, <1>5, <2>1, <2>2, EndSound DEF Sound, TrustsFounders, Bootstrapping, InstallState
<1>6. ~ ResultHandler(n, op)
  BY <1>0 DEF ResultHandler, OnBootstrapInstallSucceeded, FailBootstrap, Sound, TrustsFounders,
              Bootstrapping
<1>7. CASE OnJoiningCleanupChecked(n, op)
  <2>1. /\ UNCHANGED <<state, file, cleaning, confirmed>> /\ state[n] = "fb_joining_cleanup"
        /\ joining'[n].cleaned = joining[n].cleaned
        /\ \A m \in Node \ {n} : joining'[m] = joining[m]
    BY <1>0, <1>7 DEF OnJoiningCleanupChecked, SendForgetMe, JoiningProgress
  <2> QED
    BY <1>0, <1>2, <2>1, EndSound DEF Bootstrapping, InstallState
<1>8. CASE OnJoiningInstallSucceeded(n, op)
  <2>1. /\ state'[n] = "stable_agent" /\ \A m \in Node \ {n} : UNCHANGED <<state[m], file[m]>>
        /\ file'[n] \in {file[n], "agent"} /\ UNCHANGED joinVars
    BY <1>3, <1>4, <1>8 DEF OnJoiningInstallSucceeded, BecomeStable, StableState
  <2> QED
    BY <1>0, <1>2, <2>1, EndSound DEF Bootstrapping, InstallState
<1>9. CASE FailJoining(n, op)
  <2>1. /\ state'[n] = "fb_joining_failed" /\ \A m \in Node \ {n} : state'[m] = state[m]
        /\ UNCHANGED <<file, cleaning, confirmed>>
        /\ joining'[n].cleaned = joining[n].cleaned
        /\ \A m \in Node \ {n} : joining'[m] = joining[m]
    BY <1>0, <1>3, <1>9 DEF FailJoining, JoiningProgress
  <2> QED
    BY <1>0, <1>2, <2>1, EndSound DEF Bootstrapping, InstallState
<1>10. CASE IgnoreResult(n, op)
  <2>1. state[n] \notin Bootstrapping \cup
          {"starting", "stable_server", "rejoin_cluster", "rescale_coordinating"}
    BY <1>0, <1>10 DEF IgnoreResult, Awaiting, Sound, TrustsFounders, OpsInOrder
  <2>2. UNCHANGED <<state, file, joinVars>>
    BY <1>10 DEF IgnoreResult
  <2> QED
    BY <1>0, <1>2, <2>1, <2>2, EndSound
<1>11. CASE FinishForgetting(n, op) \/ AbandonCoordination(n, op)
  <2>1. /\ state'[n] = "stable_server" /\ \A m \in Node \ {n} : state'[m] = state[m]
        /\ state[n] = "rescale_coordinating" /\ UNCHANGED <<file, joining>>
        /\ \A m \in Node \ {n} : cleaning'[m] = cleaning[m]
    BY <1>3, <1>11 DEF FinishForgetting, AbandonCoordination, JoinTypeOK
  <2>2. /\ n \in Established /\ ops[n] = {op}
        /\ op.kind = "erase" /\ op.via = cleaning[n] /\ Justified(n, op)
    BY <1>0, <2>1 DEF Sound, TrustsFounders, OpsInOrder
  <2>3. \A m \in confirmed' \ confirmed : Free(m)
    BY <1>11, <2>2 DEF FinishForgetting, AbandonCoordination, ConfirmForgotten, Justified
  <2> QED
    BY <1>0, <1>2, <2>1, <2>2, <2>3, EndSound DEF Bootstrapping, InstallState
<1> QED
  BY <1>1, <1>5, <1>6, <1>7, <1>8, <1>9, <1>10, <1>11 DEF JoinerResult

LEMMA FaultSound ==
  ASSUME TypeOK, JoinTypeOK, AllSound, NEW n \in Node,
         \/ RestartK3s(n) \/ LoseConfirmation(n) \/ CrashAndForgetAll(n)
         \/ \E name \in Node : LoseRequest(n, name)
  PROVE  AllSound'
<1> USE DEF joinVars, joinerVars, coordinatorVars
<1>0. [JoiningNext]_allVars
  BY DEF JoiningNext
<1>1. CASE RestartK3s(n)
  BY <1>0, <1>1, UnnoticedSound DEF RestartK3s, Unnoticed, vars, daemonVars
<1>2. CASE LoseConfirmation(n) \/ \E name \in Node : LoseRequest(n, name)
  BY <1>0, <1>2, UnnoticedSound DEF LoseConfirmation, LoseRequest, Unnoticed
<1>3. CASE CrashAndForgetAll(n)
  <2>1. /\ state'[n] = "starting" /\ inbox'[n] = {} /\ ops'[n] = {} /\ lookups'[n] = {}
        /\ n \notin confirmed' /\ ~joining'[n].cleaned
        /\ file'[n] \in {file[n], "unusable"}
        /\ \A k \in Node : view'[n][k].state = "starting"
    BY <1>3 DEF CrashAndForgetAll, CrashAndForget, Crash, NotJoining, Absent, TypeOK, DaemonTypeOK,
                JoinTypeOK
  <2>2. Elsewhere(n)
    BY <1>3 DEF CrashAndForgetAll, CrashAndForget, Crash, Elsewhere, TypeOK, DaemonTypeOK, JoinTypeOK
  <2>3. TrustsFounders(n)'
    BY <1>0, <2>1, DiskKept DEF AllSound, Sound, TrustsFounders, Bootstrapping, InstallState
  <2> QED
    BY <1>0, <2>1, <2>2, <2>3, OthersSound DEF Sound, OpsInOrder, WellInformed
<1> QED
  BY <1>1, <1>2, <1>3

LEMMA InitSound == JoiningInit => AllSound
<1> SUFFICES ASSUME JoiningInit, NEW n \in Node PROVE Sound(n)
  BY DEF AllSound
<1> USE DEF JoiningInit, Init, DaemonInit
<1>1. /\ inbox[n] = {} /\ ops[n] = {} /\ lookups[n] = {} /\ ~joining[n].cleaned
      /\ n \notin confirmed
      /\ state[n] \in {"stable_server", "starting", "fb_discovering"}
      /\ state[n] = "stable_server" \/ file[n] = "server" => n \in Established
      /\ n \in Established => cluster[n] = TheCluster /\ unit[n] = "server"
  BY DEF NotJoining, TheCluster
<1>2. \A k \in Node : view[n][k].state = "stable_server" => k \in Established
  BY DEF Absent, AliveAs
<1> QED
  BY <1>1, <1>2 DEF Sound, TrustsFounders, OpsInOrder, WellInformed, Bootstrapping, InstallState

LEMMA StepSound ==
  ASSUME Users = {}, TypeOK, JoinTypeOK, AllSound, [JoiningNext]_allVars
  PROVE  AllSound'
<1>1. CASE Environment /\ UNCHANGED <<bootstrapVars, joinVars>>
  BY <1>1, EnvironmentSound
<1>2. ASSUME NEW n \in Node, UserAction(n) \/ BootstrapHandler(n), UNCHANGED joinVars
      PROVE  AllSound'
  BY <1>2, BootstrapSound
<1>3. ASSUME NEW n \in Node,
             JoinerHandler(n) \/ CoordinatorHandler(n) \/ Progress(n) \/ ResultStep(n)
      PROVE  AllSound'
  BY <1>3, JoinerSound, CoordinatorSound, ProgressSound, ResultSound
<1>4. CASE UNCHANGED allVars
  BY <1>4, UnnoticedSound
     DEF allVars, vars, daemonVars, joinVars, joinerVars, coordinatorVars, Unnoticed
<1> QED
  BY <1>1, <1>2, <1>3, <1>4, FaultSound DEF JoiningNext, Underneath

\* Only a machine that was told its name is free installs K3s, in the cluster.
LEMMA InstallsAreFree ==
  ASSUME TypeOK, JoinTypeOK, AllSound, [JoiningNext]_allVars, NEW n \in Node,
         unit[n] = "none", unit'[n] # "none"
  PROVE  n \notin nodeObjects[cluster'[n]]
<1> USE DEF joinVars, joinerVars, coordinatorVars, diskVars
<1>1. CASE \E m \in Node : \E op \in ops[m] : JoinOpStep(m, op)
  <2>0. PICK m \in Node : \E op \in ops[m] : RunInstallScript(m, op)
    BY <1>1 DEF JoinOpStep, OpStep, RefuseToReinstall, FailInstallScript, CheckInstalledRole,
                BecomeReady, TimeOut
  <2>1. PICK op \in ops[m] : RunInstallScript(m, op)
    BY <2>0
  <2>2. m = n /\ Justified(n, op) /\ unit[n] = "none"
    BY <2>1 DEF RunInstallScript, AllSound, Sound, TypeOK, DaemonTypeOK
  <2>3. op.kind = "agent" /\ op.via \in Established /\ Free(n)
    BY <2>1, <2>2 DEF RunInstallScript, Install, Justified
  <2>4. cluster'[n] = TheCluster
    BY <2>1, <2>2, <2>3, DaemonAssumption
       DEF RunInstallScript, AllSound, Sound, TrustsFounders, TypeOK, DaemonTypeOK
  <2> QED
    BY <2>3, <2>4 DEF Free
<1>2. CASE ~ \E m \in Node : \E op \in ops[m] : JoinOpStep(m, op)
  BY <1>2, DiskStep
<1> QED
  BY <1>1, <1>2

\* Beside a running cluster, and as long as nobody asks for another one, K3s is
\* only installed under a name the cluster does not know (forget.go:23:
\* "never installs without one"): for any number of machines, founders and
\* ghosts, and whatever crashes, is lost, is repeated or comes late.
THEOREM NamesFreedBeforeInstalls ==
  ASSUME Users = {}
  PROVE  JoiningSpec => NamesAreFreedFirst
<1> DEFINE Inv == TypeOK /\ JoinTypeOK /\ AllSound
<1>1. JoiningInit => Inv
  BY JoiningInitTyped, InitSound
<1>2. Inv /\ [JoiningNext]_allVars => Inv'
  BY JoiningNextTyped, StepSound
<1>3. Inv /\ [JoiningNext]_allVars =>
        [\A n \in Node : unit[n] = "none" /\ unit'[n] # "none"
                           => n \notin nodeObjects[cluster'[n]]]_allVars
  BY InstallsAreFree
<1> QED
  BY <1>1, <1>2, <1>3, PTL DEF JoiningSpec, NamesAreFreedFirst

----------------------------------------------------------------------------
(* One round at a time, as long as no founder stops or is taken for failed *)

Serving == {"stable_server", "rescale_coordinating"}

\* The founders serve, see each other serve, and leave the rounds to the first.
FoundersServe ==
  \A m \in Established :
    /\ m \in up /\ state[m] \in Serving
    /\ \A k \in Established \ {m} : view[m][k].status = "alive" /\ view[m][k].state \in Serving
    /\ state[m] = "rescale_coordinating" => m = TheCluster

\* A founder that sees no round sees every founder stable: it is the first.
LEMMA FirstCoordinates ==
  ASSUME TypeOK, AllSound, FoundersServe, NEW n \in Node, NEW name,
         CanForget(n, name), ~EtcdMembershipChanging(Observe(n))
  PROVE  n = TheCluster
<1>1. /\ Observe(n) \in [Node -> Member] /\ DOMAIN Observe(n) = Node
      /\ n \in Established
  BY HelpersTyped DEF CanForget, AllSound, Sound, TrustsFounders
<1>2. ASSUME NEW m \in Established PROVE m \in StableServers(Observe(n))
  <2>1. /\ m \in Node
        /\ Observe(n)[m].status = "alive" /\ Observe(n)[m].state \in Serving
    BY <1>1, DaemonAssumption DEF FoundersServe, Observe, AliveAs, TypeOK, DaemonTypeOK
  <2>2. Observe(n)[m].state # "rescale_coordinating"
    BY <1>1, <2>1 DEF EtcdMembershipChanging, AliveMembers, ChangesEtcd
  <2> QED
    BY <1>1, <2>1, <2>2 DEF StableServers, AliveIn, AliveMembers, Serving
<1>3. ASSUME NEW m \in StableServers(Observe(n)) PROVE m \in Established
  BY <1>1 DEF StableServers, AliveIn, AliveMembers, Observe, AliveAs, AllSound, Sound, TrustsFounders,
              TypeOK, DaemonTypeOK
<1>4. StableServers(Observe(n)) = Established
  BY <1>2, <1>3
<1> QED
  BY <1>4 DEF CanForget, IsRescaleCoordinator, TheCluster

\* A step of n that starts no round leaves the founders as they are.
LEMMA ServingKept ==
  ASSUME TypeOK, FoundersServe, NEW n \in Node, UNCHANGED <<up, view>>,
         \A m \in Node \ {n} : state'[m] = state[m],
         state[n] \in Serving =>
           state'[n] \in Serving /\ (state'[n] = "rescale_coordinating" => n = TheCluster)
  PROVE  FoundersServe'
BY DaemonAssumption DEF FoundersServe

LEMMA StepServing ==
  ASSUME Users = {}, Faults \cap {"crash", "suspect"} = {},
         TypeOK, JoinTypeOK, AllSound, FoundersServe, [JoiningNext]_allVars
  PROVE  FoundersServe'
<1> USE DEF joinVars, joinerVars, coordinatorVars
<1>0. /\ Established \subseteq Node
      /\ UNCHANGED <<up, view, state>> => FoundersServe'
      /\ \A n \in Node : \A to : Transition(n, to) =>
           state'[n] = to /\ \A m \in Node \ {n} : state'[m] = state[m]
  <2>1. Established \subseteq Node
    BY DaemonAssumption
  <2>2. UNCHANGED <<up, view, state>> => FoundersServe'
    BY DEF FoundersServe
  <2>3. ASSUME NEW n \in Node, NEW to, Transition(n, to)
        PROVE  state'[n] = to /\ \A m \in Node \ {n} : state'[m] = state[m]
    BY <2>3, TransitionMoves
  <2> QED
    BY <2>1, <2>2, <2>3
<1>1. CASE Environment
  <2>1. ASSUME NEW n \in Node, NEW m \in Node, Learn(n, m) PROVE FoundersServe'
    BY <1>0, <2>1 DEF Learn, FoundersServe, AliveAs, TypeOK, DaemonTypeOK
  <2>2. ASSUME NEW n \in Node, NEW m \in Node, DetectFailure(n, m) PROVE FoundersServe'
    <3>1. m \notin Established
      BY <2>2 DEF DetectFailure, FoundersServe
    <3> QED
      BY <1>0, <2>2, <3>1 DEF DetectFailure, FoundersServe, TypeOK, DaemonTypeOK
  <2>3. ASSUME NEW n \in Node, NEW m \in Node, Suspect(n, m) PROVE FALSE
    BY <2>3 DEF Suspect, Fault
  <2>4. ASSUME NEW n \in Node, NEW event \in EventName, Lose(n, event) PROVE FoundersServe'
    BY <1>0, <2>4 DEF Lose
  <2>5. ASSUME NEW n \in Node, PowerOn(n) PROVE FoundersServe'
    BY <1>0, <2>5 DEF PowerOn, FoundersServe
  <2>6. ASSUME NEW n \in Node, ChooseInitialState(n) PROVE FoundersServe'
    BY <1>0, <2>6, ServingKept DEF ChooseInitialState, Serving
  <2> QED
    BY <1>1, <2>1, <2>2, <2>3, <2>4, <2>5, <2>6 DEF Environment
<1>2. ASSUME NEW n \in Node, UserAction(n) \/ BootstrapHandler(n), UNCHANGED joinVars
      PROVE  FoundersServe'
  BY <1>0, <1>2, BootstrapIdle DEF Unnoticed
<1>3. ASSUME NEW n \in Node, JoinerHandler(n) PROVE FoundersServe'
  <2>1. UNCHANGED <<up, view>>
    BY <1>3 DEF JoinerHandler, StartJoiningPath, DivertToJoining, OnJoinWaitExpired,
      MaybeJoinCluster, OnForgetRetry, OnForgotten, Unmoved
  <2>2. UNCHANGED state \/ (state[n] \notin Serving /\ \E to : Transition(n, to))
    BY <1>3 DEF JoinerHandler, StartJoiningPath, DivertToJoining, OnJoinWaitExpired,
      MaybeJoinCluster, OnForgetRetry, OnForgotten, Proceed, StartOperation, Serving
  <2> QED
    BY <1>0, <2>1, <2>2, ServingKept
<1>4. ASSUME NEW n \in Node, CoordinatorHandler(n) PROVE FoundersServe'
  <2>1. ASSUME NEW name \in Node, OnForgetMe(n, name) PROVE FoundersServe'
    BY <1>0, <2>1 DEF OnForgetMe, vars, daemonVars
  <2>2. ASSUME NEW l \in lookups[n], OnForgetProbed(n, l) PROVE FoundersServe'
    <3>1. UNCHANGED <<up, view>>
      BY <2>2 DEF OnForgetProbed, Unmoved
    <3>2. \/ UNCHANGED state
          \/ /\ CanForget(n, l.name) /\ ~EtcdMembershipChanging(Observe(n))
             /\ Transition(n, "rescale_coordinating")
      BY <2>2 DEF OnForgetProbed, StartOperation
    <3> QED
      BY <1>0, <3>1, <3>2, FirstCoordinates, ServingKept DEF Serving
  <2> QED
    BY <1>4, <2>1, <2>2 DEF CoordinatorHandler
<1>5. ASSUME NEW n \in Node, Progress(n) PROVE FoundersServe'
  <2>1. UNCHANGED <<up, view, state>>
    BY <1>5 DEF Progress, JoinOpStep, OpStep, RefuseToReinstall, RunInstallScript,
      FailInstallScript, CheckInstalledRole, BecomeReady, TimeOut, WaitInVain, CheckNotInstalled,
      EraseNode, FailErase, AnswerLookup, FailLookup, vars, daemonVars
  <2> QED
    BY <1>0, <2>1
<1>6. ASSUME NEW n \in Node, ResultStep(n) PROVE FoundersServe'
  <2>1. UNCHANGED <<up, view>>
    BY <1>6 DEF ResultStep, RejoinStep, OnRejoinReady, FailRejoin, ResultHandler,
      OnBootstrapInstallSucceeded, FailBootstrap, JoinerResult, OnJoiningCleanupChecked,
      OnJoiningInstallSucceeded, FailJoining, IgnoreResult, FinishForgetting,
      AbandonCoordination, Unmoved
  <2>2. \/ UNCHANGED state
        \/ \E to : Transition(n, to) /\ (state[n] \notin Serving \/ to = "stable_server")
    BY <1>6 DEF ResultStep, RejoinStep, OnRejoinReady, FailRejoin, ResultHandler,
      OnBootstrapInstallSucceeded, FailBootstrap, BecomeStable, JoinerResult,
      OnJoiningCleanupChecked, OnJoiningInstallSucceeded, FailJoining, IgnoreResult,
      FinishForgetting, AbandonCoordination, Serving, InstallState
  <2> QED
    BY <1>0, <2>1, <2>2, ServingKept DEF Serving
<1>7. ASSUME NEW n \in Node, CrashAndForgetAll(n) PROVE FALSE
  BY <1>7 DEF CrashAndForgetAll, CrashAndForget, Crash, Fault
<1>8. ASSUME NEW n \in Node,
             \/ RestartK3s(n) \/ LoseConfirmation(n)
             \/ \E name \in Node : LoseRequest(n, name)
      PROVE  FoundersServe'
  BY <1>0, <1>8 DEF RestartK3s, LoseConfirmation, LoseRequest, vars, daemonVars
<1>9. CASE UNCHANGED allVars
  BY <1>0, <1>9 DEF allVars, vars, daemonVars
<1> QED
  BY <1>1, <1>2, <1>3, <1>4, <1>5, <1>6, <1>7, <1>8, <1>9 DEF JoiningNext, Underneath

LEMMA InitServing == JoiningInit => FoundersServe
BY DaemonAssumption
   DEF JoiningInit, Init, DaemonInit, FoundersServe, Serving, AliveAs

\* However many servers the cluster has, and however old what they know of each
\* other's states, only the lowest-named one erases names, one round at a time
\* (rescale.go:20), as long as no machine stops or is taken for failed: a server
\* that does not see the first one stable sees it busy, and leaves it alone.
THEOREM RoundsAreExclusive ==
  ASSUME Users = {}, Faults \cap {"crash", "suspect"} = {}
  PROVE  JoiningSpec => []OneRoundAtATime
<1> DEFINE Inv == TypeOK /\ JoinTypeOK /\ AllSound /\ FoundersServe
<1>1. JoiningInit => Inv
  BY JoiningInitTyped, InitSound, InitServing
<1>2. Inv /\ [JoiningNext]_allVars => Inv'
  BY JoiningNextTyped, StepSound, StepServing
<1>3. Inv => OneRoundAtATime
  BY DEF AllSound, Sound, TrustsFounders, FoundersServe, OneRoundAtATime
<1> QED
  BY <1>1, <1>2, <1>3, PTL DEF JoiningSpec
=============================================================================
