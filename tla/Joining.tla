------------------------------- MODULE Joining -------------------------------
(***************************************************************************)
(* The joining path (internal/cluster/joining.go) and the forget-me        *)
(* protocol (internal/cluster/forget.go) on top of the bootstrap.  A       *)
(* machine that discovers a cluster waits for the membership to settle,    *)
(* asks the cluster to erase what it still knows under its name, and       *)
(* installs K3s as an agent once that is confirmed.  The coordinator (the  *)
(* lowest-named stable server) looks the name up, erases a leftover in a   *)
(* round of its own, and confirms.                                         *)
(*                                                                         *)
(* Here the rescaling is switched off (config RescaleEnabled), so the only *)
(* coordination rounds are those of the forget-me protocol.  A timer and   *)
(* the command it queues are one step: a command that comes late finds     *)
(* another state and is ignored.                                           *)
(***************************************************************************)
EXTENDS Bootstrap

CONSTANTS
  Ghosts,       \* machines that were reset: the cluster still knows their names
  PromptAnswers \* TRUE: a machine asks again once its last request was answered

ASSUME JoiningAssumption ==
  /\ Ghosts \subseteq Node \ Established
  /\ Ghosts # {} => Established # {}
  /\ PromptAnswers \in BOOLEAN

VARIABLES
  joining,    \* joining[n]: the joiningProgress of n
  requests,   \* requests[n]: whose forget-me reached n and is not handled yet
  confirmed,  \* the machines whose forgotten event is not handled yet
  lookups,    \* lookups[n]: the lookups n runs, and the queued answers
  cleaning,   \* cleaning[n]: the name the round of n erases (rescale.cleaning)
  nodeObjects \* nodeObjects[c]: the names that the K3s cluster c knows

joinerVars == <<joining, confirmed>>
coordinatorVars == <<requests, lookups, cleaning>>
joinVars == <<joinerVars, coordinatorVars, nodeObjects>>
allVars == <<vars, joinVars>>

JoiningProgress == [timer : {"off", "grace", "retry"}, settled : BOOLEAN, cleaned : BOOLEAN]
NotJoining == [timer |-> "off", settled |-> FALSE, cleaned |-> FALSE]

Lookup == [name : Node, phase : {"asked", "found", "absent"}]

\* Every variable of the joining path holds a value the code can give it.
JoiningTypeOK ==
  /\ TypeOK
  /\ joining \in [Node -> JoiningProgress]
  /\ requests \in [Node -> SUBSET Node]
  /\ confirmed \subseteq Node
  /\ lookups \in [Node -> SUBSET Lookup]
  /\ cleaning \in [Node -> Node \cup {None}]
  /\ nodeObjects \in [Node -> SUBSET Node]

----------------------------------------------------------------------------
\* The joiner.

\* startForgetMe or joinAsAgent: the next step of n, a server being visible.
Proceed(n, cleaned) ==
  IF cleaned THEN StartOperation(n, "agent", JoinTarget(Observe(n)), "fb_joining_agent")
  ELSE StartOperation(n, "check", None, "fb_joining_cleanup")

\* maybeStartJoiningPath, with its grace timer.
StartJoiningPath(n) ==
  /\ DivertToJoining(n)
  /\ joining' = [joining EXCEPT ![n].timer = "grace"]
  /\ UNCHANGED <<confirmed, coordinatorVars, nodeObjects>>

\* onJoinWaitExpired: the membership had time to settle.
OnJoinWaitExpired(n) ==
  /\ n \in up /\ state[n] = "fb_joining_waiting" /\ joining[n].timer = "grace"
  /\ joining' = [joining EXCEPT ![n].timer = "off", ![n].settled = TRUE]
  /\ IF CanBeJoined(Observe(n)) THEN Proceed(n, joining[n].cleaned)
     ELSE UNCHANGED <<state, ops>>
  /\ Unmoved /\ UNCHANGED <<inbox, file, faults, bootstrapVars>>
  /\ UNCHANGED <<confirmed, coordinatorVars, nodeObjects>>

\* maybeJoinCluster, on a membership event: a server became visible.
MaybeJoinCluster(n) ==
  /\ n \in up /\ state[n] = "fb_joining_waiting" /\ joining[n].settled
  /\ CanBeJoined(Observe(n))
  /\ Proceed(n, joining[n].cleaned)
  /\ Unmoved /\ UNCHANGED <<inbox, file, faults, bootstrapVars, joinVars>>

\* Mutant of SendForgetMe: one request only.
SendForgetMeOnce(n) ==
  /\ joining' = [joining EXCEPT ![n].timer = "off"]
  /\ \/ /\ requests' = [m \in Node |-> IF Hears(n, m) THEN requests[m] \cup {n} ELSE requests[m]]
        /\ UNCHANGED faults
     \/ UNCHANGED requests /\ Fault("send")
  /\ UNCHANGED <<confirmed, lookups, cleaning, nodeObjects>>

\* sendForgetMe: a failed broadcast is not fatal, the next one is scheduled.
SendForgetMe(n) ==
  /\ joining' = [joining EXCEPT ![n].timer = "retry"]
  /\ \/ /\ requests' = [m \in Node |-> IF Hears(n, m) THEN requests[m] \cup {n} ELSE requests[m]]
        /\ UNCHANGED faults
     \/ UNCHANGED requests /\ Fault("send")
  /\ UNCHANGED <<confirmed, lookups, cleaning, nodeObjects>>

\* ensureK3sIsNotInstalled, before anything is asked.
CheckNotInstalled(n, op) ==
  /\ op \in ops[n] /\ op.phase = "start" /\ op.kind = "check"
  /\ ops' = InPhase(n, op, IF unit[n] = "none" THEN "ok" ELSE "error")
  /\ UNCHANGED <<up, state, view, inbox, diskVars, file, faults, bootstrapVars, joinVars>>

\* onJoiningCleanupChecked
OnJoiningCleanupChecked(n, op) ==
  /\ op \in ops[n] /\ op.phase = "ok" /\ state[n] = "fb_joining_cleanup"
  /\ ops' = Without(n, op)
  /\ SendForgetMe(n)
  /\ Unmoved /\ UNCHANGED <<state, inbox, file, bootstrapVars>>

\* No request of n is under way.
NothingAsked(n) ==
  /\ n \notin confirmed
  /\ \A m \in Node : /\ n \notin requests[m] /\ cleaning[m] # n
                     /\ \A l \in lookups[m] : l.name # n

\* Mutant of OnForgetRetry: the whole cleanup starts again.
OnForgetRetryFromScratch(n) ==
  /\ n \in up /\ state[n] = "fb_joining_cleanup" /\ joining[n].timer = "retry"
  /\ StartOperation(n, "check", None, "fb_joining_cleanup")
  /\ SendForgetMe(n)
  /\ Unmoved /\ UNCHANGED <<inbox, file, bootstrapVars>>

\* onForgetRetry
OnForgetRetry(n) ==
  /\ n \in up /\ state[n] = "fb_joining_cleanup" /\ joining[n].timer = "retry"
  /\ PromptAnswers => NothingAsked(n)
  /\ SendForgetMe(n)
  /\ Unmoved /\ UNCHANGED <<state, inbox, ops, file, bootstrapVars>>

\* Mutant of OnForgotten: without a server in sight the machine stays where it is.
OnForgottenStranded(n) ==
  /\ Running(n) /\ n \in confirmed
  /\ confirmed' = confirmed \ {n}
  /\ \/ /\ state[n] = "fb_joining_cleanup"
        /\ joining' = [joining EXCEPT ![n].timer = "off", ![n].cleaned = TRUE]
        /\ IF CanBeJoined(Observe(n)) THEN Proceed(n, TRUE) ELSE UNCHANGED <<state, ops>>
     \/ /\ state[n] # "fb_joining_cleanup"
        /\ UNCHANGED <<state, ops, joining>>
  /\ Unmoved /\ UNCHANGED <<inbox, file, faults, bootstrapVars, coordinatorVars, nodeObjects>>

\* onForgotten: the name is free, n joins the server it sees now.
OnForgotten(n) ==
  /\ Running(n) /\ n \in confirmed
  /\ confirmed' = confirmed \ {n}
  /\ \/ /\ state[n] = "fb_joining_cleanup"
        /\ joining' = [joining EXCEPT ![n].timer = "off", ![n].cleaned = TRUE]
        /\ IF CanBeJoined(Observe(n)) THEN Proceed(n, TRUE)
           ELSE Transition(n, "fb_joining_waiting") /\ UNCHANGED ops
     \/ /\ state[n] # "fb_joining_cleanup"
        /\ UNCHANGED <<state, ops, joining>>
  /\ Unmoved /\ UNCHANGED <<inbox, file, faults, bootstrapVars, coordinatorVars, nodeObjects>>

\* onJoiningInstallSucceeded: whatever operation succeeded, n is an agent.
OnJoiningInstallSucceeded(n, op) ==
  /\ op \in ops[n] /\ op.phase = "ok" /\ state[n] = "fb_joining_agent"
  /\ BecomeStable(n, "agent")
  /\ ops' = Without(n, op)
  /\ Unmoved /\ UNCHANGED <<inbox, bootstrapVars, joinVars>>

\* failJoining
FailJoining(n, op) ==
  /\ op \in ops[n] /\ op.phase = "error"
  /\ state[n] \in {"fb_joining_cleanup", "fb_joining_agent"}
  /\ Transition(n, "fb_joining_failed")
  /\ joining' = [joining EXCEPT ![n].timer = "off"]
  /\ ops' = Without(n, op)
  /\ Unmoved /\ UNCHANGED <<inbox, file, faults, bootstrapVars>>
  /\ UNCHANGED <<confirmed, coordinatorVars, nodeObjects>>

----------------------------------------------------------------------------
\* The coordinator.

CanForget(n, name) ==
  /\ state[n] = "stable_server"
  /\ IsRescaleCoordinator(Observe(n), n)
  /\ IsVirgin(Observe(n), name)

\* confirmForgotten, to the machine that asked: the others ignore it.
ConfirmForgotten(n, name) ==
  \/ /\ confirmed' = IF Hears(n, name) THEN confirmed \cup {name} ELSE confirmed
     /\ UNCHANGED faults
  \/ UNCHANGED confirmed /\ Fault("send")

\* onForgetMe: a machine that may act starts a lookup, the others do nothing.
OnForgetMe(n, name) ==
  /\ Running(n) /\ name \in requests[n]
  /\ requests' = [requests EXCEPT ![n] = @ \ {name}]
  /\ lookups' = IF CanForget(n, name)
                THEN [lookups EXCEPT ![n] = @ \cup {[name |-> name, phase |-> "asked"]}]
                ELSE lookups
  /\ UNCHANGED <<vars, joinerVars, cleaning, nodeObjects>>

\* Mutant of AnswerLookup: the answer is not decoded.
AnswerLookupRaw(n, l) ==
  /\ l \in lookups[n] /\ l.phase = "asked"
  /\ lookups' = [lookups EXCEPT ![n] = (@ \ {l}) \cup
       {[l EXCEPT !.phase = IF l.name \in nodeObjects[cluster[n]] THEN "node" ELSE "none"]}]
  /\ UNCHANGED <<vars, joinerVars, requests, cleaning, nodeObjects>>

\* K3s answers a lookup, or does not within forgetProbeTimeout.
AnswerLookup(n, l) ==
  /\ l \in lookups[n] /\ l.phase = "asked"
  /\ lookups' = [lookups EXCEPT ![n] = (@ \ {l}) \cup
       {[l EXCEPT !.phase = IF l.name \in nodeObjects[cluster[n]] THEN "found" ELSE "absent"]}]
  /\ UNCHANGED <<vars, joinerVars, requests, cleaning, nodeObjects>>

FailLookup(n, l) ==
  /\ l \in lookups[n] /\ l.phase = "asked"
  /\ Fault("kubectl")
  /\ lookups' = [lookups EXCEPT ![n] = @ \ {l}]
  /\ UNCHANGED <<up, state, view, inbox, ops, diskVars, file, bootstrapVars>>
  /\ UNCHANGED <<joinerVars, requests, cleaning, nodeObjects>>

\* onForgetProbed confirms, erases, or leaves it to the next request.
OnForgetProbed(n, l) ==
  /\ l \in lookups[n] /\ l.phase # "asked"
  /\ lookups' = [lookups EXCEPT ![n] = @ \ {l}]
  /\ \/ /\ CanForget(n, l.name) /\ l.phase = "absent"
        /\ ConfirmForgotten(n, l.name)
        /\ UNCHANGED <<state, ops, cleaning>>
     \/ /\ CanForget(n, l.name) /\ l.phase = "found"
        /\ ~EtcdMembershipChanging(Observe(n))
        /\ StartOperation(n, "erase", l.name, "rescale_coordinating")
        /\ cleaning' = [cleaning EXCEPT ![n] = l.name]
        /\ UNCHANGED <<confirmed, faults>>
     \/ /\ \/ ~CanForget(n, l.name)
           \/ l.phase = "found" /\ EtcdMembershipChanging(Observe(n))
        /\ UNCHANGED <<state, ops, cleaning, confirmed, faults>>
  /\ Unmoved /\ UNCHANGED <<inbox, file, bootstrapVars, joining, requests, nodeObjects>>

\* The round: checkQuorum, then DeleteNode.
EraseNode(n, op) ==
  /\ op \in ops[n] /\ op.phase = "start" /\ op.kind = "erase"
  /\ nodeObjects' = [nodeObjects EXCEPT ![cluster[n]] = @ \ {op.via}]
  /\ ops' = InPhase(n, op, "ok")
  /\ UNCHANGED <<up, state, view, inbox, diskVars, file, faults, bootstrapVars>>
  /\ UNCHANGED <<joinerVars, coordinatorVars>>

\* The round fails, before or after the deletion took effect.
FailErase(n, op) ==
  /\ op \in ops[n] /\ op.phase = "start" /\ op.kind = "erase"
  /\ Fault("kubectl")
  /\ nodeObjects' \in {nodeObjects, [nodeObjects EXCEPT ![cluster[n]] = @ \ {op.via}]}
  /\ ops' = InPhase(n, op, "error")
  /\ UNCHANGED <<up, state, view, inbox, diskVars, file, bootstrapVars>>
  /\ UNCHANGED <<joinerVars, coordinatorVars>>

\* finishForgetting, by way of onRescaleCoordinationDone.
FinishForgetting(n, op) ==
  /\ op \in ops[n] /\ op.phase = "ok" /\ state[n] = "rescale_coordinating"
  /\ Transition(n, "stable_server")
  /\ cleaning' = [cleaning EXCEPT ![n] = None]
  /\ ConfirmForgotten(n, cleaning[n])
  /\ ops' = Without(n, op)
  /\ Unmoved /\ UNCHANGED <<inbox, file, bootstrapVars, joining, requests, lookups, nodeObjects>>

\* Mutant of AbandonCoordination: the machine is told all the same.
AbandonCoordinationConfirming(n, op) ==
  /\ op \in ops[n] /\ op.phase = "error" /\ state[n] = "rescale_coordinating"
  /\ Transition(n, "stable_server")
  /\ cleaning' = [cleaning EXCEPT ![n] = None]
  /\ ConfirmForgotten(n, cleaning[n])
  /\ ops' = Without(n, op)
  /\ Unmoved /\ UNCHANGED <<inbox, file, bootstrapVars, joining, requests, lookups, nodeObjects>>

\* abandonCoordination: no confirmation is sent.
AbandonCoordination(n, op) ==
  /\ op \in ops[n] /\ op.phase = "error" /\ state[n] = "rescale_coordinating"
  /\ Transition(n, "stable_server")
  /\ cleaning' = [cleaning EXCEPT ![n] = None]
  /\ ops' = Without(n, op)
  /\ Unmoved /\ UNCHANGED <<inbox, file, faults, bootstrapVars>>
  /\ UNCHANGED <<joinerVars, requests, lookups, nodeObjects>>

----------------------------------------------------------------------------
\* A result that arrives in a state that starts no operation is dropped.
Awaiting == InstallState \cup
  {"rejoin_cluster", "fb_joining_cleanup", "fb_joining_agent", "rescale_coordinating",
   "rescale_promoting", "rescale_demoting"}

IgnoreResult(n, op) ==
  /\ op \in ops[n] /\ op.phase \in {"ok", "error"} /\ state[n] \notin Awaiting
  /\ ops' = Without(n, op)
  /\ Unmoved /\ UNCHANGED <<state, inbox, file, faults, bootstrapVars, joinVars>>

\* The K3s cluster of n knows n.
Registered(n) == cluster[n] # None /\ n \in nodeObjects[cluster[n]]

\* K3s registers the names of the machines that were just installed, and is
\* ready only while its cluster knows it.
JoinOpStep(n, op) ==
  /\ OpStep(n, op)
  /\ op.phase = "wait" /\ ops' = InPhase(n, op, "ok") => Registered(n)
  /\ nodeObjects' = [c \in Node |-> nodeObjects[c] \cup
                       {m \in Node : unit[m] = "none" /\ unit'[m] # "none" /\ cluster'[m] = c}]
  /\ UNCHANGED <<bootstrapVars, joinerVars, coordinatorVars>>

\* A K3s that its cluster no longer knows is not ready before the deadline
\* (firstBootTimeout, rejoinTimeout, rescaleConvertTimeout).
WaitInVain(n, op) ==
  /\ op \in ops[n] /\ op.phase = "wait" /\ ~Registered(n)
  /\ ops' = InPhase(n, op, "error")
  /\ UNCHANGED <<up, state, view, inbox, diskVars, file, faults, bootstrapVars, joinVars>>

\* A K3s agent registers again when it starts again with its machine; a server
\* that left etcd cannot (docs/logics/rescaling.md, known limit 1).
RestartK3s(n) ==
  /\ n \notin up /\ unit[n] = "agent"
  /\ nodeObjects' = [nodeObjects EXCEPT ![cluster[n]] = @ \cup {n}]
  /\ n \notin nodeObjects[cluster[n]]
  /\ UNCHANGED <<vars, joinerVars, coordinatorVars>>

\* A request or a confirmation never reaches the run loop of n.
LoseRequest(n, name) ==
  /\ name \in requests[n]
  /\ Fault("lose")
  /\ requests' = [requests EXCEPT ![n] = @ \ {name}]
  /\ UNCHANGED <<up, state, view, inbox, ops, diskVars, file, bootstrapVars>>
  /\ UNCHANGED <<joinerVars, lookups, cleaning, nodeObjects>>

LoseConfirmation(n) ==
  /\ n \in confirmed
  /\ Fault("lose")
  /\ confirmed' = confirmed \ {n}
  /\ UNCHANGED <<up, state, view, inbox, ops, diskVars, file, bootstrapVars>>
  /\ UNCHANGED <<joining, coordinatorVars, nodeObjects>>

\* A crash loses what the joiner and the coordinator keep in memory.
CrashAndForgetAll(n) ==
  /\ CrashAndForget(n)
  /\ joining' = [joining EXCEPT ![n] = NotJoining]
  /\ requests' = [requests EXCEPT ![n] = {}]
  /\ confirmed' = confirmed \ {n}
  /\ lookups' = [lookups EXCEPT ![n] = {}]
  /\ cleaning' = [cleaning EXCEPT ![n] = None]
  /\ UNCHANGED nodeObjects

----------------------------------------------------------------------------
JoiningInit ==
  /\ Init
  /\ joining = [n \in Node |-> NotJoining]
  /\ requests = [n \in Node |-> {}]
  /\ confirmed = {}
  /\ lookups = [n \in Node |-> {}]
  /\ cleaning = [n \in Node |-> None]
  /\ nodeObjects = [c \in Node |-> IF c \in Established /\ c = Min(Established)
                                   THEN Established \cup Ghosts ELSE {}]

\* The steps of the bootstrap that leave the joining path alone.
BootstrapHandler(n) ==
  \/ OnBootstrapRequested(n) \/ OnBootstrapWaitExpired(n) \/ OnBootstrapStart(n)
  \/ InstallOnTurn(n) \/ TimerFires(n)
  \/ \E event \in EventName : IgnoreEvent(n, event)

JoinerHandler(n) ==
  \/ StartJoiningPath(n) \/ OnJoinWaitExpired(n) \/ MaybeJoinCluster(n)
  \/ OnForgetRetry(n) \/ OnForgotten(n)

CoordinatorHandler(n) ==
  \/ \E name \in Node : OnForgetMe(n, name)
  \/ \E l \in lookups[n] : OnForgetProbed(n, l)

\* Goroutines at work.
Progress(n) ==
  \/ \E op \in ops[n] : JoinOpStep(n, op) \/ WaitInVain(n, op) \/ CheckNotInstalled(n, op)
                        \/ EraseNode(n, op) \/ FailErase(n, op)
  \/ \E l \in lookups[n] : AnswerLookup(n, l) \/ FailLookup(n, l)

\* The results that the rounds of the coordinator do not own.
JoinerResult(n, op) ==
  \/ OnJoiningCleanupChecked(n, op) \/ OnJoiningInstallSucceeded(n, op)
  \/ FailJoining(n, op) \/ IgnoreResult(n, op)

\* The dispatch of a result by the state of n.
ResultStep(n) ==
  \E op \in ops[n] :
    \/ RejoinStep(n, op) /\ UNCHANGED <<bootstrapVars, joinVars>>
    \/ ResultHandler(n, op) /\ UNCHANGED joinVars
    \/ JoinerResult(n, op)
    \/ FinishForgetting(n, op) \/ AbandonCoordination(n, op)

\* The network, the user and the bootstrap, which leave the joining path alone.
Underneath ==
  /\ \/ Environment /\ UNCHANGED bootstrapVars
     \/ \E n \in Node : UserAction(n) \/ BootstrapHandler(n)
  /\ UNCHANGED joinVars

JoiningNext ==
  \/ Underneath
  \/ \E n \in Node :
       \/ JoinerHandler(n) \/ CoordinatorHandler(n) \/ Progress(n) \/ ResultStep(n)
       \/ RestartK3s(n) \/ LoseConfirmation(n) \/ CrashAndForgetAll(n)
       \/ \E name \in Node : LoseRequest(n, name)

JoiningSpec == JoiningInit /\ [][JoiningNext]_allVars

\* As for the bootstrap; the timer of the joiner is part of its handlers.
JoiningFairness ==
  \A n \in Node :
    /\ WF_allVars(BootstrapHandler(n) /\ UNCHANGED joinVars)
    /\ WF_allVars(StartJoiningPath(n) \/ OnJoinWaitExpired(n) \/ MaybeJoinCluster(n))
    /\ WF_allVars(OnForgetRetry(n))
    /\ WF_allVars(OnForgotten(n))
    /\ \A name \in Node : WF_allVars(OnForgetMe(n, name))
    /\ WF_allVars(\E l \in lookups[n] : OnForgetProbed(n, l))
    /\ WF_allVars(Progress(n))
    /\ WF_allVars(ResultStep(n))
    /\ WF_allVars((PowerOn(n) \/ ChooseInitialState(n)) /\ UNCHANGED <<bootstrapVars, joinVars>>)
    /\ \A m \in Node :
         WF_allVars((Learn(n, m) \/ DetectFailure(n, m)) /\ UNCHANGED <<bootstrapVars, joinVars>>)

FairJoiningSpec == JoiningSpec /\ JoiningFairness

----------------------------------------------------------------------------
\* Properties.

\* A K3s operation in flight is the only one of its machine and belongs to the
\* workflow the machine is in, the joining path and the forget-me rounds
\* included (manager.go:321).
WorkflowsOf(kind) ==
  {StateOfOp(kind)} \cup (IF kind = "agent" THEN {"fb_joining_agent"} ELSE {})

ResultsReachJoiningToo ==
  \A n \in Node : \A op, other \in ops[n] : op = other /\ state[n] \in WorkflowsOf(op.kind)

\* No machine installs K3s while the cluster it enters still knows a machine of
\* its name: K3s would refuse it, or an etcd ghost would keep its seat
\* (forget.go:23: "never installs without one").
NamesAreFreedFirst ==
  [][\A n \in Node : unit[n] = "none" /\ unit'[n] # "none" => n \notin nodeObjects[cluster'[n]]]_allVars

\* The cluster erases ghosts only, never a machine that K3s runs on
\* (forget.go:3: "before installing anything").
OnlyGhostsAreErased ==
  [][\A n, c \in Node : n \in nodeObjects[c] \ nodeObjects'[c] => unit[n] = "none"]_allVars

\* Two machines never run a coordination round together, as long as no member
\* is taken for failed (rescale.go:20).
OneRoundAtATime ==
  \A n, m \in Node :
    state[n] = "rescale_coordinating" /\ state[m] = "rescale_coordinating" => n = m

\* Beside a running cluster, the machines that take the joining path all end up
\* as its agents, even when requests and confirmations are lost.
JoinersBecomeAgents ==
  (\E n \in Node : state[n] = "fb_joining_waiting")
    ~> \A n \in Node \ Established : state[n] = "stable_agent"

\* A machine on the joining path always comes to an end, an agent that runs or a
\* failure that is reported, however its requests, the lookups and the rounds
\* they start, its installation and the faults overlap: no answer to an older
\* request and no erasure of the machine itself leaves it waiting for good
\* (forget.go:50, forget.go:58), unless a server of the cluster halts.
JoiningEnds ==
  <>[](\A m \in Established : state[m] # "rejoin_failed") =>
    \A n \in Node \ Established :
      state[n] = "fb_joining_waiting" ~> state[n] \in {"stable_agent", "fb_joining_failed"}

\* The rounds always give the etcd turn back, whatever fails
\* (rescale.go:44: "Needed to avoid rescale_coordinating from blocking etcd
\* membership change forever").
RoundsEnd ==
  (\E n \in Node : state[n] = "rescale_coordinating")
    ~> \A n \in Node : state[n] # "rescale_coordinating"
=============================================================================
