------------------------------- MODULE Rescale -------------------------------
(***************************************************************************)
(* The rescaling (internal/cluster/rescale.go) on top of the joining path. *)
(* Every machine notes since when it sees a peer failed; the coordinator   *)
(* evicts the peers that failed for longer than the grace period, then,    *)
(* when the control plane has been off its size for longer than the settle *)
(* delay, deletes one machine from K3s and orders it to change role.  That *)
(* machine uninstalls K3s and installs it again with the other role.       *)
(*                                                                         *)
(* Deadlines are flags: a clock is off, running or elapsed.  A membership  *)
(* event is kept here, as the set of machines that have one to handle: the *)
(* evaluation runs on an event or on a timer, and not otherwise.           *)
(***************************************************************************)
EXTENDS Joining

CONSTANTS
  Agents,         \* the machines that are agents of the cluster already
  Absentees,      \* the machines of the cluster that just stopped
  Returning,      \* the machines that may come back after the grace period
  DelaysSuffice,  \* TRUE: orders and tags arrive within the settle delay, and no
                  \* machine is wrongly taken for failed for the whole grace period
  PromptRemovals \* TRUE: the removal of a machine reaches every memberlist at once

Settled == Established \cup Agents

ASSUME RescaleAssumption ==
  /\ Established # {}
  /\ Agents \subseteq Node \ (Established \cup Late \cup Ghosts)
  /\ Absentees \subseteq Settled
  /\ Returning \subseteq Node
  /\ DelaysSuffice \in BOOLEAN /\ PromptRemovals \in BOOLEAN

VARIABLES
  rescale, \* rescale[n]: the rescaleProgress of n, cleaning apart
  orders,  \* orders[n]: the conversion orders delivered to n and not handled
  woken,   \* the machines with a membership event to handle
  etcd,    \* etcd[c]: the etcd members of the K3s cluster c
  gone,    \* the machines that stayed away for longer than the grace period
  removals \* removals[n]: the machines whose removal is on its way to n

rescaleVars == <<rescale, orders>>
everyVar == <<allVars, rescaleVars, woken, etcd, gone, removals>>

Clock == {"off", "running", "elapsed"}

\* A rescaleOrder; via is the coordinator, whose address it carries.
Order == [target : Node, role : Role, via : Node]

ASSUME NoOrderAssumption == None \notin Order

RescaleProgress ==
  [clock : [Node -> Clock],  \* failedSince
   imbalance : Clock,        \* imbalanceControlPlaneSince
   hold : BOOLEAN,           \* retryNotBefore lies ahead
   timer : BOOLEAN,          \* the next check is scheduled
   order : Order \cup {None},
   evicting : SUBSET Node]

NotRescaling ==
  [clock |-> [m \in Node |-> "off"], imbalance |-> "off", hold |-> FALSE,
   timer |-> FALSE, order |-> None, evicting |-> {}]

\* Every variable of the rescaling holds a value the code can give it.
RescaleTypeOK ==
  /\ JoiningTypeOK
  /\ rescale \in [Node -> RescaleProgress]
  /\ orders \in [Node -> SUBSET Order]
  /\ woken \subseteq up
  /\ etcd \in [Node -> SUBSET Node]
  /\ gone \subseteq Node
  /\ removals \in [Node -> SUBSET Node]

----------------------------------------------------------------------------
\* The progress of a machine.

\* Mutant of Tracked: every evaluation notes the failures again.
TrackedAfresh(r, v) ==
  [r EXCEPT !.clock = [m \in Node |-> IF m \notin FailedMembers(v) THEN "off" ELSE "running"]]

\* trackFailures
Tracked(r, v) ==
  [r EXCEPT !.clock = [m \in Node |->
     IF m \notin FailedMembers(v) THEN "off" ELSE IF @[m] = "off" THEN "running" ELSE @[m]]]

\* resetProgress
Reset(r) == [r EXCEPT !.timer = FALSE, !.order = None, !.evicting = {}]

\* forget: the failures stay noted.
Forgotten(r) == [Reset(r) EXCEPT !.imbalance = "off", !.hold = FALSE]

\* Mutant of Abandoned: no check is scheduled.
AbandonedUntimed(r) ==
  [r EXCEPT !.order = None, !.evicting = {}, !.imbalance = "off", !.hold = TRUE, !.timer = FALSE]

\* What abandonCoordination leaves: the next round waits.
Abandoned(r) ==
  [r EXCEPT !.order = None, !.evicting = {}, !.imbalance = "off", !.hold = TRUE, !.timer = TRUE]

\* Mutant of Evictable: no grace period.
EvictableAtOnce(r, v) == FailedMembers(v)

\* durablyFailedMembersNames
Evictable(r, v) == {m \in FailedMembers(v) : r.clock[m] = "elapsed"}

Balanced(v) == ~NeedsAnotherServer(v) /\ ~HasTooManyServers(v)

\* Mutant of Conversions: the order carries no address.
ConversionsUnaddressed(n, v) ==
  {[target |-> m, role |-> "server", via |-> None] :
     m \in {t \in PromotionTargets(v) : NeedsAnotherServer(v)}}
  \cup
  {[target |-> m, role |-> "agent", via |-> None] :
     m \in {t \in DemotionTargets(v) \ {n} : HasTooManyServers(v)}}

\* chooseConversionTarget: at most one order, and never to n itself to leave.
Conversions(n, v) ==
  {[target |-> m, role |-> "server", via |-> n] :
     m \in {t \in PromotionTargets(v) : NeedsAnotherServer(v)}}
  \cup
  {[target |-> m, role |-> "agent", via |-> n] :
     m \in {t \in DemotionTargets(v) \ {n} : HasTooManyServers(v)}}

----------------------------------------------------------------------------
\* The evaluation.

\* n in state s, with progress r and the operations running.
Leaves(n, s, r, running) ==
  /\ state' = [state EXCEPT ![n] = s]
  /\ rescale' = [rescale EXCEPT ![n] = r]
  /\ ops' = [ops EXCEPT ![n] = running]

\* startCoordinationRound
StartsRound(n, r, kind, via, running) ==
  Leaves(n, "rescale_coordinating", r, running \cup {NewOp(kind, via)})

\* maybeRescale, past the checks that n may act: eviction first, ...
ActAsCoordinator(n, s, v, r, running) ==
  LET evictable == Evictable(r, v)
      choices == IF r.imbalance = "elapsed" THEN Conversions(n, v) ELSE {}
  IN  \/ /\ evictable # {}
         /\ StartsRound(n, [Reset(r) EXCEPT !.evicting = evictable], "evict", None, running)
      \/ /\ evictable = {} /\ Balanced(v)
         /\ Leaves(n, s, [r EXCEPT !.imbalance = "off", !.timer = FailedMembers(v) # {}], running)
      \* ... a conversion once the imbalance settled, ...
      \/ /\ evictable = {} /\ ~Balanced(v)
         /\ \E order \in choices :
              StartsRound(n, [Reset(r) EXCEPT !.imbalance = "off", !.order = order],
                          "prepare", order.target, running)
      \* ... and else the next deadline, even when nothing is convertible.
      \/ /\ evictable = {} /\ ~Balanced(v) /\ choices = {}
         /\ Leaves(n, s, [r EXCEPT !.imbalance = IF @ = "off" THEN "running" ELSE @,
                                   !.timer = TRUE], running)

\* Mutant of MaybeRescale: whoever is not the coordinator drops its progress,
\* in whatever state.
MaybeRescaleForgetful(n, s, seen, progress, running) ==
  LET v == [seen EXCEPT ![n] = AliveAs(s)]
      r == Tracked(progress, v)
  IN  IF ~IsRescaleCoordinator(v, n) THEN Leaves(n, s, Forgotten(r), running)
      ELSE ~r.hold /\ ~EtcdMembershipChanging(v) /\ ActAsCoordinator(n, s, v, r, running)

\* maybeRescale, by n in state s on the memberlist seen.
MaybeRescale(n, s, seen, progress, running) ==
  LET v == [seen EXCEPT ![n] = AliveAs(s)]
      r == Tracked(progress, v)
      coordinator == s = "stable_server" /\ IsRescaleCoordinator(v, n)
  IN  \/ /\ s # "stable_server" \/ (coordinator /\ r.hold)
         /\ Leaves(n, s, r, running)
      \/ /\ s = "stable_server" /\ ~coordinator
         /\ Leaves(n, s, Forgotten(r), running)
      \/ /\ coordinator /\ ~r.hold /\ EtcdMembershipChanging(v)
         /\ Leaves(n, s, [r EXCEPT !.timer = FALSE], running)
      \/ /\ coordinator /\ ~r.hold /\ ~EtcdMembershipChanging(v)
         /\ ActAsCoordinator(n, s, v, r, running)

\* handleSerfEvent, as far as the rescaling goes.
OnMembershipEvent(n) ==
  /\ Running(n) /\ n \in woken
  /\ MaybeRescale(n, state[n], view[n], rescale[n], ops[n])
  /\ Unmoved /\ UNCHANGED <<inbox, file, faults, bootstrapVars, joinVars, orders>>

\* onRescaleCheck
OnRescaleCheck(n) ==
  /\ Running(n) /\ rescale[n].timer /\ ~rescale[n].hold
  /\ MaybeRescale(n, state[n], view[n], [rescale[n] EXCEPT !.timer = FALSE], ops[n])
  /\ Unmoved /\ UNCHANGED <<inbox, file, faults, bootstrapVars, joinVars, orders>>

----------------------------------------------------------------------------
\* Time passes.

\* Every memberlist is up to date and every order was handled.
AllInformed ==
  \A n \in up : /\ orders[n] = {}
                /\ \A m \in Node \ {n} : IF m \in up THEN view[n][m] = AliveAs(state[m])
                                         ELSE view[n][m].status # "alive"

Advance(n, r) ==
  /\ n \in up
  /\ rescale' = [rescale EXCEPT ![n] = r]
  /\ UNCHANGED <<allVars, orders>>

GraceEnds(n, m) ==
  /\ rescale[n].clock[m] = "running"
  /\ DelaysSuffice => m \notin up
  /\ Advance(n, [rescale[n] EXCEPT !.clock[m] = "elapsed"])

SettleEnds(n) ==
  /\ rescale[n].imbalance = "running"
  /\ DelaysSuffice => AllInformed
  /\ Advance(n, [rescale[n] EXCEPT !.imbalance = "elapsed"])

HoldEnds(n) == rescale[n].hold /\ Advance(n, [rescale[n] EXCEPT !.hold = FALSE])

----------------------------------------------------------------------------
\* The rounds of the coordinator.

\* The etcd of the cluster c answers: most of its members run.
Answers(c) == 2 * Cardinality(etcd[c] \cap up) > Cardinality(etcd[c])

\* checkQuorum, asked of n's own server
HasQuorum(n) == n \in etcd[cluster[n]] /\ Answers(cluster[n])

Round == {"erase", "evict", "prepare"}

\* Mutant of Condemned: a conversion only drains its target.
CondemnedEvicted(n, op) == IF op.kind = "evict" THEN rescale[n].evicting ELSE {}

\* The names the round of n deletes.
Condemned(n, op) == IF op.kind = "evict" THEN rescale[n].evicting ELSE {op.via}

Forgetting(n, names) ==
  nodeObjects' = [nodeObjects EXCEPT ![cluster[n]] = @ \ names]

\* The work of a round: the quorum probe, then drain (which may fail) and
\* DeleteNode.
DeleteNodes(n, op) ==
  /\ op \in ops[n] /\ op.phase = "start" /\ op.kind \in Round
  /\ HasQuorum(n)
  /\ Forgetting(n, Condemned(n, op))
  /\ ops' = InPhase(n, op, "ok")
  /\ UNCHANGED <<up, state, view, inbox, diskVars, file, faults, bootstrapVars>>
  /\ UNCHANGED <<joinerVars, coordinatorVars, rescaleVars>>

\* The round fails: no quorum, or a call that fails after the first deletions.
FailRound(n, op) ==
  /\ op \in ops[n] /\ op.phase = "start" /\ op.kind \in Round
  /\ \/ ~HasQuorum(n) /\ UNCHANGED <<nodeObjects, faults>>
     \/ /\ HasQuorum(n) /\ Fault("kubectl")
        /\ \E next \in Node : \/ Forgetting(n, {m \in Condemned(n, op) : m < next})
                              \/ Forgetting(n, Condemned(n, op))
  /\ ops' = InPhase(n, op, "error")
  /\ UNCHANGED <<up, state, view, inbox, diskVars, file, bootstrapVars>>
  /\ UNCHANGED <<joinerVars, coordinatorVars, rescaleVars>>

RoundFrame ==
  UNCHANGED <<up, inbox, diskVars, file, bootstrapVars, joining, requests, lookups, nodeObjects>>

\* onRescaleCoordinationDone is called.
RoundEnds(n, op) == op \in ops[n] /\ op.phase = "ok" /\ state[n] = "rescale_coordinating"

\* finishForgetting
FinishForgettingRound(n, op) ==
  /\ RoundEnds(n, op) /\ cleaning[n] # None
  /\ cleaning' = [cleaning EXCEPT ![n] = None]
  /\ ConfirmForgotten(n, cleaning[n])
  /\ MaybeRescale(n, "stable_server", view[n], rescale[n], ops[n] \ {op})
  /\ RoundFrame /\ UNCHANGED <<view, orders>>

\* finishEviction: the machines disappear from the memberlist of n, those apart
\* that Serf refuses to remove, and n evaluates the cluster at once; the other
\* memberlists follow (Prune), or have followed when PromptRemovals.
FinishEviction(n, op) ==
  /\ RoundEnds(n, op) /\ cleaning[n] = None /\ rescale[n].order = None
  /\ \E kept \in SUBSET rescale[n].evicting :
       /\ IF kept = {} THEN UNCHANGED faults ELSE Fault("send")
       /\ view' = [x \in Node |-> [m \in Node |->
                    IF m \in rescale[n].evicting \ kept /\ (x = n \/ (PromptRemovals /\ Hears(n, x)))
                    THEN Absent ELSE view[x][m]]]
  /\ MaybeRescale(n, "stable_server", view'[n], [rescale[n] EXCEPT !.evicting = {}], ops[n] \ {op})
  /\ RoundFrame /\ UNCHANGED <<confirmed, cleaning, orders>>

\* onRescaleCoordinationDone, for a conversion: the order leaves, and a check is
\* scheduled because it may never be executed.
FinishConversion(n, op) ==
  LET order == rescale[n].order
  IN  /\ RoundEnds(n, op) /\ cleaning[n] = None /\ order # None
      /\ \/ /\ orders' = IF Hears(n, order.target)
                         THEN [orders EXCEPT ![order.target] = @ \cup {order}] ELSE orders
            /\ Leaves(n, "stable_server", [rescale[n] EXCEPT !.order = None, !.timer = TRUE],
                      ops[n] \ {op})
            /\ UNCHANGED faults
         \/ /\ Fault("send")
            /\ Leaves(n, "stable_server", Abandoned(rescale[n]), ops[n] \ {op})
            /\ UNCHANGED orders
      /\ RoundFrame /\ UNCHANGED <<view, confirmed, cleaning>>

\* Mutant of AbandonRound: the failure is logged and the state kept.
AbandonRoundSilently(n, op) ==
  /\ op \in ops[n] /\ op.phase = "error" /\ state[n] = "rescale_coordinating"
  /\ Leaves(n, "rescale_coordinating", Abandoned(rescale[n]), ops[n] \ {op})
  /\ cleaning' = [cleaning EXCEPT ![n] = None]
  /\ RoundFrame /\ UNCHANGED <<view, faults, confirmed, orders>>

\* abandonCoordination
AbandonRound(n, op) ==
  /\ op \in ops[n] /\ op.phase = "error" /\ state[n] = "rescale_coordinating"
  /\ Leaves(n, "stable_server", Abandoned(rescale[n]), ops[n] \ {op})
  /\ cleaning' = [cleaning EXCEPT ![n] = None]
  /\ RoundFrame /\ UNCHANGED <<view, faults, confirmed, orders>>

\* onForgetProbed, whose round drops the decisions of the previous one.
OnForgetProbedBetweenRounds(n, l) ==
  /\ OnForgetProbed(n, l)
  /\ rescale' = IF state'[n] = state[n] THEN rescale ELSE [rescale EXCEPT ![n] = Reset(@)]
  /\ UNCHANGED orders

----------------------------------------------------------------------------
\* The machine that changes role.

ConversionState(role) == IF role = "server" THEN "rescale_promoting" ELSE "rescale_demoting"
ConversionKind(role) == IF role = "server" THEN "promote" ELSE "demote"

MayConvert(s, role) == s = StableState(Other(role))

\* onRescaleConvert: an order for another role than the expected one is ignored.
OnRescaleConvert(n, order) ==
  /\ Running(n) /\ order \in orders[n]
  /\ orders' = [orders EXCEPT ![n] = @ \ {order}]
  /\ \/ /\ MayConvert(state[n], order.role)
        /\ rescale' = [rescale EXCEPT ![n].order = order]
        /\ StartOperation(n, ConversionKind(order.role), order.via, ConversionState(order.role))
     \/ /\ ~MayConvert(state[n], order.role)
        /\ UNCHANGED <<state, ops, rescale>>
  /\ Unmoved /\ UNCHANGED <<inbox, file, faults, bootstrapVars, joinVars>>

Converts(op) == op.kind \in {"promote", "demote"}
NewRole(op) == IF op.kind = "promote" THEN "server" ELSE "agent"

ConversionFrame ==
  UNCHANGED <<up, state, view, inbox, file, bootstrapVars, joinerVars, coordinatorVars, rescaleVars>>

\* Convert, first half: the unit of the old role is uninstalled, with its data.
Uninstall(n, op) ==
  /\ op \in ops[n] /\ op.phase = "start" /\ Converts(op)
  /\ unit[n] = Other(NewRole(op))
  /\ \/ /\ unit' = [unit EXCEPT ![n] = "none"]
        /\ cluster' = [cluster EXCEPT ![n] = None]
        /\ ops' = InPhase(n, op, "bare")
        /\ UNCHANGED faults
     \/ /\ Fault("script")
        /\ ops' = InPhase(n, op, "error")
        /\ UNCHANGED diskVars
  /\ ConversionFrame /\ UNCHANGED nodeObjects

\* The server whose address the order carries takes new members.
Admits(m) == m \in up /\ unit[m] = "server" /\ HasQuorum(m)

\* Convert, second half: K3s is installed again and registers, or is not.
Reinstall(n, op) ==
  /\ op \in ops[n] /\ op.phase = "bare"
  /\ \/ /\ Admits(op.via)
        /\ unit' = [unit EXCEPT ![n] = NewRole(op)]
        /\ cluster' = [cluster EXCEPT ![n] = cluster[op.via]]
        /\ nodeObjects' = [nodeObjects EXCEPT ![cluster[op.via]] = @ \cup {n}]
        /\ ops' = InPhase(n, op, "wait")
        /\ UNCHANGED faults
     \/ /\ Fault("script") \/ (~Admits(op.via) /\ UNCHANGED faults)
        /\ ops' = InPhase(n, op, "error")
        /\ UNCHANGED <<diskVars, nodeObjects>>
  /\ ConversionFrame

\* K3s cannot be ready while etcd does not answer, and the deadline passes.
WaitWithoutQuorum(n, op) ==
  /\ op \in ops[n] /\ op.phase = "wait" /\ ~Answers(cluster[n])
  /\ ops' = InPhase(n, op, "error")
  /\ ConversionFrame /\ UNCHANGED <<diskVars, nodeObjects, faults>>

\* Mutant of OnRescaleConverted: the result is not looked at.
OnRescaleConvertedAnyway(n, op) ==
  /\ op \in ops[n] /\ op.phase \in {"ok", "error"}
  /\ state[n] \in {"rescale_promoting", "rescale_demoting"}
  /\ BecomeStable(n, rescale[n].order.role)
  /\ rescale' = [rescale EXCEPT ![n].order = None]
  /\ ops' = Without(n, op)
  /\ Unmoved /\ UNCHANGED <<inbox, bootstrapVars, joinVars, orders>>

\* onRescaleConverted
OnRescaleConverted(n, op) ==
  /\ op \in ops[n] /\ op.phase = "ok"
  /\ state[n] \in {"rescale_promoting", "rescale_demoting"}
  /\ BecomeStable(n, rescale[n].order.role)
  /\ rescale' = [rescale EXCEPT ![n].order = None]
  /\ ops' = Without(n, op)
  /\ Unmoved /\ UNCHANGED <<inbox, bootstrapVars, joinVars, orders>>

\* failRescale
FailRescale(n, op) ==
  /\ op \in ops[n] /\ op.phase = "error"
  /\ state[n] \in {"rescale_promoting", "rescale_demoting"}
  /\ Transition(n, "rescale_failed")
  /\ rescale' = [rescale EXCEPT ![n].order = None, ![n].timer = FALSE]
  /\ ops' = Without(n, op)
  /\ Unmoved /\ UNCHANGED <<inbox, file, faults, bootstrapVars, joinVars, orders>>

----------------------------------------------------------------------------
\* The environment.

LoseOrder(n, order) ==
  /\ order \in orders[n]
  /\ Fault("lose")
  /\ orders' = [orders EXCEPT ![n] = @ \ {order}]
  /\ UNCHANGED <<up, state, view, inbox, ops, diskVars, file, bootstrapVars, joinVars, rescale>>

\* dispatch drops a membership event: the channel of n is full.
DropEvent(n) ==
  /\ n \in woken
  /\ Fault("drop")
  /\ UNCHANGED <<up, state, view, inbox, ops, diskVars, file, bootstrapVars, joinVars, rescaleVars>>

\* The removal of m reaches the memberlist of n (RemoveFailedNode, "propagated
\* on every node").
Prune(n, m) ==
  /\ ~PromptRemovals
  /\ n \in up /\ m \in removals[n] \ up
  /\ view' = [view EXCEPT ![n][m] = Absent]
  /\ UNCHANGED <<up, state, inbox, ops, diskVars, file, faults, bootstrapVars, joinVars, rescaleVars>>

StopAndForgetAll(n) ==
  /\ CrashAndForgetAll(n)
  /\ rescale' = [rescale EXCEPT ![n] = NotRescaling]
  /\ orders' = [orders EXCEPT ![n] = {}]

\* A machine that stayed away for too long comes back only if it is Returning.
Surroundings ==
  /\ Environment
  /\ up' \subseteq up \cup Returning \cup (Node \ gone)
  /\ UNCHANGED <<bootstrapVars, joinVars>>

\* A K3s that becomes ready has an etcd that answers.
K3sStep(n, op) ==
  /\ JoinOpStep(n, op) \/ WaitInVain(n, op) \/ CheckNotInstalled(n, op)
  /\ op.phase = "wait" /\ ops' = InPhase(n, op, "ok") => Answers(cluster[n])

\* The steps of the joining path and of its coordinator.
JoiningStep(n) ==
  \/ BootstrapHandler(n) /\ UNCHANGED joinVars
  \/ JoinerHandler(n)
  \/ \E name \in Node : OnForgetMe(n, name)

JoiningResult(n, op) ==
  \/ RejoinStep(n, op) /\ UNCHANGED <<bootstrapVars, joinVars>>
  \/ ResultHandler(n, op) /\ UNCHANGED joinVars
  \/ JoinerResult(n, op)

Lookups(n) == \E l \in lookups[n] : AnswerLookup(n, l) \/ FailLookup(n, l)

RescaleInit ==
  LET role(n) == IF n \in Established THEN "server" ELSE IF n \in Agents THEN "agent" ELSE "none"
      tag(n) == IF n \in Settled THEN StableState(role(n)) ELSE "fb_discovering"
  IN  /\ up = Node \ (Late \cup Absentees)
      /\ state = [n \in Node |-> IF n \in up THEN tag(n) ELSE "starting"]
      /\ view = [n \in Node |-> [m \in Node |->
                   IF /\ n # m /\ n \in up /\ m \notin Late
                      /\ Acquainted \/ {n, m} \subseteq Settled
                   THEN AliveAs(tag(m)) ELSE Absent]]
      /\ inbox = [n \in Node |-> {}]
      /\ ops = [n \in Node |-> {}]
      /\ unit = [n \in Node |-> role(n)]
      /\ cluster = [n \in Node |-> IF n \in Settled THEN Min(Established) ELSE None]
      /\ file = [n \in Node |-> role(n)]
      /\ faults = 0
      /\ cohort = [n \in Node |-> {}]
      /\ graceTimer = [n \in Node |-> "off"]
      /\ joining = [n \in Node |-> NotJoining]
      /\ requests = [n \in Node |-> {}]
      /\ confirmed = {}
      /\ lookups = [n \in Node |-> {}]
      /\ cleaning = [n \in Node |-> None]
      /\ nodeObjects = [c \in Node |-> IF c = Min(Established) THEN Settled \cup Ghosts ELSE {}]
      /\ rescale = [n \in Node |-> NotRescaling]
      /\ orders = [n \in Node |-> {}]
      /\ woken = up
      /\ etcd = [c \in Node |-> IF c = Min(Established) THEN Established ELSE {}]
      /\ gone = Absentees
      /\ removals = [n \in Node |-> {}]

\* Whoever's memberlist changed, its own entry included, has an event to
\* handle; a server that K3s registers is an etcd member, until it is deleted; a
\* machine that left one memberlist leaves the others too, unless it is back.
Consequences(handled) ==
  /\ woken' = ((woken \ handled) \cup {m \in up' : view'[m] # view[m] \/ state'[m] # state[m]})
              \cap up'
  /\ etcd' = [c \in Node |-> {m \in nodeObjects'[c] : m \in etcd[c] \/ unit'[m] = "server"}]
  /\ gone' = gone \cup {m \in Node : \E n \in Node : rescale'[n].clock[m] = "elapsed"}
  /\ removals' = [x \in Node |-> {m \in Node :
                   /\ ~PromptRemovals /\ x \in up' /\ m \notin up' /\ view'[x][m] # Absent
                   /\ \/ m \in removals[x]
                      \/ \E y \in up' : view[y][m] # Absent /\ view'[y][m] = Absent}]

\* Steps of n: its timers and clocks, its goroutines, its results, its events.
TimeStep(n) ==
  SettleEnds(n) \/ HoldEnds(n) \/ \E m \in Node : GraceEnds(n, m)

WorkStep(n) ==
  \/ \E op \in ops[n] :
       \/ K3sStep(n, op) /\ UNCHANGED rescaleVars
       \/ DeleteNodes(n, op) \/ FailRound(n, op)
       \/ Uninstall(n, op) \/ Reinstall(n, op) \/ WaitWithoutQuorum(n, op)
  \/ Lookups(n) /\ UNCHANGED rescaleVars

ResultOfWork(n) ==
  \E op \in ops[n] :
    \/ JoiningResult(n, op) /\ UNCHANGED rescaleVars
    \/ FinishForgettingRound(n, op) \/ FinishEviction(n, op) \/ FinishConversion(n, op)
    \/ AbandonRound(n, op)
    \/ OnRescaleConverted(n, op) \/ FailRescale(n, op)

EventStep(n) ==
  \/ JoiningStep(n) /\ UNCHANGED rescaleVars
  \/ \E order \in orders[n] : OnRescaleConvert(n, order)
  \/ \E l \in lookups[n] : OnForgetProbedBetweenRounds(n, l)

FaultStep(n) ==
  \/ StopAndForgetAll(n)
  \/ \E order \in orders[n] : LoseOrder(n, order)
  \/ /\ \/ RestartK3s(n) /\ n \in Returning \cup (Node \ gone)
        \/ LoseConfirmation(n)
        \/ \E name \in Node : LoseRequest(n, name)
     /\ UNCHANGED rescaleVars

RescaleNext ==
  \/ Surroundings /\ UNCHANGED rescaleVars /\ Consequences({})
  \/ /\ \E n \in Node : UserAction(n)
     /\ UNCHANGED <<joinVars, rescaleVars>> /\ Consequences({})
  \/ \E n \in Node :
       \/ /\ \/ TimeStep(n) \/ WorkStep(n) \/ ResultOfWork(n) \/ EventStep(n) \/ FaultStep(n)
             \/ OnRescaleCheck(n)
          /\ Consequences({})
       \/ \E m \in Node : Prune(n, m) /\ Consequences({})
       \/ (OnMembershipEvent(n) \/ DropEvent(n)) /\ Consequences({n})

RescaleSpec == RescaleInit /\ [][RescaleNext]_everyVar

\* Every machine keeps handling its membership events, its user events and
\* timers, its results and its rescaling checks; its goroutines and its clocks
\* go on; its memberlist keeps up; and it starts again.
RescaleFairness ==
  \A n \in Node :
    /\ WF_everyVar(OnMembershipEvent(n) /\ Consequences({n}))
    /\ WF_everyVar(OnRescaleCheck(n) /\ Consequences({}))
    /\ WF_everyVar(TimeStep(n) /\ Consequences({}))
    /\ WF_everyVar(WorkStep(n) /\ Consequences({}))
    /\ WF_everyVar(ResultOfWork(n) /\ Consequences({}))
    /\ WF_everyVar(EventStep(n) /\ Consequences({}))
    /\ WF_everyVar(/\ \E m \in Node : Learn(n, m) \/ DetectFailure(n, m)
                   /\ Surroundings /\ UNCHANGED rescaleVars /\ Consequences({}))
    /\ WF_everyVar(\E m \in Node : Prune(n, m) /\ Consequences({}))
    /\ WF_everyVar(/\ PowerOn(n) \/ ChooseInitialState(n)
                   /\ Surroundings /\ UNCHANGED rescaleVars /\ Consequences({}))

FairRescaleSpec == RescaleSpec /\ RescaleFairness

----------------------------------------------------------------------------
\* Properties.

\* No machine uninstalls a K3s server that still is an etcd member: it would
\* leave a dead member in the quorum.  The machine only obeys an order, which
\* must never come before, or without, the deletion (rescale.go:375-376).
MembersAreNotTornDown ==
  [][\A n \in Node : unit[n] = "server" /\ unit'[n] = "none" => n \notin etcd[cluster[n]]]_everyVar

\* Two machines never change role together, whoever gave the orders, as long as
\* orders and tags arrive within the settle delay (rescale.go:20).
OneConversionAtATime ==
  \A n, m \in Node :
    {state[n], state[m]} \subseteq {"rescale_promoting", "rescale_demoting"} => n = m

\* A machine that changes role remembers the order it obeys until the change is
\* over: the role it saves at the end is read there (rescale.go:472), long after
\* and with evaluations, lost coordinator turns and other results in between.
ConversionsKeepTheirOrder ==
  \A n \in Node :
    state[n] \in {"rescale_promoting", "rescale_demoting"}
      => rescale[n].order # None /\ state[n] = ConversionState(rescale[n].order.role)

\* The control plane that the repairs keep alive.
P == INSTANCE ControlPlane
       WITH Machine <- Node, member <- etcd[Min(Established)], alive <- up

ImplementsControlPlane == P!PlaneSpec

\* A server that was not away for the whole grace period leaves etcd only when
\* there are more members than the population calls for, the machines that
\* failed and may come back included (view.go:112, view.go:234).
SurplusIn(c) == Cardinality(etcd[c]) > DesiredServerCount(Cardinality(Node \ gone))

OnlySurplusServersLeave ==
  [][\A c \in Node : etcd[c] \ etcd'[c] \subseteq gone \/ SurplusIn(c)]_everyVar

\* The machines that stay away for the whole grace period are evicted from K3s,
\* so that they do not count in the quorum of etcd for ever, and from every
\* memberlist, whatever calls, broadcasts and removals fail on the way, if etcd
\* answers in the end (rescale.go:13-14).  A coordinator that restarts breaks
\* the promise: it never hears of the machine again.
TheGoneAreEvicted ==
  <>[]Answers(Min(Established)) =>
    (gone # {} ~> \A m \in gone : /\ \A c \in Node : m \notin nodeObjects[c]
                                 /\ \A n \in up : view[n][m].status # "failed")

\* In the end, whatever was lost or failed once on the way, the machines that
\* run form a control plane of the size their number calls for, and etcd counts
\* these servers only (docs/logics/rescaling.md, "deux effets"); unless a
\* machine halts because its conversion failed, which nobody but a user repairs.
IsRepaired ==
  LET servers == {n \in up : state[n] = "stable_server"}
  IN  /\ etcd[Min(Established)] = servers
      /\ Cardinality(servers) = DesiredServerCount(Cardinality(up))
      /\ \A n \in up \ servers : state[n] = "stable_agent"

ControlPlaneIsRepaired ==
  <>[](IsRepaired \/ \E n \in Node : state[n] = "rescale_failed")
=============================================================================
