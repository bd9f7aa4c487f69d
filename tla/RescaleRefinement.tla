-------------------------- MODULE RescaleRefinement --------------------------
(***************************************************************************)
(* The rescaling implements ControlPlane, for every number of machines, as *)
(* long as no machine stops or is suspected and no call and no broadcast   *)
(* of a round fails: the etcd members change only while a majority of them *)
(* answers, and a member that runs leaves only an even membership.         *)
(*                                                                         *)
(* The proof follows an order backwards.  Its target leaves etcd because a *)
(* coordinator counted too many servers in its memberlist.  What it counts *)
(* is the etcd membership: nobody else coordinates or converts when it     *)
(* decides (turns), the machines that stopped are known as long as they    *)
(* are members and no longer (absentees), and the servers that run are     *)
(* members, but for one that is about to convert (members).                *)
(*                                                                         *)
(* The turns also show, while nobody is away, that two machines never      *)
(* coordinate together.                                                    *)
(***************************************************************************)
EXTENDS RescaleSafety

\* The networks these theorems are about.  A half-failed eviction, or a removal
\* that is late, could leave a removed member in the count of a later coordinator.
RoundsSucceed ==
  /\ NothingStops
  /\ "kubectl" \notin Faults /\ "send" \notin Faults /\ PromptRemovals
  /\ Cardinality(Established) <= MaxServers

----------------------------------------------------------------------------
(* Turns: whoever decides knows that nobody else does *)

\* In the eyes of n, nobody changes etcd and no server comes before n.
FreeTurn(n) ==
  \A d \in up \ {n} : /\ view[n][d].state \notin ChangesEtcd
                      /\ view[n][d].state = "stable_server" => n < d

SameTurn(s, t) == s = t \/ {s, t} \subseteq Serving

\* n knows who serves, apart from the machines that it still sees converting; it
\* is seen to serve, and sees the turns of the servers after it.
IsAware(n) ==
  \A d \in up \ {n} :
    /\ view[n][d].state \in Converting \/ SameTurn(view[n][d].state, state[d])
    /\ view[d][n].state \in Serving
    /\ n < d /\ state[d] = "rescale_coordinating" => view[n][d].state = "rescale_coordinating"

\* Whoever may act on an imbalance is aware of the others ...
Aware == \A n \in up : Due(n) /\ ~Led(n) => IsAware(n)

\* ... and coordinates alone, seen by everybody to serve, once it decided.
Sole ==
  \A c \in up : Preparing(c) =>
    \A d \in up \ {c} : state[d] # "rescale_coordinating" /\ view[d][c].state \in Serving

\* Whoever takes its turn, or decides in it, finds it free.
TakesFreeTurns ==
  \A n \in up :
    /\ state'[n] = "rescale_coordinating"
    /\ state[n] # "rescale_coordinating" \/ (Preparing(n)' /\ ~Preparing(n))
    => FreeTurn(n)

\* The order that n prepares, if any, is the only one.
LEMMA PreparedAlone ==
  ASSUME Calm, NEW c \in up, Preparing(c)
  PROVE  /\ \A d \in up : state[d] \in Serving => c <= d
         /\ \A d \in Node : (d # c => ~Preparing(d)) /\ orders[d] = {} /\ state[d] \notin Converting
<1>1. OneOrder /\ c \in Node
  BY DEF Calm, InTurn, StillRunning
<1>2. PICK order \in Order : Guarded(order) /\ UnderWay(order)
  BY <1>1 DEF OneOrder, NoOrderGiven
<1>3. InRound(order) /\ \A n \in Node : /\ n # order.via => ~Preparing(n)
                                        /\ orders[n] = {} /\ state[n] \notin Converting
  BY <1>1, <1>2 DEF UnderWay
<1>4. order.via = c
  BY <1>1, <1>3
<1> QED
  BY <1>2, <1>3, <1>4 DEF Guarded

\* A coordinator whose turn is free, and that is due, sees what the others are.
LEMMA FreeTurnIsClear ==
  ASSUME Calm, Aware, NEW n \in up, Due(n), FreeTurn(n)
  PROVE  /\ IsAware(n)
         /\ \A d \in up \ {n} :
              /\ state[d] \notin Converting \cup {"rescale_coordinating"}
              /\ view[n][d].state = state[d]
              /\ state[d] = "stable_server" => n < d
<1>1. ~Led(n)
  <2> SUFFICES ASSUME NEW d \in up, d < n, view[n][d].state \in Serving PROVE FALSE
    BY DEF Led
  <2>1. n \in Nat /\ d \in Nat
    BY DaemonAssumption DEF Calm, StillRunning
  <2> QED
    BY <2>1 DEF FreeTurn, Serving, ChangesEtcd
<1>2. IsAware(n)
  BY <1>1 DEF Aware
<1>3. ASSUME NEW d \in up \ {n}
      PROVE  /\ state[d] \notin Converting \cup {"rescale_coordinating"}
             /\ view[n][d].state = state[d]
             /\ state[d] = "stable_server" => n < d
  <2>1. view[n][d].state \notin Converting \cup {"rescale_coordinating"}
    BY DEF FreeTurn, ChangesEtcd, Converting
  <2>2. SameTurn(view[n][d].state, state[d])
    BY <1>2, <2>1 DEF IsAware
  <2>3. n < d => state[d] # "rescale_coordinating"
    BY <1>2, <2>1 DEF IsAware
  <2>4. view[n][d].state \in Serving => n < d
    BY <2>1 DEF FreeTurn, Serving
  <2> QED
    BY <2>1, <2>2, <2>3, <2>4 DEF SameTurn, Serving, Converting, FreeTurn
<1> QED
  BY <1>2, <1>3

\* Whoever sees a server that leads still sees one after a step of n.
LEMMA LedLasts ==
  ASSUME Calm, NEW n \in Node, Progresses(n), NEW k \in up, Due(k), Led(k)
  PROVE  Led(k)'
<1>1. /\ Alone(n) /\ n \in up /\ up \subseteq Node /\ StillRunning /\ OneOrder
      /\ orders \in [Node -> SUBSET Order]
  BY DEF Progresses, Alone, Calm, InTurn, StillRunning, AllOrderly, RescaleInv
<1>2. PICK d \in up : d < k /\ state[d] \in Serving /\ view[k][d].state \in Serving
  BY DEF Led
<1>3. d # k
  BY <1>1, <1>2, DaemonAssumption
<1>4. view'[k][d] = view[k][d] /\ up' = up
  BY <1>1, <1>3 DEF Alone
<1>5. CASE state'[d] \in Serving
  BY <1>2, <1>4, <1>5 DEF Led
<1>6. CASE state'[d] \notin Serving
  <2>1. d = n
    BY <1>1, <1>2, <1>6 DEF Alone
  <2>2. PICK order \in orders[n] : Obeys(n, order)
    BY <1>2, <1>6, <2>1 DEF Progresses, Quiet, Decides, Dispatches, Drops, IsDone, Serving, Converting
  <2>3. PICK given \in Order : Guarded(given) /\ UnderWay(given)
    BY <1>1, <2>2 DEF OneOrder, NoOrderGiven
  <2>4. given.target = n /\ state[n] \notin Converting
    BY <1>1, <2>2, <2>3 DEF UnderWay, Obeys, Converting
  <2>5. /\ given.via \in up /\ given.via < k /\ given.via # n /\ state[given.via] \in Serving
        /\ view[k][given.via].state \in Serving
    BY <2>3, <2>4 DEF Guarded
  <2>6. given.via # k
    BY <1>1, <2>5, DaemonAssumption
  <2>7. state'[given.via] = state[given.via] /\ view'[k][given.via] = view[k][given.via]
    BY <1>1, <2>5, <2>6 DEF Alone
  <2> QED
    BY <1>4, <2>5, <2>7 DEF Led
<1> QED
  BY <1>5, <1>6

\* A step of n is seen, or is not to be seen, by whoever may act.
LEMMA ProgressKeepsAware ==
  ASSUME Calm, Aware, TakesFreeTurns, NEW n \in Node, Progresses(n)
  PROVE  Aware'
<1>1. /\ Alone(n) /\ n \in up /\ up \subseteq Node /\ up \subseteq Nat /\ StillRunning /\ OneOrder
      /\ orders \in [Node -> SUBSET Order] /\ up' = up
  BY DaemonAssumption DEF Progresses, Alone, Calm, InTurn, StillRunning, AllOrderly, RescaleInv
<1> SUFFICES ASSUME NEW k \in up, Due(k)', ~Led(k)' PROVE IsAware(k)'
  BY <1>1 DEF Aware
<1>2. Due(k)
  BY <1>1 DEF Due, Alone, Progresses, NoDeadline
<1>3. ~Led(k) /\ IsAware(k)
  BY <1>2, LedLasts DEF Aware
<1> SUFFICES ASSUME NEW d \in up \ {k}
             PROVE  /\ view'[k][d].state \in Converting \/ SameTurn(view'[k][d].state, state'[d])
                    /\ view'[d][k].state \in Serving
                    /\ k < d /\ state'[d] = "rescale_coordinating"
                         => view'[k][d].state = "rescale_coordinating"
  BY <1>1 DEF IsAware
<1>4. /\ view'[k][d] = view[k][d] /\ view'[d][k] = view[d][k]
      /\ view[k][d].state \in Converting \/ SameTurn(view[k][d].state, state[d])
      /\ view[d][k].state \in Serving
      /\ k < d /\ state[d] = "rescale_coordinating" => view[k][d].state = "rescale_coordinating"
  BY <1>1, <1>3 DEF Alone, IsAware
<1>5. view[k][d].state \in Converting \/ SameTurn(view[k][d].state, state'[d])
  <2>1. CASE state'[d] = state[d] \/ {state[d], state'[d]} \subseteq Serving
    BY <1>4, <2>1 DEF SameTurn
  <2>2. CASE ~(state'[d] = state[d] \/ {state[d], state'[d]} \subseteq Serving)
    <3>1. d = n
      BY <1>1, <2>2 DEF Alone
    <3>2. IsDone(n) \/ \E order \in orders[n] : Obeys(n, order)
      BY <2>2, <3>1 DEF Progresses, Quiet, Decides, Dispatches, Drops, Preparing, Serving
    <3>3. PICK given \in Order : Guarded(given) /\ UnderWay(given)
      BY <1>1, <3>2 DEF OneOrder, NoOrderGiven, IsDone
    <3>4. given.target = n
      BY <1>1, <3>2, <3>3 DEF UnderWay, Obeys, IsDone
    <3>5. view[k][n].state \in Converting \/ Led(k)
      BY <1>2, <3>3, <3>4 DEF Guarded, Led
    <3> QED
      BY <1>3, <3>1, <3>5
  <2> QED
    BY <2>1, <2>2
<1>6. ASSUME k < d, state'[d] = "rescale_coordinating" PROVE view[k][d].state = "rescale_coordinating"
  <2>1. CASE state[d] = "rescale_coordinating"
    BY <1>4, <1>6, <2>1
  <2>2. CASE state[d] # "rescale_coordinating"
    <3>1. FreeTurn(d)
      BY <1>6, <2>2 DEF TakesFreeTurns
    <3>2. d < k
      BY <1>4, <3>1 DEF FreeTurn, Serving, ChangesEtcd
    <3> QED
      BY <1>1, <1>6, <3>2
  <2> QED
    BY <2>1, <2>2
<1> QED
  BY <1>4, <1>5, <1>6

\* A decision is made on a free turn, and nobody takes another one before it is
\* carried out.
LEMMA ProgressKeepsSole ==
  ASSUME Calm, Aware, Sole, TakesFreeTurns, NEW n \in Node, Progresses(n)
  PROVE  Sole'
<1>1. /\ Alone(n) /\ n \in up /\ up \subseteq Node /\ up \subseteq Nat /\ StillRunning /\ up' = up
  BY DaemonAssumption DEF Progresses, Alone, Calm, StillRunning
<1> SUFFICES ASSUME NEW c \in up, Preparing(c)', NEW d \in up \ {c}
             PROVE  state'[d] # "rescale_coordinating" /\ view'[d][c].state \in Serving
  BY <1>1 DEF Sole
<1>2. view'[d][c] = view[d][c] /\ state'[c] = "rescale_coordinating"
  BY <1>1 DEF Alone, Preparing
<1>3. CASE Preparing(c)
  <2>1. state[d] # "rescale_coordinating" /\ view[d][c].state \in Serving
    BY <1>3 DEF Sole
  <2>2. ASSUME state'[d] = "rescale_coordinating" PROVE FALSE
    <3>1. FreeTurn(d)
      BY <2>1, <2>2 DEF TakesFreeTurns
    <3>2. d < c
      BY <2>1, <3>1 DEF FreeTurn, Serving, ChangesEtcd
    <3>3. d = n /\ state[d] \in Serving
      <4>1. d = n
        BY <1>1, <2>1, <2>2 DEF Alone
      <4> QED
        BY <2>2, <4>1, <2>1
           DEF Progresses, Quiet, Decides, Dispatches, Drops, IsDone, Obeys, Preparing, Serving, Converting
    <3>4. c <= d
      BY <1>3, <3>3, PreparedAlone
    <3> QED
      BY <1>1, <3>2, <3>4
  <2> QED
    BY <1>2, <2>1, <2>2
<1>4. CASE ~Preparing(c)
  <2>1. FreeTurn(c)
    BY <1>2, <1>4 DEF TakesFreeTurns
  <2>2. c = n /\ Due(n)
    <3>1. c = n
      BY <1>1, <1>4 DEF Alone, Preparing
    <3>2. ~Preparing(n) /\ Preparing(n)'
      BY <1>4, <3>1
    <3> QED
      BY <3>1, <3>2
         DEF Progresses, Quiet, Decides, Dispatches, Drops, IsDone, Obeys, Preparing, Serving, Converting
  <2>3. IsAware(c) /\ state[d] # "rescale_coordinating"
    BY <2>1, <2>2, FreeTurnIsClear
  <2>4. state'[d] = state[d]
    BY <1>1, <2>2 DEF Alone
  <2> QED
    BY <1>2, <2>3, <2>4 DEF IsAware
<1> QED
  BY <1>3, <1>4

\* At the end of a settle delay, everybody is aware of everybody.
LEMMA SettleKeepsTurns ==
  ASSUME Calm, Calm', Aware, Sole, NEW n \in Node, n \in up, Settles(n)
  PROVE  Aware' /\ Sole'
<1>1. /\ UNCHANGED <<up, state, view>> /\ AllInformed /\ up \subseteq Node
      /\ \A m \in Node : rescale'[m].order = rescale[m].order
  BY DEF Settles, allVars, vars, daemonVars, Calm, StillRunning, AllOrderly, RescaleInv, RescaleProgress
<1>2. \A k, d \in up : k # d => view[k][d] = AliveAs(state[d])
  BY <1>1 DEF AllInformed
<1>3. \A k, d \in up : k # d => view[k][d].state = state[d]
  <2>1. \A tag : AliveAs(tag).state = tag
    BY DEF AliveAs
  <2> QED
    BY <1>2, <2>1
<1>4. Aware'
  <2> SUFFICES ASSUME NEW k \in up, Due(k)', ~Led(k)' PROVE IsAware(k)'
    BY <1>1 DEF Aware
  <2>1. state[k] \in Serving
    BY <1>1 DEF Calm, InTurn, Ranked, LeadsTheOthers
  <2> QED
    BY <1>1, <1>3, <2>1 DEF IsAware, SameTurn
<1>5. Sole'
  BY <1>1 DEF Sole, Preparing
<1> QED
  BY <1>4, <1>5

\* News of another machine are accurate.
LEMMA InformKeepsTurns ==
  ASSUME Calm, Aware, Sole, NEW n, NEW m, Informs(n, m)
  PROVE  Aware' /\ Sole'
<1>1. /\ UNCHANGED <<up, state, rescale>>
      /\ \A k, j \in up : k # j => view'[k][j] = view[k][j] \/ view'[k][j].state = state[j]
  <2>1. \A tag : AliveAs(tag).state = tag
    BY DEF AliveAs
  <2> QED
    BY <2>1 DEF Informs
<1>2. Aware'
  <2> SUFFICES ASSUME NEW k \in up, Due(k), ~Led(k)' PROVE IsAware(k)'
    BY <1>1 DEF Aware, Due
  <2>1. ~Led(k)
    <3>1. \A d \in up : d < k => d # k
      BY DaemonAssumption DEF Calm, StillRunning
    <3> QED
      BY <1>1, <3>1 DEF Led
  <2>2. state[k] \in Serving /\ IsAware(k)
    BY <2>1 DEF Calm, InTurn, Ranked, LeadsTheOthers, Aware
  <2> QED
    BY <1>1, <2>2 DEF IsAware, SameTurn
<1>3. Sole'
  BY <1>1 DEF Sole, Preparing, Serving
<1> QED
  BY <1>2, <1>3

----------------------------------------------------------------------------
(* What is left of the steps, and what they do to etcd *)

News(n, m) ==
  /\ Learn(n, m) \/ DetectFailure(n, m) \/ Prune(n, m)
  /\ UNCHANGED <<bootstrapVars, joinVars, rescaleVars>>

RoundStep(n, op) ==
  \/ DeleteNodes(n, op) \/ FailRound(n, op)
  \/ FinishEviction(n, op) \/ FinishConversion(n, op) \/ AbandonRound(n, op)

ConversionStep(n, op) ==
  \/ Uninstall(n, op) \/ Reinstall(n, op) \/ WaitWithoutQuorum(n, op)
  \/ OnRescaleConverted(n, op) \/ FailRescale(n, op)

RunningStep(n) ==
  \/ TimeStep(n) \/ DropEvent(n) \/ OnRescaleCheck(n) \/ OnMembershipEvent(n)
  \/ \E op \in ops[n] : GoesOn(n, op) \/ RoundStep(n, op) \/ ConversionStep(n, op)
  \/ \E order \in orders[n] : OnRescaleConvert(n, order) \/ LoseOrder(n, order)
  \/ RestartK3s(n) /\ UNCHANGED rescaleVars

RepairStep ==
  /\ \E handled \in SUBSET Node : Consequences(handled)
  /\ (\E n, m \in Node : News(n, m)) \/ \E n \in Node : RunningStep(n)

LEMMA OnlyRepairs ==
  ASSUME NothingStops, Calm, [RescaleNext]_everyVar
  PROVE  UNCHANGED everyVar \/ RepairStep
<1>1. AllOrderly /\ StillRunning
  BY DEF Calm
<1>2. CASE Surroundings /\ UNCHANGED rescaleVars /\ Consequences({})
  <2>1. /\ Environment /\ up' \subseteq up \cup Returning \cup (Node \ gone)
        /\ UNCHANGED <<bootstrapVars, joinVars, rescaleVars>>
    BY <1>2 DEF Surroundings
  <2>2. \A n, m \in Node : ~Suspect(n, m)
    BY DEF Suspect, Fault, NothingStops
  <2>3. \A n \in Node, event \in EventName : ~Lose(n, event)
    BY <1>1 DEF Lose, AllOrderly, InOrder, PastFirstBoot
  <2>4. \A n \in Node : ~PowerOn(n)
    BY <1>1, <2>1 DEF PowerOn, StillRunning, NothingStops
  <2>5. \A n \in Node : ~ChooseInitialState(n)
    BY <1>1 DEF ChooseInitialState, StillRunning, Serving, Converting
  <2> QED
    BY <1>2, <2>1, <2>2, <2>3, <2>4, <2>5 DEF Environment, News, RepairStep
<1>3. ASSUME NEW n \in Node, SettledStep(n) PROVE RunningStep(n)
  <2>1. ~StopAndForgetAll(n)
    BY DEF StopAndForgetAll, CrashAndForgetAll, CrashAndForget, Crash, Fault, NothingStops
  <2>2. ASSUME NEW op \in ops[n] PROVE ~RejoinStep(n, op)
    BY <1>1, WorkersRun DEF RejoinStep, OnRejoinReady, FailRejoin
  <2> QED
    BY <1>3, <2>1, <2>2
       DEF SettledStep, WorksOn, EndsWith, RunningStep, RoundStep, ConversionStep
<1>4. ASSUME NEW n \in Node,
             \/ TimeStep(n) \/ WorkStep(n) \/ ResultOfWork(n) \/ EventStep(n) \/ FaultStep(n)
             \/ OnRescaleCheck(n) \/ OnMembershipEvent(n) \/ DropEvent(n)
      PROVE  RunningStep(n)
  BY <1>1, <1>3, <1>4, OnlySettledSteps
<1>5. ASSUME NEW n \in Node, NEW m \in Node, Prune(n, m) PROVE News(n, m)
  BY <1>5 DEF Prune, News
<1> QED
  BY <1>1, <1>2, <1>4, <1>5, NobodyPressesButtons DEF RescaleNext, RepairStep

\* Nothing is registered elsewhere, and no server without being a member.
OnlyHere == \A c \in Node \ {TheCluster} : nodeObjects[c] = {} /\ etcd[c] = {}

ServersEnroll == \A m \in nodeObjects[TheCluster] : unit[m] = "server" => m \in etcd[TheCluster]

\* The types and the registrations that the following lemmas rest on.
Enrolled ==
  /\ Drained /\ OnlyHere /\ ServersEnroll /\ etcd \in [Node -> SUBSET Node]

LEMMA EnrolledFacts ==
  ASSUME Enrolled
  PROVE  /\ TheCluster \in Node /\ up \subseteq Node /\ up = Node \ Absentees
         /\ AllOrderly /\ StillRunning /\ NoneCondemned /\ OneOrder /\ DeletedFirst
         /\ nodeObjects \in [Node -> SUBSET Node] /\ etcd \in [Node -> SUBSET Node]
         /\ unit \in [Node -> InstalledUnit] /\ ops \in [Node -> SUBSET Op]
         /\ orders \in [Node -> SUBSET Order] /\ rescale \in [Node -> RescaleProgress]
         /\ state \in [Node -> State] /\ view \in [Node -> [Node -> Member]]
         /\ etcd[TheCluster] \subseteq nodeObjects[TheCluster]
         /\ \A n \in Node : unit[n] # "none" => cluster[n] = TheCluster
<1>1. Drained /\ Calm /\ AllOrderly /\ RescaleInv
  BY DEF Enrolled, Drained, Calm, AllOrderly
<1>2. TheCluster \in Node
  BY TheClusterIsFounded, RescaleAssumption
<1>3. \A n \in Node : unit[n] # "none" => cluster[n] = TheCluster
  BY <1>1 DEF AllOrderly, InOrder, HoldsItsRole, Drained, OnlyTheCluster
<1> QED
  BY <1>1, <1>2, <1>3 DEF Enrolled, Drained, Calm, InTurn, StillRunning, MembersAreRegistered, RescaleInv,
     TypeOK, DaemonTypeOK, JoinTypeOK

\* A machine that is no server does not become a member by being registered.
LEMMA NoServerNoMember ==
  ASSUME Enrolled, NEW handled, Consequences(handled),
         \A m \in Node : unit'[m] = "server" => unit[m] = "server",
         \A m \in nodeObjects'[TheCluster] : m \in nodeObjects[TheCluster] \/ unit'[m] # "server",
         nodeObjects' \in [Node -> SUBSET Node]
  PROVE  etcd'[TheCluster] = etcd[TheCluster] \cap nodeObjects'[TheCluster]
BY EnrolledFacts DEF Consequences, Enrolled, ServersEnroll

Deletes(n, op) ==
  /\ DeleteNodes(n, op)
  /\ etcd'[TheCluster] = etcd[TheCluster] \ Condemned(n, op)

Registers(n, op) ==
  /\ Reinstall(n, op) /\ Admits(op.via) /\ op.kind = "promote"
  /\ ops' = InPhase(n, op, "wait")
  /\ etcd'[TheCluster] = etcd[TheCluster] \cup {n}

LEMMA RoundsDelete ==
  ASSUME Enrolled, NEW handled, Consequences(handled), NEW n \in Node, NEW op \in ops[n],
         DeleteNodes(n, op), nodeObjects' \in [Node -> SUBSET Node]
  PROVE  Deletes(n, op)
<1> USE EnrolledFacts
<1>1. state[n] \in Serving
  <2>1. op.kind \in {"evict", "prepare"} /\ state[n] = StateOfOp(op.kind)
    BY OperationAlone DEF DeleteNodes, Round
  <2> QED
    BY <2>1 DEF StateOfOp, Serving
<1>2. cluster[n] = TheCluster
  BY <1>1 DEF AllOrderly, InOrder, HoldsItsRole
<1>3. /\ unit' = unit
      /\ nodeObjects' = [nodeObjects EXCEPT ![TheCluster] = @ \ Condemned(n, op)]
  BY <1>2 DEF DeleteNodes, Forgetting, diskVars
<1>4. etcd'[TheCluster] = etcd[TheCluster] \cap nodeObjects'[TheCluster]
  BY <1>3, NoServerNoMember
<1> QED
  BY <1>3, <1>4 DEF Deletes

LEMMA ConversionsRegister ==
  ASSUME Enrolled, NEW handled, Consequences(handled), NEW n \in Node, NEW op \in ops[n],
         Reinstall(n, op), nodeObjects' \in [Node -> SUBSET Node]
  PROVE  \/ Registers(n, op)
         \/ /\ etcd'[TheCluster] = etcd[TheCluster]
            /\ op.kind = "promote" => ops' = InPhase(n, op, "error")
<1> USE EnrolledFacts
<1>1. CASE UNCHANGED <<unit, nodeObjects>> /\ ops' = InPhase(n, op, "error")
  <2>1. etcd'[TheCluster] = etcd[TheCluster] \cap nodeObjects'[TheCluster]
    BY <1>1, NoServerNoMember
  <2> QED
    BY <1>1, <2>1
<1>2. CASE /\ Admits(op.via) /\ unit' = [unit EXCEPT ![n] = NewRole(op)]
           /\ nodeObjects' = [nodeObjects EXCEPT ![cluster[op.via]] = @ \cup {n}]
           /\ ops' = InPhase(n, op, "wait")
  <2>1. cluster[op.via] = TheCluster
    BY <1>2 DEF Admits
  <2>2. /\ nodeObjects'[TheCluster] = nodeObjects[TheCluster] \cup {n}
        /\ unit'[n] = NewRole(op) /\ \A m \in Node \ {n} : unit'[m] = unit[m]
    BY <1>2, <2>1
  <2>3. CASE op.kind = "promote"
    <3>1. NewRole(op) = "server"
      BY <2>3 DEF NewRole
    <3>2. etcd'[TheCluster] =
            {m \in nodeObjects'[TheCluster] : m \in etcd[TheCluster] \/ unit'[m] = "server"}
      BY DEF Consequences
    <3>3. etcd'[TheCluster] = etcd[TheCluster] \cup {n}
      BY <2>2, <3>1, <3>2 DEF Enrolled, ServersEnroll
    <3> QED
      BY <1>2, <2>3, <3>3 DEF Registers
  <2>4. CASE op.kind # "promote"
    <3>1. NewRole(op) = "agent"
      BY <2>4 DEF NewRole
    <3>2. etcd'[TheCluster] = etcd[TheCluster] \cap nodeObjects'[TheCluster]
      BY <2>2, <3>1, NoServerNoMember
    <3> QED
      BY <2>2, <2>4, <3>2
  <2> QED
    BY <2>3, <2>4
<1> QED
  BY <1>1, <1>2 DEF Reinstall, diskVars

\* The members change only when a round deletes, or when a promotion registers.
LEMMA MembersChange ==
  ASSUME RoundsSucceed, Enrolled, nodeObjects' \in [Node -> SUBSET Node],
         UNCHANGED everyVar \/ RepairStep
  PROVE  \/ etcd'[TheCluster] = etcd[TheCluster]
         \/ \E n \in Node : \E op \in ops[n] : Deletes(n, op) \/ Registers(n, op)
<1> USE EnrolledFacts
<1>1. CASE UNCHANGED everyVar
  BY <1>1 DEF everyVar
<1>2. CASE RepairStep
  <2> PICK handled \in SUBSET Node : Consequences(handled)
    BY <1>2 DEF RepairStep
  <2>1. CASE UNCHANGED <<unit, nodeObjects>>
    BY <2>1, NoServerNoMember
  <2>2. ASSUME NEW n \in Node, RestartK3s(n) PROVE etcd'[TheCluster] = etcd[TheCluster]
    <3>1. /\ unit' = unit /\ unit[n] = "agent"
          /\ nodeObjects' = [nodeObjects EXCEPT ![TheCluster] = @ \cup {n}]
      BY <2>2 DEF RestartK3s, vars, daemonVars, diskVars
    <3> QED
      BY <3>1, NoServerNoMember
  <2>3. ASSUME NEW n \in Node, NEW op \in ops[n], DeleteNodes(n, op) PROVE Deletes(n, op)
    BY <2>3, RoundsDelete
  <2>4. ASSUME NEW n \in Node, NEW op \in ops[n], Uninstall(n, op)
        PROVE  etcd'[TheCluster] = etcd[TheCluster]
    <3>1. nodeObjects' = nodeObjects /\ \A m \in Node : unit'[m] = "server" => unit[m] = "server"
      BY <2>4 DEF Uninstall, diskVars
    <3> QED
      BY <3>1, NoServerNoMember
  <2>5. ASSUME NEW n \in Node, NEW op \in ops[n], Reinstall(n, op)
        PROVE  etcd'[TheCluster] = etcd[TheCluster] \/ Registers(n, op)
    BY <2>5, ConversionsRegister
  <2>6. ASSUME NEW n \in Node, NEW op \in ops[n],
               \/ GoesOn(n, op) \/ FailRound(n, op) \/ WaitWithoutQuorum(n, op)
               \/ FinishEviction(n, op) \/ FinishConversion(n, op) \/ AbandonRound(n, op)
               \/ OnRescaleConverted(n, op) \/ FailRescale(n, op)
        PROVE  UNCHANGED <<unit, nodeObjects>>
    <3>1. CASE FailRound(n, op)
      BY <3>1 DEF FailRound, Fault, RoundsSucceed, diskVars
    <3> QED
      BY <2>6, <3>1 DEF GoesOn, WaitWithoutQuorum, FinishEviction, FinishConversion, AbandonRound,
         OnRescaleConverted, FailRescale, RoundFrame, ConversionFrame, Unmoved, joinVars,
         coordinatorVars, diskVars
  <2>7. ASSUME NEW n \in Node, NEW order \in orders[n], OnRescaleConvert(n, order) \/ LoseOrder(n, order)
        PROVE  UNCHANGED <<unit, nodeObjects>>
    BY <2>7 DEF OnRescaleConvert, LoseOrder, Unmoved, joinVars, coordinatorVars, diskVars
  <2>8. ASSUME NEW n \in Node,
               TimeStep(n) \/ DropEvent(n) \/ OnRescaleCheck(n) \/ OnMembershipEvent(n)
        PROVE  UNCHANGED <<unit, nodeObjects>>
    BY <2>8 DEF TimeStep, SettleEnds, HoldEnds, GraceEnds, Advance, DropEvent, OnRescaleCheck,
       OnMembershipEvent, Unmoved, allVars, vars, daemonVars, joinVars, coordinatorVars, diskVars
  <2>9. ASSUME NEW n \in Node, NEW m \in Node, News(n, m) PROVE UNCHANGED <<unit, nodeObjects>>
    BY <2>9 DEF News, Learn, DetectFailure, Prune, joinVars, coordinatorVars, diskVars
  <2> QED
    BY <1>2, <2>1, <2>2, <2>3, <2>4, <2>5, <2>6, <2>7, <2>8, <2>9
       DEF RepairStep, RunningStep, RoundStep, ConversionStep
<1> QED
  BY <1>1, <1>2

LEMMA EnrolledLasts ==
  ASSUME NothingStops, Enrolled, [RescaleNext]_everyVar
  PROVE  Enrolled'
<1> USE EnrolledFacts
<1>1. Drained'
  BY NextIsDrained DEF Enrolled
<1>2. UNCHANGED everyVar \/ RepairStep
  BY OnlyRepairs DEF Enrolled, Drained
<1>3. nodeObjects' \in [Node -> SUBSET Node]
  BY <1>1 DEF Drained, Calm, AllOrderly, RescaleInv, JoinTypeOK
<1>4. CASE UNCHANGED everyVar
  BY <1>1, <1>4 DEF Enrolled, OnlyHere, ServersEnroll, everyVar, allVars, vars, daemonVars, diskVars,
     joinVars, coordinatorVars
<1>5. CASE RepairStep
  <2> PICK handled \in SUBSET Node : Consequences(handled)
    BY <1>5 DEF RepairStep
  <2>1. etcd' = [c \in Node |-> {m \in nodeObjects'[c] : m \in etcd[c] \/ unit'[m] = "server"}]
    BY DEF Consequences
  <2>2. ServersEnroll' /\ etcd' \in [Node -> SUBSET Node]
    BY <1>3, <2>1 DEF ServersEnroll
  <2>3. ASSUME NEW n \in Node,
               \/ RestartK3s(n)
               \/ \E op \in ops[n] : DeleteNodes(n, op) \/ FailRound(n, op) \/ Reinstall(n, op)
        PROVE  \A c \in Node \ {TheCluster} : nodeObjects'[c] = {}
    <3>1. ASSUME NEW names, Forgetting(n, names)
          PROVE  \A c \in Node \ {TheCluster} : nodeObjects'[c] = {}
      BY <3>1 DEF Forgetting, Enrolled, OnlyHere
    <3>2. CASE RestartK3s(n)
      BY <3>2 DEF RestartK3s, Enrolled, OnlyHere
    <3>3. ASSUME NEW op \in ops[n], Reinstall(n, op)
          PROVE  \A c \in Node \ {TheCluster} : nodeObjects'[c] = {}
      <4>1. Admits(op.via) => cluster[op.via] = TheCluster
        BY DEF Admits
      <4> QED
        BY <3>3, <4>1 DEF Reinstall, Enrolled, OnlyHere
    <3> QED
      BY <2>3, <3>1, <3>2, <3>3 DEF DeleteNodes, FailRound, Enrolled, OnlyHere
  <2>4. ASSUME NEW n \in Node, NEW op \in ops[n],
               \/ GoesOn(n, op) \/ WaitWithoutQuorum(n, op) \/ Uninstall(n, op)
               \/ FinishEviction(n, op) \/ FinishConversion(n, op) \/ AbandonRound(n, op)
               \/ OnRescaleConverted(n, op) \/ FailRescale(n, op)
        PROVE  nodeObjects' = nodeObjects
    BY <2>4 DEF GoesOn, WaitWithoutQuorum, Uninstall, FinishEviction, FinishConversion, AbandonRound,
       OnRescaleConverted, FailRescale, RoundFrame, ConversionFrame, Unmoved, joinVars, coordinatorVars
  <2>5. ASSUME NEW n \in Node, NEW order \in orders[n], OnRescaleConvert(n, order) \/ LoseOrder(n, order)
        PROVE  nodeObjects' = nodeObjects
    BY <2>5 DEF OnRescaleConvert, LoseOrder, Unmoved, joinVars, coordinatorVars
  <2>6. ASSUME NEW n \in Node,
               TimeStep(n) \/ DropEvent(n) \/ OnRescaleCheck(n) \/ OnMembershipEvent(n)
        PROVE  nodeObjects' = nodeObjects
    BY <2>6 DEF TimeStep, SettleEnds, HoldEnds, GraceEnds, Advance, DropEvent, OnRescaleCheck,
       OnMembershipEvent, Unmoved, allVars, joinVars, coordinatorVars
  <2>7. ASSUME NEW n \in Node, NEW m \in Node, News(n, m) PROVE nodeObjects' = nodeObjects
    BY <2>7 DEF News, joinVars, coordinatorVars
  <2>8. nodeObjects' = nodeObjects \/ \A c \in Node \ {TheCluster} : nodeObjects'[c] = {}
    BY <1>5, <2>3, <2>4, <2>5, <2>6, <2>7 DEF RepairStep, RunningStep, RoundStep, ConversionStep
  <2>9. OnlyHere'
    BY <2>1, <2>8 DEF Enrolled, OnlyHere
  <2> QED
    BY <1>1, <2>2, <2>9 DEF Enrolled
<1> QED
  BY <1>2, <1>4, <1>5

----------------------------------------------------------------------------
(* What an evaluation looks at *)

\* v is what n sees in state s, the machines removed in this very step apart.
Sees(n, s, v) ==
  /\ DOMAIN v = Node /\ v[n] = AliveAs(s)
  /\ \A d \in Node \ {n} : v[d] = view'[n][d]

\* n evaluates the memberlist in state s, beside the operations running.
Considers(n, s, running) ==
  \E v, p : /\ Sees(n, s, v) /\ Evaluates(n, s, v, p, running)
            /\ p.clock = rescale[n].clock /\ p.imbalance = rescale[n].imbalance
            /\ p.order = rescale[n].order /\ p.evicting \subseteq rescale[n].evicting

LEMMA ChecksConsider ==
  ASSUME Enrolled, NEW n \in Node, OnRescaleCheck(n) \/ OnMembershipEvent(n)
  PROVE  /\ Considers(n, state[n], ops[n])
         /\ UNCHANGED <<up, view, orders>> /\ n \in up
         /\ state[n] # "stable_server" => /\ rescale'[n].evicting = rescale[n].evicting
                                          /\ state'[n] = state[n] /\ ops'[n] = ops[n]
<1> USE EnrolledFacts
<1>1. /\ n \in up /\ rescale[n] \in RescaleProgress /\ DOMAIN view[n] = Node
      /\ UNCHANGED <<up, view, orders>> /\ RescaleInv
  BY DEF OnRescaleCheck, OnMembershipEvent, Running, Unmoved, AllOrderly
<1>2. PICK p \in RescaleProgress :
        /\ MaybeRescale(n, state[n], view[n], p, ops[n])
        /\ p.clock = rescale[n].clock /\ p.imbalance = rescale[n].imbalance
        /\ p.order = rescale[n].order /\ p.evicting = rescale[n].evicting
  <2> DEFINE p == [rescale[n] EXCEPT !.timer = FALSE]
  <2>1. /\ p \in RescaleProgress
        /\ p.clock = rescale[n].clock /\ p.imbalance = rescale[n].imbalance
        /\ p.order = rescale[n].order /\ p.evicting = rescale[n].evicting
    BY <1>1 DEF RescaleProgress
  <2> QED
    BY <1>1, <2>1 DEF OnRescaleCheck, OnMembershipEvent
<1> DEFINE v == [view[n] EXCEPT ![n] = AliveAs(state[n])]
<1>3. Evaluates(n, state[n], v, p, ops[n])
  BY <1>1, <1>2, MaybeRescaleEvaluates
<1>4. Sees(n, state[n], v)
  BY <1>1 DEF Sees
<1>5. ASSUME state[n] # "stable_server"
      PROVE  /\ rescale'[n].evicting = rescale[n].evicting
             /\ state'[n] = state[n] /\ ops'[n] = ops[n]
  <2>1. Leaves(n, state[n], Tracked(p, v), ops[n])
    BY <1>2, <1>5 DEF MaybeRescale
  <2> HIDE DEF v
  <2> QED
    BY <1>1, <1>2, <2>1, LeavesChanges, ClockTyped
<1> HIDE DEF v
<1> QED
  BY <1>1, <1>2, <1>3, <1>4, <1>5 DEF Considers

LEMMA EvictionConsiders ==
  ASSUME Enrolled, NEW n \in Node, NEW op \in ops[n], FinishEviction(n, op)
  PROVE  /\ Considers(n, "stable_server", {})
         /\ UNCHANGED <<up, orders>> /\ n \in up /\ ops[n] = {op}
         /\ state[n] = "rescale_coordinating" /\ rescale[n].order = None
<1> USE EnrolledFacts
<1> DEFINE p == [rescale[n] EXCEPT !.evicting = {}]
<1>1. /\ DOMAIN view'[n] = Node /\ UNCHANGED <<up, orders>>
      /\ state[n] = "rescale_coordinating" /\ rescale[n].order = None
  BY DEF FinishEviction, RoundEnds, RoundFrame
<1>2. n \in up /\ ops[n] = {op} /\ RescaleInv /\ rescale[n] \in RescaleProgress
  BY WorkersRun DEF AllOrderly
<1>3. /\ p \in RescaleProgress
      /\ p.clock = rescale[n].clock /\ p.imbalance = rescale[n].imbalance
      /\ p.order = rescale[n].order /\ p.evicting = {}
  BY <1>2 DEF RescaleProgress
<1>4. MaybeRescale(n, "stable_server", view'[n], p, {})
  BY <1>2 DEF FinishEviction
<1> DEFINE v == [view'[n] EXCEPT ![n] = AliveAs("stable_server")]
<1>5. Evaluates(n, "stable_server", v, p, {})
  BY <1>1, <1>2, <1>3, <1>4, MaybeRescaleEvaluates
<1>6. Sees(n, "stable_server", v)
  BY <1>1 DEF Sees
<1> HIDE DEF v, p
<1> QED
  BY <1>1, <1>2, <1>3, <1>5, <1>6 DEF Considers

----------------------------------------------------------------------------
(* What a step does to the operations *)

\* Only one machine moves at a time.
LEMMA OneMoves ==
  ASSUME Enrolled, NEW n \in Node, RunningStep(n)
  PROVE  OthersStay(n)
<1> USE EnrolledFacts DEF OthersStay
<1>1. CASE TimeStep(n) \/ DropEvent(n) \/ (RestartK3s(n) /\ UNCHANGED rescaleVars)
  BY <1>1 DEF TimeStep, SettleEnds, HoldEnds, GraceEnds, Advance, DropEvent, RestartK3s, allVars,
     vars, daemonVars, rescaleVars
<1>2. CASE OnRescaleCheck(n) \/ OnMembershipEvent(n)
  BY <1>2, ChecksConsider DEF Considers, Evaluates
<1>3. ASSUME NEW order \in orders[n], OnRescaleConvert(n, order) \/ LoseOrder(n, order)
      PROVE  OthersStay(n)
  BY <1>3 DEF OnRescaleConvert, LoseOrder, StartOperation, Starting, Transition
<1>4. ASSUME NEW op \in ops[n], FinishEviction(n, op) PROVE OthersStay(n)
  BY <1>4, EvictionConsiders DEF Considers, Evaluates
<1>5. ASSUME NEW op \in ops[n],
             \/ GoesOn(n, op) \/ DeleteNodes(n, op) \/ FailRound(n, op)
             \/ Uninstall(n, op) \/ Reinstall(n, op) \/ WaitWithoutQuorum(n, op)
      PROVE  OthersStay(n)
  BY <1>5 DEF GoesOn, DeleteNodes, FailRound, Uninstall, Reinstall, WaitWithoutQuorum, InPhase,
     ConversionFrame, rescaleVars
<1>6. ASSUME NEW op \in ops[n],
             \/ FinishConversion(n, op) \/ AbandonRound(n, op)
             \/ OnRescaleConverted(n, op) \/ FailRescale(n, op)
      PROVE  OthersStay(n)
  BY <1>6 DEF FinishConversion, AbandonRound, OnRescaleConverted, FailRescale, Leaves, Without,
     BecomeStable, Transition
<1> QED
  BY <1>1, <1>2, <1>3, <1>4, <1>5, <1>6 DEF RunningStep, RoundStep, ConversionStep

\* The rounds do not wait for K3s.
RoundsDoNotWait ==
  \A n \in Node : \A op \in ops[n] :
    op.kind \in {"evict", "prepare"} => op.phase \in {"start", "ok", "error"}

\* new is op in another phase, that op reached in this step.
Advances(n, op, new) ==
  /\ new.kind = op.kind /\ new.via = op.via
  /\ \/ new.phase = "ok" /\ (op.phase = "wait" \/ Deletes(n, op))
     \/ new.phase = "wait" /\ (op.kind \in {"rejoin", "demote"} \/ Registers(n, op))

\* new just failed, left the machine bare, or was just started.
Begins(n, new) ==
  \/ new.phase = "error"
  \/ new.phase = "bare" /\ Converts(new)
  \/ new.phase = "start" /\ ~Preparing(n)

LEMMA OperationsOfAMachineChange ==
  ASSUME RoundsSucceed, Enrolled, nodeObjects' \in [Node -> SUBSET Node],
         NEW handled, Consequences(handled), NEW n \in Node, RunningStep(n), NEW new \in ops'[n]
  PROVE  new \in ops[n] \/ Begins(n, new) \/ \E op \in ops[n] : Advances(n, op, new)
<1> USE EnrolledFacts
<1>1. CASE TimeStep(n) \/ DropEvent(n) \/ RestartK3s(n) \/ \E order \in orders[n] : LoseOrder(n, order)
  BY <1>1 DEF TimeStep, SettleEnds, HoldEnds, GraceEnds, Advance, DropEvent, RestartK3s, LoseOrder,
     allVars, vars, daemonVars
<1>2. ASSUME NEW s, NEW running \in SUBSET ops[n], Considers(n, s, running), ~Preparing(n)
      PROVE  new \in ops[n] \/ Begins(n, new)
  <2>1. /\ \A target : NewOp("prepare", target).phase = "start"
        /\ NewOp("evict", None).phase = "start"
    BY DEF NewOp
  <2> QED
    BY <1>2, <2>1 DEF Considers, Evaluates, StaysIn, StartsEvicting, StartsConverting, Begins
<1>3. CASE OnRescaleCheck(n) \/ OnMembershipEvent(n)
  <2>1. Considers(n, state[n], ops[n]) /\ (state[n] # "stable_server" => ops'[n] = ops[n])
    BY <1>3, ChecksConsider
  <2>2. state[n] = "stable_server" => ~Preparing(n)
    BY DEF Preparing
  <2> QED
    BY <1>2, <2>1, <2>2
<1>4. ASSUME NEW order \in orders[n], OnRescaleConvert(n, order)
      PROVE  new \in ops[n] \/ Begins(n, new)
  <2>1. NewOp(ConversionKind(order.role), order.via).phase = "start"
    BY DEF NewOp
  <2>2. MayConvert(state[n], order.role) => ~Preparing(n)
    BY DEF MayConvert, Preparing, StableState
  <2> QED
    BY <1>4, <2>1, <2>2 DEF OnRescaleConvert, StartOperation, Starting, Begins
<1>5. ASSUME NEW op \in ops[n], NEW phase, ops' = InPhase(n, op, phase)
      PROVE  new \in ops[n] \/ (new.kind = op.kind /\ new.via = op.via /\ new.phase = phase)
  BY <1>5 DEF InPhase
<1>6. ASSUME NEW op \in ops[n], GoesOn(n, op)
      PROVE  new \in ops[n] \/ Begins(n, new) \/ Advances(n, op, new)
  BY <1>5, <1>6 DEF GoesOn, Begins, Advances
<1>7. ASSUME NEW op \in ops[n], RoundStep(n, op)
      PROVE  new \in ops[n] \/ Begins(n, new) \/ Advances(n, op, new)
  <2>1. CASE DeleteNodes(n, op)
    <3>1. ops' = InPhase(n, op, "ok")
      BY <2>1 DEF DeleteNodes
    <3> QED
      BY <1>5, <2>1, <3>1, RoundsDelete DEF Advances
  <2>2. CASE FailRound(n, op)
    <3>1. ops' = InPhase(n, op, "error")
      BY <2>2 DEF FailRound
    <3> QED
      BY <1>5, <3>1 DEF Begins
  <2>3. CASE FinishEviction(n, op)
    <3>1. Considers(n, "stable_server", {}) /\ ~Preparing(n)
      BY <2>3, EvictionConsiders DEF Preparing
    <3> QED
      BY <1>2, <3>1
  <2>4. CASE FinishConversion(n, op) \/ AbandonRound(n, op)
    BY <2>4 DEF FinishConversion, AbandonRound, Leaves
  <2> QED
    BY <1>7, <2>1, <2>2, <2>3, <2>4 DEF RoundStep
<1>8. ASSUME NEW op \in ops[n], ConversionStep(n, op)
      PROVE  new \in ops[n] \/ Begins(n, new) \/ Advances(n, op, new)
  <2>1. CASE Uninstall(n, op)
    <3>1. Converts(op) /\ (ops' = InPhase(n, op, "bare") \/ ops' = InPhase(n, op, "error"))
      BY <2>1 DEF Uninstall
    <3> QED
      BY <1>5, <3>1 DEF Begins, Converts
  <2>2. CASE Reinstall(n, op)
    <3>1. op.kind \in {"promote", "demote"}
      <4>1. op.phase = "bare" /\ KnowsTheDisk(n, op)
        BY <2>2 DEF Reinstall, AllOrderly, InOrder, WorksInOrder
      <4> QED
        BY <4>1 DEF KnowsTheDisk, Converts
    <3>2. ops' = InPhase(n, op, "wait") \/ ops' = InPhase(n, op, "error")
      BY <2>2 DEF Reinstall
    <3>3. Registers(n, op) \/ (op.kind = "promote" => ops' = InPhase(n, op, "error"))
      BY <2>2, ConversionsRegister
    <3> QED
      BY <1>5, <3>1, <3>2, <3>3 DEF Begins, Advances
  <2>3. CASE WaitWithoutQuorum(n, op)
    <3>1. ops' = InPhase(n, op, "error")
      BY <2>3 DEF WaitWithoutQuorum
    <3> QED
      BY <1>5, <3>1 DEF Begins
  <2>4. CASE OnRescaleConverted(n, op) \/ FailRescale(n, op)
    BY <2>4 DEF OnRescaleConverted, FailRescale, Without
  <2> QED
    BY <1>8, <2>1, <2>2, <2>3, <2>4 DEF ConversionStep
<1> QED
  BY <1>1, <1>3, <1>4, <1>6, <1>7, <1>8 DEF RunningStep

LEMMA OperationsChange ==
  ASSUME RoundsSucceed, Enrolled, nodeObjects' \in [Node -> SUBSET Node],
         UNCHANGED everyVar \/ RepairStep, NEW k \in Node, NEW new \in ops'[k]
  PROVE  new \in ops[k] \/ Begins(k, new) \/ \E op \in ops[k] : Advances(k, op, new)
<1>1. CASE ops' = ops
  BY <1>1
<1>2. CASE UNCHANGED everyVar
  BY <1>1, <1>2 DEF everyVar, allVars, vars, daemonVars
<1>3. ASSUME NEW handled, Consequences(handled), NEW n \in Node, RunningStep(n)
      PROVE  new \in ops[k] \/ Begins(k, new) \/ \E op \in ops[k] : Advances(k, op, new)
  <2>1. CASE k = n
    BY <1>3, <2>1, OperationsOfAMachineChange
  <2>2. CASE k # n
    BY <1>3, <2>2, OneMoves DEF OthersStay
  <2> QED
    BY <2>1, <2>2
<1>4. ASSUME NEW n \in Node, NEW m \in Node, News(n, m) PROVE ops' = ops
  BY <1>4 DEF News, Learn, DetectFailure, Prune
<1> QED
  BY <1>1, <1>2, <1>3, <1>4 DEF RepairStep

LEMMA RoundsNeverWait ==
  ASSUME RoundsSucceed, Enrolled, nodeObjects' \in [Node -> SUBSET Node],
         UNCHANGED everyVar \/ RepairStep, RoundsDoNotWait
  PROVE  RoundsDoNotWait'
<1> SUFFICES ASSUME NEW k \in Node, NEW new \in ops'[k], new.kind \in {"evict", "prepare"}
             PROVE  new.phase \in {"start", "ok", "error"}
  BY DEF RoundsDoNotWait
<1>1. new \in ops[k] \/ Begins(k, new) \/ \E op \in ops[k] : Advances(k, op, new)
  BY OperationsChange
<1> QED
  BY <1>1 DEF RoundsDoNotWait, Begins, Advances, Registers, Converts

----------------------------------------------------------------------------
(* Turns are free when they are taken *)

LEMMA StepsOfCalm ==
  ASSUME NothingStops, Calm, [RescaleNext]_everyVar
  PROVE  \/ \E n, m \in Node : Informs(n, m)
         \/ \E n \in up : Progresses(n) \/ Settles(n)
<1>1. AllOrderly /\ StillRunning /\ NoneCondemned /\ \E m \in Node : TRUE
  BY TheClusterIsFounded, RescaleAssumption DEF Calm
<1>2. CASE Surroundings /\ UNCHANGED rescaleVars
  BY <1>1, <1>2, NetworkInforms
<1>3. CASE Idle
  BY <1>1, <1>3, IdleInforms
<1>4. ASSUME NEW n \in Node,
             \/ TimeStep(n) \/ WorkStep(n) \/ ResultOfWork(n) \/ EventStep(n) \/ FaultStep(n)
             \/ OnRescaleCheck(n) \/ OnMembershipEvent(n) \/ DropEvent(n)
      PROVE  Idle \/ \E k \in up : Progresses(k) \/ Settles(k)
  BY <1>1, <1>4, OnlySettledSteps, SettledProgresses
<1>5. ASSUME NEW n \in Node, NEW m \in Node, Prune(n, m) PROVE Informs(n, m)
  BY <1>1, <1>5, RemovalInforms
<1>6. UNCHANGED everyVar => Idle
  BY DEF Idle, everyVar, allVars, vars, daemonVars, rescaleVars
<1> QED
  BY <1>1, <1>2, <1>3, <1>4, <1>5, <1>6, NobodyPressesButtons DEF RescaleNext

\* n takes the turn on the memberlist v, to evict or to give an order.
TakesATurn(n, v) ==
  /\ Sees(n, "stable_server", v) /\ TakesTheTurn(n, "stable_server", v)
  /\ OthersStay(n) /\ UNCHANGED <<up, orders>> /\ etcd'[TheCluster] = etcd[TheCluster]
  /\ \A d \in up \ {n} : view'[n][d] = view[n][d]
  /\ ~Preparing(n)
  /\ \/ rescale'[n].order = None /\ FailedMembers(v) # {}
     \/ Due(n) /\ rescale'[n].order \in Conversions(n, v)

LEMMA FreeWhenTaken ==
  ASSUME Enrolled, NEW n \in up, NEW v, TakesATurn(n, v)
  PROVE  FreeTurn(n)
<1> SUFFICES ASSUME NEW d \in up \ {n}
             PROVE  /\ view[n][d].state \notin ChangesEtcd
                    /\ view[n][d].state = "stable_server" => n < d
  BY DEF FreeTurn
<1>5. up \subseteq Node /\ up \subseteq Nat /\ Node \subseteq Nat /\ StillRunning
  BY EnrolledFacts, DaemonAssumption
<1>6. /\ DOMAIN v = Node /\ \A m \in Node \ {n} : v[m] = view'[n][m]
      /\ view'[n][d] = view[n][d]
      /\ IsRescaleCoordinator(v, n) /\ ~EtcdMembershipChanging(v)
  BY DEF TakesATurn, Sees, TakesTheTurn
<1>1. /\ up \subseteq Node /\ up \subseteq Nat /\ Node \subseteq Nat
      /\ DOMAIN v = Node /\ v[d] = view[n][d] /\ view[n][d].status = "alive"
      /\ IsRescaleCoordinator(v, n) /\ ~EtcdMembershipChanging(v)
  BY <1>5, <1>6 DEF StillRunning
<1>2. d \in AliveMembers(v)
  BY <1>1 DEF AliveMembers
<1>3. v[d].state \notin ChangesEtcd
  BY <1>1, <1>2 DEF EtcdMembershipChanging
<1>4. ASSUME view[n][d].state = "stable_server" PROVE n < d
  <2>1. d \in StableServers(v)
    BY <1>1, <1>2, <1>4 DEF StableServers, AliveIn
  <2>2. StableServers(v) \in SUBSET Nat /\ StableServers(v) # {}
    BY <1>1, <2>1 DEF StableServers, AliveIn, AliveMembers
  <2>3. n <= d
    BY <1>1, <2>1, <2>2, MinIsLowest DEF IsRescaleCoordinator
  <2> QED
    BY <1>1, <2>3
<1> QED
  BY <1>1, <1>3, <1>4

LEMMA ConsiderationsTakeTurns ==
  ASSUME Enrolled, NEW handled, Consequences(handled), NEW n \in up,
         NEW s, NEW running, Considers(n, s, running),
         UNCHANGED <<up, orders, unit, nodeObjects>>, s = state[n] \/ s = "stable_server",
         s = "stable_server" => ~Preparing(n) /\ \A d \in up \ {n} : view'[n][d] = view[n][d],
         state'[n] = "rescale_coordinating"
  PROVE  \/ state[n] = "rescale_coordinating" /\ rescale'[n].order = rescale[n].order
         \/ \E v : TakesATurn(n, v)
<1>1. PICK v, p : /\ Sees(n, s, v) /\ Evaluates(n, s, v, p, running)
                  /\ p.imbalance = rescale[n].imbalance /\ p.order = rescale[n].order
  BY DEF Considers
<1>2. etcd'[TheCluster] = etcd[TheCluster]
  BY NoServerNoMember, EnrolledFacts
<1>3. OthersStay(n)
  BY <1>1 DEF Evaluates
<1>4. CASE StaysIn(n, s, p, running)
  BY <1>1, <1>4 DEF StaysIn
<1>5. CASE StartsEvicting(n, s, v, p, running)
  <2>1. /\ TakesTheTurn(n, s, v) /\ s = "stable_server" /\ rescale'[n].order = None
        /\ FailedMembers(v) # {}
    BY <1>5 DEF StartsEvicting, TakesTheTurn
  <2> QED
    BY <1>1, <1>2, <1>3, <2>1 DEF TakesATurn
<1>6. CASE StartsConverting(n, s, v, p, running)
  <2>1. /\ TakesTheTurn(n, s, v) /\ s = "stable_server" /\ Due(n)
        /\ rescale'[n].order \in Conversions(n, v)
    BY <1>1, <1>6 DEF StartsConverting, TakesTheTurn, Due
  <2> QED
    BY <1>1, <1>2, <1>3, <2>1 DEF TakesATurn
<1> QED
  BY <1>1, <1>4, <1>5, <1>6 DEF Evaluates

\* The end of a delay leaves what n decided.
LEMMA TimeKeepsDecisions ==
  ASSUME Enrolled, NEW n \in Node, TimeStep(n)
  PROVE  /\ UNCHANGED <<allVars, orders>> /\ OthersStay(n)
         /\ rescale'[n].order = rescale[n].order /\ rescale'[n].evicting = rescale[n].evicting
<1>1. rescale \in [Node -> RescaleProgress] /\ rescale[n] \in RescaleProgress
  BY EnrolledFacts
<1>2. UNCHANGED <<allVars, orders, state, ops>>
  BY DEF TimeStep, SettleEnds, HoldEnds, GraceEnds, Advance, allVars, vars, daemonVars
<1>3. PICK r : /\ rescale' = [rescale EXCEPT ![n] = r]
               /\ r.order = rescale[n].order /\ r.evicting = rescale[n].evicting
  <2>1. CASE SettleEnds(n) \/ HoldEnds(n)
    BY <1>1, <2>1 DEF SettleEnds, HoldEnds, Advance, RescaleProgress
  <2>2. ASSUME NEW m \in Node, GraceEnds(n, m)
        PROVE  \E r : /\ rescale' = [rescale EXCEPT ![n] = r]
                      /\ r.order = rescale[n].order /\ r.evicting = rescale[n].evicting
    <3>1. PICK r : r = [rescale[n] EXCEPT !.clock[m] = "elapsed"] /\ rescale' = [rescale EXCEPT ![n] = r]
      BY <2>2 DEF GraceEnds, Advance
    <3>2. r.order = rescale[n].order /\ r.evicting = rescale[n].evicting
      BY <1>1, <3>1 DEF RescaleProgress
    <3> QED
      BY <3>1, <3>2
  <2> QED
    BY <2>1, <2>2 DEF TimeStep
<1> QED
  BY <1>1, <1>2, <1>3 DEF OthersStay

LEMMA TurnsBegin ==
  ASSUME Enrolled, UNCHANGED everyVar \/ RepairStep, NEW n \in up,
         state'[n] = "rescale_coordinating"
  PROVE  \/ state[n] = "rescale_coordinating" /\ rescale'[n].order = rescale[n].order
         \/ \E v : TakesATurn(n, v)
<1> DEFINE Keeps == state'[n] = state[n] /\ rescale'[n].order = rescale[n].order
<1> USE EnrolledFacts
<1>1. CASE UNCHANGED everyVar
  BY <1>1 DEF everyVar, allVars, vars, daemonVars, rescaleVars
<1>2. CASE RepairStep
  <2> PICK handled \in SUBSET Node : Consequences(handled)
    BY <1>2 DEF RepairStep
  <2>1. ASSUME NEW k \in Node, NEW m \in Node, News(k, m) PROVE Keeps
    BY <2>1 DEF News, Learn, DetectFailure, Prune, rescaleVars
  <2>2. ASSUME NEW k \in Node, k # n, RunningStep(k) PROVE Keeps
    BY <2>2, OneMoves DEF OthersStay
  <2>3. CASE TimeStep(n) \/ DropEvent(n) \/ (RestartK3s(n) /\ UNCHANGED rescaleVars)
    BY <2>3, TimeKeepsDecisions DEF DropEvent, RestartK3s, allVars, vars, daemonVars, rescaleVars
  <2>4. CASE OnRescaleCheck(n) \/ OnMembershipEvent(n)
    <3>1. UNCHANGED <<unit, nodeObjects>>
      BY <2>4 DEF OnRescaleCheck, OnMembershipEvent, Unmoved, joinVars, coordinatorVars, diskVars
    <3>2. Considers(n, state[n], ops[n]) /\ UNCHANGED <<up, view, orders>>
      BY <2>4, ChecksConsider
    <3>3. state[n] = "stable_server" => ~Preparing(n)
      BY DEF Preparing
    <3> QED
      BY <3>1, <3>2, <3>3, ConsiderationsTakeTurns
  <2>5. ASSUME NEW order \in orders[n], OnRescaleConvert(n, order) \/ LoseOrder(n, order) PROVE Keeps
    <3>1. ConversionState(order.role) # "rescale_coordinating"
      BY DEF ConversionState
    <3> QED
      BY <2>5, <3>1 DEF OnRescaleConvert, LoseOrder, StartOperation, Transition
  <2>6. ASSUME NEW op \in ops[n], FinishEviction(n, op)
        PROVE  Keeps \/ \E v : TakesATurn(n, v)
    <3>1. UNCHANGED <<unit, nodeObjects>>
      BY <2>6 DEF FinishEviction, RoundFrame, diskVars
    <3>2. /\ Considers(n, "stable_server", {}) /\ UNCHANGED <<up, orders>>
          /\ rescale[n].order = None
      BY <2>6, EvictionConsiders
    <3>3. \A d \in up \ {n} : view'[n][d] = view[n][d]
      BY <2>6, RoundEndProgresses DEF Progresses, Alone
    <3>4. ~Preparing(n)
      BY <3>2 DEF Preparing
    <3> QED
      BY <3>1, <3>2, <3>3, <3>4, ConsiderationsTakeTurns
  <2>7. ASSUME NEW op \in ops[n],
               \/ GoesOn(n, op) \/ DeleteNodes(n, op) \/ FailRound(n, op)
               \/ Uninstall(n, op) \/ Reinstall(n, op) \/ WaitWithoutQuorum(n, op)
        PROVE  Keeps
    BY <2>7 DEF GoesOn, DeleteNodes, FailRound, Uninstall, Reinstall, WaitWithoutQuorum,
       ConversionFrame, rescaleVars
  <2>8. ASSUME NEW op \in ops[n],
               \/ FinishConversion(n, op) \/ AbandonRound(n, op)
               \/ OnRescaleConverted(n, op) \/ FailRescale(n, op)
        PROVE  FALSE
    <3>1. \A role : StableState(role) # "rescale_coordinating"
      BY DEF StableState
    <3> QED
      BY <2>8, <3>1 DEF FinishConversion, AbandonRound, OnRescaleConverted, FailRescale, Leaves,
         BecomeStable, Transition
  <2> QED
    BY <1>2, <2>1, <2>2, <2>3, <2>4, <2>5, <2>6, <2>7, <2>8
       DEF RepairStep, RunningStep, RoundStep, ConversionStep
<1> QED
  BY <1>1, <1>2

LEMMA TurnsAreFree ==
  ASSUME Enrolled, UNCHANGED everyVar \/ RepairStep
  PROVE  TakesFreeTurns
<1> SUFFICES ASSUME NEW n \in up, state'[n] = "rescale_coordinating",
                    state[n] # "rescale_coordinating" \/ (Preparing(n)' /\ ~Preparing(n))
             PROVE  FreeTurn(n)
  BY DEF TakesFreeTurns
<1>1. \E v : TakesATurn(n, v)
  BY TurnsBegin DEF Preparing
<1> QED
  BY <1>1, FreeWhenTaken

LEMMA TurnsLast ==
  ASSUME NothingStops, Enrolled, Enrolled', Aware, Sole, [RescaleNext]_everyVar
  PROVE  Aware' /\ Sole'
<1>1. Calm /\ Calm' /\ up \subseteq Node
  BY EnrolledFacts DEF Enrolled, Drained
<1>2. TakesFreeTurns
  BY <1>1, OnlyRepairs, TurnsAreFree
<1> QED
  BY <1>1, <1>2, StepsOfCalm, InformKeepsTurns, ProgressKeepsAware, ProgressKeepsSole, SettleKeepsTurns

\* While nobody is away, nobody is evicted, so that every round is one for an
\* order; whoever takes its turn knows that no other machine has it.
LEMMA RoundsStayExclusive ==
  ASSUME NothingStops, Absentees = {}, Enrolled, Aware, OneRoundAtATime, [RescaleNext]_everyVar
  PROVE  OneRoundAtATime'
<1>1. /\ Calm /\ up = Node
      /\ \A n, m \in Node : n # m => view[n][m].status = "alive"
  BY EnrolledFacts DEF Enrolled, Drained, StillRunning
<1>2. UNCHANGED everyVar \/ RepairStep
  BY <1>1, OnlyRepairs
<1>3. ASSUME NEW n \in Node, NEW v, TakesATurn(n, v),
             NEW m \in Node \ {n}, state'[m] = "rescale_coordinating"
      PROVE  FALSE
  <2>1. /\ DOMAIN v = Node /\ v[n] = AliveAs("stable_server")
        /\ \A d \in Node \ {n} : v[d] = view[n][d]
    BY <1>1, <1>3 DEF TakesATurn, Sees
  <2>2. \A d \in Node : v[d].status = "alive"
    BY <1>1, <2>1 DEF AliveAs
  <2>3. FailedMembers(v) = {}
    BY <2>1, <2>2 DEF FailedMembers
  <2>4. Due(n) /\ state'[m] = state[m]
    BY <1>3, <2>3 DEF TakesATurn, OthersStay
  <2>5. FreeTurn(n)
    BY <1>1, <1>3, FreeWhenTaken
  <2>6. state[m] # "rescale_coordinating"
    BY <1>1, <1>3, <2>4, <2>5, FreeTurnIsClear
  <2> QED
    BY <1>3, <2>4, <2>6
<1>4. ASSUME NEW n \in Node, state'[n] = "rescale_coordinating"
      PROVE  state[n] = "rescale_coordinating" \/ \E v : TakesATurn(n, v)
  BY <1>1, <1>2, <1>4, TurnsBegin
<1> SUFFICES ASSUME NEW n \in Node, NEW m \in Node, n # m,
                    state'[n] = "rescale_coordinating", state'[m] = "rescale_coordinating"
             PROVE  FALSE
  BY DEF OneRoundAtATime
<1>5. \A v : ~TakesATurn(n, v) /\ ~TakesATurn(m, v)
  BY <1>3
<1> QED
  BY <1>4, <1>5 DEF OneRoundAtATime

----------------------------------------------------------------------------
(* The machines that are away *)

Known(n, a) == view[n][a].status # "absent"

\* k deleted a, and is about to remove it from every memberlist.
Deleted(k, a) ==
  \E op \in ops[k] : op.kind = "evict" /\ op.phase = "ok" /\ a \in rescale[k].evicting

\* An absentee is known by everybody, or by nobody, under its last tag; ...
KnownAlike ==
  \A n \in up, a \in Absentees : Known(n, a) =>
    /\ view[n][a].state = IF a \in Established THEN "stable_server" ELSE "stable_agent"
    /\ \A k \in up : Known(k, a)

\* ... whoever may act on an imbalance knows that it is away; ...
DueInformed == \A n \in up : Due(n) => \A a \in Absentees : view[n][a].status # "alive"

\* ... it is known while it is a member, and no longer than its eviction lasts; ...
MembersKnown == \A n \in up, a \in Absentees \cap etcd[TheCluster] : a \in Established /\ Known(n, a)

KnownAreMembers ==
  \A n \in up, a \in Absentees \cap Established :
    Known(n, a) => a \in etcd[TheCluster] \/ \E k \in up : Deleted(k, a)

EvictedLeft == \A k \in up : \A a \in Node : Deleted(k, a) => a \notin etcd[TheCluster]

\* ... and only the machines that are away for good are evicted.
GoneOnly ==
  \A n \in up : /\ rescale[n].evicting \subseteq gone
                /\ \A m \in Node : rescale[n].clock[m] = "elapsed" => m \in gone

\* Orders are prepared for machines that run.
TargetsRun == \A c \in up : Preparing(c) => rescale[c].order.target \in up

Remembered ==
  /\ RoundsDoNotWait /\ KnownAlike /\ DueInformed /\ MembersKnown /\ KnownAreMembers
  /\ EvictedLeft /\ GoneOnly /\ TargetsRun

\* The memberlists tell as much about the absentees as before, ...
ViewsKept ==
  \A x \in up, a \in Absentees :
    /\ view'[x][a].state = view[x][a].state
    /\ Known(x, a)' <=> Known(x, a)
    /\ view'[x][a].status = "alive" => view[x][a].status = "alive"

\* ... or those that n evicted are removed.
Removes(n, op) ==
  /\ op.kind = "evict" /\ op.phase = "ok"
  /\ \A x \in up, a \in Absentees :
       view'[x][a] = IF a \in rescale[n].evicting THEN Absent ELSE view[x][a]

LEMMA EvictionRemoves ==
  ASSUME RoundsSucceed, Enrolled, NEW n \in Node, NEW op \in ops[n], FinishEviction(n, op)
  PROVE  Removes(n, op)
<1> USE EnrolledFacts
<1>1. n \in up /\ state[n] = StateOfOp(op.kind) /\ Absentees \subseteq Node
  BY WorkersRun, RescaleAssumption DEF NothingStops, RoundsSucceed, SettledNetwork
<1>2. op.kind = "evict" /\ op.phase = "ok"
  <2>1. /\ op.phase = "ok" /\ state[n] = "rescale_coordinating" /\ rescale[n].order = None
        /\ op.kind \in {"rejoin", "evict", "prepare", "promote", "demote"}
        /\ ObeysTheOrder(n, op)
    BY OperationAlone DEF FinishEviction, RoundEnds, AllOrderly, InOrder, WorksInOrder
  <2> QED
    BY <1>1, <2>1 DEF StateOfOp, ObeysTheOrder
<1>3. ASSUME NEW x \in up PROVE Hears(n, x)
  BY <1>1 DEF Hears, StillRunning
<1>4. view' = [x \in Node |-> [m \in Node |->
                 IF Hears(n, x) /\ m \in rescale[n].evicting THEN Absent ELSE view[x][m]]]
  <2>1. PICK kept \in SUBSET rescale[n].evicting :
          /\ IF kept = {} THEN UNCHANGED faults ELSE Fault("send")
          /\ view' = [x \in Node |-> [m \in Node |->
                        IF /\ m \in rescale[n].evicting \ kept
                           /\ x = n \/ (PromptRemovals /\ Hears(n, x))
                        THEN Absent ELSE view[x][m]]]
    BY DEF FinishEviction
  <2>2. kept = {}
    BY <2>1 DEF Fault, RoundsSucceed
  <2>3. PromptRemovals /\ Hears(n, n)
    BY <1>1, <1>3 DEF RoundsSucceed
  <2> QED
    BY <2>1, <2>2, <2>3
<1> QED
  BY <1>1, <1>2, <1>3, <1>4 DEF Removes

LEMMA ViewsChange ==
  ASSUME RoundsSucceed, Enrolled, UNCHANGED everyVar \/ RepairStep
  PROVE  ViewsKept \/ \E n \in up : \E op \in ops[n] : FinishEviction(n, op) /\ Removes(n, op)
<1> USE EnrolledFacts
<1>1. Absentees \subseteq Node /\ Absentees \cap up = {}
  BY RescaleAssumption DEF RoundsSucceed, NothingStops, SettledNetwork
<1>2. CASE view' = view
  BY <1>2 DEF ViewsKept, Known
<1>3. CASE UNCHANGED everyVar
  BY <1>2, <1>3 DEF everyVar, allVars, vars, daemonVars
<1>4. ASSUME NEW n \in Node, NEW m \in Node, Learn(n, m) PROVE ViewsKept
  BY <1>1, <1>4 DEF Learn, ViewsKept, Known
<1>5. ASSUME NEW n \in Node, NEW m \in Node, DetectFailure(n, m) PROVE ViewsKept
  <2>1. /\ FailedAs(view[n][m].state).status = "failed"
        /\ FailedAs(view[n][m].state).state = view[n][m].state
    BY DEF FailedAs
  <2>2. /\ view[n][m].status = "alive"
        /\ view' = [view EXCEPT ![n][m] = FailedAs(view[n][m].state)]
    BY <1>5 DEF DetectFailure
  <2>3. ASSUME NEW x \in up, NEW a \in Absentees
        PROVE  view'[x][a] = IF x = n /\ a = m THEN FailedAs(view[n][m].state) ELSE view[x][a]
    BY <1>1, <2>2
  <2> QED
    BY <2>1, <2>2, <2>3 DEF ViewsKept, Known
<1>6. ASSUME NEW n \in Node,
             \/ TimeStep(n) \/ DropEvent(n) \/ OnRescaleCheck(n) \/ OnMembershipEvent(n)
             \/ RestartK3s(n)
             \/ \E order \in orders[n] : OnRescaleConvert(n, order) \/ LoseOrder(n, order)
      PROVE  view' = view
  BY <1>6 DEF TimeStep, SettleEnds, HoldEnds, GraceEnds, Advance, DropEvent, OnRescaleCheck,
     OnMembershipEvent, RestartK3s, OnRescaleConvert, LoseOrder, Unmoved, allVars, vars, daemonVars
<1>7. ASSUME NEW n \in Node, NEW op \in ops[n],
             \/ GoesOn(n, op) \/ DeleteNodes(n, op) \/ FailRound(n, op)
             \/ FinishConversion(n, op) \/ AbandonRound(n, op) \/ ConversionStep(n, op)
      PROVE  view' = view
  BY <1>7 DEF GoesOn, DeleteNodes, FailRound, FinishConversion, AbandonRound, ConversionStep,
     Uninstall, Reinstall, WaitWithoutQuorum, OnRescaleConverted, FailRescale, ConversionFrame,
     RoundFrame, Unmoved
<1>8. ASSUME NEW n \in Node, NEW op \in ops[n], FinishEviction(n, op) PROVE Removes(n, op) /\ n \in up
  BY <1>8, EvictionRemoves, WorkersRun
<1> QED
  BY <1>2, <1>3, <1>4, <1>5, <1>6, <1>7, <1>8 DEF RepairStep, News, RoundsSucceed, Prune, RunningStep, RoundStep

\* A round that evicts goes on with the same machines, until it removes them.
LEMMA EvictionsGoOn ==
  ASSUME RoundsSucceed, Enrolled, UNCHANGED everyVar \/ RepairStep,
         NEW k \in up, NEW op \in ops[k], op.kind = "evict", op.phase = "ok"
  PROVE  \/ FinishEviction(k, op) /\ op \notin ops'[k]
         \/ op \in ops'[k] /\ rescale'[k].evicting = rescale[k].evicting
<1> DEFINE Keeps == ops'[k] = ops[k] /\ rescale'[k].evicting = rescale[k].evicting
<1> USE EnrolledFacts
<1>1. /\ ops[k] = {op} /\ state[k] = "rescale_coordinating" /\ rescale[k].order = None
  <2>1. ops[k] = {op} /\ state[k] = StateOfOp(op.kind) /\ ObeysTheOrder(k, op)
    BY OperationAlone DEF AllOrderly, InOrder, WorksInOrder
  <2> QED
    BY <2>1 DEF StateOfOp, ObeysTheOrder
<1>2. CASE UNCHANGED everyVar
  BY <1>2 DEF everyVar, allVars, vars, daemonVars, rescaleVars
<1>3. CASE RepairStep
  <2>1. ASSUME NEW n \in Node, NEW m \in Node, News(n, m) PROVE Keeps
    BY <2>1 DEF News, Learn, DetectFailure, Prune, rescaleVars
  <2>2. ASSUME NEW n \in Node, n # k, RunningStep(n) PROVE Keeps
    BY <2>2, OneMoves DEF OthersStay
  <2>3. CASE TimeStep(k) \/ DropEvent(k) \/ (RestartK3s(k) /\ UNCHANGED rescaleVars)
    BY <2>3, TimeKeepsDecisions DEF DropEvent, RestartK3s, allVars, vars, daemonVars, rescaleVars
  <2>4. CASE OnRescaleCheck(k) \/ OnMembershipEvent(k)
    BY <1>1, <2>4, ChecksConsider
  <2>5. ASSUME NEW order \in orders[k], OnRescaleConvert(k, order) \/ LoseOrder(k, order) PROVE Keeps
    <3>1. ~MayConvert(state[k], order.role)
      BY <1>1 DEF MayConvert, StableState
    <3> QED
      BY <2>5, <3>1 DEF OnRescaleConvert, LoseOrder
  <2>6. CASE FinishEviction(k, op)
    <3>1. Considers(k, "stable_server", {})
      BY <2>6, EvictionConsiders
    <3>2. \A target : NewOp("prepare", target) # op /\ NewOp("evict", None) # op
      BY DEF NewOp
    <3> QED
      BY <2>6, <3>1, <3>2 DEF Considers, Evaluates, StaysIn, StartsEvicting, StartsConverting
  <2>7. /\ ~GoesOn(k, op) /\ ~DeleteNodes(k, op) /\ ~FailRound(k, op)
        /\ ~FinishConversion(k, op) /\ ~AbandonRound(k, op) /\ ~ConversionStep(k, op)
    BY <1>1 DEF GoesOn, DeleteNodes, FailRound, FinishConversion, AbandonRound, ConversionStep,
       Uninstall, Reinstall, WaitWithoutQuorum, OnRescaleConverted, FailRescale
  <2> QED
    BY <1>1, <1>3, <2>1, <2>2, <2>3, <2>4, <2>5, <2>6, <2>7 DEF RepairStep, RunningStep, RoundStep
<1> QED
  BY <1>2, <1>3

\* Whoever is to be evicted was away for the grace period.
LEMMA EvictingChanges ==
  ASSUME RoundsSucceed, Enrolled, UNCHANGED everyVar \/ RepairStep, NEW n \in up,
         NEW m \in rescale'[n].evicting
  PROVE  m \in rescale[n].evicting \/ (m \in Node /\ rescale[n].clock[m] = "elapsed")
<1> USE EnrolledFacts
<1>1. rescale \in [Node -> RescaleProgress] /\ rescale[n] \in RescaleProgress /\ n \in Node
  OBVIOUS
<1>2. CASE UNCHANGED everyVar
  BY <1>2 DEF everyVar, rescaleVars
<1>3. CASE RepairStep
  <2>1. ASSUME NEW k \in Node, NEW d \in Node, News(k, d) PROVE rescale' = rescale
    BY <2>1 DEF News, rescaleVars
  <2>2. ASSUME NEW k \in Node, k # n, RunningStep(k) PROVE rescale'[n] = rescale[n]
    BY <2>2, OneMoves DEF OthersStay
  <2>3. CASE TimeStep(n) \/ DropEvent(n) \/ (RestartK3s(n) /\ UNCHANGED rescaleVars)
    BY <2>3, TimeKeepsDecisions DEF DropEvent, rescaleVars
  <2>4. ASSUME NEW s, NEW running, Considers(n, s, running)
        PROVE  m \in rescale[n].evicting \/ (m \in Node /\ rescale[n].clock[m] = "elapsed")
    <3>1. PICK v, p : /\ DOMAIN v = Node /\ Evaluates(n, s, v, p, running)
                      /\ p.clock = rescale[n].clock /\ p.evicting \subseteq rescale[n].evicting
      BY <2>4 DEF Considers, Sees
    <3> QED
      BY <3>1 DEF Evaluates, StaysIn, StartsEvicting, StartsConverting, FailedMembers
  <2>5. CASE OnRescaleCheck(n) \/ OnMembershipEvent(n)
    BY <2>4, <2>5, ChecksConsider
  <2>6. ASSUME NEW op \in ops[n], FinishEviction(n, op)
        PROVE  m \in rescale[n].evicting \/ (m \in Node /\ rescale[n].clock[m] = "elapsed")
    BY <2>4, <2>6, EvictionConsiders
  <2>7. ASSUME NEW order \in orders[n], OnRescaleConvert(n, order) \/ LoseOrder(n, order)
        PROVE  rescale'[n].evicting = rescale[n].evicting
    <3>1. rescale' = rescale \/ rescale' = [rescale EXCEPT ![n].order = order]
      BY <2>7 DEF OnRescaleConvert, LoseOrder
    <3> QED
      BY <1>1, <3>1 DEF RescaleProgress
  <2>8. ASSUME NEW op \in ops[n],
               \/ GoesOn(n, op) \/ DeleteNodes(n, op) \/ FailRound(n, op)
               \/ Uninstall(n, op) \/ Reinstall(n, op) \/ WaitWithoutQuorum(n, op)
        PROVE  rescale' = rescale
    BY <2>8 DEF GoesOn, DeleteNodes, FailRound, Uninstall, Reinstall, WaitWithoutQuorum,
       ConversionFrame, rescaleVars
  <2>9. ASSUME NEW op \in ops[n],
               \/ FinishConversion(n, op) \/ AbandonRound(n, op)
               \/ OnRescaleConverted(n, op) \/ FailRescale(n, op)
        PROVE  rescale'[n].evicting \subseteq rescale[n].evicting
    <3>1. Abandoned(rescale[n]).evicting = {}
      BY <1>1 DEF Abandoned, RescaleProgress
    <3>2. \/ rescale' = [rescale EXCEPT ![n] = [rescale[n] EXCEPT !.order = None, !.timer = TRUE]]
          \/ rescale' = [rescale EXCEPT ![n] = Abandoned(rescale[n])]
          \/ rescale' = [rescale EXCEPT ![n].order = None]
          \/ rescale' = [rescale EXCEPT ![n].order = None, ![n].timer = FALSE]
      BY <2>9 DEF FinishConversion, AbandonRound, OnRescaleConverted, FailRescale, Leaves
    <3>3. \/ rescale'[n] = [rescale[n] EXCEPT !.order = None, !.timer = TRUE]
          \/ rescale'[n] = Abandoned(rescale[n])
          \/ rescale'[n] = [rescale[n] EXCEPT !.order = None]
          \/ rescale'[n] = [rescale[n] EXCEPT !.order = None, !.timer = FALSE]
      BY <1>1, <3>2
    <3>4. /\ [rescale[n] EXCEPT !.order = None, !.timer = TRUE].evicting = rescale[n].evicting
          /\ [rescale[n] EXCEPT !.order = None].evicting = rescale[n].evicting
          /\ [rescale[n] EXCEPT !.order = None, !.timer = FALSE].evicting = rescale[n].evicting
      BY <1>1 DEF RescaleProgress
    <3> QED
      BY <3>1, <3>3, <3>4
  <2>10. CASE RunningStep(n)
    BY <2>3, <2>5, <2>6, <2>7, <2>8, <2>9, <2>10 DEF RunningStep, RoundStep, ConversionStep
  <2> QED
    BY <1>3, <2>1, <2>2, <2>10 DEF RepairStep
<1> QED
  BY <1>2, <1>3

\* The members that leave etcd are those that a round deletes, and the one that
\* enters runs.
LEMMA MembersLeave ==
  ASSUME RoundsSucceed, Enrolled, nodeObjects' \in [Node -> SUBSET Node],
         UNCHANGED everyVar \/ RepairStep, NEW a \in Node
  PROVE  /\ a \in etcd'[TheCluster] /\ a \notin up => a \in etcd[TheCluster]
         /\ a \in etcd[TheCluster] /\ a \notin etcd'[TheCluster] =>
              \E k \in up : \E op \in ops[k] : Deletes(k, op) /\ a \in Condemned(k, op)
<1> USE EnrolledFacts
<1>1. CASE etcd'[TheCluster] = etcd[TheCluster]
  BY <1>1
<1>2. ASSUME NEW n \in Node, NEW op \in ops[n], Deletes(n, op) \/ Registers(n, op)
      PROVE  /\ a \in etcd'[TheCluster] /\ a \notin up => a \in etcd[TheCluster]
             /\ a \in etcd[TheCluster] /\ a \notin etcd'[TheCluster] =>
                  \E k \in up : \E o \in ops[k] : Deletes(k, o) /\ a \in Condemned(k, o)
  <2>1. n \in up
    BY WorkersRun
  <2>2. \/ Deletes(n, op) /\ etcd'[TheCluster] = etcd[TheCluster] \ Condemned(n, op)
        \/ etcd'[TheCluster] = etcd[TheCluster] \cup {n}
    BY <1>2 DEF Deletes, Registers
  <2> QED
    BY <2>1, <2>2
<1> QED
  BY <1>1, <1>2, MembersChange

\* The target of a round that prepares an order.
LEMMA PreparesFor ==
  ASSUME Enrolled, NEW k \in up, NEW op \in ops[k], DeleteNodes(k, op), op.kind # "evict"
  PROVE  /\ Preparing(k) /\ op.kind = "prepare" /\ op.phase = "start"
         /\ Condemned(k, op) = {rescale[k].order.target}
<1>1. /\ op.kind \in {"rejoin", "evict", "prepare", "promote", "demote"}
      /\ state[k] = StateOfOp(op.kind) /\ ObeysTheOrder(k, op)
      /\ op.kind \in Round /\ op.phase = "start"
  BY EnrolledFacts, OperationAlone DEF AllOrderly, InOrder, WorksInOrder, DeleteNodes
<1> QED
  BY <1>1 DEF Round, StateOfOp, ObeysTheOrder, Preparing, Condemned

LEMMA DueLasts ==
  ASSUME Calm, (\E k, m \in Node : Informs(k, m)) \/ \E k \in up : Progresses(k) \/ Settles(k),
         NEW n \in up, Due(n)'
  PROVE  Due(n) \/ AllInformed
BY DEF Due, Informs, Progresses, Alone, NoDeadline, Settles, Calm, StillRunning

LEMMA TargetsAreUp ==
  ASSUME RoundsSucceed, Enrolled, DueInformed, TargetsRun, up' = up,
         ViewsKept \/ \E n \in up : \E op \in ops[n] : FinishEviction(n, op) /\ Removes(n, op),
         UNCHANGED everyVar \/ RepairStep
  PROVE  TargetsRun'
<1> USE EnrolledFacts
<1> SUFFICES ASSUME NEW c \in up, Preparing(c)' PROVE rescale'[c].order.target \in up
  BY DEF TargetsRun
<1>1. state'[c] = "rescale_coordinating" /\ rescale'[c].order # None
  BY DEF Preparing
<1>2. CASE state[c] = "rescale_coordinating" /\ rescale'[c].order = rescale[c].order
  BY <1>1, <1>2 DEF TargetsRun, Preparing
<1>3. ASSUME NEW v, TakesATurn(c, v) PROVE rescale'[c].order.target \in up
  <2>1. /\ Due(c) /\ rescale'[c].order \in Conversions(c, v) /\ DOMAIN v = Node
        /\ \A d \in Node \ {c} : v[d] = view'[c][d]
    BY <1>1, <1>3 DEF TakesATurn, Sees
  <2>2. PICK m \in Node : rescale'[c].order.target = m /\ v[m].status = "alive"
    <3>1. PICK m : rescale'[c].order.target = m /\ (m \in PromotionTargets(v) \/ m \in DemotionTargets(v))
      BY <2>1 DEF Conversions
    <3>2. m \in AliveMembers(v)
      BY <3>1 DEF PromotionTargets, DemotionTargets, StableServers, AliveIn
    <3> QED
      BY <2>1, <3>1, <3>2 DEF AliveMembers
  <2>3. CASE m \notin Absentees
    BY <2>2, <2>3
  <2>4. CASE m \in Absentees
    <3>1. view[c][m].status # "alive" /\ m # c
      BY <2>1, <2>4 DEF DueInformed
    <3>2. view'[c][m].status # "alive"
      <4>1. Absent.status # "alive"
        BY DEF Absent
      <4> QED
        BY <2>4, <3>1, <4>1 DEF ViewsKept, Removes
    <3> QED
      BY <2>1, <2>2, <3>1, <3>2
  <2> QED
    BY <2>3, <2>4
<1> QED
  BY <1>1, <1>2, <1>3, TurnsBegin

LEMMA AbsenteesStayKnown ==
  ASSUME RoundsSucceed, Enrolled, Remembered, up' = up, nodeObjects' \in [Node -> SUBSET Node],
         ViewsKept \/ \E n \in up : \E op \in ops[n] : FinishEviction(n, op) /\ Removes(n, op),
         UNCHANGED everyVar \/ RepairStep
  PROVE  KnownAlike' /\ MembersKnown'
<1> USE EnrolledFacts
<1>1. Absentees \subseteq Node /\ Absentees \cap up = {}
  BY RescaleAssumption DEF RoundsSucceed, NothingStops, SettledNetwork
<1>2. CASE ViewsKept
  <2>1. KnownAlike'
    BY <1>2 DEF Remembered, KnownAlike, ViewsKept
  <2>2. ASSUME NEW n \in up, NEW a \in Absentees, a \in etcd'[TheCluster]
        PROVE  a \in Established /\ Known(n, a)'
    <3>1. a \in etcd[TheCluster]
      BY <1>1, <2>2, MembersLeave
    <3> QED
      BY <1>2, <3>1 DEF Remembered, MembersKnown, ViewsKept
  <2> QED
    BY <2>1, <2>2 DEF MembersKnown
<1>3. ASSUME NEW k \in up, NEW op \in ops[k], Removes(k, op)
      PROVE  KnownAlike' /\ MembersKnown'
  <2>1. /\ Absent.status = "absent"
        /\ \A x \in up, a \in Absentees :
             view'[x][a] = IF a \in rescale[k].evicting THEN Absent ELSE view[x][a]
        /\ \A a \in rescale[k].evicting : Deleted(k, a)
    BY <1>3 DEF Removes, Absent, Deleted
  <2>2. KnownAlike'
    BY <2>1 DEF Remembered, KnownAlike, Known
  <2>3. ASSUME NEW n \in up, NEW a \in Absentees, a \in etcd'[TheCluster]
        PROVE  a \in Established /\ Known(n, a)'
    <3>1. a \in etcd[TheCluster]
      BY <1>1, <2>3, MembersLeave
    <3>2. a \notin rescale[k].evicting
      BY <1>1, <2>1, <3>1 DEF Remembered, EvictedLeft
    <3> QED
      BY <2>1, <3>1, <3>2 DEF Remembered, MembersKnown, Known
  <2> QED
    BY <2>2, <2>3 DEF MembersKnown
<1> QED
  BY <1>2, <1>3

LEMMA EvictionsAreMembersOnce ==
  ASSUME RoundsSucceed, Enrolled, Remembered, up' = up, nodeObjects' \in [Node -> SUBSET Node],
         ViewsKept \/ \E n \in up : \E op \in ops[n] : FinishEviction(n, op) /\ Removes(n, op),
         UNCHANGED everyVar \/ RepairStep
  PROVE  KnownAreMembers' /\ EvictedLeft'
<1> USE EnrolledFacts
<1>1. /\ Absentees \subseteq Node /\ Absentees \cap up = {}
      /\ \A k \in up : rescale[k].evicting \cap up = {} /\ rescale[k].evicting \subseteq Node
  BY RescaleAssumption DEF RoundsSucceed, NothingStops, SettledNetwork, NoneCondemned, RescaleProgress
<1>2. ASSUME NEW n \in up, NEW a \in Absentees \cap Established, Known(n, a)', a \notin etcd'[TheCluster]
      PROVE  \E k \in up : Deleted(k, a)'
  <2>1. Known(n, a)
    <3>1. Absent.status = "absent"
      BY DEF Absent
    <3> QED
      BY <1>2, <3>1 DEF ViewsKept, Removes, Known
  <2>2. CASE a \in etcd[TheCluster]
    <3>1. PICK k \in up : \E o \in ops[k] : Deletes(k, o) /\ a \in Condemned(k, o)
      BY <1>1, <1>2, <2>2, MembersLeave
    <3> PICK op \in ops[k] : Deletes(k, op) /\ a \in Condemned(k, op)
      BY <3>1
    <3>2. DeleteNodes(k, op)
      BY DEF Deletes
    <3>3. op.kind = "evict"
      BY <1>1, <3>2, PreparesFor DEF Remembered, TargetsRun
    <3>4. /\ rescale' = rescale /\ a \in rescale[k].evicting
          /\ ops' = InPhase(k, op, "ok")
      BY <3>2, <3>3 DEF DeleteNodes, Condemned, rescaleVars
    <3>5. PICK new : new \in ops'[k] /\ new.kind = "evict" /\ new.phase = "ok"
      <4>1. ops \in [Node -> SUBSET Op] /\ k \in Node
        OBVIOUS
      <4>2. [kind |-> op.kind, via |-> op.via, phase |-> "ok"] \in ops'[k]
        BY <3>4, <4>1 DEF InPhase
      <4> DEFINE done == [kind |-> op.kind, via |-> op.via, phase |-> "ok"]
      <4>3. done.kind = "evict" /\ done.phase = "ok"
        BY <3>3
      <4> HIDE EnrolledFacts
      <4> QED
        BY <4>2, <4>3
    <3> QED
      BY <3>4, <3>5 DEF Deleted
  <2>3. CASE a \notin etcd[TheCluster]
    <3>1. PICK k \in up : \E op \in ops[k] : /\ op.kind = "evict" /\ op.phase = "ok"
                                             /\ a \in rescale[k].evicting
      BY <2>1, <2>3 DEF Remembered, KnownAreMembers, Deleted
    <3> PICK op \in ops[k] : op.kind = "evict" /\ op.phase = "ok" /\ a \in rescale[k].evicting
      BY <3>1
    <3>2. CASE op \in ops'[k] /\ rescale'[k].evicting = rescale[k].evicting
      BY <3>2 DEF Deleted
    <3>3. CASE FinishEviction(k, op)
      <4>1. Absent.status = "absent" /\ view'[n][a] = Absent
        BY <3>3, EvictionRemoves DEF Removes, Absent
      <4> QED
        BY <1>2, <4>1 DEF Known
    <3> QED
      BY <3>2, <3>3, EvictionsGoOn
  <2> QED
    BY <2>2, <2>3
<1>3. ASSUME NEW k \in up, NEW a \in Node, Deleted(k, a)' PROVE a \notin etcd'[TheCluster]
  <2>1. PICK new \in ops'[k] : new.kind = "evict" /\ new.phase = "ok" /\ a \in rescale'[k].evicting
    BY <1>3 DEF Deleted
  <2>2. CASE new \in ops[k]
    <3>1. rescale'[k].evicting = rescale[k].evicting
      BY <2>1, <2>2, EvictionsGoOn
    <3>2. a \notin etcd[TheCluster] /\ a \notin up
      BY <1>1, <2>1, <2>2, <3>1 DEF Remembered, EvictedLeft, Deleted
    <3> QED
      BY <3>2, MembersLeave
  <2>3. ASSUME NEW op \in ops[k], Advances(k, op, new) PROVE a \notin etcd'[TheCluster]
    <3>1. Deletes(k, op) /\ op.kind = "evict"
      BY <2>1, <2>3 DEF Advances, Remembered, RoundsDoNotWait
    <3>2. etcd'[TheCluster] = etcd[TheCluster] \ rescale[k].evicting /\ rescale' = rescale
      BY <3>1 DEF Deletes, DeleteNodes, Condemned, rescaleVars
    <3> QED
      BY <2>1, <3>2
  <2> QED
    BY <2>1, <2>2, <2>3, OperationsChange DEF Begins, Converts
<1> QED
  BY <1>2, <1>3 DEF KnownAreMembers, EvictedLeft

LEMMA RememberedLasts ==
  ASSUME RoundsSucceed, Enrolled, Enrolled', Remembered, [RescaleNext]_everyVar
  PROVE  Remembered'
<1> USE EnrolledFacts
<1>1. Calm /\ (UNCHANGED everyVar \/ RepairStep)
  BY OnlyRepairs DEF Enrolled, Drained, RoundsSucceed
<1>2. up' = up /\ nodeObjects' \in [Node -> SUBSET Node]
  BY DEF Enrolled, Drained, Calm, StillRunning, AllOrderly, RescaleInv, JoinTypeOK
<1>3. ViewsKept \/ \E n \in up : \E op \in ops[n] : FinishEviction(n, op) /\ Removes(n, op)
  BY <1>1, ViewsChange
<1>4. RoundsDoNotWait' /\ TargetsRun' /\ KnownAlike' /\ MembersKnown' /\ KnownAreMembers' /\ EvictedLeft'
  BY <1>1, <1>2, <1>3, RoundsNeverWait, TargetsAreUp, AbsenteesStayKnown, EvictionsAreMembersOnce
     DEF Remembered
<1>5. DueInformed'
  <2> SUFFICES ASSUME NEW n \in up, Due(n)', NEW a \in Absentees PROVE view'[n][a].status # "alive"
    BY <1>2 DEF DueInformed
  <2>1. a \in Node \ up /\ a # n
    BY RescaleAssumption DEF RoundsSucceed, NothingStops, SettledNetwork
  <2>2. view[n][a].status # "alive"
    <3>1. CASE AllInformed
      BY <2>1, <3>1 DEF AllInformed
    <3>2. CASE Due(n)
      BY <3>2 DEF Remembered, DueInformed
    <3> QED
      BY <1>1, <3>1, <3>2, StepsOfCalm, DueLasts DEF RoundsSucceed, Enrolled, Drained
  <2>3. Absent.status # "alive"
    BY DEF Absent
  <2> QED
    BY <1>3, <2>2, <2>3 DEF ViewsKept, Removes
<1>6. GoneOnly'
  <2>1. gone \subseteq gone' /\ \A n \in up : \A m \in Node : rescale'[n].clock[m] = "elapsed" => m \in gone'
    <3>1. CASE UNCHANGED everyVar
      BY <3>1 DEF everyVar, rescaleVars, Remembered, GoneOnly
    <3>2. CASE RepairStep
      BY <3>2 DEF RepairStep, Consequences
    <3> QED
      BY <1>1, <3>1, <3>2
  <2>2. ASSUME NEW n \in up, NEW m \in rescale'[n].evicting PROVE m \in gone'
    BY <1>1, <2>1, <2>2, EvictingChanges DEF Remembered, GoneOnly
  <2> QED
    BY <1>2, <2>1, <2>2 DEF GoneOnly
<1> QED
  BY <1>4, <1>5, <1>6 DEF Remembered

----------------------------------------------------------------------------
(* The servers that run *)

\* Everybody serves, and m comes last.
AllServe(m) == \A k \in up : state[k] \in Serving /\ k <= m

AgentsAreNoMembers ==
  \A d \in up : state[d] \in {"stable_agent", "rescale_demoting"} => d \notin etcd[TheCluster]

PromotedAreMembers ==
  \A d \in up : \A op \in ops[d] :
    op.kind = "promote" /\ op.phase \in {"wait", "ok"} => d \in etcd[TheCluster]

\* A server that is no member was deleted, and its order is on its way.
ServersAreMembers ==
  \A d \in up : state[d] \in Serving /\ d \notin etcd[TheCluster] => AllServe(d)

EvenSurplus ==
  /\ Cardinality(etcd[TheCluster]) % 2 = 0
  /\ Cardinality(etcd[TheCluster]) > DesiredServerCount(Cardinality(up))

\* What was true when the order was decided still is when its target is deleted.
Decision ==
  \A c \in up : Preparing(c) =>
    LET order == rescale[c].order
    IN  IF order.role = "agent"
        THEN /\ AllServe(order.target)
             /\ (\E op \in ops[c] : op.phase = "start") /\ order.target \in etcd[TheCluster]
                  => EvenSurplus
        ELSE state[order.target] = "stable_agent"

\* The machines that serve, are known to have served, or are to serve.
Promoted ==
  {m \in Node : \E order \in Order :
     /\ order.target = m /\ order.role = "server"
     /\ order \in orders[m] \/ InRound(order)}

Seats ==
  {x \in up : state[x] \in Serving \cup {"rescale_promoting"}}
  \cup {a \in Absentees \cap Established : \E n \in up : Known(n, a)} \cup Promoted

FewSeats == Cardinality(Seats) <= MaxServers

Manned ==
  /\ AgentsAreNoMembers /\ PromotedAreMembers /\ ServersAreMembers /\ Decision /\ FewSeats

\* d is to change role, changed role, or failed to.
Obedient(d) ==
  \E order \in orders[d] :
    MayConvert(state[d], order.role) /\ state'[d] = ConversionState(order.role)

Converted(d) ==
  \E op \in ops[d] :
    /\ op.phase = "ok"
    /\ \/ op.kind = "promote" /\ state[d] = "rescale_promoting" /\ state'[d] = "stable_server"
       \/ op.kind = "demote" /\ state[d] = "rescale_demoting" /\ state'[d] = "stable_agent"

Broken(d) == state[d] \in Converting /\ state'[d] = "rescale_failed"

ChangesRole(d) ==
  /\ Obedient(d) \/ Converted(d) \/ Broken(d)
  /\ OthersStay(d) /\ up' = up /\ etcd'[TheCluster] = etcd[TheCluster]

KeepsRole(d) == state'[d] = state[d] \/ {state[d], state'[d]} \subseteq Serving

LEMMA ConversionsConvert ==
  ASSUME Enrolled, NEW d \in Node, NEW op \in ops[d], OnRescaleConverted(d, op)
  PROVE  Converted(d)
<1> USE EnrolledFacts
<1>1. /\ state[d] = StateOfOp(op.kind) /\ op.phase = "ok"
      /\ op.kind \in {"rejoin", "evict", "prepare", "promote", "demote"}
      /\ state[d] \in {"rescale_promoting", "rescale_demoting"}
      /\ state' = [state EXCEPT ![d] = StableState(rescale[d].order.role)]
  BY OperationAlone DEF OnRescaleConverted, BecomeStable, Transition
<1>2. /\ rescale[d].order # None /\ state[d] = ConversionState(rescale[d].order.role)
  BY <1>1 DEF RescaleInv, ConversionsKeepTheirOrder, AllOrderly
<1>3. rescale[d].order.role \in Role
  BY <1>2 DEF RescaleProgress, Order
<1>4. state'[d] = StableState(rescale[d].order.role)
  BY <1>1
<1> QED
  BY <1>1, <1>2, <1>3, <1>4 DEF Converted, StateOfOp, ConversionState, StableState, Role

LEMMA StatesChange ==
  ASSUME Enrolled, UNCHANGED everyVar \/ RepairStep, NEW d \in up
  PROVE  KeepsRole(d) \/ ChangesRole(d)
<1> USE EnrolledFacts
<1>1. CASE UNCHANGED everyVar
  BY <1>1 DEF everyVar, allVars, vars, daemonVars, KeepsRole
<1>2. CASE RepairStep
  <2> PICK handled \in SUBSET Node : Consequences(handled)
    BY <1>2 DEF RepairStep
  <2>1. ASSUME NEW n \in Node, NEW m \in Node, News(n, m) PROVE KeepsRole(d)
    BY <2>1 DEF News, Learn, DetectFailure, Prune, KeepsRole
  <2>2. ASSUME NEW n \in Node, n # d, RunningStep(n) PROVE KeepsRole(d)
    BY <2>2, OneMoves DEF OthersStay, KeepsRole
  <2>3. CASE TimeStep(d) \/ DropEvent(d) \/ (RestartK3s(d) /\ UNCHANGED rescaleVars)
    BY <2>3 DEF TimeStep, SettleEnds, HoldEnds, GraceEnds, Advance, DropEvent, RestartK3s, allVars,
       vars, daemonVars, KeepsRole
  <2>4. ASSUME NEW s, NEW running, Considers(d, s, running), s = state[d] \/ {s, state[d]} \subseteq Serving
        PROVE  KeepsRole(d)
    BY <2>4 DEF Considers, Evaluates, StaysIn, StartsEvicting, StartsConverting, TakesTheTurn,
       KeepsRole, Serving
  <2>5. CASE OnRescaleCheck(d) \/ OnMembershipEvent(d)
    BY <2>4, <2>5, ChecksConsider
  <2>6. ASSUME NEW op \in ops[d], FinishEviction(d, op) PROVE KeepsRole(d)
    BY <2>4, <2>6, EvictionConsiders DEF Serving
  <2>7. ASSUME NEW op \in ops[d],
               \/ GoesOn(d, op) \/ DeleteNodes(d, op) \/ FailRound(d, op)
               \/ Uninstall(d, op) \/ Reinstall(d, op) \/ WaitWithoutQuorum(d, op)
        PROVE  KeepsRole(d)
    BY <2>7 DEF GoesOn, DeleteNodes, FailRound, Uninstall, Reinstall, WaitWithoutQuorum,
       ConversionFrame, KeepsRole
  <2>8. ASSUME NEW op \in ops[d], FinishConversion(d, op) \/ AbandonRound(d, op) PROVE KeepsRole(d)
    BY <2>8 DEF FinishConversion, AbandonRound, RoundEnds, Leaves, KeepsRole, Serving
  <2>9. ASSUME UNCHANGED <<unit, nodeObjects>>, up' = up, RunningStep(d),
               Obedient(d) \/ Converted(d) \/ Broken(d)
        PROVE  ChangesRole(d)
    <3>1. etcd'[TheCluster] = etcd[TheCluster]
      BY <2>9, NoServerNoMember
    <3> QED
      BY <2>9, <3>1, OneMoves DEF ChangesRole
  <2>10. ASSUME NEW order \in orders[d], OnRescaleConvert(d, order) \/ LoseOrder(d, order)
         PROVE  KeepsRole(d) \/ ChangesRole(d)
    <3>1. UNCHANGED <<up, unit, nodeObjects>> /\ RunningStep(d)
      BY <2>10 DEF OnRescaleConvert, LoseOrder, Unmoved, joinVars, coordinatorVars, diskVars, RunningStep
    <3>2. \/ state' = state
          \/ MayConvert(state[d], order.role) /\ state' = [state EXCEPT ![d] = ConversionState(order.role)]
      BY <2>10 DEF OnRescaleConvert, LoseOrder, StartOperation, Transition
    <3> QED
      BY <2>9, <3>1, <3>2 DEF Obedient, KeepsRole
  <2>11. ASSUME NEW op \in ops[d], OnRescaleConverted(d, op) \/ FailRescale(d, op)
         PROVE  ChangesRole(d)
    <3>1. UNCHANGED <<up, unit, nodeObjects>> /\ RunningStep(d)
      BY <2>11 DEF OnRescaleConverted, FailRescale, Unmoved, joinVars, coordinatorVars, diskVars,
         RunningStep, ConversionStep
    <3>2. FailRescale(d, op) => Broken(d)
      BY DEF FailRescale, Transition, Broken, Converting
    <3> QED
      BY <2>9, <2>11, <3>1, <3>2, ConversionsConvert
  <2> QED
    BY <1>2, <2>1, <2>2, <2>3, <2>5, <2>6, <2>7, <2>8, <2>10, <2>11
       DEF RepairStep, RunningStep, RoundStep, ConversionStep
<1> QED
  BY <1>1, <1>2

\* A machine that runs leaves etcd only as the target of the round of a
\* coordinator, while nobody converts.
LEMMA RunningMembersLeave ==
  ASSUME RoundsSucceed, Enrolled, Remembered, nodeObjects' \in [Node -> SUBSET Node],
         UNCHANGED everyVar \/ RepairStep,
         NEW d \in up, d \in etcd[TheCluster], d \notin etcd'[TheCluster]
  PROVE  \E c \in up : \E op \in ops[c] :
           /\ Deletes(c, op) /\ op.kind = "prepare" /\ op.phase = "start" /\ Preparing(c)
           /\ rescale[c].order.target = d /\ etcd'[TheCluster] = etcd[TheCluster] \ {d}
<1> USE EnrolledFacts
<1>1. PICK c \in up : \E op \in ops[c] : Deletes(c, op) /\ d \in Condemned(c, op)
  BY MembersLeave
<1> PICK op \in ops[c] : Deletes(c, op) /\ d \in Condemned(c, op)
  BY <1>1
<1>2. op.kind # "evict"
  BY DEF Condemned, NoneCondemned
<1>3. DeleteNodes(c, op) /\ etcd'[TheCluster] = etcd[TheCluster] \ Condemned(c, op)
  BY DEF Deletes
<1> QED
  BY <1>2, <1>3, PreparesFor

LEMMA AgentsStayNoMembers ==
  ASSUME RoundsSucceed, Enrolled, Manned, up' = up, nodeObjects' \in [Node -> SUBSET Node],
         UNCHANGED everyVar \/ RepairStep
  PROVE  AgentsAreNoMembers'
<1> USE EnrolledFacts
<1> SUFFICES ASSUME NEW d \in up, state'[d] \in {"stable_agent", "rescale_demoting"}
             PROVE  d \notin etcd'[TheCluster]
  BY DEF AgentsAreNoMembers
<1>1. CASE KeepsRole(d)
  <2>1. state[d] = state'[d] /\ d \notin etcd[TheCluster]
    BY <1>1 DEF KeepsRole, Serving, Manned, AgentsAreNoMembers
  <2>2. \A op \in ops[d] : ~Registers(d, op)
    <3>1. \A op \in ops[d] : op.kind # "promote"
      BY <2>1, OperationAlone DEF StateOfOp
    <3> QED
      BY <3>1 DEF Registers
  <2> QED
    BY <2>1, <2>2, MembersChange DEF Deletes, Registers
<1>2. CASE ChangesRole(d)
  <2>1. etcd'[TheCluster] = etcd[TheCluster]
    BY <1>2 DEF ChangesRole
  <2>2. CASE Obedient(d)
    <3>1. ToConvert(d)
      BY <2>2 DEF Obedient, ToConvert
    <3> QED
      BY <2>1, <3>1 DEF DeletedFirst
  <2>3. CASE Converted(d)
    <3>1. state[d] = "rescale_demoting"
      BY <2>3 DEF Converted
    <3> QED
      BY <2>1, <3>1 DEF Manned, AgentsAreNoMembers
  <2> QED
    BY <1>2, <2>2, <2>3 DEF ChangesRole, Broken
<1> QED
  BY <1>1, <1>2, StatesChange

LEMMA PromotedStayMembers ==
  ASSUME RoundsSucceed, Enrolled, Remembered, Manned, up' = up,
         nodeObjects' \in [Node -> SUBSET Node], UNCHANGED everyVar \/ RepairStep
  PROVE  PromotedAreMembers'
<1> USE EnrolledFacts
<1> SUFFICES ASSUME NEW d \in up, NEW new \in ops'[d], new.kind = "promote", new.phase \in {"wait", "ok"}
             PROVE  d \in etcd'[TheCluster]
  BY DEF PromotedAreMembers
<1>1. ASSUME NEW op \in ops[d], op.kind = "promote", op.phase \in {"wait", "ok"}
      PROVE  d \in etcd'[TheCluster]
  <2>1. d \in etcd[TheCluster] /\ state[d] \in Converting
    BY <1>1, OperationAlone DEF Manned, PromotedAreMembers, StateOfOp, Converting
  <2> SUFFICES ASSUME d \notin etcd'[TheCluster] PROVE FALSE
    OBVIOUS
  <2>2. \E c \in up : Preparing(c)
    BY <2>1, RunningMembersLeave
  <2> QED
    BY <2>1, <2>2, PreparedAlone DEF Enrolled, Drained
<1>2. ASSUME NEW op \in ops[d], Advances(d, op, new) PROVE d \in etcd'[TheCluster]
  <2>1. CASE Registers(d, op)
    BY <2>1 DEF Registers
  <2>2. ~Deletes(d, op) /\ op.kind = "promote"
    BY <1>2 DEF Advances, Deletes, DeleteNodes, Round
  <2> QED
    BY <1>1, <1>2, <2>1, <2>2 DEF Advances
<1> QED
  BY <1>1, <1>2, OperationsChange DEF Begins

LEMMA ServersStayMembers ==
  ASSUME RoundsSucceed, Enrolled, Remembered, Manned, up' = up,
         nodeObjects' \in [Node -> SUBSET Node], UNCHANGED everyVar \/ RepairStep
  PROVE  ServersAreMembers'
<1> USE EnrolledFacts
<1>1. up \subseteq Nat
  BY DaemonAssumption
<1> SUFFICES ASSUME NEW d \in up, state'[d] \in Serving, d \notin etcd'[TheCluster]
             PROVE  \A k \in up : state'[k] \in Serving /\ k <= d
  BY DEF ServersAreMembers, AllServe
<1>2. ASSUME NEW k \in up, ChangesRole(k) PROVE FALSE
  <2>1. /\ etcd'[TheCluster] = etcd[TheCluster]
        /\ d # k => state[d] = state'[d]
    BY <1>2 DEF ChangesRole, OthersStay
  <2>2. d # k
    <3>1. CASE Converted(k)
      BY <2>1, <3>1 DEF Converted, Manned, PromotedAreMembers, Serving
    <3>2. Obedient(k) => state'[k] \notin Serving
      BY DEF Obedient, ConversionState, Serving
    <3>3. Broken(k) => state'[k] \notin Serving
      BY DEF Broken, Serving
    <3> QED
      BY <1>2, <3>1, <3>2, <3>3 DEF ChangesRole
  <2>3. AllServe(d)
    BY <2>1, <2>2 DEF Manned, ServersAreMembers
  <2>4. state[k] \in Serving /\ k <= d
    BY <2>3 DEF AllServe
  <2>5. Obedient(k)
    BY <1>2, <2>4 DEF ChangesRole, Converted, Broken, Serving, Converting
  <2>6. k \notin etcd[TheCluster]
    <3>1. ToConvert(k)
      BY <2>5 DEF Obedient, ToConvert
    <3> QED
      BY <3>1 DEF DeletedFirst
  <2>7. d <= k
    BY <2>4, <2>6 DEF Manned, ServersAreMembers, AllServe
  <2>8. d \in Nat /\ k \in Nat
    BY <1>1
  <2>9. k <= d
    BY <2>4
  <2> HIDE EnrolledFacts
  <2> QED
    BY <2>2, <2>7, <2>8, <2>9
<1>3. \A k \in up : KeepsRole(k)
  BY <1>2, StatesChange
<1>4. state[d] \in Serving
  BY <1>3 DEF KeepsRole
<1>5. AllServe(d)
  <2>1. CASE d \notin etcd[TheCluster]
    BY <1>4, <2>1 DEF Manned, ServersAreMembers
  <2>2. CASE d \in etcd[TheCluster]
    <3>1. PICK c \in up : Preparing(c) /\ rescale[c].order.target = d
      BY <2>2, RunningMembersLeave
    <3> QED
      BY <1>4, <3>1 DEF Manned, Decision, Serving
  <2> QED
    BY <2>1, <2>2
<1> QED
  BY <1>3, <1>5 DEF AllServe, KeepsRole


----------------------------------------------------------------------------
(* What a coordinator counts *)

\* A non-empty set of machines has a highest name, the one findDemotionTarget
\* looks for.
LEMMA MaxIsHighest ==
  ASSUME NEW S \in SUBSET Node, S # {}
  PROVE  Max(S) \in S /\ \A m \in S : m <= Max(S)
<1> DEFINE Above(x) == {y \in S : y > x}
           Sizes == {Cardinality(Above(x)) : x \in S}
<1>1. IsFiniteSet(S) /\ S \subseteq Nat
  BY FS_Subset, DaemonAssumption
<1>2. \A x \in S : IsFiniteSet(Above(x)) /\ Cardinality(Above(x)) \in Nat
  BY <1>1, FS_Subset, FS_CardinalityType
<1>3. Sizes \in SUBSET Nat /\ Sizes # {}
  BY <1>2
<1>4. Min(Sizes) \in Sizes /\ \A size \in Sizes : Min(Sizes) <= size
  BY <1>3, MinIsLowest
<1>5. PICK x \in S : \A y \in S : Cardinality(Above(x)) <= Cardinality(Above(y))
  BY <1>4
<1>6. ASSUME NEW y \in S PROVE x >= y
  <2> SUFFICES ASSUME y > x PROVE FALSE
    BY <1>1
  <2>1. Above(y) \subseteq Above(x) /\ y \in Above(x) /\ y \notin Above(y)
    <3>1. x \in Nat /\ y \in Nat /\ \A z \in S : z \in Nat
      BY <1>1
    <3>2. ASSUME NEW z \in S, z > y PROVE z > x
      <4>1. z \in Nat /\ y \in Nat /\ x \in Nat
        BY <3>1
      <4> HIDE <3>1
      <4> QED
        BY <3>2, <4>1
    <3>3. Above(y) \subseteq Above(x)
      BY <3>2
    <3>4. y \in Above(x)
      OBVIOUS
    <3>5. y \notin Above(y)
      BY <3>1
    <3> QED
      BY <3>3, <3>4, <3>5
  <2>2. Cardinality(Above(y)) <= Cardinality(Above(x)) /\ Cardinality(Above(x)) # Cardinality(Above(y))
    BY <1>2, <2>1, FS_Subset
  <2>3. Cardinality(Above(x)) \in Nat /\ Cardinality(Above(y)) \in Nat
    BY <1>2
  <2>4. Cardinality(Above(x)) <= Cardinality(Above(y))
    BY <1>5
  <2> HIDE DEF Above
  <2> QED
    BY <2>2, <2>3, <2>4
<1>7. Max(S) \in S /\ \A y \in S : Max(S) >= y
  BY <1>6 DEF Max
<1> QED
  BY <1>1, <1>7

\* How many servers a population wants grows with it, up to MaxServers; more
\* than that, but no more than the population nor than MaxServers, is all of an
\* even population.
LEMMA WantedServers ==
  ASSUME NEW t \in Nat
  PROVE  /\ DesiredServerCount(t) \in Nat /\ DesiredServerCount(t) <= MaxServers
         /\ \A u \in Nat : u <= t => DesiredServerCount(u) <= DesiredServerCount(t)
         /\ \A s \in Nat : s <= t /\ s <= MaxServers /\ s > DesiredServerCount(t) => s = t /\ t % 2 = 0
BY DEF DesiredServerCount, MaxServers

\* Whoever takes its turn on a settled imbalance serves, and nobody has an order.
LEMMA FreeTurnIsAlone ==
  ASSUME Calm, NEW n \in up, Due(n), FreeTurn(n)
  PROVE  NoOrderGiven /\ state[n] \in Serving
<1>1. /\ up \subseteq Node /\ up \subseteq Nat
      /\ \A m \in Node : state[m] \in Converting => m \in up
  BY DaemonAssumption DEF Calm, StillRunning, Converting
<1>2. ASSUME NEW d \in up, d < n, view[n][d].state \in Serving PROVE FALSE
  <2>1. n \in Nat /\ d \in Nat
    BY <1>1
  <2>2. d \in up \ {n} /\ ~(n < d)
    BY <1>2, <2>1
  <2>3. view[n][d].state \in {"stable_server", "rescale_coordinating"}
    BY <1>2 DEF Serving
  <2> QED
    BY <2>2, <2>3 DEF FreeTurn, ChangesEtcd
<1>3. state[n] \in Serving
  <2>1. ~Led(n)
    BY <1>2 DEF Led
  <2> QED
    BY <2>1 DEF Calm, InTurn, Ranked, LeadsTheOthers
<1>4. ASSUME NEW order \in Order, Guarded(order) PROVE FALSE
  <2>1. order.target \in Node /\ order.via \in up /\ order.via # order.target
    BY <1>4 DEF Order, Guarded
  <2>2. CASE n = order.via /\ state[order.target] \in Converting /\ view[n][order.target].state \in Converting
    BY <1>1, <2>1, <2>2 DEF FreeTurn, Converting, ChangesEtcd
  <2> QED
    BY <1>2, <1>4, <2>1, <2>2 DEF Guarded
<1> QED
  BY <1>3, <1>4 DEF Calm, InTurn, OneOrder

\* The servers, failed ones included, in the memberlist v.
Slots(v) == {m \in AliveOrFailed(v) : v[m].state \in HoldsServerSlot}

\* n decides on v what order to prepare.
DecidesOn(n, v) == TakesATurn(n, v) /\ Due(n) /\ rescale'[n].order \in Conversions(n, v)

\* Whoever decides counts itself, the servers that run, and the absent ones as
\* long as they are known.
LEMMA SlotsAreServers ==
  ASSUME RoundsSucceed, Enrolled, Aware, KnownAlike', up' = up, view' \in [Node -> [Node -> Member]],
         NEW n \in up, NEW v, DecidesOn(n, v)
  PROVE  /\ n \in Slots(v) /\ Slots(v) \subseteq AliveOrFailed(v) /\ state[n] \in Serving
         /\ v[n].state = "stable_server" /\ n \in AliveMembers(v)
         /\ AliveOrFailed(v) = up \cup {a \in Absentees : Known(n, a)'}
         /\ \A a \in Absentees : a \in Slots(v) <=> Known(n, a)' /\ a \in Established
         /\ \A d \in up \ {n} : /\ state'[d] = state[d] /\ state[d] \notin Converting \cup {"rescale_coordinating"}
                                /\ v[d].state = state[d] /\ d \in AliveMembers(v)
                                /\ d \in Slots(v) <=> state[d] = "stable_server"
<1> USE EnrolledFacts
<1>1. /\ DOMAIN v = Node /\ v[n] = AliveAs("stable_server") /\ OthersStay(n)
      /\ \A d \in Node \ {n} : v[d] = view'[n][d]
      /\ \A d \in up \ {n} : view'[n][d] = view[n][d]
  BY DEF DecidesOn, TakesATurn, Sees
<1>2. /\ Absentees \subseteq Node \ up /\ Node = up \cup Absentees /\ n \notin Absentees
      /\ \A d \in up \ {n} : view[n][d].status = "alive"
  BY RescaleAssumption DEF RoundsSucceed, NothingStops, SettledNetwork, StillRunning
<1>3. \A d \in up \ {n} : /\ state[d] \notin Converting \cup {"rescale_coordinating"}
                          /\ view[n][d].state = state[d]
  BY FreeWhenTaken, FreeTurnIsClear DEF DecidesOn, Enrolled, Drained
<1>9. state[n] \in Serving
  BY FreeWhenTaken, FreeTurnIsAlone DEF DecidesOn, Enrolled, Drained
<1>4. v[n].state = "stable_server" /\ v[n].status = "alive"
  BY <1>1 DEF AliveAs
<1>5. n \in Slots(v) /\ n \in AliveMembers(v) /\ n \in AliveOrFailed(v)
  BY <1>1, <1>4 DEF Slots, AliveOrFailed, AliveMembers, HoldsServerSlot
<1>6. ASSUME NEW d \in up \ {n}
      PROVE  /\ state'[d] = state[d] /\ v[d].state = state[d]
             /\ d \in AliveMembers(v) /\ d \in AliveOrFailed(v)
             /\ d \in Slots(v) <=> state[d] = "stable_server"
  <2>1. /\ d \in Node \ {n} /\ v[d].state = state[d] /\ v[d].status = "alive"
        /\ state'[d] = state[d]
    BY <1>1, <1>2, <1>3 DEF OthersStay
  <2>2. d \in AliveMembers(v) /\ d \in AliveOrFailed(v)
    BY <1>1, <2>1 DEF AliveMembers, AliveOrFailed
  <2>3. state[d] \in {"stable_agent", "rescale_failed", "stable_server"}
    BY <1>3 DEF StillRunning, Serving
  <2>4. state[d] \in HoldsServerSlot <=> state[d] = "stable_server"
    BY <2>3 DEF HoldsServerSlot
  <2> QED
    BY <2>1, <2>2, <2>4 DEF Slots
<1>7. ASSUME NEW a \in Absentees
      PROVE  /\ a \in AliveOrFailed(v) <=> Known(n, a)'
             /\ a \in Slots(v) <=> Known(n, a)' /\ a \in Established
  <2>1. a \in Node \ {n} /\ v[a] = view'[n][a]
    BY <1>1, <1>2
  <2>2. view'[n][a].status \in Status
    BY <1>2 DEF Member
  <2>3. a \in AliveOrFailed(v) <=> Known(n, a)'
    BY <1>1, <2>1, <2>2 DEF AliveOrFailed, Known, Status
  <2>4. Known(n, a)' => v[a].state = IF a \in Established THEN "stable_server" ELSE "stable_agent"
    BY <2>1 DEF KnownAlike
  <2> QED
    BY <2>3, <2>4 DEF Slots, HoldsServerSlot
<1>8. AliveOrFailed(v) = up \cup {a \in Absentees : Known(n, a)'}
  <2>1. AliveOrFailed(v) \subseteq Node
    BY <1>1 DEF AliveOrFailed
  <2> QED
    BY <1>2, <1>5, <1>6, <1>7, <2>1
<1> QED
  BY <1>3, <1>4, <1>5, <1>6, <1>7, <1>8, <1>9 DEF Slots

----------------------------------------------------------------------------
(* What a coordinator decides *)

\* A decided order is what the census calls for.
DecidesWell(n) ==
  LET order == rescale'[n].order
  IN  IF order.role = "agent"
      THEN /\ \A k \in up : state'[k] \in Serving /\ k <= order.target
           /\ order.target \in etcd[TheCluster] => EvenSurplus
      ELSE state'[order.target] = "stable_agent"

\* What an order can be that n decides on v.
LEMMA OrdersDecided ==
  ASSUME NEW n \in Node, NEW v, DecidesOn(n, v)
  PROVE  LET order == rescale'[n].order
         IN  /\ order \in Order /\ order.via = n /\ order # None
             /\ \/ order.role = "server" /\ NeedsAnotherServer(v) /\ order.target \in PromotionTargets(v)
                \/ order.role = "agent" /\ HasTooManyServers(v) /\ order.target \in DemotionTargets(v)
<1>1. rescale'[n].order \in Conversions(n, v) /\ DOMAIN v = Node
  BY DEF DecidesOn, TakesATurn, Sees
<1>2. PICK m, role : /\ rescale'[n].order = [target |-> m, role |-> role, via |-> n]
                     /\ \/ role = "server" /\ NeedsAnotherServer(v) /\ m \in PromotionTargets(v)
                        \/ role = "agent" /\ HasTooManyServers(v) /\ m \in DemotionTargets(v)
  BY <1>1 DEF Conversions
<1>3. m \in Node /\ role \in Role
  BY <1>1, <1>2 DEF PromotionTargets, DemotionTargets, StableServers, AliveIn, AliveMembers, Role
<1>4. rescale'[n].order \in Order
  BY <1>2, <1>3 DEF Order
<1> QED
  BY <1>2, <1>4, NoOrderAssumption

\* A round that evicted is not one that prepares an order.
LEMMA KnownServersAreMembers ==
  ASSUME RoundsSucceed, Enrolled, Enrolled', KnownAreMembers', up' = up, Aware, NEW n \in up, NEW v,
         DecidesOn(n, v), NEW a \in Absentees \cap Established, Known(n, a)'
  PROVE  a \in etcd'[TheCluster]
<1> USE EnrolledFacts
<1> SUFFICES ASSUME a \notin etcd'[TheCluster] PROVE FALSE
  OBVIOUS
<1>1. PICK k \in up : Deleted(k, a)'
  BY DEF KnownAreMembers
<1>2. PICK op \in ops'[k] : op.kind = "evict"
  BY <1>1 DEF Deleted
<1>3. state'[k] = "rescale_coordinating" /\ rescale'[k].order = None
  <2>1. InOrder(k)'
    BY DEF Enrolled, Drained, Calm, AllOrderly
  <2> QED
    BY <1>2, <2>1 DEF InOrder, WorksInOrder, ObeysTheOrder, StateOfOp
<1>4. CASE k = n
  BY <1>3, <1>4, OrdersDecided
<1>5. CASE k # n
  BY <1>3, <1>5, FreeWhenTaken, FreeTurnIsClear DEF DecidesOn, TakesATurn, OthersStay, Enrolled, Drained
<1> QED
  BY <1>4, <1>5

\* Whoever is counted has a seat.
LEMMA SlotsAreSeats ==
  ASSUME RoundsSucceed, Enrolled, UNCHANGED everyVar \/ RepairStep, Aware, KnownAlike', up' = up,
         view' \in [Node -> [Node -> Member]], FewSeats, NEW n \in up, NEW v, DecidesOn(n, v)
  PROVE  /\ IsFiniteSet(Slots(v)) /\ Cardinality(Slots(v)) \in Nat
         /\ Cardinality(Slots(v)) <= MaxServers
<1> USE EnrolledFacts
<1>1. /\ n \in Slots(v) /\ Slots(v) \subseteq AliveOrFailed(v) /\ state[n] \in Serving
      /\ AliveOrFailed(v) = up \cup {a \in Absentees : Known(n, a)'}
      /\ \A a \in Absentees : a \in Slots(v) <=> Known(n, a)' /\ a \in Established
      /\ \A d \in up \ {n} : d \in Slots(v) <=> state[d] = "stable_server"
  BY SlotsAreServers
<1>2. ASSUME NEW d \in up, d \in Slots(v) PROVE d \in Seats
  BY <1>1, <1>2 DEF Seats, Serving
<1>3. ASSUME NEW a \in Absentees, a \in Slots(v) PROVE a \in Seats
  <2>1. Absent.status = "absent"
    BY DEF Absent
  <2>2. Known(n, a)' /\ a \in Established
    BY <1>1, <1>3
  <2>3. ViewsKept \/ \E k \in up : \E op \in ops[k] : Removes(k, op)
    BY ViewsChange
  <2>4. Known(n, a)
    BY <2>1, <2>2, <2>3 DEF ViewsKept, Removes, Known
  <2> QED
    BY <2>2, <2>4 DEF Seats
<1>4. Slots(v) \subseteq Seats
  BY <1>1, <1>2, <1>3
<1>5. IsFiniteSet(Seats)
  <2>1. Seats \subseteq Node
    BY RescaleAssumption DEF Seats, Promoted, RoundsSucceed, NothingStops, SettledNetwork
  <2> QED
    BY <2>1, FS_Subset, DaemonAssumption
<1>6. IsFiniteSet(Slots(v)) /\ Cardinality(Slots(v)) <= Cardinality(Seats)
  BY <1>4, <1>5, FS_Subset
<1>7. Cardinality(Slots(v)) \in Nat /\ Cardinality(Seats) \in Nat
  BY <1>5, <1>6, FS_CardinalityType
<1> QED
  BY <1>6, <1>7 DEF FewSeats, MaxServers

\* When there are too many servers, everybody is one; and everybody is a member,
\* but maybe the last.
LEMMA DemotionsAreEven ==
  ASSUME RoundsSucceed, Enrolled, Enrolled', Aware, Remembered, Remembered', Manned, up' = up,
         UNCHANGED everyVar \/ RepairStep,
         NEW n \in up, NEW v, DecidesOn(n, v), rescale'[n].order.role = "agent"
  PROVE  DecidesWell(n)
<1> USE EnrolledFacts
<1> DEFINE t == rescale'[n].order.target
           all == AliveOrFailed(v)
<1>1. /\ Absentees \subseteq Node \ up /\ Node = up \cup Absentees /\ IsFiniteSet(Node) /\ Node \subseteq Nat
  BY RescaleAssumption, DaemonAssumption DEF RoundsSucceed, NothingStops, SettledNetwork
<1>2. KnownAlike' /\ KnownAreMembers' /\ MembersKnown'
  BY DEF Remembered
<1>3. view' \in [Node -> [Node -> Member]]
  BY DEF Enrolled, Drained, Calm, AllOrderly, RescaleInv, TypeOK, DaemonTypeOK
<1>4. etcd'[TheCluster] = etcd[TheCluster] /\ state'[n] = "rescale_coordinating"
  BY DEF DecidesOn, TakesATurn, TakesTheTurn
<1>5. /\ n \in Slots(v) /\ Slots(v) \subseteq all
      /\ v[n].state = "stable_server" /\ n \in AliveMembers(v)
      /\ all = up \cup {a \in Absentees : Known(n, a)'}
      /\ \A a \in Absentees : a \in Slots(v) <=> Known(n, a)' /\ a \in Established
      /\ \A d \in up \ {n} : /\ state'[d] = state[d]
                             /\ v[d].state = state[d] /\ d \in AliveMembers(v)
                             /\ d \in Slots(v) <=> state[d] = "stable_server"
  BY <1>2, <1>3, SlotsAreServers
<1>6. HasTooManyServers(v) /\ t \in DemotionTargets(v)
  BY OrdersDecided
<1>7. IsFiniteSet(all) /\ Cardinality(all) \in Nat
  <2>1. all \subseteq Node
    BY <1>1, <1>5
  <2> QED
    BY <1>1, <2>1, FS_Subset, FS_CardinalityType
<1>8. Slots(v) = all /\ Cardinality(all) % 2 = 0 /\ Cardinality(all) > DesiredServerCount(Cardinality(all))
  <2>1. Cardinality(Slots(v)) \in Nat /\ Cardinality(Slots(v)) <= MaxServers
    BY <1>2, <1>3, SlotsAreSeats DEF Manned
  <2>2. /\ Cardinality(Slots(v)) <= Cardinality(all)
        /\ Cardinality(Slots(v)) = Cardinality(all) => Slots(v) = all
    BY <1>5, <1>7, FS_Subset
  <2>3. Cardinality(Slots(v)) > DesiredServerCount(Cardinality(all))
    BY <1>6 DEF HasTooManyServers, K3sServerCount, WantedServerCount, Slots
  <2>4. Cardinality(Slots(v)) = Cardinality(all) /\ Cardinality(all) % 2 = 0
    <3> HIDE DEF all
    <3> QED
      BY <1>7, <2>1, <2>2, <2>3, WantedServers
  <2> QED
    BY <2>2, <2>3, <2>4
<1>9. ASSUME NEW k \in up PROVE state'[k] \in Serving /\ k <= t
  <2>1. k \in Slots(v)
    BY <1>5, <1>8
  <2>2. state'[k] \in Serving
    BY <1>4, <1>5, <2>1 DEF Serving
  <2>3. k \in StableServers(v)
    BY <1>5, <2>1 DEF StableServers, AliveIn
  <2>4. StableServers(v) \in SUBSET Node
    BY DEF StableServers, AliveIn, AliveMembers, DecidesOn, TakesATurn, Sees
  <2>5. t = Max(StableServers(v))
    BY <1>6 DEF DemotionTargets
  <2> QED
    BY <2>2, <2>3, <2>4, <2>5, MaxIsHighest
<1>10. ASSUME t \in etcd[TheCluster] PROVE EvenSurplus
  <2>1. up \subseteq etcd[TheCluster]
    <3> SUFFICES ASSUME NEW d \in up, d \notin etcd[TheCluster] PROVE FALSE
      OBVIOUS
    <3>1. state[d] \in Serving
      <4>1. CASE d = n
        BY <1>2, <1>3, <4>1, SlotsAreServers
      <4> QED
        BY <1>5, <1>8, <4>1 DEF Serving
    <3>2. AllServe(d) /\ t \in up
      <4>1. t \in up
        BY <1>4, OrdersDecided DEF Remembered, TargetsRun, Preparing
      <4> QED
        BY <3>1, <4>1 DEF Manned, ServersAreMembers
    <3>3. t <= d /\ d <= t /\ t \in Nat /\ d \in Nat
      BY <1>1, <1>9, <3>2 DEF AllServe
    <3>4. d = t
      <4> HIDE EnrolledFacts
      <4> HIDE DEF t
      <4> QED
        BY <3>3
    <3> QED
      BY <1>10, <3>4
  <2>2. ASSUME NEW a \in Absentees PROVE a \in all <=> a \in etcd[TheCluster]
    <3>1. a \in all => Known(n, a)' /\ a \in Established
      BY <1>5, <1>8
    <3>2. a \in all => a \in etcd[TheCluster]
      BY <1>2, <1>4, <3>1, KnownServersAreMembers
    <3>3. a \in etcd[TheCluster] => Known(n, a)'
      BY <1>2, <1>4 DEF MembersKnown
    <3> QED
      BY <1>5, <3>2, <3>3
  <2>3. etcd[TheCluster] = all
    <3>1. etcd[TheCluster] \subseteq Node /\ all \subseteq Node
      BY <1>1, <1>5
    <3>2. \A m \in Node : m \in all <=> m \in etcd[TheCluster]
      BY <1>1, <1>5, <2>1, <2>2
    <3> QED
      BY <3>1, <3>2
  <2>4. Cardinality(up) \in Nat /\ Cardinality(up) <= Cardinality(all)
    BY <1>5, <1>7, FS_Subset, FS_CardinalityType
  <2>5. DesiredServerCount(Cardinality(up)) <= DesiredServerCount(Cardinality(all))
    BY <1>7, <2>4, WantedServers
  <2>6. DesiredServerCount(Cardinality(up)) \in Nat /\ DesiredServerCount(Cardinality(all)) \in Nat
    BY <1>7, <2>4, WantedServers
  <2>7. Cardinality(all) > DesiredServerCount(Cardinality(up))
    <3> HIDE DEF all
    <3> QED
      BY <1>7, <1>8, <2>5, <2>6
  <2> QED
    BY <1>8, <2>3, <2>7 DEF EvenSurplus
<1> QED
  BY <1>9, <1>10 DEF DecidesWell

LEMMA PromotionsAreOfAgents ==
  ASSUME RoundsSucceed, Enrolled, Enrolled', Aware, Remembered', up' = up,
         NEW n \in up, NEW v, DecidesOn(n, v), rescale'[n].order.role = "server"
  PROVE  DecidesWell(n)
<1> USE EnrolledFacts
<1>1. KnownAlike' /\ view' \in [Node -> [Node -> Member]] /\ state'[n] = "rescale_coordinating"
  BY DEF Remembered, Enrolled, Drained, Calm, AllOrderly, RescaleInv, TypeOK, DaemonTypeOK,
     DecidesOn, TakesATurn, TakesTheTurn
<1>2. PICK t : t = rescale'[n].order.target /\ t \in PromotionTargets(v) /\ rescale'[n].order # None
  BY OrdersDecided
<1>3. t \in up
  BY <1>1, <1>2 DEF Remembered, TargetsRun, Preparing
<1>4. v[t].state = "stable_agent"
  BY <1>2 DEF PromotionTargets, AliveIn
<1>5. state'[t] = "stable_agent"
  BY <1>1, <1>3, <1>4, SlotsAreServers
<1> QED
  BY <1>2, <1>5 DEF DecidesWell

\* Nothing an order rests on changes while it is prepared.
LEMMA PreparedDecisionsLast ==
  ASSUME RoundsSucceed, Enrolled, Sole, Manned, up' = up, nodeObjects' \in [Node -> SUBSET Node],
         UNCHANGED everyVar \/ RepairStep,
         NEW c \in up, Preparing(c), rescale'[c].order = rescale[c].order, TargetsRun
  PROVE  LET order == rescale[c].order
         IN  IF order.role = "agent"
             THEN /\ \A k \in up : state'[k] \in Serving /\ k <= order.target
                  /\ (\E op \in ops'[c] : op.phase = "start") /\ order.target \in etcd'[TheCluster]
                       => EvenSurplus /\ etcd'[TheCluster] = etcd[TheCluster]
             ELSE state'[order.target] = "stable_agent"
<1> USE EnrolledFacts
<1>1. /\ \A d \in Node : (d # c => ~Preparing(d)) /\ orders[d] = {} /\ state[d] \notin Converting
      /\ rescale[c].order.target \in up /\ state[c] = "rescale_coordinating"
  BY PreparedAlone DEF Enrolled, Drained, TargetsRun, Preparing
<1>2. ASSUME NEW d \in up PROVE KeepsRole(d)
  <2>1. ~ChangesRole(d)
    BY <1>1 DEF ChangesRole, Obedient, Converted, Broken, Converting
  <2> QED
    BY <2>1, StatesChange
<1>3. CASE rescale[c].order.role = "agent"
  <2>1. AllServe(rescale[c].order.target)
    BY <1>3 DEF Manned, Decision
  <2>2. ASSUME NEW k \in up PROVE state'[k] \in Serving /\ k <= rescale[c].order.target
    BY <1>2, <2>1 DEF AllServe, KeepsRole
  <2>3. ASSUME NEW new \in ops'[c], new.phase = "start", rescale[c].order.target \in etcd'[TheCluster]
        PROVE  EvenSurplus /\ etcd'[TheCluster] = etcd[TheCluster]
    <3>1. new \in ops[c]
      BY <2>3, OperationsChange DEF Begins, Advances
    <3>2. \A k \in Node : \A op \in ops[k] : ~Registers(k, op)
      <4>1. \A k \in Node : \A op \in ops[k] : op.kind # "promote"
        BY <1>1, OperationAlone DEF StateOfOp, Converting
      <4> QED
        BY <4>1 DEF Registers
    <3>3. ASSUME NEW k \in Node, NEW op \in ops[k], Deletes(k, op) PROVE FALSE
      <4>1. k \in up /\ ops[k] = {op} /\ state[k] = StateOfOp(op.kind)
        BY WorkersRun
      <4>2. /\ op.kind \in Round /\ ops' = InPhase(k, op, "ok")
        BY <3>3 DEF Deletes, DeleteNodes
      <4>3. k = c
        BY <4>1, <4>2 DEF Round, StateOfOp, Sole
      <4>4. \A o \in ops'[c] : o.phase = "ok"
        BY <4>1, <4>2, <4>3 DEF InPhase
      <4> QED
        BY <2>3, <4>4
    <3>4. etcd'[TheCluster] = etcd[TheCluster]
      BY <3>2, <3>3, MembersChange
    <3> QED
      BY <1>3, <2>3, <3>1, <3>4 DEF Manned, Decision
  <2> QED
    BY <1>3, <2>2, <2>3
<1>4. CASE rescale[c].order.role # "agent"
  <2>1. state[rescale[c].order.target] = "stable_agent"
    BY <1>4 DEF Manned, Decision
  <2>2. KeepsRole(rescale[c].order.target)
    BY <1>1, <1>2
  <2> QED
    BY <1>4, <2>1, <2>2 DEF KeepsRole, Serving
<1> QED
  BY <1>3, <1>4

\* An order is prepared by whoever just decided it, or prepared it before.
LEMMA DecisionLasts ==
  ASSUME RoundsSucceed, Enrolled, Enrolled', Aware, Sole, Remembered, Remembered', Manned, up' = up,
         UNCHANGED everyVar \/ RepairStep
  PROVE  Decision'
<1> USE EnrolledFacts
<1>1. nodeObjects' \in [Node -> SUBSET Node]
  BY DEF Enrolled, Drained, Calm, AllOrderly, RescaleInv, JoinTypeOK
<1> SUFFICES ASSUME NEW c \in up, Preparing(c)'
             PROVE  LET order == rescale'[c].order
                    IN  IF order.role = "agent"
                        THEN /\ \A k \in up : state'[k] \in Serving /\ k <= order.target
                             /\ (\E op \in ops'[c] : op.phase = "start") /\ order.target \in etcd'[TheCluster]
                                  => EvenSurplus /\ etcd'[TheCluster] = etcd[TheCluster]
                        ELSE state'[order.target] = "stable_agent"
  BY DEF Decision, AllServe, EvenSurplus
<1>2. state'[c] = "rescale_coordinating" /\ rescale'[c].order # None
  BY DEF Preparing
<1>3. CASE state[c] = "rescale_coordinating" /\ rescale'[c].order = rescale[c].order
  <2>1. Preparing(c) /\ TargetsRun
    BY <1>2, <1>3 DEF Preparing, Remembered
  <2> QED
    BY <1>1, <1>3, <2>1, PreparedDecisionsLast
<1>4. ASSUME NEW v, TakesATurn(c, v)
      PROVE  DecidesWell(c) /\ etcd'[TheCluster] = etcd[TheCluster]
  <2>1. DecidesOn(c, v)
    BY <1>2, <1>4 DEF TakesATurn, DecidesOn
  <2>2. rescale'[c].order.role \in {"agent", "server"}
    BY <2>1, OrdersDecided
  <2> QED
    BY <1>4, <2>1, <2>2, DemotionsAreEven, PromotionsAreOfAgents DEF TakesATurn
<1> QED
  BY <1>2, <1>3, <1>4, TurnsBegin DEF DecidesWell

\* Orders are delivered to their target by the round that prepared them.
LEMMA OrdersChange ==
  ASSUME RoundsSucceed, Enrolled, [RescaleNext]_everyVar, NEW m \in Node, NEW order \in orders'[m]
  PROVE  order \in orders[m] \/ InRound(order)
<1> USE EnrolledFacts
<1>1. CASE orders' = orders
  BY <1>1
<1>2. ASSUME NEW n \in Node, \E o \in orders[n] : orders' = [orders EXCEPT ![n] = @ \ {o}]
      PROVE  order \in orders[m]
  BY <1>2
<1>3. ASSUME NEW n \in up, Dispatches(n) PROVE order \in orders[m] \/ InRound(order)
  <2>1. rescale[n].order.via = n /\ Preparing(n)
    BY <1>3 DEF Dispatches, Preparing, AllOrderly, InOrder, RemembersItsOrder, Converting
  <2>2. orders' = orders \/ orders' = [orders EXCEPT ![rescale[n].order.target] = @ \cup {rescale[n].order}]
    BY <1>3 DEF Dispatches
  <2>3. order \in orders[m] \/ order = rescale[n].order
    BY <2>2
  <2> QED
    BY <2>1, <2>3 DEF InRound
<1> QED
  BY <1>1, <1>2, <1>3, StepsOfCalm
     DEF RoundsSucceed, Enrolled, Drained, Informs, Progresses, Settles, Quiet, Decides, IsDone,
         Drops, Obeys

----------------------------------------------------------------------------
(* Seats are few *)

\* Nobody takes a seat without an order to be a server.
LEMMA SeatsAreTaken ==
  ASSUME RoundsSucceed, Enrolled, UNCHANGED everyVar \/ RepairStep, NEW x \in up,
         state'[x] \in Serving \cup {"rescale_promoting"}
  PROVE  x \in Seats
<1> USE EnrolledFacts
<1>1. CASE KeepsRole(x)
  BY <1>1 DEF KeepsRole, Seats
<1>2. CASE Obedient(x)
  <2>1. PICK order \in orders[x] : state'[x] = ConversionState(order.role)
    BY <1>2 DEF Obedient
  <2>2. order \in Order /\ order.target = x /\ order.role = "server"
    <3>1. order \in Order /\ order.target = x
      BY DEF AllOrderly, InOrder, RemembersItsOrder
    <3>2. order.role \in Role
      BY <3>1 DEF Order
    <3> QED
      BY <2>1, <3>1, <3>2 DEF ConversionState, Serving, Role
  <2>3. x \in Promoted
    BY <2>2 DEF Promoted
  <2> QED
    BY <2>3 DEF Seats
<1>3. CASE Converted(x)
  BY <1>3 DEF Converted, Seats, Serving
<1>4. CASE Broken(x)
  BY <1>4 DEF Broken, Serving
<1> QED
  BY <1>1, <1>2, <1>3, <1>4, StatesChange DEF ChangesRole

\* Whoever is to be a server was to be one, or a coordinator decided it.
LEMMA PromotionsAreDecided ==
  ASSUME RoundsSucceed, Enrolled, Enrolled', UNCHANGED everyVar \/ RepairStep,
         [RescaleNext]_everyVar, up' = up, NEW m \in Promoted'
  PROVE  \/ m \in Promoted
         \/ \E n \in up : \E v : DecidesOn(n, v) /\ rescale'[n].order.role = "server"
<1> USE EnrolledFacts
<1>1. PICK order \in Order : /\ order.target = m /\ order.role = "server" /\ m \in Node
                             /\ order \in orders'[m] \/ InRound(order)'
  BY DEF Promoted
<1>2. CASE order \in orders'[m]
  BY <1>1, <1>2, OrdersChange DEF Promoted
<1>3. CASE InRound(order)'
  <2> DEFINE c == order.via
  <2>1. c \in Node /\ state'[c] = "rescale_coordinating" /\ rescale'[c].order = order /\ order # None
    BY <1>1, <1>3, NoOrderAssumption DEF InRound, Preparing, Order
  <2>2. c \in up
    BY <2>1 DEF Enrolled, Drained, Calm, StillRunning
  <2>3. CASE state[c] = "rescale_coordinating" /\ rescale'[c].order = rescale[c].order
    <3>1. InRound(order)
      BY <2>1, <2>3 DEF InRound, Preparing
    <3> QED
      BY <1>1, <3>1 DEF Promoted
  <2>4. ASSUME NEW v, TakesATurn(c, v) PROVE DecidesOn(c, v)
    BY <2>1, <2>4 DEF TakesATurn, DecidesOn
  <2> QED
    BY <1>1, <2>1, <2>2, <2>3, <2>4, TurnsBegin
<1> QED
  BY <1>1, <1>2, <1>3

\* Whoever decides to add a server leaves room for it.
LEMMA DecidedSeatsAreFew ==
  ASSUME RoundsSucceed, Enrolled, Enrolled', UNCHANGED everyVar \/ RepairStep, Aware, Remembered',
         FewSeats, up' = up, NEW n \in up, NEW v, DecidesOn(n, v), rescale'[n].order.role = "server"
  PROVE  FewSeats'
<1> USE EnrolledFacts
<1> DEFINE t == rescale'[n].order.target
<1>1. /\ KnownAlike' /\ view' \in [Node -> [Node -> Member]]
  BY DEF Remembered, Enrolled, Drained, Calm, AllOrderly, RescaleInv, TypeOK, DaemonTypeOK
<1>2. /\ n \in Slots(v)
      /\ \A a \in Absentees : a \in Slots(v) <=> Known(n, a)' /\ a \in Established
      /\ \A d \in up \ {n} : /\ state'[d] = state[d] /\ state[d] \notin Converting \cup {"rescale_coordinating"}
                             /\ d \in Slots(v) <=> state[d] = "stable_server"
  BY <1>1, SlotsAreServers
<1>3. NeedsAnotherServer(v) /\ rescale'[n].order.via = n
  BY OrdersDecided
<1>4. IsFiniteSet(Slots(v)) /\ Cardinality(Slots(v)) \in Nat /\ Cardinality(Slots(v)) < MaxServers
  <2>1. IsFiniteSet(Slots(v)) /\ Cardinality(Slots(v)) \in Nat
    BY <1>1, SlotsAreSeats
  <2>2. DesiredServerCount(Cardinality(AliveOrFailed(v))) <= MaxServers
    <3>1. AliveOrFailed(v) \subseteq Node
      BY DEF AliveOrFailed, DecidesOn, TakesATurn, Sees
    <3>2. Cardinality(AliveOrFailed(v)) \in Nat
      BY <3>1, FS_Subset, FS_CardinalityType, DaemonAssumption
    <3> QED
      BY <3>2, WantedServers
  <2>3. Cardinality(Slots(v)) < DesiredServerCount(Cardinality(AliveOrFailed(v)))
    BY <1>3 DEF NeedsAnotherServer, K3sServerCount, WantedServerCount, Slots
  <2>4. DesiredServerCount(Cardinality(AliveOrFailed(v))) \in Nat
    BY <2>3, FS_Subset, FS_CardinalityType, DaemonAssumption, WantedServers
       DEF AliveOrFailed, DecidesOn, TakesATurn, Sees
  <2> QED
    BY <2>1, <2>2, <2>3, <2>4 DEF MaxServers
<1>5. ASSUME NEW x \in up, state'[x] \in Serving \cup {"rescale_promoting"} PROVE x \in Slots(v)
  BY <1>2, <1>5 DEF Serving, Converting
<1>6. ASSUME NEW a \in Absentees \cap Established, NEW k \in up, Known(k, a)' PROVE a \in Slots(v)
  BY <1>1, <1>2, <1>6 DEF KnownAlike
<1>7. ASSUME NEW m \in Promoted' PROVE m = t
  <2>1. PICK order \in Order : /\ order.target = m /\ m \in Node
                               /\ order \in orders'[m] \/ InRound(order)'
    BY DEF Promoted
  <2>2. orders'[m] = {}
    <3>1. orders[m] = {}
      BY <2>1, FreeWhenTaken, FreeTurnIsAlone DEF NoOrderGiven, DecidesOn, Enrolled, Drained
    <3> QED
      BY <3>1 DEF DecidesOn, TakesATurn
  <2>3. state'[order.via] = "rescale_coordinating" /\ rescale'[order.via].order = order /\ order.via \in Node
    BY <2>1, <2>2 DEF InRound, Preparing, Order
  <2>4. order.via \in up
    BY <2>3 DEF Enrolled, Drained, Calm, StillRunning
  <2>5. order.via = n
    BY <1>2, <2>3, <2>4
  <2> QED
    BY <2>1, <2>3, <2>5
<1>8. Seats' \subseteq Slots(v) \cup {t}
  <2> SUFFICES ASSUME NEW x \in Seats' PROVE x \in Slots(v) \cup {t}
    OBVIOUS
  <2>1. \/ x \in up /\ state'[x] \in Serving \cup {"rescale_promoting"}
        \/ x \in Absentees \cap Established /\ \E k \in up : Known(k, x)'
        \/ x \in Promoted'
    BY DEF Seats
  <2>2. CASE x \in up /\ state'[x] \in Serving \cup {"rescale_promoting"}
    BY <1>5, <2>2
  <2>3. CASE x \in Absentees \cap Established /\ \E k \in up : Known(k, x)'
    BY <1>6, <2>3
  <2>4. CASE x \in Promoted'
    BY <1>7, <2>4
  <2> QED
    BY <2>1, <2>2, <2>3, <2>4
<1>9. IsFiniteSet(Slots(v) \cup {t}) /\ Cardinality(Slots(v) \cup {t}) <= Cardinality(Slots(v)) + 1
  <2> HIDE EnrolledFacts
  <2> HIDE DEF t
  <2>1. /\ IsFiniteSet(Slots(v) \cup {t})
        /\ Cardinality(Slots(v) \cup {t})
             = IF t \in Slots(v) THEN Cardinality(Slots(v)) ELSE Cardinality(Slots(v)) + 1
    BY <1>4, FS_AddElement
  <2> QED
    BY <1>4, <2>1
<1>10. /\ Cardinality(Seats') <= Cardinality(Slots(v) \cup {t})
       /\ Cardinality(Seats') \in Nat /\ Cardinality(Slots(v) \cup {t}) \in Nat
  BY <1>8, <1>9, FS_Subset, FS_CardinalityType
<1>11. Cardinality(Seats') <= MaxServers
  <2> HIDE DEF t
  <2> QED
    BY <1>4, <1>9, <1>10 DEF MaxServers
<1> QED
  BY <1>11 DEF FewSeats

LEMMA FewSeatsLasts ==
  ASSUME RoundsSucceed, Enrolled, Enrolled', UNCHANGED everyVar \/ RepairStep,
         [RescaleNext]_everyVar, Aware, Remembered', FewSeats, up' = up
  PROVE  FewSeats'
<1> USE EnrolledFacts
<1>1. ASSUME ~ \E n \in up : \E v : DecidesOn(n, v) /\ rescale'[n].order.role = "server"
      PROVE  FewSeats'
  <2>1. ASSUME NEW a \in Absentees \cap Established, NEW k \in up, Known(k, a)' PROVE a \in Seats
    <3>1. Absent.status = "absent"
      BY DEF Absent
    <3>2. Known(k, a)
      BY <2>1, <3>1, ViewsChange DEF ViewsKept, Removes, Known
    <3> QED
      BY <3>2 DEF Seats
  <2>2. ASSUME NEW m \in Promoted' PROVE m \in Seats
    BY <1>1, PromotionsAreDecided DEF Seats
  <2>3. Seats' \subseteq Seats
    BY <2>1, <2>2, SeatsAreTaken DEF Seats
  <2>4. IsFiniteSet(Seats)
    <3>1. Seats \subseteq Node
      BY RescaleAssumption DEF Seats, Promoted, RoundsSucceed, NothingStops, SettledNetwork
    <3> QED
      BY <3>1, FS_Subset, DaemonAssumption
  <2>5. Cardinality(Seats') <= Cardinality(Seats) /\ IsFiniteSet(Seats')
    BY <2>3, <2>4, FS_Subset
  <2>6. Cardinality(Seats') \in Nat /\ Cardinality(Seats) \in Nat
    BY <2>4, <2>5, FS_CardinalityType
  <2>7. Cardinality(Seats') <= MaxServers
    BY <2>5, <2>6 DEF FewSeats, MaxServers
  <2> QED
    BY <2>7 DEF FewSeats
<1> QED
  BY <1>1, DecidedSeatsAreFew

----------------------------------------------------------------------------
(* The theorems *)

Census == Enrolled /\ Aware /\ Sole /\ Remembered /\ Manned

LEMMA InitIsEnrolled ==
  ASSUME NothingStops, RescaleInit
  PROVE  Enrolled /\ Aware /\ Sole
<1>1. Established \subseteq Node /\ TheCluster \in Node
  <2>1. Established \in SUBSET Nat /\ Established # {} /\ Established \subseteq Node
    BY DaemonAssumption, RescaleAssumption
  <2> QED
    BY <2>1, MinIsLowest DEF TheCluster
<1>2. /\ rescale = [n \in Node |-> NotRescaling]
      /\ etcd = [c \in Node |-> IF c = TheCluster THEN Established ELSE {}]
      /\ nodeObjects = [c \in Node |-> IF c = TheCluster THEN Settled \cup Ghosts ELSE {}]
      /\ \A n \in Node : unit[n] = "server" => n \in Established
  BY DEF RescaleInit, TheCluster
<1>3. Drained /\ nodeObjects \in [Node -> SUBSET Node] /\ up \subseteq Node
  BY InitIsDrained DEF Drained, Calm, AllOrderly, RescaleInv, JoinTypeOK, StillRunning
<1>4. Enrolled
  BY <1>1, <1>2, <1>3 DEF Enrolled, OnlyHere, ServersEnroll
<1>5. Aware /\ Sole
  BY <1>2, <1>3 DEF Aware, Sole, Due, Preparing, NotRescaling
<1> QED
  BY <1>4, <1>5

LEMMA InitIsCensus ==
  ASSUME RoundsSucceed, RescaleInit
  PROVE  Census
<1> DEFINE role(n) == IF n \in Established THEN "server" ELSE IF n \in Agents THEN "agent" ELSE "none"
<1>1. /\ Established \subseteq Node /\ Agents \subseteq Node /\ Absentees \subseteq Node
      /\ Node = Established \cup Agents /\ Established \cap Agents = {}
      /\ Late = {} /\ IsFiniteSet(Node)
  BY DaemonAssumption, RescaleAssumption DEF RoundsSucceed, NothingStops, SettledNetwork, Settled
<1>2. TheCluster \in Node
  <2>1. Established \in SUBSET Nat /\ Established # {}
    BY DaemonAssumption, RescaleAssumption
  <2> QED
    BY <1>1, <2>1, MinIsLowest DEF TheCluster
<1>3. /\ up = Node \ Absentees
      /\ \A n \in up : state[n] = StableState(role(n))
      /\ ops = [n \in Node |-> {}] /\ orders = [n \in Node |-> {}]
      /\ rescale = [n \in Node |-> NotRescaling]
      /\ etcd = [c \in Node |-> IF c = TheCluster THEN Established ELSE {}]
      /\ unit = [n \in Node |-> role(n)]
      /\ nodeObjects = [c \in Node |-> IF c = TheCluster THEN Settled \cup Ghosts ELSE {}]
  BY <1>1 DEF RescaleInit, Settled, TheCluster
<1>4. /\ NotRescaling.imbalance = "off" /\ NotRescaling.order = None /\ NotRescaling.evicting = {}
      /\ \A m \in Node : NotRescaling.clock[m] = "off"
  BY DEF NotRescaling
<1>5. ASSUME NEW n \in up, NEW a \in Absentees
      PROVE  /\ view[n][a].status # "absent"
             /\ view[n][a].state = IF a \in Established THEN "stable_server" ELSE "stable_agent"
  <2>1. n # a /\ a \in Node /\ n \in Node /\ a \notin Late /\ {n, a} \subseteq Settled
    BY <1>1, <1>3 DEF Settled
  <2>2. view[n][a] = AliveAs(StableState(role(a)))
    BY <2>1 DEF RescaleInit
  <2>3. StableState(role(a)) = IF a \in Established THEN "stable_server" ELSE "stable_agent"
    BY <1>1, <2>1 DEF StableState
  <2> QED
    BY <2>2, <2>3 DEF AliveAs
<1>6. \A n \in Node : ~Preparing(n) /\ ~Due(n) /\ ops[n] = {} /\ orders[n] = {}
  BY <1>3, <1>4 DEF Preparing, Due
<1>7. etcd[TheCluster] = Established
  BY <1>2, <1>3
<1>8. \A d \in up : state[d] = IF d \in Established THEN "stable_server" ELSE "stable_agent"
  BY <1>1, <1>3 DEF StableState
<1>9. Enrolled /\ Aware /\ Sole
  BY InitIsEnrolled DEF RoundsSucceed
<1>10. Remembered
  <2>1. RoundsDoNotWait /\ DueInformed /\ EvictedLeft /\ TargetsRun
    BY <1>3, <1>6 DEF RoundsDoNotWait, DueInformed, EvictedLeft, TargetsRun, Deleted
  <2>2. KnownAlike /\ MembersKnown /\ KnownAreMembers
    BY <1>5, <1>7 DEF KnownAlike, MembersKnown, KnownAreMembers, Known
  <2>3. GoneOnly
    BY <1>3, <1>4 DEF GoneOnly
  <2> QED
    BY <2>1, <2>2, <2>3 DEF Remembered
<1>11. Manned
  <2>1. AgentsAreNoMembers /\ ServersAreMembers
    BY <1>7, <1>8 DEF AgentsAreNoMembers, ServersAreMembers, Serving
  <2>2. PromotedAreMembers /\ Decision
    BY <1>3, <1>6 DEF PromotedAreMembers, Decision
  <2>3. FewSeats
    <3>1. Promoted = {}
      BY <1>6 DEF Promoted, InRound, Order
    <3>2. Seats \subseteq Established
      BY <1>8, <3>1 DEF Seats, Serving
    <3>3. IsFiniteSet(Established)
      BY <1>1, FS_Subset
    <3>4. /\ Cardinality(Seats) \in Nat /\ Cardinality(Established) \in Nat
          /\ Cardinality(Seats) <= Cardinality(Established)
      BY <3>2, <3>3, FS_Subset, FS_CardinalityType
    <3> QED
      BY <3>4 DEF FewSeats, RoundsSucceed, MaxServers
  <2> QED
    BY <2>1, <2>2, <2>3 DEF Manned
<1> QED
  BY <1>9, <1>10, <1>11 DEF Census

LEMMA NextIsCensus ==
  ASSUME RoundsSucceed, Census, [RescaleNext]_everyVar
  PROVE  /\ Census' /\ up' = up /\ nodeObjects' \in [Node -> SUBSET Node]
         /\ UNCHANGED everyVar \/ RepairStep
<1>1. NothingStops /\ Calm
  BY DEF RoundsSucceed, Census, Enrolled, Drained
<1>2. Enrolled' /\ (UNCHANGED everyVar \/ RepairStep)
  BY <1>1, EnrolledLasts, OnlyRepairs DEF Census
<1>3. up' = up /\ nodeObjects' \in [Node -> SUBSET Node]
  BY <1>1, <1>2 DEF Enrolled, Drained, Calm, StillRunning, AllOrderly, RescaleInv, JoinTypeOK
<1>4. Aware' /\ Sole' /\ Remembered'
  BY <1>1, <1>2, TurnsLast, RememberedLasts DEF Census
<1>5. Manned'
  BY <1>2, <1>3, <1>4, AgentsStayNoMembers, PromotedStayMembers, ServersStayMembers, DecisionLasts,
     FewSeatsLasts DEF Census, Manned
<1> QED
  BY <1>2, <1>3, <1>4, <1>5 DEF Census

LEMMA CensusLasts ==
  ASSUME RoundsSucceed
  PROVE  RescaleSpec => []Census
<1>1. RescaleInit => Census
  BY InitIsCensus
<1>2. Census /\ [RescaleNext]_everyVar => Census'
  BY NextIsCensus
<1> QED
  BY <1>1, <1>2, PTL DEF RescaleSpec

\* Two machines never run a round together (maybeRescale, etcdMembershipChanging),
\* whatever fails, as long as all machines of the cluster run.
THEOREM RescalingRoundsAreExclusive ==
  ASSUME NothingStops, Absentees = {}
  PROVE  RescaleSpec => []OneRoundAtATime
<1> DEFINE Inv == Enrolled /\ Aware /\ Sole /\ OneRoundAtATime
<1>1. RescaleInit => Inv
  <2> SUFFICES ASSUME RescaleInit PROVE Inv
    OBVIOUS
  <2>1. Enrolled /\ Aware /\ Sole
    BY InitIsEnrolled
  <2>2. \A n \in Node : state[n] # "rescale_coordinating"
    BY <2>1, EnrolledFacts DEF RescaleInit, StableState
  <2> QED
    BY <2>1, <2>2 DEF OneRoundAtATime
<1>2. Inv /\ [RescaleNext]_everyVar => Inv'
  <2> SUFFICES ASSUME Inv, [RescaleNext]_everyVar PROVE Inv'
    OBVIOUS
  <2>1. Enrolled'
    BY EnrolledLasts
  <2> QED
    BY <2>1, TurnsLast, RoundsStayExclusive
<1> QED
  BY <1>1, <1>2, PTL DEF RescaleSpec

\* The abstract specification counts as the detailed one does.
LEMMA SameCount ==
  ASSUME NEW S
  PROVE  P!Cardinality(S) = Cardinality(S)
BY DEF P!Cardinality, Cardinality

\* Whoever deletes, or lets a machine register, has a majority of the members.
LEMMA MembersAnswer ==
  ASSUME Enrolled, NEW n \in Node, unit[n] = "server", HasQuorum(n)
  PROVE  P!HasMajority
BY EnrolledFacts, SameCount DEF HasQuorum, Answers, P!HasMajority, P!Majority, TheCluster

\* A machine that runs leaves etcd in a round, as one of an even surplus.
LEMMA RetirementsAreEven ==
  ASSUME Census, NEW c \in up, NEW op \in ops[c], DeleteNodes(c, op), op.kind # "evict",
         rescale[c].order.target \in etcd[TheCluster]
  PROVE  EvenSurplus /\ rescale[c].order.target \in up
<1>1. Preparing(c) /\ op.phase = "start"
  BY PreparesFor DEF Census
<1>2. rescale[c].order.target \in up
  BY <1>1 DEF Census, Remembered, TargetsRun
<1>3. rescale[c].order.role = "agent"
  BY <1>1, <1>2 DEF Census, Manned, Decision, AgentsAreNoMembers
<1> QED
  BY <1>1, <1>2, <1>3 DEF Census, Manned, Decision

\* The rescaling implements ControlPlane (runRescaleCoordination, convertK3sRole):
\* whatever the number of machines, of servers and of absent ones, and whatever
\* orders, events and scripts fail, the etcd members change only while a majority
\* of them runs, and one that runs leaves only an even membership.
THEOREM RescalingImplementsControlPlane ==
  ASSUME RoundsSucceed
  PROVE  RescaleSpec => ImplementsControlPlane
<1>1. RescaleInit => P!PlaneInit
  <2> SUFFICES ASSUME RescaleInit PROVE P!PlaneInit
    OBVIOUS
  <2>1. Enrolled
    BY InitIsCensus DEF Census
  <2> QED
    BY <2>1, EnrolledFacts DEF P!PlaneInit, TheCluster
<1>2. Census /\ [RescaleNext]_everyVar => [P!PlaneNext]_(P!planeVars)
  <2> SUFFICES ASSUME Census, [RescaleNext]_everyVar PROVE [P!PlaneNext]_(P!planeVars)
    OBVIOUS
  <2> DEFINE members == etcd[Min(Established)]
  <2>1. /\ Enrolled /\ up' = up /\ nodeObjects' \in [Node -> SUBSET Node]
        /\ UNCHANGED everyVar \/ RepairStep
    BY NextIsCensus DEF Census
  <2>2. /\ members \subseteq Node /\ up \subseteq Node /\ members = etcd[TheCluster]
        /\ members' = etcd'[TheCluster]
        /\ AllOrderly /\ StillRunning /\ NoneCondemned
    BY <2>1, EnrolledFacts DEF TheCluster
  <2>3. CASE members' = members
    BY <2>1, <2>3 DEF P!planeVars
  <2>4. ASSUME NEW c \in Node, NEW op \in ops[c], Deletes(c, op)
        PROVE  [P!PlaneNext]_(P!planeVars)
    <3>1. DeleteNodes(c, op) /\ HasQuorum(c) /\ members' = members \ Condemned(c, op)
      BY <2>2, <2>4 DEF Deletes, DeleteNodes
    <3>2. c \in up /\ state[c] = "rescale_coordinating"
      BY <2>2, <3>1, WorkersRun, OperationAlone DEF DeleteNodes, Round, StateOfOp
    <3>3. P!HasMajority
      <4>1. unit[c] = "server"
        BY <2>2, <3>2 DEF AllOrderly, InOrder, HoldsItsRole, Serving
      <4> QED
        BY <2>1, <3>1, <4>1, MembersAnswer
    <3>4. CASE op.kind = "evict"
      <4> DEFINE out == Condemned(c, op) \cap members
      <4>1. out \cap up = {} /\ out \in SUBSET members /\ members' = members \ out
        BY <2>2, <3>1, <3>2, <3>4 DEF Condemned, NoneCondemned
      <4>2. CASE out = {}
        BY <2>3, <4>1, <4>2
      <4>3. CASE out # {}
        <5>1. P!Evict(out)
          BY <2>1, <3>3, <4>1, <4>3 DEF P!Evict
        <5> QED
          BY <4>1, <5>1 DEF P!PlaneNext
      <4> QED
        BY <4>2, <4>3
    <3>5. CASE op.kind # "evict"
      <4> DEFINE t == rescale[c].order.target
      <4>1. members' = members \ {t}
        BY <2>1, <3>1, <3>2, <3>5, PreparesFor
      <4>2. CASE t \notin members
        BY <2>3, <4>1, <4>2
      <4>3. CASE t \in members
        <5>1. EvenSurplus /\ t \in up
          BY <2>2, <3>1, <3>2, <3>5, <4>3, RetirementsAreEven
        <5>2. P!Retire(t)
          BY <2>1, <2>2, <3>3, <4>1, <4>3, <5>1, SameCount DEF P!Retire, EvenSurplus
        <5> QED
          BY <2>2, <5>1, <5>2 DEF P!PlaneNext
      <4> QED
        BY <4>2, <4>3
    <3> QED
      BY <3>4, <3>5
  <2>5. ASSUME NEW n \in Node, NEW op \in ops[n], Registers(n, op)
        PROVE  [P!PlaneNext]_(P!planeVars)
    <3>1. Admits(op.via) /\ members' = members \cup {n}
      BY <2>2, <2>5 DEF Registers
    <3>2. n \in up /\ op.via \in Node
      BY <2>2, <3>1, WorkersRun DEF Admits
    <3>3. P!HasMajority
      BY <2>1, <3>1, <3>2, MembersAnswer DEF Admits
    <3>4. CASE n \in members
      BY <2>3, <3>1, <3>4
    <3>5. CASE n \notin members
      <4>1. P!Enter(n)
        BY <2>1, <3>1, <3>2, <3>3, <3>5 DEF P!Enter
      <4> QED
        BY <4>1 DEF P!PlaneNext
    <3> QED
      BY <3>4, <3>5
  <2> QED
    BY <2>1, <2>2, <2>3, <2>4, <2>5, MembersChange
<1> QED
  BY <1>1, <1>2, CensusLasts, PTL DEF RescaleSpec, ImplementsControlPlane, P!PlaneSpec

\* A machine that was not away for the whole grace period leaves etcd only when
\* there are more members than the machines that may still be there call for
\* (view.go:112, view.go:234).
THEOREM SurplusServersLeave ==
  ASSUME RoundsSucceed
  PROVE  RescaleSpec => OnlySurplusServersLeave
<1>1. Census /\ [RescaleNext]_everyVar =>
        [\A c \in Node : etcd[c] \ etcd'[c] \subseteq gone \/ SurplusIn(c)]_everyVar
  <2> SUFFICES ASSUME Census, [RescaleNext]_everyVar, NEW c \in Node,
                      NEW a \in etcd[c], a \notin etcd'[c], a \notin gone
               PROVE  SurplusIn(c)
    OBVIOUS
  <2>1. /\ Enrolled /\ Remembered /\ nodeObjects' \in [Node -> SUBSET Node]
        /\ UNCHANGED everyVar \/ RepairStep
    BY NextIsCensus DEF Census
  <2>2. /\ c = TheCluster /\ a \in Node /\ up \subseteq Node /\ Node \ gone \subseteq up
        /\ IsFiniteSet(Node)
    BY <2>1, EnrolledFacts, DaemonAssumption DEF Enrolled, OnlyHere, StillRunning
  <2>3. PICK k \in up : \E op \in ops[k] : Deletes(k, op) /\ a \in Condemned(k, op)
    BY <2>1, <2>2, MembersLeave
  <2> PICK op \in ops[k] : Deletes(k, op) /\ a \in Condemned(k, op)
    BY <2>3
  <2>4. op.kind # "evict"
    BY <2>1 DEF Condemned, Remembered, GoneOnly
  <2>5. DeleteNodes(k, op)
    BY DEF Deletes
  <2>6. rescale[k].order.target = a
    BY <2>1, <2>4, <2>5, PreparesFor
  <2>7. EvenSurplus
    BY <2>2, <2>4, <2>5, <2>6, RetirementsAreEven
  <2>8. /\ Cardinality(Node \ gone) <= Cardinality(up)
        /\ Cardinality(Node \ gone) \in Nat /\ Cardinality(up) \in Nat
        /\ Cardinality(etcd[TheCluster]) \in Nat
    <3>1. IsFiniteSet(up) /\ IsFiniteSet(etcd[TheCluster])
      BY <2>1, <2>2, EnrolledFacts, FS_Subset
    <3> QED
      BY <2>2, <3>1, FS_Subset, FS_CardinalityType
  <2>9. /\ DesiredServerCount(Cardinality(Node \ gone)) <= DesiredServerCount(Cardinality(up))
        /\ DesiredServerCount(Cardinality(Node \ gone)) \in Nat
        /\ DesiredServerCount(Cardinality(up)) \in Nat
    BY <2>8, WantedServers
  <2> QED
    BY <2>2, <2>7, <2>8, <2>9 DEF EvenSurplus, SurplusIn
<1> QED
  BY <1>1, CensusLasts, PTL DEF RescaleSpec, OnlySurplusServersLeave

\* What follows for the quorum of etcd, from the theorem about ControlPlane.
Plane == INSTANCE ControlPlaneProofs
           WITH Machine <- Node, member <- etcd[Min(Established)], alive <- up

\* No change of the membership costs etcd its quorum (checkQuorum): a majority of
\* the members that the rescaling leaves runs, if one of those it found did.
THEOREM RescalingKeepsTheQuorum ==
  ASSUME RoundsSucceed
  PROVE  RescaleSpec => P!MajorityIsKept
<1>1. RescaleSpec => P!PlaneSpec
  BY RescalingImplementsControlPlane DEF ImplementsControlPlane
<1>2. Plane!IsFiniteSet(Node)
  BY DaemonAssumption DEF Plane!IsFiniteSet, IsFiniteSet
<1>3. \A S : Plane!Cardinality(S) = P!Cardinality(S)
  BY DEF Plane!Cardinality, P!Cardinality
<1>4. P!PlaneInit => Plane!PlaneInit
  BY DEF P!PlaneInit, Plane!PlaneInit
<1>5. (P!HasMajority <=> Plane!HasMajority) /\ (P!HasMajority' <=> Plane!HasMajority')
  BY <1>3 DEF P!HasMajority, Plane!HasMajority, P!Majority, Plane!Majority
<1>6. [P!PlaneNext]_(P!planeVars) => [Plane!PlaneNext]_(Plane!planeVars)
  BY <1>3, <1>5 DEF P!PlaneNext, Plane!PlaneNext, P!planeVars, Plane!planeVars, P!Enter, Plane!Enter,
     P!Retire, Plane!Retire, P!Evict, Plane!Evict, P!PowerChange, Plane!PowerChange
<1>7. [Plane!HasMajority /\ UNCHANGED up => Plane!HasMajority']_(Plane!planeVars)
        => [P!HasMajority /\ UNCHANGED up => P!HasMajority']_(P!planeVars)
  BY <1>5 DEF P!planeVars, Plane!planeVars
<1>8. Plane!PlaneSpec => Plane!MajorityIsKept
  BY <1>2, Plane!MajorityOutlivesChanges
<1> QED
  BY <1>1, <1>4, <1>6, <1>7, <1>8, PTL
     DEF P!PlaneSpec, Plane!PlaneSpec, P!MajorityIsKept, Plane!MajorityIsKept
=============================================================================
