# antsd in TLA+

antsd is a daemon that runs on every machine of a small network. It finds its
peers by mDNS, keeps a common memberlist with Serf, and turns the machines into
one highly available K3s cluster without configuration: a bootstrap when no
cluster exists, a joining path when one does, a rejoin after a restart, and a
rescaling that repairs the control plane. This directory models that behaviour
in TLA+, checks it with TLC on small networks, and proves the main properties
with TLAPS for any number of machines. Paths are relative to
`src/antsd/internal/` unless they begin with `docs/`.

## 1. The system

### Parts, state, operations

| Part | State | Operations | Module |
|---|---|---|---|
| lifecycle, roles (`node/state.go`, `node/role.go`) | none | state classes, `DesiredServerCount`, `Rank`, `RoleForRank` | Lifecycle |
| cluster view (`cluster/view.go`) | one snapshot of the memberlist | join target, existing member, virgin member, coordinator, etcd change, population, server slots, failed members, promotion and demotion targets | ClusterView |
| persistence (`node/persist.go`) | the state file | `Save`, `Load` | Daemon (`file`) |
| manager (`cluster/manager.go`) | lifecycle state (also the Serf tag), channels, K3s operations in goroutines | run loop, `chooseInitialState`, dispatch of events, commands and results, `becomeStable` | Daemon, Bootstrap, Joining, Rescale |
| Serf node (`serfnode/serfnode.go`) | memberlist, tag, event channel | `SetState`, `SendUserEvent`, `Snapshot`, `dispatch`, `RemoveFailedNode` | Daemon (`view`, `inbox`), Rescale (`woken`) |
| K3s installer (`k3s/exec.go`) | systemd unit, K3s data | install init / server / agent, wait ready, `InstalledRole`, `Convert` | Daemon, Rescale (`unit`, `cluster`) |
| K3s control plane (`k3s/control_plane.go`) | node objects, etcd members | `NodeExists`, `DeleteNode`, `DrainNode` | Joining (`nodeObjects`), Rescale (`etcd`) |
| bootstrap (`cluster/bootstrap.go`, `firstboot.go`) | `bootstrapProgress`: members, rank, role, timer | user actions, two broadcasts, role computation, ordered installations | Bootstrap |
| rejoin (`cluster/rejoin.go`) | none of its own | check the installed role, wait for K3s | Daemon, Bootstrap |
| joining path (`cluster/joining.go`) | `joiningProgress`: timer, settled, cleaned | divert, grace period, installation as agent | Bootstrap, Joining |
| forget-me (`cluster/forget.go`) | `rescale.cleaning`, lookups in goroutines | request and retry, lookup, erasing round, confirmation | Joining |
| rescaling (`cluster/rescale.go`) | `rescaleProgress`: failures seen, deadlines, order | failure clocks, evaluation, eviction, promotion, demotion, conversion, abandoned rounds | Rescale |
| mDNS (`discovery/mdns.go`) | addresses seen | query, `handleEntry` | not modelled (section 6) |
| admin HTTP (`admin/`) | none | pages, three buttons | its buttons, in Bootstrap |
| configuration, log bridge, `main` | none | read once, format | not modelled |
| machine image, deployment (`src/ants-os`, `src/ansible`) | none | run before antsd | not modelled |

### How they interact

Each antsd has one run loop. It takes Serf events and commands from two
channels; commands come from the buttons, from timers and from goroutines that
run K3s operations. A handler never blocks. A workflow knows what a result
belongs to by the state the machine is in: results carry no identity
(`manager.go:321`). Machines see each other through the Serf tag that holds the
lifecycle state, which reaches each peer at its own time, and through user
events, which are best effort. Every decision (who founds the cluster, whose turn
it is, who is the coordinator) is taken alone, on the machine's own snapshot.

### What is hard

* Several machines decide at once on snapshots that lag behind.
* A user event is lost, comes late, or comes twice.
* antsd stops between two steps; its memory is lost while K3s and the disk
  remain, and the state file may not have reached the disk.
* A timer's command, a lookup's answer or an operation's result arrives after
  the state it was meant for.
* A machine that stalls in a state that changes etcd blocks all the others.
* A round deletes a machine from K3s and then orders it, by an event that may be
  lost, to change role; what the coordinator knows may have changed meanwhile,
  and the coordinator may be gone.

### What makes each part correct

* lifecycle: the control plane is odd, at most seven, never larger than the
  population (theorem `ControlPlaneSize`);
* manager and rejoin: results reach the workflow that started the operation
  (`ResultsReachTheirWorkflow`); a stable machine runs what it says
  (`StableIsInstalled`); a saved machine never replays its first boot
  (`NeverBackToFirstBoot`) and comes back to its role, or reports that K3s does
  not (`StableAgain`);
* cluster view: who is chosen as join target holds a cluster
  (`JoinTargetsHoldACluster`);
* bootstrap: one cluster (`OneCluster`),
  servers in rank order and one at a time, agents last (`ImplementsFormation`),
  nobody left waiting (`BootstrapCompletes`), nobody blocking etcd
  (`EtcdTurnEnds`);
* joining path: every machine that takes it becomes an agent
  (`JoinersBecomeAgents`), or at least comes to an end (`JoiningEnds`);
* forget-me: no installation under a name the cluster still knows
  (`NamesAreFreedFirst`), only ghosts are erased (`OnlyGhostsAreErased`), one
  round at a time (`OneRoundAtATime`), which ends (`RoundsEnd`);
* rescaling: etcd changes with a majority only, and a live member leaves an even
  membership only (`ImplementsControlPlane`), which keeps the majority
  (theorem `MajorityOutlivesChanges`); a live server leaves only when there are
  too many (`OnlySurplusServersLeave`); K3s is never uninstalled under a live
  etcd member (`MembersAreNotTornDown`); one conversion and one round at a time
  (`OneConversionAtATime`, `OneRoundAtATime`); a conversion remembers its order
  (`ConversionsKeepTheirOrder`); the machines that are gone are
  evicted (`TheGoneAreEvicted`) and the size is reached (`ControlPlaneIsRepaired`).

## 2. The modules

```
Lifecycle <- ClusterView <- Daemon <- Bootstrap <- Joining <- Rescale
    ^                                    |                        |
    +------ Formation <--- refined by ---+                        |
                             ControlPlane <--- refined by --------+
```

* **Lifecycle**: states, state classes, roles, `DesiredServerCount`.
* **ClusterView**: the predicates of `view.go` on one view `v`, a function from
  machines to `[status, state]`.
* **Daemon**: the variables every workflow shares and the steps nobody owns.
  `state[n]` is the lifecycle state and the tag; `view[n][m]` what n's
  memberlist says of m; `inbox[n]` the user events delivered and not yet
  handled; `ops[n]` the goroutines that run a K3s operation, with the phase they
  are in (`start`, `wait` for readiness, `ok` or `error` when the result waits in
  the command channel); `unit`, `cluster`, `file` the disk. Actions: refresh of
  the memberlist (`Learn`), failure detection, suspicion, lost event, crash,
  power on, `ChooseInitialState`, and one action per step of an operation.
* **Bootstrap**: one action per handler of `bootstrap.go` and per button, the
  grace timer, the divert of `maybeStartJoiningPath`, the results. `cohort[n]` is
  `bootstrapProgress.members` (rank, total and role are functions of it).
* **Formation**: what the bootstrap promises, on one variable: machines enter
  one cluster in the order of their ranks. Bootstrap implements it through the
  mapping `Formed` (an install state is `entering`, a stable state a role).
* **Joining**: the joining path and forget-me. `requests[n]` and `confirmed` are
  the forget-me and forgotten events not handled yet, `lookups[n]` the lookups of
  a coordinator, `cleaning[n]` the name its round erases, `nodeObjects[c]` what
  the K3s cluster c knows. It extends Bootstrap: each step of the bootstrap is a
  step here, and `StartJoiningPath` and `JoinOpStep` add what these steps mean to
  the joining variables.
* **Rescale**: the rescaling on top of everything else. `rescale[n]` is
  `rescaleProgress` without `cleaning`: a clock per failed peer
  (`failedSince`), the clock of the imbalance, the hold after an abandoned round
  (`retryNotBefore`), the timer, the order and the names being evicted.
  `MaybeRescale` is one evaluation, with every early return of `maybeRescale`
  in its order; it runs on a membership event (`OnMembershipEvent`), on the
  timer (`OnRescaleCheck`), and inside the handlers that call it
  (`FinishForgettingRound`, `FinishEviction`). `DeleteNodes`, `FailRound`,
  `FinishConversion` and `AbandonRound` are the round of a coordinator;
  `OnRescaleConvert`, `Uninstall`, `Reinstall`, `WaitWithoutQuorum`,
  `OnRescaleConverted` and `FailRescale` are the machine that changes role.
  `orders[n]` are the conversion orders not handled yet. Unlike the modules
  below it, Rescale keeps membership events (`woken`), because an evaluation
  that nothing triggers is one of its hazards. `removals[n]` are the machines that
  left another memberlist by an eviction and will leave that of n (`Prune`). `etcd[c]` follows from the node
  objects: a server that K3s registers is a member until it is deleted.
* **ControlPlane**: what the repairs promise about etcd, in two variables:
  members enter, are evicted once they stopped, or retire from an even
  membership, each with a majority that answers. Rescale implements it
  with `member <- etcd[Min(Established)]`, `alive <- up`.
* **MCBootstrap**, **MCJoining**, **MCRescale**: values of the constants for TLC.
* **BootstrapProofs**, **BootstrapSafety**, **BootstrapFormation**,
  **JoiningProofs**, **RescaleProofs**, **RescaleSafety**,
  **RescaleRefinement**, **ControlPlaneProofs**: theorems.

An operator whose comment begins with "Mutant of" is not part of a specification:
it is a plausible mistake in the operator it names, kept to show that the
property it belongs to would notice (`PROJECT.json`, `mutants`).

### Abstractions

* Machines are numbers, in the order of their names: `Rank`, "lowest name" and
  "highest name" compare names only.
* A membership event is not kept as a message (Rescale excepted). Its handlers read only the state
  and the snapshot, so they may run whenever both allow it. The model therefore
  contains every order of events, and a few more. In Rescale a machine has an
  event to handle when its memberlist changed since, several being one, and the
  fault `drop` takes it away.
* A crash of antsd and a crash of its machine are one action; a machine that is
  down is one whose antsd is down. K3s runs on or comes back by itself.
* The install script is one step that leaves the unit of its role, or fails and
  leaves nothing. A conversion uninstalls, is `bare` for a while, and installs.
* The status `left` does not occur: antsd never calls `Leave` (`manager.go`,
  end of `Run`). `Join` is called with `ignoreOld`, so a machine that starts does
  not receive old events again.
* A machine that was renamed (the node name of the state file differs) is a
  machine with an unusable file: both end in `rejoin_failed`.
* In Joining the rescaling is off (`RescaleEnabled=false`); in Joining and Rescale
  a timer and the command it queues are one step, and a request names its sender.
* In Rescale K3s and its etcd run on a machine as long as its antsd does: `up`
  counts for both. A machine that stayed away for the whole grace period is in
  `gone`, and comes back only if it is `Returning`; which machine that may be is
  the choice of a run. A demotion drains its target; draining may fail without
  consequence in the code and leaves no state.
* An eviction removes a machine from the memberlist of the coordinator, which
  evaluates the cluster at once, and reaches the others later and one by one
  (`Prune`, for the gossip of `RemoveFailedNode`). A machine that is back by then
  is not removed. With `PromptRemovals`, which only a theorem assumes, all
  memberlists change in one step.
* Delays do not exist. Where the code relies on one, a constant says so:
  `GraceSuffices`, `Prompt`, `PromptAnswers`,
  `DelaysSuffice`, `PromptRemovals` (below). Without them every order of timers, messages and
  results is possible.

### Constants and bounds

| Constant | Meaning |
|---|---|
| `Node`, `Established`, `Late`, `Ghosts` | the machines; those that already run a cluster; those powered on later; those that were reset, so that the cluster still knows their names |
| `Acquainted` | the machines that are on know each other from the start |
| `Gossiped` | the tags whose publication or withdrawal reaches the peers. A tag no decision of the run reads need not be gossiped, which keeps `view` small; `InCluster` or more is given where these decisions are in play |
| `Faults`, `MaxFaults` | the kinds of fault that may happen (crash, suspect: a live peer taken for failed, lose: a user event lost, script, timeout, save, torn: a state file unreadable after a crash, send: a broadcast that fails, kubectl: a call to the control plane that fails, drop: a membership event that does not fit in the 64 slots of the channel) and the bound on their number, the only counter of the model |
| `Users` | the machines whose buttons are pressed |
| `GraceSuffices` | the grace period of 10 s lets everybody hear of the request and discover everybody, the purpose `bootstrap.go:25` gives it |
| `Prompt` | an installation (minutes) outlasts the handling of events already delivered |
| `PromptAnswers` | a forget-me is answered, or lost, before the next one 15 s later |
| `Agents`, `Absentees`, `Returning` | the agents of the cluster at the start; its machines that are down at the start; those that may return after the grace period |
| `DelaysSuffice` | orders and tags arrive within the settle delay (30 s by default), and nobody is wrongly suspected for the whole grace period: what these delays are for (`config/config.go:45`, `:49`) |
| `PromptRemovals` | the removal of an evicted machine reaches every memberlist at once; FALSE in every run |

## 3. The runs

A network of three machines has a founder, a second server and a third one; of
two, a founder and an agent (`DesiredServerCount(2) = 1`); of four, three
servers and an agent. One or two faults are enough to interrupt an operation
and then its recovery. More machines repeat these roles; what holds for every
number is proved (section 5).

| Run | Network | Checks | Shows |
|---|---|---|---|
| faults2 | 2 that discover each other, one of them with a user, two of all faults | `TypeOK` `ResultsReachTheirWorkflow` `StableIsInstalled` `JoinTargetsHoldACluster` `NeverBackToFirstBoot` `EtcdTurnEnds` `StableAgain` | crash, torn file, failed save, script, timeout and suspicion at any moment of the bootstrap and of the rejoin; no machine keeps an etcd-changing state, and whoever has a role comes back to it |
| completes | 4, two users, no fault, `GraceSuffices`, `Prompt` | `OneCluster` `ImplementsFormation` `BootstrapCompletes` | the smallest network where an agent waits for several servers; one cluster, in order, nobody waits for ever |
| joining_faults | a server and a ghost named above it, nobody asks for a new cluster; two of all faults, answers at any time | `JoiningTypeOK` `NamesAreFreedFirst` `JoiningEnds` | the main promise of the joining path depends neither on promptness nor on luck; requests, lookups, rounds and crashes overlap, which may cost the joiner its node object, and yet it never waits for good |
| rescale_repairs | a server and two agents, one of all faults but crash, torn, suspect and drop | `StableIsInstalled` `ConversionsKeepTheirOrder` `OneConversionAtATime` `OneRoundAtATime` `ControlPlaneIsRepaired` | two promotions in a row, whatever single step of them fails |
| rescale_faults | three servers, one of all faults | `RescaleTypeOK` `ImplementsControlPlane` `OnlySurplusServersLeave` | a server stops, for a short or a long time: it is evicted, and another one demoted, or it comes back in the middle. The stop is the one fault: nothing else fails with it |
| rescale_evicts | three servers and an agent, of which a server and the agent are gone; two of kubectl / send / lose / script | `TheGoneAreEvicted` `ImplementsControlPlane` `MembersAreNotTornDown` | the rounds of the eviction and of the demotion that follows fail half way, twice, and the repair is finished all the same |
| rescale_newcomer | a server and a reset machine, the lowest name, with a user, which do not know each other; three of lose / send / save / kubectl; `PromptAnswers` | `OneCluster` `ResultsReachJoiningToo` `JoinersBecomeAgents` `RoundsEnd` | bootstrap, joining path, forget-me and rescaling in one behaviour, with stale memberlists: the newcomer, rank zero of its own bootstrap, founds no second cluster; on the joining path it becomes an agent, and retries make up for losses |

These bounds reach the case each run is for: a lone server of three machines
needs two promotions (the second one meets the traces of the first), three
servers of which one stops need an eviction and a demotion, and with three
machines two of them can disagree on who the coordinator is. Where machines are
gone from the start (`Absentees`), as in rescale_evicts, the faults are left for
the repair: two of them make a round fail after its first deletion and the next
one too, or make Serf refuse a removal twice.

`TheGoneAreEvicted` asks that etcd answers in the end: with most of its members
gone no round passes `checkQuorum`. It is checked without crashes and without
dropped events, because with either of them it does not hold. A coordinator that
restarts in the middle of an eviction is the lowest name again, and never hears of
the machine that failed (the cause of restarted_coordinator), so nobody finishes
the eviction, although `rescale.go:22` says that the next coordinator redoes the
work. And when the event of the failure is dropped by the full channel, no
evaluation runs, so no timer is armed either.

`StableAgain` allows `rejoin_failed`, because among all faults a rejoin may pass
its deadline; `EtcdTurnEnds` then has the other machines go on. A joiner of
`JoiningEnds` ends as an agent or in `fb_joining_failed`, unless a server halted.
Nobody presses a button in joining_faults: the bootstrap beside a running cluster is
in rescale_newcomer, and in ghost_ranked, which shows what it does to
`NamesAreFreedFirst`.

`OnlyGhostsAreErased` is in no passing run: as soon as a machine may ask again
before its last answer, or two servers look the same request up, a late answer
erases the machine that joins (joiner_erased). What is left of the promise is
`JoiningEnds`: the machine that was erased does not wait for ever.

What holds only within the bounds of its run:

* `OneRoundAtATime` and `OneConversionAtATime` need the absence of suspicion and
  of crashes: a server that does not see another one cannot know of its round
  or of the conversion it ordered. `OneRoundAtATime` also needs that no machine
  was away to begin with (section 5).
* `ImplementsControlPlane` is checked where a crash meets three servers. With
  two servers, an agent and a crash, two servers may prepare the same machine for
  promotion, and the later of the two deletions removes a server that entered
  meanwhile from an odd membership. The docs call the election advisory
  (`docs/logics/rescaling.md`); the model shows what that costs.
* With four servers and one crash `ImplementsControlPlane` does not hold either: when
  the target of a demotion stops between its deletion and its conversion, it keeps
  its place in the count of the coordinator, which deletes another server, from an
  odd membership. rescale_faults has three servers, and therefore no demotion
  before an eviction.
* rescale_newcomer has no crash: a newcomer that is switched on while the only
  server is down never hears of the cluster, and founds a second one.
* `NamesAreFreedFirst` is about the joining path: it fails when the machine's own
  bootstrap may run (ghost_ranked). In rescale_newcomer the newcomer is the lowest
  name, so `RefuseToInitialize` stops it; the property is not checked there.

Deadlock is not checked: a formed cluster whose faults are spent has nothing to
do, and a failed first boot is terminal by design (a factory reset is asked for).

### Runs that find the code at odds with its documentation

* **ghost_ranked** (`NamesAreFreedFirst`): `forget.go:23` promises that a machine
  never installs without an answer, and `:27` that a virgin machine that sees a
  cluster never takes the bootstrap path. The start signal of its own bootstrap may
  be handled after the memberlist learned the server and before the event that
  diverts the machine. Only rank 0 refuses then; a machine named above the server
  takes the role of an agent and installs under a name the cluster still knows.
* **second_cluster** (`OneCluster`): the guard against a second cluster reads
  tags that do not yet say so while the founder installs. A machine switched on
  during those minutes founds another cluster.
* **joiner_erased** (`OnlyGhostsAreErased`): without `PromptAnswers`. The first
  of two lookups confirms a machine; it installs and registers; the second
  finds its new node object (`node/state.go:104` says such a machine "runs no
  K3s"). `fb_joining_agent` is still a first-boot state, so
  the guard lets the coordinator erase the machine that is joining.
* **misdelivered** (`ResultsReachJoiningToo`): a confirmation for the request of
  the previous life is accepted while the check of the new life runs. The
  machine installs beside its check, whose success is then taken for the
  success of the installation.
* **restarted_coordinator** (`OnlySurplusServersLeave`): `view.go:112` promises
  that a failed member keeps its place, but the memberlist is in memory only. A
  server whose antsd restarts never hears of the peer that failed before, and, as
  the coordinator, counts two machines and a server too many: a live server
  leaves an etcd that had lost one already.

Two smaller divergences met on the way have no run of their own.
`docs/logics/bootstrap.md:140` promises that two machines form a cluster without
agents; `DesiredServerCount(2) = 1` (`node/role.go:14`, theorem
`ControlPlaneSize`), so they form a server and an agent. `bootstrap.go:12` and
`:138` say that a second start signal is absorbed, because receivers deduplicate by
state; a machine that waits for its turn is still in the state that expects the
signal and ranks again (`ComputeRole` has no guard on `cohort`): with a machine
discovered in between, an agent of two becomes a server of three.

## 4. Fairness

`Fairness`, `JoiningFairness` and `RescaleFairness` assume weak fairness of

* the handlers of each machine: the run loop serves both channels and no handler
  blocks;
* the timers and the goroutines of K3s operations and lookups: each ends, by
  success or by its own deadline (`firstBootTimeout`, `rejoinTimeout`,
  `forgetProbeTimeout`, `rescaleCoordinationTimeout`);
* the start of a machine that is down: systemd restarts antsd;
* the refresh of each memberlist entry and the detection of a machine that is
  gone: Serf's gossip and failure detector.

A fault is never fair, and nobody is obliged to press a button. `OpStep` under
fairness means that K3s becomes ready unless a fault says otherwise. In Joining,
`MaybeJoinCluster` and `OnJoinWaitExpired` share one condition because either of
them takes the decision. `OnForgetRetry` is fair because the timer is armed again
by every request.

In Rescale the assumption is one per thread of activity of a machine: its
membership events, its rescaling check, its clocks, its goroutines, its results,
its events and timers, the upkeep of its memberlist, the removals that reach it,
its start. Each is served
by its own goroutine or timer in the code, and none of them waits for another.
The clocks are fair because time passes; `DelaysSuffice` only delays them.

## 5. The proofs

All theorems hold for every finite set of machines and every value of the other
constants that satisfies the assumptions of the modules: the machines are natural
numbers and finitely many, the subsets are subsets, the switches are Booleans,
`None` is neither a machine nor an order, and for Rescale there is a cluster to
begin with. No bound on the faults is used.

* `BootstrapProofs!ControlPlaneSize`: the number of servers for a population
  is the largest odd number that exceeds neither the population nor seven.
* `BootstrapProofs!TypeCorrectness`: `TypeOK` is inductive by itself; lemmas
  state what each helper (`Observe`, `Transition`, `InPhase`, `BecomeStable`)
  returns, then one lemma per group of actions.
* `BootstrapSafety`: `ResultsNeverMisdelivered`,
  `StableMachinesAreInstalled`, `TargetsHoldACluster`,
  `FirstBootIsNeverReplayed`, under all faults. The inductive invariant is
  `SafetyInv`. The four properties need each other and two more facts:
  `OpsKnowTheDisk` (an operation past its script finds its own unit, one that
  rejoins finds the unit of the file, one that joins was given a server with a
  cluster) and `UnitsHoldData`. Without the first, the result of an operation
  would say nothing about the disk when it is handled; without the uniqueness of
  operations, it could be another workflow's result. A memberlist entry
  "stable_server" may be arbitrarily old, so `JoinTargetsHoldACluster` speaks of
  every entry, failed ones included, and holds because K3s data is never removed.
* `BootstrapFormation!OneClusterOnly` holds when every machine
  knows all others and none stops or is suspected (`SteadyNetwork`). The
  invariant `SteadyInv` adds that every memberlist is whole, hence every cohort
  is the whole network, hence only the lowest name is rank 0. The violation
  runs show what happens without the assumption.
* `BootstrapFormation!BootstrapFormsTheCluster`: on such a network, when no
  installation fails (`FormingNetwork`), `Spec => ImplementsFormation`. The
  invariant adds that a "stable_server" entry is true (`TagsAreTrue`: nobody
  leaves that state here), that roles are those of the ranks, and that whoever
  enters has all its predecessors in (`EntersInOrder`). The counting argument is
  `ServersBefore`: with as many stable servers in sight as its rank, and those
  only of lower rank, a machine sees all lower ranks stable.

* `JoiningProofs!JoiningTypeCorrectness`, under all faults, and
  `JoiningResultsReachTheirWorkflow`: `ResultsReachJoiningToo` as long as antsd
  does not stop (`"crash" \notin Faults`; misdelivered shows why that is needed).
  The invariant adds `JoinerInOrder`: what a joiner remembers agrees with its
  state, and nothing is asked on its behalf (`NothingAsked`: no request, lookup,
  round or confirmation anywhere) until its check has ended. So a confirmation,
  the only event that could start an installation beside the check, cannot exist
  before the request, however many servers answer it and however late.
* `JoiningProofs!NamesFreedBeforeInstalls`: `NamesAreFreedFirst` under all
  faults, crashes and any number of servers included, as long as nobody asks for
  another cluster (`Users = {}`; ghost_ranked shows why that is needed). The
  invariant, `Sound` of every machine, ties what a machine was told to what is
  true: whoever holds a confirmation, an answer "absent", a finished deletion or
  an installation under way speaks of a name that is `Free` in the cluster. A
  free name stays free until its machine is installed (`DiskKept`), so nothing
  of this goes stale, however late it arrives. It rests on `TrustsFounders` (only
  founders ever look like servers, in any memberlist) and `OpsInOrder` (the
  result a coordinator handles is that of its own deletion).
* `JoiningProofs!RoundsAreExclusive`: `OneRoundAtATime`, with `Users = {}`, as
  long as no machine stops or is suspected. Memberlists may lag: a server that
  does not see the first one stable sees it in a round, and
  `EtcdMembershipChanging` holds it back (`FirstCoordinates`). That is for the
  forget-me rounds; for those of the rescaling see `RescaleRefinement`.
* `RescaleProofs!RescaleTypeCorrectness` and `OrdersOutliveConversions`, under
  all faults. The two need each other: the role saved at the end of a conversion
  is read from the order in memory, so the state file is well typed only if the
  order is still there. The invariant is `RescaleInv`. Each step of the earlier
  modules enters through two facts: it preserves their types, and it begins no
  conversion (`NoneConverts`); an evaluation preserves both the state and the
  order of a machine that is not stable (`Evaluated`), whatever memberlist it
  reads.
* `RescaleSafety!ResultsReachRunningClusters` and
  `StableIsInstalledInRunningClusters`, under all faults, crashes included, for a
  cluster without newcomers (`SettledNetwork`: every machine belongs to it at the
  start). The invariant is `AllOrderly`: of each machine, `PastFirstBoot` (nothing
  of the first boot and of the joining path is left, so their steps cannot happen,
  `OnlySettledSteps`), `RemembersItsOrder` (an order is of the machine's own round
  or of its own conversion), `WorksInOrder` (its one operation is the one of its
  state, obeys the order it remembers and knows what its script left on the disk)
  and `HoldsItsRole`. The phases of a conversion are why they need each other:
  between the two scripts the disk agrees with the operation only, and at the end
  the role comes from the order.
* `RescaleSafety!ConversionsExcludeEachOther`: `OneConversionAtATime`, for any
  number of servers and agents, under `NothingStops`: a settled cluster,
  `DelaysSuffice`, no crash, no suspicion, and the machines that were away stay
  away. Scripts, deadlines, saves, broadcasts, calls, orders and events may fail
  or be lost, without a bound. The invariant is `Calm`. `OneOrder` follows the
  order through its three places: the round of its coordinator, the inbox of its
  target, the conversion of its target; it is in one of them only, and no other
  order is anywhere. That alone is not inductive: a second order can only come
  from a machine whose settle delay ended (`Due`), and the memberlist by which
  that machine judges may be old. `Guarded` says what stops it: it still sees a
  lower server, or, being the coordinator, still sees its own target convert.
  `LeadsTheOthers` says why there is one such machine: the delay ends when
  everybody is informed, so that whoever is due afterwards either sees a lower
  server or is the lowest itself, and servers promoted since are still
  converting in its eyes, which `EtcdMembershipChanging` refuses to act on. Every
  step is first shown to have one of seven effects on orders (`Quiet`,
  `Decides`, `Dispatches`, `Drops`, `Obeys`, `IsDone`, `Settles`), then each
  effect to keep the invariant.
* `RescaleSafety!TornDownAfterDeletion`: `MembersAreNotTornDown`, under
  `NothingStops`. To `Calm` the invariant `Drained` adds `DeletedFirst`: whoever
  is to be converted (`ToConvert`: its deletion succeeded, its order is delivered,
  or its K3s is not uninstalled yet) is no node of the cluster. Only the second half
  of a conversion registers a machine that runs, and by `OneOrder` no order for it
  can be pending then.
* `ControlPlaneProofs!MajorityOutlivesChanges`: for any number of machines, what
  `ControlPlane` allows keeps the majority through every change of the membership.
  The parity rule of `Retire` is the one `DesiredServerCount` follows.
* `RescaleRefinement!RescalingImplementsControlPlane`, `SurplusServersLeave` and
  `RescalingKeepsTheQuorum`: `ImplementsControlPlane`, `OnlySurplusServersLeave`
  and, with the theorem about `ControlPlane`, its `MajorityIsKept` for the
  rescaling, under `RoundsSucceed`: `NothingStops`, no broadcast and no call of a
  round fails, removals reach every memberlist at once (`PromptRemovals`: a later
  coordinator must not count a machine that was evicted), and the cluster begins
  with at most `MaxServers` servers. Scripts,
  conversions, deadlines, saves, orders and events may still fail or be lost,
  without a bound, and any number of machines may be away for good, so that
  evictions, promotions and demotions all happen. The proof follows a retirement
  back to what its coordinator counted when it decided. The invariant, `Census`,
  says why that count is the etcd membership:
  - `Enrolled`: only the one cluster has nodes, and a server among them is a
    member.
  - `Aware` and `Sole` (turns): a machine whose settle delay is over, and that
    sees no lower server, knows what the others do, so that nobody else
    coordinates or converts once it prepared an order.
  - `Remembered` (absentees): servers that are away are known to everybody or to
    nobody, while they are members and no longer than their eviction lasts
    (`MembersKnown`, `KnownAreMembers`); only machines that are gone are evicted,
    and an order is for a machine that runs.
  - `Manned` (members): agents are no members; servers are, until they are
    deleted for their conversion, and so is whoever was promoted; until the
    target of a demotion is deleted, there are more servers than the
    population calls for (`Decision`), and never more than `MaxServers` machines
    hold or may take a seat (`FewSeats`).

  The last step is counting (`DemotionsAreEven`): too many servers although there
  are at most seven means that all machines that count serve and that their
  number is even, so the member retires from an even membership.
* `RescaleRefinement!RescalingRoundsAreExclusive`: `OneRoundAtATime` under
  `NothingStops` when nobody is away, calls and broadcasts of rounds failing or
  not. Every round is then one for an order, whose coordinator waited for the
  settle delay and finds the turn free (`Aware`). The round of an eviction waits
  for a deadline of its own: with a machine away and a tag that lags behind for
  the whole promotion of a lower machine, TLC finds two evictions of it at the
  same time, so this hypothesis cannot be dropped.

Only model-checked: `OnlySurplusServersLeave` and
`ImplementsControlPlane` where machines stop, a call or a broadcast of a
round fails, or removals reach the memberlists one by one; `MembersAreNotTornDown` where machines are gone (rescale_evicts); liveness under fairness
(`BootstrapCompletes`, `StableAgain`, `EtcdTurnEnds`, `JoinersBecomeAgents`,
`JoiningEnds`, `RoundsEnd`, `TheGoneAreEvicted`, `ControlPlaneIsRepaired`), which needs ENABLED.

## 6. What is not modelled

* mDNS discovery: its only state is the set of addresses already tried; what the
  rest sees of it is the first `Learn` of a peer, at any time. An address is marked
  before `Join` is tried (`mdns.go:148`), so two machines whose joins both fail
  once never meet through antsd; nothing in the code promises more.
* Configuration, logging and the pages of the admin server (its buttons are the
  user actions of Bootstrap): read once, or output.
* K3s scripts, commands and probes, Serf gossip, `Join` and `Leave` (never called
  by a workflow): I/O and libraries. What they leave behind is modelled.
* The image and its deployment run before antsd.

Worth doing next: the refinement where calls of a round fail. An eviction that
deleted a machine from K3s and then could not finish leaves it in the memberlist
as a failed server that is no member any more. The coordinator counts it, so the
servers it sees are not the etcd membership, and `RoundsSucceed` leaves that case
to TLC. The invariant would have to carry the removed machines along until the
round is repeated. With crashes the count differs even more (section 3, what
holds only within the bounds of its run).
