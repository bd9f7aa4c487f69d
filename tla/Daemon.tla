------------------------------- MODULE Daemon -------------------------------
(***************************************************************************)
(* The part of antsd every workflow shares: one run loop per machine that  *)
(* reads Serf events and commands (internal/cluster/manager.go), the       *)
(* memberlist each machine keeps of its peers, the broadcasts, the K3s     *)
(* operations that run in goroutines, and what outlives antsd: the K3s     *)
(* unit, its data and the state file.                                      *)
(*                                                                         *)
(* A machine's own state is the tag its Serf advertises.  A peer sees that *)
(* tag when its memberlist is refreshed (Learn), at any later time.  The   *)
(* handler of a membership event reads only the state and the memberlist,  *)
(* so it may run whenever they allow it; the event itself is not kept.     *)
(***************************************************************************)
EXTENDS ClusterView

CONSTANTS
  Node,        \* the machines, numbered in the order of their names
  None,        \* no machine, no cluster
  Established, \* the machines that already run a K3s cluster, as servers
  Late,        \* the machines that are not powered on yet
  Acquainted,  \* TRUE: the machines that are on know each other from the start
  Gossiped,    \* the tags whose publication or withdrawal is gossiped
  Prompt,      \* TRUE: user events are handled before an installation ends
  Faults,      \* the kinds of fault that may happen
  MaxFaults    \* how many faults may happen

\* The faults: antsd or its machine stops; a live peer is suspected; a user
\* event is lost; the install script fails; K3s does not report ready in time;
\* the state file cannot be written; or is unreadable after a crash; a
\* broadcast fails; a call to the K3s control plane fails; a membership event
\* is dropped because the event channel is full.
FaultKind ==
  {"crash", "suspect", "lose", "script", "timeout", "save", "torn", "send", "kubectl", "drop"}

ASSUME DaemonAssumption ==
  /\ Node \subseteq Nat /\ IsFiniteSet(Node)
  /\ None \notin Node
  /\ Established \subseteq Node /\ Late \subseteq Node \ Established
  /\ Acquainted \in BOOLEAN /\ Prompt \in BOOLEAN
  /\ Gossiped \subseteq State
  /\ Faults \subseteq FaultKind
  /\ MaxFaults \in Nat

VARIABLES
  up,      \* the machines whose antsd is running
  state,   \* state[n]: the lifecycle state of n, advertised in its tag
  view,    \* view[n][m]: how n's memberlist knows its peer m
  inbox,   \* inbox[n]: the user events delivered to n and not yet handled
  ops,     \* ops[n]: the K3s operations n runs in goroutines
  unit,    \* unit[n]: the K3s systemd unit installed on n
  cluster, \* cluster[n]: the K3s cluster n's data belongs to, by its founder
  file,    \* file[n]: the state file on n's disk
  faults   \* how many faults happened

diskVars == <<unit, cluster>>
daemonVars == <<up, state, view, inbox, ops, unit, cluster, file, faults>>

EventName == {"bootstrap-requested", "bootstrap-start"}
OpPhase == {"start", "bare", "wait", "ok", "error"}

\* A K3s operation; via is the server whose address it was given, or the
\* machine whose name it removes.  A conversion is "bare" between the
\* uninstallation and the installation.
Op == [kind : {"init", "rejoin", "check", "evict"}, via : {None}, phase : OpPhase]
      \cup [kind : {"server", "agent", "erase", "prepare", "promote", "demote"},
            via : Node, phase : OpPhase]

\* What InstalledRole finds: the script of a role leaves the unit of that role.
InstalledUnit == Role \cup {"none"}

\* What Load may find: no file, a role, or a file it cannot use.
StateFile == Role \cup {"none", "unusable"}

DaemonTypeOK ==
  /\ up \subseteq Node
  /\ state \in [Node -> State]
  /\ view \in [Node -> [Node -> Member]]
  /\ inbox \in [Node -> SUBSET EventName]
  /\ ops \in [Node -> SUBSET Op]
  /\ unit \in [Node -> InstalledUnit]
  /\ cluster \in [Node -> Node \cup {None}]
  /\ file \in [Node -> StateFile]
  /\ faults \in 0..MaxFaults

----------------------------------------------------------------------------
\* Helpers of the handlers.

\* The run loop of n serves its channels.
Running(n) == n \in up /\ state[n] # "starting"

\* observeCluster: the memberlist of n, its own up-to-date entry included.
Observe(n) == [view[n] EXCEPT ![n] = AliveAs(state[n])]

Transition(n, to) == state' = [state EXCEPT ![n] = to]

\* One more fault of the given kind happens.
Fault(kind) ==
  /\ kind \in Faults
  /\ faults < MaxFaults
  /\ faults' = faults + 1

\* A user event of n reaches n itself and the machines n sees alive.
Hears(n, m) == m \in up /\ (m = n \/ view[n][m].status = "alive")

Broadcast(n, event) ==
  [m \in Node |-> IF Hears(n, m) THEN inbox[m] \cup {event} ELSE inbox[m]]

Handled(n, event) == [inbox EXCEPT ![n] = @ \ {event}]

NewOp(kind, via) == [kind |-> kind, via |-> via, phase |-> "start"]

Starting(n, op) == [ops EXCEPT ![n] = @ \cup {op}]
Without(n, op) == [ops EXCEPT ![n] = @ \ {op}]
InPhase(n, op, phase) ==
  [ops EXCEPT ![n] = (@ \ {op}) \cup {[kind |-> op.kind, via |-> op.via, phase |-> phase]}]

\* Every running machine sees every other one.
EveryoneMet ==
  \A n, m \in up : Running(n) /\ (n # m => view[n][m].status = "alive")

NoPendingEvent == \A n \in up : inbox[n] = {}

----------------------------------------------------------------------------
\* Serf: discovery, gossip and failure detection.

\* The memberlist of n is refreshed with the tag of m.
Learn(n, m) ==
  /\ n # m /\ n \in up /\ m \in up
  /\ \/ view[n][m].status # "alive"
     \/ view[n][m].state # state[m] /\ {view[n][m].state, state[m]} \cap Gossiped # {}
  /\ view' = [view EXCEPT ![n][m] = AliveAs(state[m])]
  /\ UNCHANGED <<up, state, inbox, ops, diskVars, file, faults>>

\* Serf notices that a machine is gone.
DetectFailure(n, m) ==
  /\ n # m /\ n \in up /\ m \notin up
  /\ view[n][m].status = "alive"
  /\ view' = [view EXCEPT ![n][m] = FailedAs(@.state)]
  /\ UNCHANGED <<up, state, inbox, ops, diskVars, file, faults>>

\* Serf takes a live machine for a failed one.
Suspect(n, m) ==
  /\ n # m /\ n \in up /\ m \in up
  /\ view[n][m].status = "alive"
  /\ view' = [view EXCEPT ![n][m] = FailedAs(@.state)]
  /\ Fault("suspect")
  /\ UNCHANGED <<up, state, inbox, ops, diskVars, file>>

\* A user event never reaches n's run loop: gossip missed it, or the channel
\* was full.
Lose(n, event) ==
  /\ event \in inbox[n]
  /\ inbox' = Handled(n, event)
  /\ Fault("lose")
  /\ UNCHANGED <<up, state, view, ops, diskVars, file>>

----------------------------------------------------------------------------
\* antsd stops and starts.

\* antsd stops, alone or with its machine: its memory is lost, K3s and the disk
\* remain.  A file that was never synced may come back unreadable.
Crash(n) ==
  /\ n \in up
  /\ Fault("crash")
  /\ up' = up \ {n}
  /\ state' = [state EXCEPT ![n] = "starting"]
  /\ view' = [view EXCEPT ![n] = [m \in Node |-> Absent]]
  /\ inbox' = [inbox EXCEPT ![n] = {}]
  /\ ops' = [ops EXCEPT ![n] = {}]
  /\ \/ UNCHANGED file
     \/ /\ "torn" \in Faults /\ file[n] # "none"
        /\ file' = [file EXCEPT ![n] = "unusable"]
  /\ UNCHANGED diskVars

\* antsd starts: Serf comes first, the run loop is not serving yet.
PowerOn(n) ==
  /\ n \notin up
  /\ up' = up \cup {n}
  /\ UNCHANGED <<state, view, inbox, ops, diskVars, file, faults>>

\* Mutant of ChooseInitialState: an unreadable file is taken for a missing one.
ChooseInitialStateLeniently(n) ==
  /\ n \in up /\ state[n] = "starting"
  /\ \/ /\ file[n] \in {"none", "unusable"}
        /\ Transition(n, "fb_discovering")
        /\ UNCHANGED ops
     \/ /\ file[n] \in Role
        /\ Transition(n, "rejoin_cluster")
        /\ ops' = Starting(n, NewOp("rejoin", None))
  /\ UNCHANGED <<up, view, inbox, diskVars, file, faults>>

\* Mutant of ChooseInitialState: nothing waits for K3s to come back.
ChooseInitialStateIdly(n) ==
  /\ n \in up /\ state[n] = "starting"
  /\ Transition(n, IF file[n] = "none" THEN "fb_discovering"
                   ELSE IF file[n] = "unusable" THEN "rejoin_failed" ELSE "rejoin_cluster")
  /\ UNCHANGED <<up, view, inbox, ops, diskVars, file, faults>>

\* chooseInitialState and startRejoin: the state file decides.
ChooseInitialState(n) ==
  /\ n \in up /\ state[n] = "starting"
  /\ \/ /\ file[n] = "none"
        /\ Transition(n, "fb_discovering")
        /\ UNCHANGED ops
     \/ /\ file[n] = "unusable"
        /\ Transition(n, "rejoin_failed")
        /\ UNCHANGED ops
     \/ /\ file[n] \in Role
        /\ Transition(n, "rejoin_cluster")
        /\ ops' = Starting(n, NewOp("rejoin", None))
  /\ UNCHANGED <<up, view, inbox, diskVars, file, faults>>

----------------------------------------------------------------------------
\* K3s operations.  They run beside the run loop and end with a result that it
\* handles as a command.

Install(op) == op.kind \in {"init", "server", "agent"}
RoleOf(op) == IF op.kind = "agent" THEN "agent" ELSE "server"

\* ensureK3sIsNotInstalled: a machine that holds a K3s unit is not installed
\* again.
RefuseToReinstall(n, op) ==
  /\ op \in ops[n] /\ op.phase = "start" /\ Install(op)
  /\ unit[n] # "none"
  /\ ops' = InPhase(n, op, "error")
  /\ UNCHANGED <<up, state, view, inbox, diskVars, file, faults>>

\* The install script leaves a unit behind, whatever its exit code: K3s founds
\* a cluster, or enters the one of the server it was given.
RunInstallScript(n, op) ==
  /\ op \in ops[n] /\ op.phase = "start" /\ Install(op)
  /\ unit[n] = "none"
  /\ unit' = [unit EXCEPT ![n] = RoleOf(op)]
  /\ cluster' = [cluster EXCEPT ![n] = IF op.kind = "init" THEN n ELSE cluster[op.via]]
  /\ ops' = InPhase(n, op, "wait")
  /\ UNCHANGED <<up, state, view, inbox, file, faults>>

\* The install script fails and leaves nothing.
FailInstallScript(n, op) ==
  /\ op \in ops[n] /\ op.phase = "start" /\ Install(op)
  /\ unit[n] = "none"
  /\ Fault("script")
  /\ ops' = InPhase(n, op, "error")
  /\ UNCHANGED <<up, state, view, inbox, diskVars, file>>

\* checkInstalledRole: the unit must be the one the state file describes.
CheckInstalledRole(n, op) ==
  /\ op \in ops[n] /\ op.phase = "start" /\ op.kind = "rejoin"
  /\ ops' = InPhase(n, op, IF unit[n] = file[n] THEN "wait" ELSE "error")
  /\ UNCHANGED <<up, state, view, inbox, diskVars, file, faults>>

\* K3s reports ready.  When Prompt, an installation (minutes) outlasts the
\* handling of the events already delivered (seconds).
BecomeReady(n, op) ==
  /\ op \in ops[n] /\ op.phase = "wait"
  /\ Prompt /\ Install(op) => NoPendingEvent
  /\ ops' = InPhase(n, op, "ok")
  /\ UNCHANGED <<up, state, view, inbox, diskVars, file, faults>>

\* K3s does not report ready within firstBootTimeout or rejoinTimeout.
TimeOut(n, op) ==
  /\ op \in ops[n] /\ op.phase = "wait"
  /\ Fault("timeout")
  /\ ops' = InPhase(n, op, "error")
  /\ UNCHANGED <<up, state, view, inbox, diskVars, file>>

----------------------------------------------------------------------------
\* Save replaces the state file, or fails and leaves the old one.
Save(n, role) ==
  \/ file' = [file EXCEPT ![n] = role] /\ UNCHANGED faults
  \/ UNCHANGED file /\ Fault("save")

\* becomeStable: the role is saved, then the stable state is entered, even when
\* the save failed.
BecomeStable(n, role) ==
  /\ Transition(n, StableState(role))
  /\ Save(n, role)

\* onRejoinReady: K3s is up again, the role on disk is kept.
OnRejoinReady(n, op) ==
  /\ op \in ops[n] /\ op.phase = "ok" /\ state[n] = "rejoin_cluster"
  /\ BecomeStable(n, file[n])
  /\ ops' = Without(n, op)
  /\ UNCHANGED <<up, view, inbox, diskVars>>

\* failRejoin
FailRejoin(n, op) ==
  /\ op \in ops[n] /\ op.phase = "error" /\ state[n] = "rejoin_cluster"
  /\ Transition(n, "rejoin_failed")
  /\ ops' = Without(n, op)
  /\ UNCHANGED <<up, view, inbox, diskVars, file, faults>>

----------------------------------------------------------------------------
DaemonInit ==
  /\ up = Node \ Late
  /\ state = [n \in Node |-> IF n \in Established THEN "stable_server"
                             ELSE IF n \in Late THEN "starting" ELSE "fb_discovering"]
  /\ view = [n \in Node |-> [m \in Node |->
               IF /\ n # m /\ {n, m} \cap Late = {}
                  /\ Acquainted \/ {n, m} \subseteq Established
               THEN AliveAs(state[m]) ELSE Absent]]
  /\ inbox = [n \in Node |-> {}]
  /\ ops = [n \in Node |-> {}]
  /\ unit = [n \in Node |-> IF n \in Established THEN "server" ELSE "none"]
  /\ cluster = [n \in Node |-> IF n \in Established THEN Min(Established) ELSE None]
  /\ file = [n \in Node |-> IF n \in Established THEN "server" ELSE "none"]
  /\ faults = 0

\* Steps of the network and of the machines that no workflow owns.
Environment ==
  \/ \E n, m \in Node : Learn(n, m) \/ DetectFailure(n, m) \/ Suspect(n, m)
  \/ \E n \in Node, event \in EventName : Lose(n, event)
  \/ \E n \in Node : PowerOn(n) \/ ChooseInitialState(n)

\* Steps of the goroutines that run K3s operations.
OpStep(n, op) ==
  \/ RefuseToReinstall(n, op) \/ RunInstallScript(n, op) \/ FailInstallScript(n, op)
  \/ CheckInstalledRole(n, op) \/ BecomeReady(n, op) \/ TimeOut(n, op)

\* The results that the rejoin workflow handles.
RejoinStep(n, op) == OnRejoinReady(n, op) \/ FailRejoin(n, op)
=============================================================================
