----------------------------- MODULE Formation -----------------------------
(***************************************************************************)
(* What the bootstrap promises to the user who confirmed it: the machines  *)
(* on the network form one cluster.  The lowest name founds it; the other  *)
(* servers enter one at a time in the order of their names, because etcd   *)
(* admits a single membership change at a time; the agents enter, in any   *)
(* order and together, once every server is in.                            *)
(* (docs/logics/bootstrap.md, "Mécanisme de bootstrapping".)               *)
(***************************************************************************)
EXTENDS Lifecycle, FiniteSets

CONSTANT Node

VARIABLE member \* member[n]: out, entering, server or agent

Progress == {"out", "entering", "server", "agent"}

TypeOK == member \in [Node -> Progress]

Position(n) == Cardinality({m \in Node : m < n})

RoleOf(n) == RoleForRank(Position(n), Cardinality(Node))

Servers == {m \in Node : RoleOf(m) = "server"}

\* The servers that must be in before n enters.
Before(n) == IF RoleOf(n) = "server" THEN {m \in Node : m < n} ELSE Servers

Init == member = [n \in Node |-> "out"]

Enter(n) ==
  /\ member[n] = "out"
  /\ \A m \in Before(n) : member[m] = "server"
  /\ member' = [member EXCEPT ![n] = "entering"]

Complete(n) ==
  /\ member[n] = "entering"
  /\ member' = [member EXCEPT ![n] = RoleOf(n)]

Next == \E n \in Node : Enter(n) \/ Complete(n)

Spec == Init /\ [][Next]_member
=============================================================================
