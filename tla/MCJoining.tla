----------------------------- MODULE MCJoining -----------------------------
(***************************************************************************)
(* Values of the constants of Joining for TLC.                             *)
(***************************************************************************)
EXTENDS Joining

MCNode2 == 0..1
MCNode3 == 0..2
MCNobody == {}
MCFirst == {0}
MCLast2 == {1}
MCCrashes == {"crash"}
MCCallFaults == {"lose", "send", "kubectl", "save"}
MCTags == InCluster \cup {"starting"}
=============================================================================
