----------------------------- MODULE MCRescale -----------------------------
(***************************************************************************)
(* Values of the constants of Rescale for TLC.                             *)
(***************************************************************************)
EXTENDS Rescale

MCNode2 == 0..1
MCNode3 == 0..2
MCNobody == {}
MCFirst == {0}
MCNode4 == 0..3
MCSecond == {1}
MCLast4 == {3}
MCUpper == {2, 3}
MCLast2 == {1, 2}
MCTags == InCluster \cup {"starting"}
MCCrashes == {"crash"}
MCRoundFaults == {"kubectl", "send", "lose", "script"}
MCCallFaults == {"lose", "send", "kubectl", "save"}
MCQuietFaults == FaultKind \ {"crash", "torn", "suspect", "drop"}
=============================================================================
