---------------------------- MODULE MCBootstrap ----------------------------
(***************************************************************************)
(* Values of the constants of Bootstrap for TLC.                           *)
(***************************************************************************)
EXTENDS Bootstrap

MCNode2 == 0..1
MCNode3 == 0..2
MCNode4 == 0..3
MCNobody == {}
MCFirst == {0}
MCLast2 == {1, 2}
MCServerTag == {"stable_server"}
MCClusterTags == InCluster
=============================================================================
