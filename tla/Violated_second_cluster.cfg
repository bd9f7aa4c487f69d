SPECIFICATION Spec
CONSTANTS
  None = None
  Node <- MCNode2
  Established <- MCNobody
  Late <- MCFirst
  Acquainted = TRUE
  Gossiped <- MCServerTag
  Prompt = FALSE
  Faults <- MCNobody
  MaxFaults = 0
  Users <- MCNode2
  GraceSuffices = TRUE
CHECK_DEADLOCK FALSE
INVARIANTS OneCluster
