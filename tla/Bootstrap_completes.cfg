SPECIFICATION FairSpec
CONSTANTS
  None = None
  Node <- MCNode4
  Established <- MCNobody
  Late <- MCNobody
  Acquainted = TRUE
  Gossiped <- MCServerTag
  Prompt = TRUE
  Faults <- MCNobody
  MaxFaults = 0
  Users <- MCNode2
  GraceSuffices = TRUE
CHECK_DEADLOCK FALSE
INVARIANTS OneCluster
PROPERTIES ImplementsFormation BootstrapCompletes
