SPECIFICATION FairSpec
CONSTANTS
  None = None
  Node <- MCNode2
  Established <- MCNobody
  Late <- MCNobody
  Acquainted = FALSE
  Gossiped <- MCClusterTags
  Prompt = FALSE
  Faults <- FaultKind
  MaxFaults = 2
  Users <- MCFirst
  GraceSuffices = FALSE
CHECK_DEADLOCK FALSE
PROPERTIES EtcdTurnEnds StableAgain
INVARIANTS TypeOK ResultsReachTheirWorkflow StableIsInstalled JoinTargetsHoldACluster NeverBackToFirstBoot
