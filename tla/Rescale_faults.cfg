SPECIFICATION FairRescaleSpec
CONSTANTS
  None = None
  Node <- MCNode3
  Established <- MCNode3
  Agents <- MCNobody
  Absentees <- MCNobody
  Returning <- MCNobody
  Late <- MCNobody
  Ghosts <- MCNobody
  Acquainted = TRUE
  Gossiped <- MCTags
  Prompt = FALSE
  Faults <- FaultKind
  MaxFaults = 1
  Users <- MCNobody
  GraceSuffices = FALSE
  PromptAnswers = TRUE
  DelaysSuffice = TRUE
  PromptRemovals = FALSE
CHECK_DEADLOCK FALSE
INVARIANTS RescaleTypeOK
PROPERTIES ImplementsControlPlane OnlySurplusServersLeave
