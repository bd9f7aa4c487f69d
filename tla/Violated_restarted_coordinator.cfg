SPECIFICATION RescaleSpec
CONSTANTS
  None = None
  Node <- MCNode3
  Established <- MCNode3
  Agents <- MCNobody
  Absentees <- MCNobody
  Returning <- MCNobody
  Late <- MCNobody
  Ghosts <- MCNobody
  Acquainted = TRUE
  Gossiped <- MCTags
  Prompt = FALSE
  Faults <- MCCrashes
  MaxFaults = 2
  Users <- MCNobody
  GraceSuffices = FALSE
  PromptAnswers = TRUE
  DelaysSuffice = TRUE
  PromptRemovals = FALSE
CHECK_DEADLOCK FALSE
PROPERTIES OnlySurplusServersLeave
