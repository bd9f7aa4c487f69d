SPECIFICATION FairRescaleSpec
CONSTANTS
  None = None
  Node <- MCNode3
  Established <- MCFirst
  Agents <- MCLast2
  Absentees <- MCNobody
  Returning <- MCNobody
  Late <- MCNobody
  Ghosts <- MCNobody
  Acquainted = TRUE
  Gossiped <- MCTags
  Prompt = FALSE
  Faults <- MCQuietFaults
  MaxFaults = 1
  Users <- MCNobody
  GraceSuffices = FALSE
  PromptAnswers = TRUE
  DelaysSuffice = TRUE
  PromptRemovals = FALSE
CHECK_DEADLOCK FALSE
INVARIANTS StableIsInstalled ConversionsKeepTheirOrder OneConversionAtATime OneRoundAtATime
PROPERTIES ControlPlaneIsRepaired
