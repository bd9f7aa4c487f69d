SPECIFICATION FairRescaleSpec
CONSTANTS
  None = None
  Node <- MCNode4
  Established <- MCNode3
  Agents <- MCLast4
  Absentees <- MCUpper
  Returning <- MCNobody
  Late <- MCNobody
  Ghosts <- MCNobody
  Acquainted = TRUE
  Gossiped <- MCTags
  Prompt = FALSE
  Faults <- MCRoundFaults
  MaxFaults = 2
  Users <- MCNobody
  GraceSuffices = FALSE
  PromptAnswers = TRUE
  DelaysSuffice = TRUE
  PromptRemovals = FALSE
CHECK_DEADLOCK FALSE
PROPERTIES TheGoneAreEvicted ImplementsControlPlane MembersAreNotTornDown
