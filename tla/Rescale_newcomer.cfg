SPECIFICATION FairRescaleSpec
CONSTANTS
  None = None
  Node <- MCNode2
  Established <- MCSecond
  Agents <- MCNobody
  Absentees <- MCNobody
  Returning <- MCNobody
  Late <- MCNobody
  Ghosts <- MCFirst
  Acquainted = FALSE
  Gossiped <- MCTags
  Prompt = FALSE
  Faults <- MCCallFaults
  MaxFaults = 3
  Users <- MCFirst
  GraceSuffices = TRUE
  PromptAnswers = TRUE
  DelaysSuffice = TRUE
  PromptRemovals = FALSE
CHECK_DEADLOCK FALSE
INVARIANTS OneCluster
PROPERTIES JoinersBecomeAgents RoundsEnd
INVARIANTS ResultsReachJoiningToo
