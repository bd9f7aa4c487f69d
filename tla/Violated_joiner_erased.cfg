SPECIFICATION JoiningSpec
CONSTANTS
  None = None
  Node <- MCNode2
  Established <- MCLast2
  Ghosts <- MCNobody
  Late <- MCNobody
  Acquainted = TRUE
  Gossiped <- MCTags
  Prompt = FALSE
  Faults <- MCNobody
  MaxFaults = 0
  Users <- MCNobody
  GraceSuffices = FALSE
  PromptAnswers = FALSE
CHECK_DEADLOCK FALSE
PROPERTIES OnlyGhostsAreErased
