SPECIFICATION JoiningSpec
CONSTANTS
  None = None
  Node <- MCNode2
  Established <- MCFirst
  Ghosts <- MCLast2
  Late <- MCNobody
  Acquainted = FALSE
  Gossiped <- MCTags
  Prompt = FALSE
  Faults <- MCNobody
  MaxFaults = 0
  Users <- MCLast2
  GraceSuffices = FALSE
  PromptAnswers = FALSE
CHECK_DEADLOCK FALSE
PROPERTIES NamesAreFreedFirst
