SPECIFICATION FairJoiningSpec
CONSTANTS
  None = None
  Node <- MCNode2
  Established <- MCFirst
  Ghosts <- MCLast2
  Late <- MCNobody
  Acquainted = TRUE
  Gossiped <- MCTags
  Prompt = FALSE
  Faults <- FaultKind
  MaxFaults = 2
  Users <- MCNobody
  GraceSuffices = FALSE
  PromptAnswers = FALSE
CHECK_DEADLOCK FALSE
PROPERTIES NamesAreFreedFirst JoiningEnds
INVARIANTS JoiningTypeOK
