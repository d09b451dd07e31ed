SPECIFICATION FairSpec
CONSTANTS
  Tasks = {t1, t2, n1}
  NullTasks = {n1}
  NUM_CMDS = 2
  NUM_BUFFERED = 2
  Detached = TRUE
  MaxOpen = 3
  None = None
INVARIANTS
  TypeOK
  IdsExact
  OneOwner
  FeedbackExact
PROPERTIES
  FeedbackAfterCommands
  EveryTaskAnswered
