SPECIFICATION Spec
CONSTANTS
  NumRoles = 2
  Steerable = TRUE
  Budget = 4
  Faults = {"collected", "caught", "llm", "store"}
  MaxMessages = 2
  MaxCrashes = 1
INVARIANTS
  RoleWindowsTile
  PromptIsOwnHistory
  OneKopicodeAtATime
  NoMessageLost
  ReturnedTeamIsExplained
PROPERTIES
  ReportedDelegationStands
CHECK_DEADLOCK FALSE
