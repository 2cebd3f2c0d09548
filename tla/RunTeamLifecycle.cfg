SPECIFICATION FairSpec
CONSTANTS
  NumRoles = 2
  Steerable = TRUE
  Budget = 3
  Faults = {"collected", "llm"}
  MaxMessages = 1
  MaxCrashes = 1
PROPERTIES
  JournalIsLifecycle
  TeamEnds
CHECK_DEADLOCK FALSE
