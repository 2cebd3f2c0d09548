SPECIFICATION FairSpec
CONSTANTS
  Steerable = TRUE
  Budget = 7
  Faults = {"sandbox", "llm", "store"}
  MaxMessages = 2
  MaxCrashes = 1
PROPERTIES
  JournalIsLifecycle
  RunEnds
  QueuedMessageIsServed
CHECK_DEADLOCK FALSE
