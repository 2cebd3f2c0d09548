SPECIFICATION Spec
CONSTANTS
  Steerable = TRUE
  Budget = 3
  Faults = {"delegation_error", "sandbox", "llm", "store"}
  MaxMessages = 2
  MaxCrashes = 2
INVARIANTS
  TerminalIsFinal
  ReturnedRunIsExplained
  HandoverWindowsTile
  NoRoundForgotten
  NoMessageLost
PROPERTIES
  ReportedDelegationStands
CHECK_DEADLOCK FALSE
