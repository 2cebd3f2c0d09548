SPECIFICATION Spec
CONSTANTS
  Steerable = FALSE
  Budget = 3
  Faults = {"sandbox"}
  MaxMessages = 0
  MaxCrashes = 0
INVARIANTS
  FailedDelegationIsJournaled

CHECK_DEADLOCK FALSE
