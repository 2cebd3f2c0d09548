SPECIFICATION FairSpec
CONSTANTS
  Paths = {p1, p2}
  NoPath = nopath
  NoCall = nocall
  MaxEvents = 3
INVARIANTS
  KopicodeReportsItsEdits
  RecordedSessionIsNoError
  NothingLeftBehind
PROPERTIES
  ImplementsAgentCall
  CallEnds
CHECK_DEADLOCK FALSE
