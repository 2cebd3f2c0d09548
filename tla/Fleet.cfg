SPECIFICATION FairSpec
CONSTANTS
  Projects = {p1, p2}
  Roots = {r1, r2}
  NoRoot = none
  MaxTeams = 2
  MaxCrashes = 1
INVARIANTS
  LiveTeamsAreReachable
  NoTeamLeftBehind
  ResumeIsIdentical
PROPERTIES
  ImplementsTeamRuns
  LaunchIsAnswered
CHECK_DEADLOCK FALSE
