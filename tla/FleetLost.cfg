SPECIFICATION Spec
CONSTANTS
  Projects = {p1}
  Roots = {r1}
  NoRoot = none
  MaxTeams = 2
  MaxCrashes = 1
INVARIANTS
  EveryTeamIsRedriven
CHECK_DEADLOCK FALSE
