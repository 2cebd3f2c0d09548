SPECIFICATION FairSpec
CONSTANTS
  Runs = {r1, r2}
  NoRun = norun
  Ports = {p1, p2}
  NoPort = noport
  Clients = {c1}
  Roles = {builder, reviewer}
  NoRole = none
  MaxKills = 1
INVARIANTS
  AnswersAreTrue
  PointerTracksRun
PROPERTIES
  SteerEnds
CHECK_DEADLOCK FALSE
