SPECIFICATION Spec
CONSTANTS
  Projects = {p1, p2}
  NoProject = none
  Names = {n1}
  Ambient = {n1}
  Values = {v1, v2}
  Keys = {k1, k2}
  Absent = absent
  MaxWrites = 3
SYMMETRY Symmetry
INVARIANTS
  SecretsAreTheProjects
  AcceptedRunHasItsSecrets
  RunHasItsOwnRuntime
CHECK_DEADLOCK FALSE
