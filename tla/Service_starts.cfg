SPECIFICATION Spec
CONSTANTS
  Procs = {p1, p2, p3}
  Commands = {c1}
  None = none
  FILE_LINES = 2
INVARIANTS
  LifecycleTypeOK
  OneOwner
  NoFalseLockout
  RunsWithItsRules
  CommandsReachLoneDaemon
SYMMETRY Symmetry
CHECK_DEADLOCK FALSE
