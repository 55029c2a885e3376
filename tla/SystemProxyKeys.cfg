SPECIFICATION Spec
CONSTANTS
  Procs = {cli, daemon}
  Priors <- MCPriors
  Faults = {"crash", "command", "remove", "torn", "read", "open", "restore", "overlap", "stat"}
  MaxSeen = 1
  Absent = Absent
  Torn = Torn
  Missing = Missing
SYMMETRY Symmetry
INVARIANTS Recoverable OffMeansRestored SuccessMeansOn OnlyChosenRoutes
PROPERTY ImplementsSwitch
