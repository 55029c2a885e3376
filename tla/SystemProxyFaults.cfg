SPECIFICATION Spec
CONSTANTS
  Services = {wifi, eth}
  Procs = {cli, daemon}
  Corp = Corp
  NoHost = NoHost
  Local = Local
  Addrs <- MCAddrs
  NoAddr = NoHost
  RedactrAddr = Local
  Priors <- OnePrior
  Faults = {"crash", "command", "remove", "torn", "restore", "plug", "edit", "stat"}
  MaxSeen = 1
  Absent = Absent
  Torn = Torn
  Missing = Missing
SYMMETRY Symmetry
INVARIANTS Recoverable OffMeansRestored SuccessMeansOn
PROPERTIES SnapshotKept ImplementsSwitch
