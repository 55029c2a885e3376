SPECIFICATION Spec
CONSTANTS
  Procs = {p1, p2}
  CAs = {c1, c2, c3}
  Platforms = {"darwin", "linux", "windows"}
  FaultSets <- MCFaultSets
  Absent = Absent
  Torn = Torn
SYMMETRY Symmetry
INVARIANTS NothingLeftBehind ConsentKept CALoads SignsWithDisk DaemonIsTrusted
PROPERTY UntrustRemoves
CHECK_DEADLOCK FALSE
