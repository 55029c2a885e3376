SPECIFICATION Spec
CONSTANTS
  Procs = {p1, p2}
  CAs = {c1, c2}
  Platforms = {"darwin"}
  FaultSets = {}
  Absent = Absent
  Torn = Torn
INVARIANT CreatesDirectory
CHECK_DEADLOCK FALSE
