SPECIFICATION FairSpec
CONSTANTS
  Terminals = {t1, t2}
  Pids = {p1, p2}
  Faults = {"overlap", "cli", "daemon", "early", "foreground", "disk", "torn", "stat", "restore", "remove", "windows"}
  MaxSeen = 1
  None = None
INVARIANTS Undoable NoDeadProxy OnMeansOn OffMeansOff NoOrphan
PROPERTIES CommandsEnd DisableStops
CHECK_DEADLOCK FALSE
