SPECIFICATION Spec
CONSTANTS
  Terminals = {t1, t2}
  Files = {"f"}
  Walk <- MCWalk
  Target <- MCTarget
  Skipped = {".git/link"}
  Texts <- MCTexts
  MaxLen = 3
  Faults = {"race", "overlap", "kill", "disk", "unreadable"}
  MaxSeen = 2
  Absent = Absent
SYMMETRY Symmetry
INVARIANTS OnlyRedacted DoneMeansRedacted CleanMeansClean
