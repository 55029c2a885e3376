SPECIFICATION Spec
CONSTANTS
  TextLen = 5
  Specific = {"EMAIL", "CONNECTION-STRING"}
  Generic = {"ENV-SECRET", "GENERIC-SECRET"}
  Entropy = "HIGH-ENTROPY"
  Plain = "PLAIN"
  Inputs <- MCInputs
INVARIANTS ReportedIsTouched Tiles Redacted MatchesAreRedacted
CHECK_DEADLOCK FALSE
