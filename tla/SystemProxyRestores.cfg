SPECIFICATION Spec
CONSTANTS
  Services = {wifi}
  Procs = {cli}
  Corp = Corp
  NoHost = NoHost
  Local = Local
  Addrs <- MCAddrs
  NoAddr = NoHost
  RedactrAddr = Local
  Priors <- MCPriors
  Faults = {}
  MaxSeen = 0
  Absent = Absent
  Torn = Torn
  Missing = Missing
INVARIANT RevertRestores
