SPECIFICATION FairSpec
CONSTANTS
  Hosts <- MCHosts
  Lines <- MCLines
  Defaults <- MCDefaults
  MaxLines = 2
  Servers = {s1, s2}
  Conns = {c1}
  Faults = {"unterminated", "unreadable", "cut", "plain", "again"}
  MaxSeen = 1
  None = None
INVARIANTS AddedAreRedacted OthersAreTunnelled StopCloses
PROPERTIES PortIsFreed
