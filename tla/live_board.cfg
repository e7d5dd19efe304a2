SPECIFICATION FairSpec
CONSTANTS
  None = None
  c1 = c1
  c2 = c2
  Clients = {c1, c2}
  MaxConnections = 1
  MaxValue = 1
  MaxNotices = 2
  MaxFaults = 1
INVARIANTS LimitHolds OpenIsKnown StaleIsRemoved
PROPERTIES EventuallyShown GoneAreForgotten
