SPECIFICATION FairSpec
CONSTANTS
  p1 = p1
  p2 = p2
  s1 = s1
  s2 = s2
  Participants = {p1}
  Orphans = {}
  Sponsors = {s1, s2}
  Malformed = {s2}
  Boothless = {s2}
  ReadCount = 1
  Timeout = 1
  HourLength = 2
  Closing = 3
  MaxTime = 4
  MaxEvents = 2
  Budget <- OneEach
PROPERTIES EventuallyApplied EventuallyClosed
