SPECIFICATION Spec
CONSTANTS
  p1 = p1
  p2 = p2
  s1 = s1
  s2 = s2
  Participants = {p1, p2}
  Orphans = {p2}
  Sponsors = {s1}
  Malformed = {}
  Boothless = {}
  ReadCount = 2
  Timeout = 1
  HourLength = 2
  Closing = 3
  MaxTime = 3
  MaxEvents = 3
  Budget <- OneEach
INVARIANTS EntriesKept HoursHaveRows ExitAfterEntry
PROPERTIES ClosedIsFinal
