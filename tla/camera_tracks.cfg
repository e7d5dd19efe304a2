SPECIFICATION Spec
CONSTANTS
  a = a
  b = b
  People = {a, b}
  Registered = {a, b}
  Interval = 2
  Reach <- OneCrosses
  LostBuffer = 1
  MaxTracks = 2
  MaxResets = 1
INVARIANTS TypeOK MemoryFits CrossingsAreReal
PROPERTIES NameHeals
