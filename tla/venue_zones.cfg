SPECIFICATION FairSpec
CONSTANTS
  left = left
  bad = bad
  hall = hall
  stage = stage
  z1 = z1
  z2 = z2
  admin = admin
  other = other
  Ids = {z1, z2}
  Names = {hall, stage}
  Areas <- AreaChoices
  Yaml <- YamlRows
  Booths = {z2}
  Spots = {left}
  Malformed = bad
  Unassigned = Unassigned
  None = None
  Admins = {admin, other}
  MaxEdits = 2
  MaxFaults = 1
INVARIANTS StaleIsAnnounced LogsAreSound
PROPERTIES EmptyZonesShowZero
