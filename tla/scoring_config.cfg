SPECIFICATION FairSpec
CONSTANTS
  None = None
  Activities = {"coding", "networking", "sponsor_engagement", "idle"}
  Settings <- SettingChoices
  Bodies <- BodyChoices
  Yaml <- YamlFile
  Interval = 2
  MaxBatch = 2
  MaxPuts = 2
  MaxFlushes = 2
  MaxFaults = 2
INVARIANTS TypeOK FlushPays CardAgrees
PROPERTIES ConfigConverges
