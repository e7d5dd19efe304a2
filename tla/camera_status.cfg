SPECIFICATION FairStreamSpec
CONSTANTS
  HeartbeatSeconds = 5
  StaleAfter = 15
  MaxBackoff = 8
  MaxRetries = 5
  MaxCrashes = 2
  MaxStops = 2
INVARIANTS ActiveMeansFrames FramesMeanActive
PROPERTIES RecoveryShows ShutdownShows
