SPECIFICATION FairSpec
CONSTANTS
  p1 = p1
  p2 = p2
  p3 = p3
  Participants = {p1, p2, p3}
  Malformed = {p3}
  MaxEvents = 2
  ReadCount = 1
  StreamMax = 1
  Budget <- OneOfEach
INVARIANTS NoSilentLoss Amplification LeaderboardAgrees
PROPERTIES AtLeastOnce EventuallyAcked
