SPECIFICATION FairSpec
CONSTANTS
  r1 = r1
  r2 = r2
  r3 = r3
  f1 = f1
  f2 = f2
  q1 = q1
  q2 = q2
  c1 = c1
  Registrations = {r1, r2, r3}
  Faces = {f1, f2}
  FaceOf <- SameFace
  Requests = {}
  Cameras = {c1}
  Failing = {"commit", "crash", "torn"}
  Budget = 2
CHECK_DEADLOCK FALSE
INVARIANTS CommittedIsOnDisk CamerasNameRight
PROPERTIES EventuallyFresh
