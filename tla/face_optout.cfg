SPECIFICATION Spec
CONSTANTS
  r1 = r1
  r2 = r2
  r3 = r3
  f1 = f1
  f2 = f2
  q1 = q1
  q2 = q2
  c1 = c1
  Registrations = {r1, r2}
  Faces = {f1, f2}
  FaceOf <- TwoFaces
  Requests = {q1}
  Cameras = {}
  Failing = {}
  Budget = 0
CHECK_DEADLOCK FALSE
INVARIANTS OptOutRemovesEmbedding
