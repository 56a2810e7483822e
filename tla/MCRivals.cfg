SPECIFICATION Spec
CONSTANTS
  r1 = r1  r2 = r2  k1 = k1  k2 = k2  p1 = p1  p2 = p2
  q1 = q1  q2 = q2  q3 = q3  c1 = c1  c2 = c2  c3 = c3  x1 = x1
  Runner = {r1, r2}
  Request = {q1, q2, q3}
  Key = {k1, k2}
  Parent = {p1, p2}
  KeyOf <- RivalKeyOf
  ParentOf <- RivalParentOf
  N = 1
  Card = {c1, c2, c3}
  External = {}
  NoCard = NoCard  NoRow = NoRow  NoSlot = NoSlot
  Nobody = Nobody  NoRequest = NoRequest
  Disturbance = {"crash", "board_error"}
  MaxDisturbances = 2
  MaxRev = 9
CHECK_DEADLOCK FALSE
SYMMETRY Symmetric
INVARIANTS FinishedBatchStaysAttached OnePayloadPerKey
PROPERTIES KeepsPromise
