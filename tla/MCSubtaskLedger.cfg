SPECIFICATION FairSpec
CONSTANTS
  r1 = r1  r2 = r2  k1 = k1  k2 = k2  p1 = p1  p2 = p2
  q1 = q1  q2 = q2  q3 = q3  c1 = c1  c2 = c2  c3 = c3  x1 = x1
  Runner = {r1, r2}
  Request = {q1}
  Key = {k1}
  Parent = {p1}
  KeyOf <- OneKeyOf
  ParentOf <- OneParentOf
  N = 2
  Card = {c1, c2, x1}
  External = {x1}
  NoCard = NoCard  NoRow = NoRow  NoSlot = NoSlot
  Nobody = Nobody  NoRequest = NoRequest
  Disturbance = {"crash", "lost_lock", "board_error", "late_write", "attach", "detach", "copy"}
  MaxDisturbances = 2
  MaxRev = 6
CHECK_DEADLOCK FALSE
INVARIANTS OneCardPerDraft LedgerLoadable CompleteIsReal
PROPERTIES RetriesFinish
