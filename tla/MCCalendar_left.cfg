SPECIFICATION Spec
CONSTANTS
  r1 = r1
  d1 = d1
  d2 = d2
  t1 = t1
  t2 = t2
  r2 = r2
  f1 = f1
  f2 = f2
  p1 = p1
  p2 = p2
  Files = {}
  NoFile = NoFile
  Days = {d1}
  ExpiryOf <- FileDay
  Timings = {t1, t2}
  Inherit = Inherit
  People = {p1}
  Audiences <- OnlyP1
  Owners <- NoOwner
  MaxRecords = 1
  Requests = {r1}
  Routes = {"manual", "update", "archive"}
  Faults = {}
  NoOne = NoOne
  NoRow = NoRow
  NoEvent = NoEvent
  Legacy = FALSE
  MaxServed = 3
INVARIANTS NothingLeftBehind
CHECK_DEADLOCK FALSE
