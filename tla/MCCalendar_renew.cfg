SPECIFICATION Spec
CONSTANTS
  r1 = r1
  d1 = d1
  d2 = d2
  t1 = t1
  t2 = t2
  r2 = r2
  f1 = f1
  f2 = f2
  p1 = p1
  p2 = p2
  Files = {f1, f2}
  NoFile = NoFile
  Days = {d1, d2}
  ExpiryOf <- FileDay
  Timings = {t1}
  Inherit = Inherit
  People = {p1}
  Audiences <- OnlyP1
  Owners <- NoOwner
  MaxRecords = 2
  Requests = {r1}
  Routes = {"upload", "renew"}
  Faults = {}
  NoOne = NoOne
  NoRow = NoRow
  NoEvent = NoEvent
  Legacy = FALSE
  MaxServed = 3
PROPERTIES ReplacementIsActive
CHECK_DEADLOCK FALSE
