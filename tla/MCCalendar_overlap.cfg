SPECIFICATION FairSpec
CONSTANTS
  r1 = r1
  d1 = d1
  d2 = d2
  t1 = t1
  t2 = t2
  r2 = r2
  f1 = f1
  f2 = f2
  p1 = p1
  p2 = p2
  Files = {}
  NoFile = NoFile
  Days = {d1}
  ExpiryOf <- FileDay
  Timings = {t1, t2}
  Inherit = Inherit
  People = {p1}
  Audiences <- OnlyP1
  Owners <- NoOwner
  MaxRecords = 2
  Requests = {r1, r2}
  Routes = {"manual", "archive", "restore", "settings"}
  Faults = {"refused", "crash"}
  NoOne = NoOne
  NoRow = NoRow
  NoEvent = NoEvent
  Legacy = TRUE
  MaxServed = 3
INVARIANTS TypeOK
PROPERTIES RequestsEnd
CHECK_DEADLOCK FALSE
