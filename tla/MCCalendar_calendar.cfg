SPECIFICATION Spec
CONSTANTS
  r1 = r1
  d1 = d1
  d2 = d2
  t1 = t1
  t2 = t2
  r2 = r2
  f1 = f1
  f2 = f2
  p1 = p1
  p2 = p2
  Files = {f1, f2}
  NoFile = NoFile
  Days = {d1, d2}
  ExpiryOf <- FileDay
  Timings = {t1, t2}
  Inherit = Inherit
  People = {p1}
  Audiences <- P1OrNobody
  Owners <- NoOwner
  MaxRecords = 2
  Requests = {r1}
  Routes = {"upload", "manual", "update", "archive", "restore", "attach", "renew", "resend", "settings"}
  Faults = {"refused", "lost"}
  NoOne = NoOne
  NoRow = NoRow
  NoEvent = NoEvent
  Legacy = TRUE
  MaxServed = 3
SYMMETRY Alike
INVARIANTS RowTells EventIsCurrent OneRecordPerFile VerifiedExpiry
PROPERTIES SequenceGrows
CHECK_DEADLOCK FALSE
