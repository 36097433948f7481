SPECIFICATION MCSpec
CONSTANTS
  c1 = c1
  m1 = m1
  HoursPerDay = 1
  Certs = {c1}
  Manual = {m1}
  Nothing = Nothing
  WithRecipients = {c1}
  EmailConfigured = TRUE
  MaxThreshold = 1
  ThresholdSets <- OneList
  ExpiryDays = {1}
  Intervals = {1}
  Edits = {}
  Faults = {"refused", "raise", "lost", "crash", "locked"}
  MaxHour = 1
  MaxRuns = 3
  MaxTries = 1
INVARIANTS TypeOK SentWasReceived CleanRunSettles
PROPERTIES SettledStays PromiseKept NeverFarther
CHECK_DEADLOCK FALSE
