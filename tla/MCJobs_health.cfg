SPECIFICATION MCSpec
CONSTANTS
  c1 = c1
  m1 = m1
  HoursPerDay = 1
  Certs = {c1}
  Manual = {}
  Nothing = Nothing
  WithRecipients = {c1}
  EmailConfigured = TRUE
  MaxThreshold = 1
  ThresholdSets <- OneList
  ExpiryDays = {0}
  Intervals = {1}
  Edits = {}
  Faults = {"refused"}
  MaxHour = 0
  MaxRuns = 2
  MaxTries = 1
INVARIANTS FailureShows
CHECK_DEADLOCK FALSE
