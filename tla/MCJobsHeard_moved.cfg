SPECIFICATION HeardSpec
CONSTANTS
  c1 = c1
  m1 = m1
  HoursPerDay = 1
  Certs = {c1}
  Manual = {}
  Nothing = Nothing
  WithRecipients = {c1}
  EmailConfigured = TRUE
  MaxThreshold = 1
  ThresholdSets <- OneList
  ExpiryDays = {0, 1}
  Intervals = {1}
  Edits = {"expiry"}
  Faults = {}
  MaxHour = 1
  MaxRuns = 2
  MaxTries = 1
PROPERTIES ExpiryDayIsHeard
CHECK_DEADLOCK FALSE
