SPECIFICATION MCSpec
CONSTANTS
  c1 = c1
  m1 = m1
  HoursPerDay = 1
  Certs = {c1}
  Manual = {m1}
  Nothing = Nothing
  WithRecipients = {c1}
  EmailConfigured = FALSE
  MaxThreshold = 1
  ThresholdSets <- NoOrOneList
  ExpiryDays <- AroundToday
  Intervals = {0, 1}
  Edits = {"watch", "expiry", "reminders", "settings"}
  Faults = {"lost"}
  MaxHour = 0
  MaxRuns = 2
  MaxTries = 2
PROPERTIES QuietForGood
CHECK_DEADLOCK FALSE
