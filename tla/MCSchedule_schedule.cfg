SPECIFICATION MCFairSpec
CONSTANTS
  c1 = c1
  HoursPerDay = 3
  Certs = {c1}
  Manual = {}
  Nothing = Nothing
  WithRecipients = {c1}
  EmailConfigured = TRUE
  MaxThreshold = 1
  ThresholdSets <- NoOrOneList
  ExpiryDays = {0, 1}
  Intervals = {1}
  Edits = {"watch", "expiry", "reminders", "settings"}
  Faults = {"refused", "raise"}
  MaxHour = 3
  MaxRuns = 5
  MaxTries = 2
  DailyAt = 2
  OffsetAt <- Ahead
  MaxBoots = 2
INVARIANTS AtMostOnce
PROPERTIES RunsFinish ExpiryDayIsTried
CHECK_DEADLOCK FALSE
