\* A weather service that may not answer, files that may not be written.
SPECIFICATION ScheduleSpec
CONSTANTS
  MaxDay = 3
  Retries = 1
  NoRecord = NoRecord
  Reasonable = Reasonable
  HistoryDays = 3
  West = TRUE
INVARIANTS
  ScheduleTypeOK
  LogIsAboutItsDate
  ScheduleMatchesHeaders
  TodayIsToday
PROPERTY ForecastNeverReplacesMeasured
