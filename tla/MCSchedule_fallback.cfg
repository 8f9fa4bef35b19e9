\* What is used for yesterday when the service does not answer.
SPECIFICATION ScheduleSpec
CONSTANTS
  MaxDay = 3
  Retries = 1
  NoRecord = NoRecord
  Reasonable = Reasonable
  HistoryDays = 3
  West = TRUE
PROPERTY FallbackIsPast
