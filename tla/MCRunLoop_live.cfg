\* Any two failures, then a loop that makes progress; until the first one,
\* what the comments of the code say of a day.
SPECIFICATION Spec
CONSTANTS
  EtPctMap <- HotMildFrost
  Month = 7
  NumValves = 2
  Configs <- LawnAndBed
  Weather <- TwoWeathers
  SlotsPerDay = 3
  RunTimeAM = 1
  MaxDay = 6
  Timely = TRUE
  FaultKinds = {"get", "set", "open", "flaky", "file", "crash"}
  MaxFaults = 2
INVARIANTS
  NoDateMissed
  AFailureCostsTwoDates
  DebitFromPreviousDay
PROPERTIES
  DateOnlyWhenAllRan
  EveryValveShuts
  NoZoneStuck
  EveryPassEnds
