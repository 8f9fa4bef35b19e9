\* Every kind of failure, a clock that ticks at any moment, a configuration
\* that loses and regains a zone.
SPECIFICATION Spec
CONSTANTS
  EtPctMap <- HotMildFrost
  Month = 7
  NumValves = 2
  Configs <- MayDropBed
  Weather <- OneWeather
  SlotsPerDay = 2
  RunTimeAM = 1
  MaxDay = 3
  Timely = FALSE
  FaultKinds = {"get", "set", "open", "flaky", "file", "crash"}
  MaxFaults = 2
INVARIANTS
  TypeOK
  AtMostOncePerDate
  OpenIsRecorded
  OneValveAtATime
  AsleepMeansShut
PROPERTIES
  CreditOnlyAfterFlow
  PredictionNeverReplacesRun
  ImplementsOncePerDate
