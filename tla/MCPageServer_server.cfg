\* Clicks, countdowns and timers, with an OpenValve that may fail.
SPECIFICATION PageServerSpec
CONSTANTS
  EtPctMap <- NoRanges
  Month = 7
  NumValves = 2
  Configs <- NoConfig
  Weather <- OneWeather
  SlotsPerDay = 1
  RunTimeAM = 0
  MaxDay = 1
  Timely = TRUE
  FaultKinds = {"open"}
  MaxFaults = 1
  Requests = {r1, r2, r3}
  MaxRuntimeSlots = 1
  AlgorithmSlots = 0
  NoZone = NoZone
  NoRequest = NoRequest
  SaveWhileQueued = FALSE
  MaxRunMins = 2
  MaxMins = 3
  MaxDelay = 1
INVARIANT OnlyTheShownRunFlows
PROPERTIES
  RefusedForCause
  EveryValveShuts
