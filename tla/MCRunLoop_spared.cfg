\* Zones that are wet enough not to be run.
SPECIFICATION Spec
CONSTANTS
  EtPctMap <- HotMildFrost
  Month = 7
  NumValves = 2
  Configs <- LawnAndBed
  Weather <- TwoWeathers
  SlotsPerDay = 3
  RunTimeAM = 1
  MaxDay = 2
  Timely = TRUE
  FaultKinds = {}
  MaxFaults = 0
INVARIANT SkippedZoneKeepsVWC
