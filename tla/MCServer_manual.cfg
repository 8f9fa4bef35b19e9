\* Manual and automatic runs side by side, no crash.
SPECIFICATION ServerSpec
CONSTANTS
  EtPctMap <- HotMildFrost
  Month = 7
  NumValves = 2
  Configs <- MayDropBed
  Weather <- OneWeather
  SlotsPerDay = 2
  RunTimeAM = 0
  MaxDay = 1
  Timely = FALSE
  FaultKinds = {"set", "flaky"}
  MaxFaults = 1
  Requests = {r1, r2}
SYMMETRY RequestSymmetry
INVARIANTS
  ServerTypeOK
  NoOrphanValve
