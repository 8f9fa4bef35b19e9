\* Manual runs, a crash, a driver that lies: what must end.
SPECIFICATION ServerSpec
CONSTANTS
  EtPctMap <- HotMildFrost
  Month = 7
  NumValves = 2
  Configs <- JustLawn
  Weather <- OneWeather
  SlotsPerDay = 1
  RunTimeAM = 0
  MaxDay = 1
  Timely = FALSE
  FaultKinds = {"open", "flaky", "crash"}
  MaxFaults = 1
  Requests = {r1, r2}
PROPERTIES
  CommandEnds
  ShutUnlessKeptOut
