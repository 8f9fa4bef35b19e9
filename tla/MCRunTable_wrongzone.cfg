\* Which zone the server is asked to run.
SPECIFICATION Spec
CONSTANTS
  PageZones = {z1, z2}
  NoZone = NoZone
  MaxRuntimeSlots = 3
  AlgorithmSlots = 2
  SaveWhileQueued = TRUE
INVARIANT GivenZoneIsRun
