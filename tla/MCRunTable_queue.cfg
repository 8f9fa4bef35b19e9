\* Every order of clicks and countdowns; the configuration is saved only
\* while nothing waits.
SPECIFICATION Spec
CONSTANTS
  PageZones = {z1, z2, z3}
  NoZone = NoZone
  MaxRuntimeSlots = 3
  AlgorithmSlots = 2
  SaveWhileQueued = FALSE
INVARIANTS
  TypeOK
  SlotsInUse
  IdleMeansEmpty
PROPERTY ImplementsRunQueue
