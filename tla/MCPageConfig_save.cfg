\* Two pages, two edits, a death of the server.
SPECIFICATION Spec
CONSTANTS
  Pages = {p1, p2}
  Keys = {0, 1}
  Settings = {dry, wet, bad}
  RefusedSettings = {bad}
  Commons = {here, blank}
  RefusedCommons = {blank}
  InitialRanges <- SomeRanges
  RangeInputs <- SomeInputs
  AlgorithmSlots = 2
  NoConf = NoConf
  Empty = Empty
  Torn = Torn
  MaxEdits = 2
  MaxCrashes = 1
INVARIANTS
  TypeOK
  OnlyAcceptedInForce
  SaveFailsOnlyForZero
PROPERTY SaveChangesOnlyEdits
