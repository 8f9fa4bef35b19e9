\* The loop and a handler, two valves, one key, any health of the devices.
SPECIFICATION Spec
CONSTANTS
  Callers = {loop, hand}
  Valves = {v1, v2}
  Keys = {LastRunDate}
  onCommandMaxRetries = 5
  kvNumAttempts = 3
  NoCall = NoCall
  NoAnswer = NoAnswer
INVARIANT CallsTypeOK
PROPERTIES
  ImplementsCallOutcomes
  AttemptsEnd
  CloseEnds
