SPECIFICATION Spec
CONSTANTS
  Payload = {"electrical"}
  Timeout = 2
  MaxAge = 1
  TripSamples = 2
  SettleSamples = 1
INVARIANTS GateIsFresh SuspendedByMetadata CountedTwiceIfSkewed
