SPECIFICATION Spec
CONSTANTS
  MaxConns = 2
  MaxFaults = 1
  MaxEntryOps = 0
  MaxTokens = 2
  MaxQueued = 1
  MaxInFlight = 2
INVARIANT
  LiveConnectionTracked
