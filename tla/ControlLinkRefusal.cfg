SPECIFICATION Spec
CONSTANTS
  MaxConns = 2
  MaxFaults = 0
  MaxEntryOps = 1
  MaxTokens = 1
  MaxQueued = 1
  MaxInFlight = 2
PROPERTY
  RefusalLeadsToHello
