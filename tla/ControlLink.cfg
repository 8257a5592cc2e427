SPECIFICATION Spec
CONSTANTS
  MaxConns = 2
  MaxFaults = 1
  MaxEntryOps = 2
  MaxTokens = 2
  MaxQueued = 1
  MaxInFlight = 2
INVARIANTS
  TypeOK
  IntroducedFirst
  SessionIsServed
  ConnectedMeansOpen
  ConnectedHoldsToken
PROPERTIES
  Reconnects
