SPECIFICATION Spec
CONSTANTS
  Networks = {home, wrong}
  Reachable = {home}
  Baked = {wrong}
  Nowhere = nowhere
  Retries = 3
  MaxFaults = 3
INVARIANTS
  TypeOK
  ReadsWhatWasSaved
  FlashNotAhead
  PanelNamesAp
PROPERTIES
  ApIsAnnounced
  RequestIsTried
  Retryable
  SetupSpec
