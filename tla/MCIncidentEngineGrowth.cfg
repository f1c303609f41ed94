\* One growth key: hysteresis, window fates, two severities, and a sustained
\* window the user changes under it.
SPECIFICATION Spec
CONSTANTS
  Keys = {growth}
  Guarded = {growth}
  Growth = {growth}
  Attributed = {}
  Bands <- TwoBands
  Windows = {2, 3}
  MaxWindow = 3
  Quiet = 3
  Elapsed = {1, 4}
  Scores <- OneScore
  MaxIds = 2
  MaxGen = 1
INVARIANTS
  ClosedKeysStartOver
PROPERTIES
  OpensSustained
  HoldServed
  LedgerSpec
