\* The DPC key: verdict latch and veto, and a score the user's
\* ratings have raised the floors for.
SPECIFICATION Spec
CONSTANTS
  Keys = {dpc}
  Guarded = {dpc}
  Growth = {}
  Attributed = {dpc}
  Bands <- OneBand
  Windows = {2}
  MaxWindow = 2
  Quiet = 3
  Elapsed = {1, 4}
  Scores <- RaisedScore
  MaxIds = 2
  MaxGen = 2
PROPERTIES
  LedgerSpec
