\* Two clients, one of which keeps asking.
SPECIFICATION PolledSpec
CONSTANTS
  Clients = {tray, dashboard}
INVARIANTS
  CutOnlyByStop
PROPERTIES
  ConnectedReturns
  StopCompletes
CHECK_DEADLOCK FALSE
