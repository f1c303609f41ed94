\* One client, which may have no further request to make.
SPECIFICATION Spec
CONSTANTS
  Clients = {dashboard}
PROPERTIES
  StopCompletes
CHECK_DEADLOCK FALSE
