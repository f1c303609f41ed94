SPECIFICATION Spec
CONSTANTS
  Keys = {budget}
  Guarded = {}
  Growth = {}
  Attributed = {}
  Bands <- AnyBand
  Windows = {2}
  MaxWindow = 2
  Quiet = 3
  Elapsed = {1, 4}
  Scores <- AnyScore
  MaxIds = 2
  MaxGen = 1
PROPERTIES
  EscalationPops
