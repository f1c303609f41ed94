\* Two launches, one wipe per service run: every interleaving of one tick
\* with a toggle, a wipe, a failed save and a crash; capture left
\* off must drain.
SPECIFICATION Spec
CONSTANTS
  Launches = {l1, l2}
  MaxDeletes = 1
INVARIANTS
  ForgottenStaysForgotten
  LateLinesHaveRows
PROPERTIES
  OffDrainsEverything
