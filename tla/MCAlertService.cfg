\* One fingerprint: two incidents, resolved, reopened and restarted; or one,
\* renotified twice, shown, marked, restarted and remembered.
SPECIFICATION MCSpec
CONSTANTS
  Keys = {k}
  MaxIds = 2
  MaxGen = 2
  Marks = {"archived"}
INVARIANTS
  TypeOK
  IdleAgrees
  SeenIsDurable
PROPERTIES
  MarksAreShown
  NotifiableIsSeen
