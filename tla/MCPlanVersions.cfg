SPECIFICATION Spec
CONSTANTS
  Days = {friday, saturday}
  Plans = {p, q}
  Requests = {r1, r2}
  NoPlan = NoPlan
  Nobody = Nobody
  MaxVersions = 3
INVARIANTS
  TypeOK
  OneActivePlan
  HistoryUnbroken
  CacheAgrees
  InsertNeverCollides
PROPERTIES
  HistoryKept
  LockReleased
  PublishesAtomically
CHECK_DEADLOCK FALSE
