SPECIFICATION Spec
CONSTANTS
  Task = {t1, t2}
  Reachable = {t1}
  Null = Null
  Limit = 2
  MaxRestarts = 1
INVARIANTS
  TypeOK
  ClaimsMatchSends
  UndeliveredIsRetryable
PROPERTIES
  RecordKeptUntilDelivered
  RepeatsAreStale
  ClaimsAreReleased
  RetriedByRestarts
