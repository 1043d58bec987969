SPECIFICATION Spec
CONSTANTS
  Task = {t1}
  Reachable = {t1}
  Null = Null
  Limit = 2
  MaxRestarts = 0
PROPERTIES
  PendingIsRetried
