SPECIFICATION Spec
CONSTANTS
  Task = {t1, t2}
  Reachable = {t1, t2}
  Null = Null
  Limit = 2
  MaxRestarts = 0
INVARIANTS
  OneResponse
