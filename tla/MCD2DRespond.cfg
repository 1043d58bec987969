SPECIFICATION Spec
CONSTANTS
  Query = q
  Answer = {a1}
  Refusal = {r1}
  Note = {}
  Pass = {p1}
  Max_retries = 1
  Max_queue = 1
  MaxFaults = 1
CHECK_DEADLOCK FALSE
INVARIANTS
  OneAtATime
