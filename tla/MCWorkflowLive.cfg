SPECIFICATION DeliverySpec
CONSTANTS
  TaskId = {t1}
  Agent = {a1}
  IdemKey = {k1}
  Null = Null
  NewTasks <- MCNewTasks
  Ttl = 2
  LeaseMs = 2
  ExtendSec = 2
  MaxExpires = 4
  BatchSize = 1
  Backoffs = {2}
  MaxOutages = 2
PROPERTIES
  DeadAgentLosesTask
  EverythingEnds
  ImplementsQueryPromise
