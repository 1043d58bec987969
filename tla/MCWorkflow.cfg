SPECIFICATION Spec
CONSTANTS
  TaskId = {t1, t2}
  Agent = {a1, a2}
  IdemKey = {k1}
  Null = Null
  NewTasks <- MCNewTasks
  Ttl = 1
  LeaseMs = 1
  ExtendSec = 1
  MaxExpires = 1
SYMMETRY Symmetric
INVARIANTS
  TypeOK
  OneTerminalEvent
  ApprovedAtMostOnce
  ActiveKeyUnique
  LeaseIffRunningDelegation
  RunningIsRecoverable
PROPERTIES
  TerminalIsFinal
  ImplementsLease
