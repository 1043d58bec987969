SPECIFICATION ApprovalSpec
CONSTANTS
  approval = approval
  exec = exec
  TaskId <- MCTaskId
  Approval = approval
  Exec = exec
  Agent = {a1}
  IdemKey = {}
  Null = Null
  NewTasks <- MCNewTasks
  Ttl = 1
  LeaseMs = 1
  ExtendSec = 1
  MaxExpires = 1
  MaxRestarts = 0
PROPERTIES
  ExpiredIsAnswered
