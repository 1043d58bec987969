SPECIFICATION Spec
CONSTANTS
  Query = q
  Answer = {a1, a2}
  Refusal = {r1}
  Note = {n1}
  Pass = {p1, p2}
  Max_retries = 1
  Max_queue = 1
  MaxFaults = 2
CHECK_DEADLOCK FALSE
SYMMETRY Symmetric
INVARIANTS
  TypeOK
  OneReservation
  OneSent
  SpentMeansSent
  OneAcceptance
  RetriesBounded
  OnePlace
