SPECIFICATION Spec
CONSTANTS
  Source = {s1, s2}
  Persona = {p1, p2}
  Classifier = {c1}
  Limit = 2
  Max_retries = 1
  MaxIngests = 2
  MaxCrashes = 1
  Null = Null
SYMMETRY Symmetric
INVARIANTS
  TypeOK
  VaultedOnce
  EveryTargetReached
PROPERTIES
  ImplementsPromise
  DeadLettersRest
