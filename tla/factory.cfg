\* Every order of getters, init() and init(routers), any of which may throw.
CONSTANTS
  Kinds <- MCKinds
  Given <- MCGiven
  MaxAttempts = 5
SPECIFICATION Spec
INVARIANTS FTypeOK OneConnection UnusableHasCause CrashOnlyBeforeInit AttemptsBounded
PROPERTIES UsableStays ReadOnlyAfterInit
CHECK_DEADLOCK FALSE
