\* Two threads make their first object, each of any class.
CONSTANTS
  Threads = {t1, t2}
  MaxObjects = 1
SPECIFICATION Spec
INVARIANT ReachableDefaults
PROPERTY ConstructorEnds
CHECK_DEADLOCK FALSE
