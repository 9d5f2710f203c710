\* Does init() that returns leave routers that work?
CONSTANTS
  Kinds <- MCKinds
  Given <- MCGiven
  MaxAttempts = 5
SPECIFICATION Spec
INVARIANTS InitOkMeansUsable
CHECK_DEADLOCK FALSE
