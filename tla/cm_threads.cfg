\* Two threads that share the connection and take no lock.
CONSTANTS
  x1 = x1
  x2 = x2
  m = m
  Callers = {c1, c2}
  Publication <- MCPublication
  BodyFrames <- MCBodyFrames
  Exchanges <- MCExchanges
  SocketBuffer = 2
  MaxPublished = 3
SPECIFICATION CMSpec
INVARIANTS CMTypeOK PrefixDelivery FailedNeverProcessed LossHasCause DeadHasCause
CHECK_DEADLOCK FALSE
