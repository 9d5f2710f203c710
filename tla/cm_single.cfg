\* One thread, as in main.cpp: the refinement and the liveness properties.
CONSTANTS
  x1 = x1
  x2 = x2
  m = m
  Callers = {c1}
  Publication <- MCPublication
  BodyFrames <- MCBodyFrames
  Exchanges <- MCExchanges
  SocketBuffer = 3
  MaxPublished = 3
SPECIFICATION CMFairSpec
PROPERTIES OrderedDelivery PublishReturns PublishedArrives
CHECK_DEADLOCK FALSE
