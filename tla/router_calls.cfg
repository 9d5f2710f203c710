\* One thread and every kind of call on queues of one kind each.
CONSTANTS
  x1 = x1
  x2 = x2
  a1 = a1
  a2 = a2
  a3 = a3
  m1 = m1
  m2 = m2
  Callers = {c1}
  Documents <- OneKindEach
  Batches <- MCBatches
  AskedFor <- Asked
  Publication <- MCPublication
  BodyFrames <- MCBodyFrames
  Exchanges <- MCExchanges
  SocketBuffer = 2
  MaxPublished = 6
  MaxCalls = 2
SPECIFICATION FairSpec
INVARIANTS OkMeansDelivered ThrewMeansIncomplete OneTypePerQueue
PROPERTY CallReturns
CHECK_DEADLOCK FALSE
