\* Two threads that send through the raw and event routers of one factory, with
\* the queues of cfg/mq.json.
CONSTANTS
  x1 = x1
  x2 = x2
  a1 = a1
  a2 = a2
  a3 = a3
  m1 = m1
  m2 = m2
  Callers = {c1, c2}
  Documents <- RepositoryJson
  Batches <- TwoRouters
  AskedFor <- AskedAll
  Publication <- MCPublication
  BodyFrames <- MCBodyFrames
  Exchanges <- MCExchanges
  SocketBuffer = 1
  MaxPublished = 3
  MaxCalls = 3
SPECIFICATION Spec
INVARIANTS RTypeOK NothingStray CallsInOrder FailureIsFinal
SYMMETRY CallerSymmetry
CHECK_DEADLOCK FALSE
