\* Filters of a queue in mq.json, which from_json reads past.
CONSTANTS
  x1 = x1
  x2 = x2
  a1 = a1
  a2 = a2
  a3 = a3
  m1 = m1
  m2 = m2
  Callers = {c1}
  Documents <- WithFilters
  Batches <- TwoRouters
  AskedFor <- AskedRaw
  Publication <- MCPublication
  BodyFrames <- MCBodyFrames
  Exchanges <- MCExchanges
  SocketBuffer = 2
  MaxPublished = 6
  MaxCalls = 2
SPECIFICATION Spec
INVARIANTS FiltersRespected
CHECK_DEADLOCK FALSE
