\* The program of the repository with its mq.json.
CONSTANTS
  x1 = x1
  a1 = a1
  a2 = a2
  m1 = m1
  thread = t
  Callers = {t}
  batch_total = 2
  Demo <- MCDemo
  CommandLines <- MCCommandLines
  Disks <- MCDisks
  Environments <- MCEnvironments
  Accepted_login = "right"
  Documents <- RepositoryJson
  Batches <- MCBatches
  AskedFor <- NothingAsked
  Publication <- MCPublication
  BodyFrames <- MCBodyFrames
  Exchanges <- MCExchanges
  SocketBuffer = 2
  MaxPublished = 6
  MaxCalls = 6
SPECIFICATION DemoSpec
INVARIANTS DTypeOK PublishesItsBatches SendsThroughUsable TerminatedHasCause
PROPERTIES MainEnds FinishedDelivers
CHECK_DEADLOCK FALSE
