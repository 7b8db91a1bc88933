SPECIFICATION Spec
CONSTANTS
  c1 = c1
  c2 = c2
  Subscribe <- TwoSockets
  Executor = "ThreadPool"
  PoolSize = 2
  Callback = {c1, c2}
  CallbackType <- TwoTypes
  Malformed = {}
  MaxPublished = 2
PROPERTIES
  StopReturns
  EveryJobDone
