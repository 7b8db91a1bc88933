SPECIFICATION Spec
CONSTANTS
  c1 = c1
  c2 = c2
  Subscribe <- ThreeSockets
  Executor = "Inline"
  PoolSize = 2
  Callback = {c1, c2}
  CallbackType <- TwoTypes
  Malformed = {2}
  MaxPublished = 3
INVARIANTS
  BoundedReordering
  StopCutsOff
PROPERTIES
  EveryMessageReceived
  ImplementsNotifications
