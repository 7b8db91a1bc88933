SPECIFICATION SafeSpec
CONSTANTS
  c1 = c1
  c2 = c2
  Subscribe <- OneSocket
  Executor = "ThreadPool"
  PoolSize = 2
  Callback = {c1, c2}
  CallbackType <- TwoOfOneType
  Malformed = {}
  MaxPublished = 3
INVARIANTS
  TypeOK
  Quiescent
  HeardByAudience
  HeardOnce
  BoundedReordering
  CallbackMayRegister
PROPERTIES
  ImplementsNotifications
SYMMETRY Interchangeable
