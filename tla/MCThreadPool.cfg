SPECIFICATION Spec
CONSTANTS
  Workers = {w1, w2}
  MaxTasks = 4
INVARIANTS
  TypeOK
  RunOnce
  NoLostWakeup
  DrainedWhenDestroyed
  BoundedOvertaking
PROPERTIES
  EveryTaskRuns
  DestructorReturns
  ImplementsExecutor
