\* One Impl calls back on a pool, the other on its receive thread.
SPECIFICATION Spec
CONSTANTS
  Subscribers = {s1, s2}
  Impls = {pooled, inline}
  Threads = {t1, t2}
  Controllers = {c1, c2}
  Slots = {k1}
  Inline = {inline}
  None = none
INVARIANTS
  TypeOK
  RulesSuffice
  StopIsBarrier
  OneReceiver
  JoinsEnd
CHECK_DEADLOCK FALSE
