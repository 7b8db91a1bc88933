---------------------------- MODULE TaskExecutor ----------------------------
(***************************************************************************)
(* What ThreadPool (src/subscriber.cpp) promises to run_loop: a task handed *)
(* over while the executor is open is run exactly once, tasks are begun in  *)
(* the order they were handed over, at most Capacity of them at a time, and *)
(* the executor is gone only when every one of them has been run.           *)
(*                                                                         *)
(* ThreadPool.tla implements this specification; Subscriber.tla uses it.    *)
(***************************************************************************)
EXTENDS Naturals, Sequences, FiniteSets

CONSTANTS
  Task,      \* the tasks that can be handed over, each at most once
  Capacity   \* how many tasks can be in progress together

VARIABLES
  phase,     \* "absent", "open" or "closing"
  pending,   \* the tasks handed over and not begun, oldest first
  active,    \* the tasks begun and not finished
  finished   \* the tasks finished, by this executor and by earlier ones

executorVars == <<phase, pending, active, finished>>

Init ==
  /\ phase = "absent"
  /\ pending = <<>>
  /\ active = {}
  /\ finished = {}

Known(t) ==
  \/ t \in active \cup finished
  \/ \E i \in DOMAIN pending : pending[i] = t

-----------------------------------------------------------------------------

Open ==
  /\ phase = "absent"
  /\ phase' = "open"
  /\ UNCHANGED <<pending, active, finished>>

Submit(t) ==
  /\ phase = "open"
  /\ ~Known(t)
  /\ pending' = Append(pending, t)
  /\ UNCHANGED <<phase, active, finished>>

Begin(t) ==
  /\ pending # <<>>
  /\ t = Head(pending)
  /\ Cardinality(active) < Capacity
  /\ pending' = Tail(pending)
  /\ active' = active \cup {t}
  /\ UNCHANGED <<phase, finished>>

Finish(t) ==
  /\ t \in active
  /\ active' = active \ {t}
  /\ finished' = finished \cup {t}
  /\ UNCHANGED <<phase, pending>>

Close ==
  /\ phase = "open"
  /\ phase' = "closing"
  /\ UNCHANGED <<pending, active, finished>>

Closed ==
  /\ phase = "closing"
  /\ pending = <<>>
  /\ active = {}
  /\ phase' = "absent"
  /\ UNCHANGED <<pending, active, finished>>

Next ==
  \/ Open \/ Close \/ Closed
  \/ \E t \in Task : Submit(t) \/ Begin(t) \/ Finish(t)

SafeSpec == Init /\ [][Next]_executorVars

Fairness ==
  /\ WF_executorVars(Closed)
  /\ \A t \in Task : WF_executorVars(Begin(t)) /\ WF_executorVars(Finish(t))

Spec == SafeSpec /\ Fairness
=============================================================================
