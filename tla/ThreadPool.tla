----------------------------- MODULE ThreadPool -----------------------------
(***************************************************************************)
(* class ThreadPool of src/subscriber.cpp: the workers, the task queue, the *)
(* mutex and the condition variable, and the thread that owns the pool (the *)
(* receive thread: run_loop constructs it, enqueues into it, destroys it).  *)
(*                                                                         *)
(* A critical section of mutex_ is one step.  What happens outside it is a  *)
(* step of its own: the notification after the unlock, the task, the joins. *)
(***************************************************************************)
EXTENDS Naturals, Sequences, FiniteSets

CONSTANTS
  Workers,   \* the threads of workers_
  MaxTasks   \* bound: how many tasks are ever enqueued

\* The constructor replaces a thread count of 0 by 1.
ASSUME WorkersAssumption == IsFiniteSet(Workers) /\ Workers # {}

ASSUME MaxTasksAssumption == MaxTasks \in Nat

VARIABLES
  owner,     \* where the owning thread is, see OwnerStates
  stop,      \* stop_
  tasks,     \* tasks_: task n is the n-th one enqueued
  enqueued,  \* how many tasks have been enqueued so far
  worker,    \* where each worker is, see WorkerStates
  task,      \* the task each worker is running, 0 when it runs none
  finished   \* history: the tasks that have returned

vars == <<owner, stop, tasks, enqueued, worker, task, finished>>

\* "absent": no pool.  "open": between calls.  "notify": enqueue has released
\* the mutex.  "stop": the destructor has released it.  "join": it is joining.
OwnerStates == {"absent", "open", "notify", "stop", "join"}

\* "check": about to lock and evaluate the predicate.  "waiting": in cv_.wait.
WorkerStates == {"check", "waiting", "running", "exited"}

Waiting == {w \in Workers : worker[w] = "waiting"}
Checking == {w \in Workers : worker[w] = "check"}
Running == {w \in Workers : worker[w] = "running"}

Init ==
  /\ owner = "absent"
  /\ stop = FALSE
  /\ tasks = <<>>
  /\ enqueued = 0
  /\ worker = [w \in Workers |-> "exited"]
  /\ task = [w \in Workers |-> 0]
  /\ finished = {}

-----------------------------------------------------------------------------
(* The owning thread.                                                      *)

Construct ==
  /\ owner = "absent"
  /\ owner' = "open"
  /\ stop' = FALSE
  /\ tasks' = <<>>
  /\ worker' = [w \in Workers |-> "check"]
  /\ UNCHANGED <<enqueued, task, finished>>

Enqueue ==
  /\ owner = "open"
  /\ enqueued < MaxTasks
  /\ enqueued' = enqueued + 1
  /\ tasks' = Append(tasks, enqueued + 1)
  /\ owner' = "notify"
  /\ UNCHANGED <<stop, worker, task, finished>>

\* A faulty variant: notify only when the queue was empty before.
NotifyOneWhenFirst ==
  /\ owner = "notify"
  /\ owner' = "open"
  /\ \/ /\ Waiting = {} \/ Len(tasks) # 1
        /\ UNCHANGED worker
     \/ /\ Len(tasks) = 1
        /\ \E w \in Waiting : worker' = [worker EXCEPT ![w] = "check"]
  /\ UNCHANGED <<stop, tasks, enqueued, task, finished>>

\* A faulty variant: enqueue without the notification.
NotifyNobody ==
  /\ owner = "notify"
  /\ owner' = "open"
  /\ UNCHANGED <<stop, tasks, enqueued, worker, task, finished>>

\* Wakes one waiter, any of them; nobody when nobody waits.
NotifyOne ==
  /\ owner = "notify"
  /\ owner' = "open"
  /\ \/ /\ Waiting = {}
        /\ UNCHANGED worker
     \/ \E w \in Waiting : worker' = [worker EXCEPT ![w] = "check"]
  /\ UNCHANGED <<stop, tasks, enqueued, task, finished>>

RequestStop ==
  /\ owner = "open"
  /\ stop' = TRUE
  /\ owner' = "stop"
  /\ UNCHANGED <<tasks, enqueued, worker, task, finished>>

\* A faulty variant: notify_one in the destructor.
NotifyOneOfAll ==
  /\ owner = "stop"
  /\ owner' = "join"
  /\ \/ /\ Waiting = {}
        /\ UNCHANGED worker
     \/ \E w \in Waiting : worker' = [worker EXCEPT ![w] = "check"]
  /\ UNCHANGED <<stop, tasks, enqueued, task, finished>>

NotifyAll ==
  /\ owner = "stop"
  /\ owner' = "join"
  /\ worker' = [w \in Workers |-> IF w \in Waiting THEN "check" ELSE worker[w]]
  /\ UNCHANGED <<stop, tasks, enqueued, task, finished>>

\* A faulty variant: the workers are detached.
JoinNobody ==
  /\ owner = "join"
  /\ owner' = "absent"
  /\ UNCHANGED <<stop, tasks, enqueued, worker, task, finished>>

Joined ==
  /\ owner = "join"
  /\ \A w \in Workers : worker[w] = "exited"
  /\ owner' = "absent"
  /\ UNCHANGED <<stop, tasks, enqueued, worker, task, finished>>

-----------------------------------------------------------------------------
(* worker_loop.                                                            *)

Wait(w) ==
  /\ worker[w] = "check"
  /\ ~stop /\ tasks = <<>>
  /\ worker' = [worker EXCEPT ![w] = "waiting"]
  /\ UNCHANGED <<owner, stop, tasks, enqueued, task, finished>>

\* A faulty variant: cv_.wait without a predicate.
WakeupTrusted(w) ==
  /\ worker[w] = "waiting"
  /\ worker' = [worker EXCEPT ![w] = "running"]
  /\ UNCHANGED <<owner, stop, tasks, enqueued, task, finished>>

\* std::condition_variable::wait may return without a notification.
SpuriousWakeup(w) ==
  /\ worker[w] = "waiting"
  /\ worker' = [worker EXCEPT ![w] = "check"]
  /\ UNCHANGED <<owner, stop, tasks, enqueued, task, finished>>

\* A faulty variant: leave as soon as stop_ is set.
ExitOnStop(w) ==
  /\ worker[w] = "check"
  /\ stop
  /\ worker' = [worker EXCEPT ![w] = "exited"]
  /\ UNCHANGED <<owner, stop, tasks, enqueued, task, finished>>

Exit(w) ==
  /\ worker[w] = "check"
  /\ stop /\ tasks = <<>>
  /\ worker' = [worker EXCEPT ![w] = "exited"]
  /\ UNCHANGED <<owner, stop, tasks, enqueued, task, finished>>

\* A faulty variant: front() without pop().
TakeWithoutPop(w) ==
  /\ worker[w] = "check"
  /\ tasks # <<>>
  /\ task' = [task EXCEPT ![w] = Head(tasks)]
  /\ worker' = [worker EXCEPT ![w] = "running"]
  /\ UNCHANGED <<owner, stop, tasks, enqueued, finished>>

\* A faulty variant: a stack for a queue.
TakeNewest(w) ==
  /\ worker[w] = "check"
  /\ tasks # <<>>
  /\ task' = [task EXCEPT ![w] = tasks[Len(tasks)]]
  /\ tasks' = SubSeq(tasks, 1, Len(tasks) - 1)
  /\ worker' = [worker EXCEPT ![w] = "running"]
  /\ UNCHANGED <<owner, stop, enqueued, finished>>

Take(w) ==
  /\ worker[w] = "check"
  /\ tasks # <<>>
  /\ task' = [task EXCEPT ![w] = Head(tasks)]
  /\ tasks' = Tail(tasks)
  /\ worker' = [worker EXCEPT ![w] = "running"]
  /\ UNCHANGED <<owner, stop, enqueued, finished>>

\* task() returns.
Return(w) ==
  /\ worker[w] = "running"
  /\ finished' = finished \cup {task[w]}
  /\ task' = [task EXCEPT ![w] = 0]
  /\ worker' = [worker EXCEPT ![w] = "check"]
  /\ UNCHANGED <<owner, stop, tasks, enqueued>>

-----------------------------------------------------------------------------

OwnerNext ==
  Construct \/ Enqueue \/ NotifyOne \/ RequestStop \/ NotifyAll \/ Joined

WorkerLoop(w) == Wait(w) \/ Exit(w) \/ Take(w) \/ Return(w)

Next ==
  \/ OwnerNext
  \/ \E w \in Workers : WorkerLoop(w) \/ SpuriousWakeup(w)

SafeSpec == Init /\ [][Next]_vars

\* A thread that can run is run, and tasks return.  Whether there is a pool,
\* what is enqueued and when the destructor is called is the owner's choice.
Fairness ==
  /\ WF_vars(NotifyOne) /\ WF_vars(NotifyAll) /\ WF_vars(Joined)
  /\ \A w \in Workers : WF_vars(WorkerLoop(w))

Spec == SafeSpec /\ Fairness

-----------------------------------------------------------------------------
(* Properties.                                                             *)

\* The types; a worker has a task exactly while it is running, so no wakeup
\* lets it past the predicate without one.
TypeOK ==
  /\ owner \in OwnerStates
  /\ stop \in BOOLEAN
  /\ enqueued \in 0..MaxTasks
  /\ tasks \in Seq(1..MaxTasks)
  /\ worker \in [Workers -> WorkerStates]
  /\ task \in [Workers -> 0..MaxTasks]
  /\ \A w \in Workers : task[w] # 0 <=> worker[w] = "running"
  /\ finished \subseteq 1..MaxTasks

\* How many of the enqueued tasks have left the queue.
Popped == enqueued - Len(tasks)

InProgress == {task[w] : w \in Running}

\* The tasks are popped in the order they were enqueued, and every popped task
\* has returned or is being run, by one worker: none is lost, none is run twice.
RunOnce ==
  /\ \A i \in DOMAIN tasks : tasks[i] = Popped + i
  /\ finished \cup InProgress = 1..Popped
  /\ finished \cap InProgress = {}
  /\ \A v, w \in Running : task[v] = task[w] => v = w

\* While a worker waits, there is an awake, idle worker for every queued task,
\* counting the wakeup that enqueue still owes.
WorkConserving ==
  Waiting # {} =>
    Cardinality(Checking) + (IF owner = "notify" THEN 1 ELSE 0) >= Len(tasks)

\* Once the destructor has notified, no worker waits.
NoWaiterAtJoin == owner = "join" => Waiting = {}

\* No worker sleeps beside work that nobody is coming for, although enqueue
\* notifies after it has released the mutex and only once; and none sleeps when
\* the destructor joins, when nobody is left to wake it.
NoLostWakeup == WorkConserving /\ NoWaiterAtJoin

\* The destructor returns only when every task enqueued has returned and every
\* worker has ended: a task holds a pointer to Impl, which dies next.
DrainedWhenDestroyed ==
  owner = "absent" =>
    /\ tasks = <<>>
    /\ finished = 1..enqueued
    /\ \A w \in Workers : worker[w] = "exited"

\* Tasks, and with them the callbacks of one message type, may complete out of
\* order, but when a task returns fewer earlier ones than there are workers are
\* still to return: with one worker the order is that of enqueue.
BoundedOvertaking ==
  \A k \in finished :
    Cardinality({j \in 1..k : j \notin finished}) < Cardinality(Workers)

\* Every task enqueued is run, whatever the owner does next.
EveryTaskRuns ==
  \A k \in 1..MaxTasks : enqueued >= k ~> k \in finished

\* The destructor returns.
DestructorReturns == owner = "stop" ~> owner = "absent"

\* The pool is the executor that TaskExecutor promises: the workers that run a
\* task are its capacity, and from the destructor's first step it is closing.
Executor ==
  INSTANCE TaskExecutor WITH
    Task <- 1..MaxTasks,
    Capacity <- Cardinality(Workers),
    phase <- CASE owner = "absent" -> "absent"
               [] owner \in {"open", "notify"} -> "open"
               [] owner \in {"stop", "join"} -> "closing",
    pending <- tasks,
    active <- InProgress,
    finished <- finished

\* Every behaviour of the pool is one of the executor, liveness included.
ImplementsExecutor == Executor!Spec
=============================================================================
