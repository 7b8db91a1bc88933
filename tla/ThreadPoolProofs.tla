-------------------------- MODULE ThreadPoolProofs --------------------------
(***************************************************************************)
(* Theorems about ThreadPool, for every number of workers and of tasks.     *)
(***************************************************************************)
EXTENDS ThreadPool, FiniteSetTheorems, SequenceTheorems, TLAPS

(***************************************************************************)
(* The inductive invariant.  The properties of ThreadPool are not inductive *)
(* as they stand: they need to know when stop_ is set, that a worker ends   *)
(* only once it is set and the queue is empty, and that for every task that *)
(* has returned some worker is past it.                                     *)
(***************************************************************************)

QueueInv == Len(tasks) <= enqueued /\ RunOnce

StopInv ==
  /\ owner \in {"open", "notify"} => ~stop
  /\ owner \in {"stop", "join"} => stop
  /\ owner = "absent" => \A w \in Workers : worker[w] = "exited"
  /\ \A w \in Workers :
       worker[w] = "exited" => tasks = <<>> /\ owner \notin {"open", "notify"}
  /\ NoWaiterAtJoin

PastInv ==
  \A k \in finished :
    \E w \in Workers : ~(worker[w] = "running" /\ task[w] < k)

IInv == TypeOK /\ QueueInv /\ StopInv /\ WorkConserving /\ PastInv

-----------------------------------------------------------------------------
(* Lemmas.                                                                 *)

\* Any set of workers is finite and has a natural number of members, no more
\* than there are workers.
LEMMA SomeWorkers ==
  ASSUME NEW S \in SUBSET Workers
  PROVE  IsFiniteSet(S) /\ Cardinality(S) \in Nat
         /\ Cardinality(S) <= Cardinality(Workers)
BY WorkersAssumption, FS_Subset, FS_CardinalityType

\* The tasks of some but not all workers are fewer than the workers.
LEMMA FewerTasksThanWorkers ==
  ASSUME NEW S \in SUBSET Workers, S # Workers,
         NEW T, T \subseteq {task[w] : w \in S}
  PROVE  IsFiniteSet(T) /\ Cardinality(T) < Cardinality(Workers)
<1> DEFINE f == [w \in S |-> task[w]]
           R == {task[w] : w \in S}
<1>1. IsFiniteSet(S) /\ Cardinality(S) < Cardinality(Workers)
  <2>1. Cardinality(S) # Cardinality(Workers)
    BY WorkersAssumption, FS_Subset
  <2>2. Cardinality(Workers) \in Nat
    BY WorkersAssumption, FS_CardinalityType
  <2> QED BY <2>1, <2>2, SomeWorkers
<1>2. f \in Surjection(S, R)
  BY DEF Surjection
<1>3. IsFiniteSet(R) /\ Cardinality(R) <= Cardinality(S)
  BY <1>1, <1>2, FS_Surjection
<1>4. IsFiniteSet(T) /\ Cardinality(T) <= Cardinality(R)
  BY <1>3, FS_Subset
<1>5. Cardinality(T) \in Nat /\ Cardinality(R) \in Nat /\ Cardinality(S) \in Nat
      /\ Cardinality(Workers) \in Nat
  BY <1>1, <1>3, <1>4, FS_CardinalityType, WorkersAssumption
<1> QED BY <1>1, <1>3, <1>4, <1>5

\* What pop() leaves.
LEMMA QueueTail ==
  ASSUME tasks \in Seq(1..MaxTasks), tasks # <<>>
  PROVE  /\ Len(tasks) \in Nat \ {0} /\ DOMAIN tasks = 1..Len(tasks)
         /\ Head(tasks) = tasks[1] /\ Head(tasks) \in 1..MaxTasks
         /\ Tail(tasks) \in Seq(1..MaxTasks)
         /\ Len(Tail(tasks)) = Len(tasks) - 1
         /\ DOMAIN Tail(tasks) = 1..(Len(tasks) - 1)
         /\ \A i \in 1..(Len(tasks) - 1) : Tail(tasks)[i] = tasks[i + 1]
<1>1. Len(tasks) \in Nat \ {0} /\ DOMAIN tasks = 1..Len(tasks)
  BY EmptySeq, LenProperties
<1>2. /\ Head(tasks) \in 1..MaxTasks /\ Tail(tasks) \in Seq(1..MaxTasks)
      /\ Len(Tail(tasks)) = Len(tasks) - 1
      /\ \A i \in 1..Len(Tail(tasks)) : Tail(tasks)[i] = tasks[i + 1]
  BY HeadTailProperties
<1>3. DOMAIN Tail(tasks) = 1..Len(Tail(tasks))
  BY <1>2, LenProperties
<1> QED BY <1>1, <1>2, <1>3

-----------------------------------------------------------------------------
(* TypeOK.                                                                 *)

\* The types hold initially and every step keeps them.
LEMMA TypeInit == Init => TypeOK
<1> SUFFICES ASSUME Init PROVE TypeOK
  OBVIOUS
<1>1. tasks \in Seq(1..MaxTasks)
  BY EmptySeq DEF Init
<1>2. task \in [Workers -> 0..MaxTasks] /\ worker \in [Workers -> WorkerStates]
  BY MaxTasksAssumption DEF Init, WorkerStates
<1>3. \A w \in Workers : task[w] # 0 <=> worker[w] = "running"
  BY DEF Init
<1>4. stop \in BOOLEAN
  BY DEF Init
<1>5. owner \in OwnerStates /\ enqueued \in 0..MaxTasks /\ finished \subseteq 1..MaxTasks
  BY MaxTasksAssumption DEF Init, OwnerStates
<1> QED BY <1>1, <1>2, <1>3, <1>4, <1>5 DEF TypeOK

\* Every step keeps the types.
LEMMA TypeNext == IInv /\ [Next]_vars => TypeOK'
<1> SUFFICES ASSUME IInv, [Next]_vars PROVE TypeOK'
  OBVIOUS
<1> USE MaxTasksAssumption DEF IInv, TypeOK, OwnerStates, WorkerStates
<1>1. CASE Construct
  <2>1. tasks' \in Seq(1..MaxTasks)
    BY <1>1, EmptySeq DEF Construct
  <2>2. \A w \in Workers : task[w] = 0
    BY <1>1 DEF Construct, StopInv
  <2> QED BY <1>1, <2>1, <2>2 DEF Construct
<1>2. CASE Enqueue
  <2>1. enqueued + 1 \in 1..MaxTasks
    BY <1>2 DEF Enqueue
  <2>2. tasks' \in Seq(1..MaxTasks)
    BY <1>2, <2>1, AppendProperties DEF Enqueue
  <2> QED BY <1>2, <2>1, <2>2 DEF Enqueue
<1>3. CASE NotifyOne
  BY <1>3 DEF NotifyOne, Waiting
<1>4. CASE RequestStop
  BY <1>4 DEF RequestStop
<1>5. CASE NotifyAll
  BY <1>5 DEF NotifyAll, Waiting
<1>6. CASE Joined
  BY <1>6 DEF Joined
<1>7. ASSUME NEW w \in Workers, Wait(w) PROVE TypeOK'
  BY <1>7 DEF Wait
<1>8. ASSUME NEW w \in Workers, SpuriousWakeup(w) PROVE TypeOK'
  BY <1>8 DEF SpuriousWakeup
<1>9. ASSUME NEW w \in Workers, Exit(w) PROVE TypeOK'
  BY <1>9 DEF Exit
<1>10. ASSUME NEW w \in Workers, Take(w) PROVE TypeOK'
  <2>1. Head(tasks) \in 1..MaxTasks /\ Tail(tasks) \in Seq(1..MaxTasks)
    BY <1>10, QueueTail DEF Take
  <2>2. task' \in [Workers -> 0..MaxTasks] /\ worker' \in [Workers -> WorkerStates]
    BY <1>10, <2>1 DEF Take
  <2>3. \A v \in Workers : task'[v] # 0 <=> worker'[v] = "running"
    BY <1>10, <2>1 DEF Take
  <2>4. tasks' \in Seq(1..MaxTasks)
    BY <1>10, <2>1 DEF Take
  <2>5. owner' \in OwnerStates /\ stop' \in BOOLEAN /\ enqueued' \in 0..MaxTasks
        /\ finished' \subseteq 1..MaxTasks
    BY <1>10 DEF Take
  <2> QED BY <2>2, <2>3, <2>4, <2>5
<1>11. ASSUME NEW w \in Workers, Return(w) PROVE TypeOK'
  <2>1. task[w] \in 1..MaxTasks
    BY <1>11 DEF Return
  <2>2. task' \in [Workers -> 0..MaxTasks] /\ worker' \in [Workers -> WorkerStates]
    BY <1>11 DEF Return
  <2>3. \A v \in Workers : task'[v] # 0 <=> worker'[v] = "running"
    BY <1>11 DEF Return
  <2>4. finished' \subseteq 1..MaxTasks
    BY <1>11, <2>1 DEF Return
  <2> QED BY <1>11, <2>2, <2>3, <2>4 DEF Return
<1>12. CASE UNCHANGED vars
  BY <1>12 DEF vars
<1> QED
  BY <1>1, <1>2, <1>3, <1>4, <1>5, <1>6, <1>7, <1>8, <1>9, <1>10, <1>11, <1>12
     DEF Next, OwnerNext, WorkerLoop

-----------------------------------------------------------------------------
(* The queue: which tasks are in it, being run, and done.                  *)

\* Every step keeps the tasks in order, each queued, run by one worker, or
\* done.
LEMMA QueueNext == IInv /\ [Next]_vars => QueueInv'
<1> SUFFICES ASSUME IInv, [Next]_vars PROVE QueueInv'
  OBVIOUS
<1> USE DEF QueueInv, RunOnce, Popped, InProgress, Running
<1>0. /\ TypeOK /\ QueueInv /\ StopInv /\ enqueued \in Nat
      /\ Len(tasks) \in Nat /\ DOMAIN tasks = 1..Len(tasks)
  BY LenProperties, MaxTasksAssumption DEF IInv, TypeOK
<1>1. CASE Construct
  <2>1. \A w \in Workers : worker[w] = "exited"
    BY <1>0, <1>1 DEF Construct, StopInv
  <2>2. tasks = <<>>
    BY <1>0, <2>1, WorkersAssumption DEF StopInv
  <2>3. tasks' = tasks /\ enqueued' = enqueued /\ task' = task /\ finished' = finished
    BY <1>1, <2>2 DEF Construct
  <2>4. Running = {} /\ Running' = {}
    BY <1>0, <1>1, <2>1 DEF Construct, TypeOK
  <2> QED BY <1>0, <2>3, <2>4
<1>2. CASE Enqueue
  <2>1. /\ Len(tasks') = Len(tasks) + 1 /\ DOMAIN tasks' = 1..(Len(tasks) + 1)
        /\ \A i \in 1..Len(tasks) : tasks'[i] = tasks[i]
        /\ tasks'[Len(tasks) + 1] = enqueued + 1
    <3>1. enqueued + 1 \in 1..MaxTasks
      BY <1>0, <1>2, MaxTasksAssumption DEF Enqueue, TypeOK
    <3> QED BY <1>0, <1>2, <3>1, AppendProperties, LenProperties DEF Enqueue, TypeOK
  <2>2. Popped' = Popped
    BY <1>0, <1>2, <2>1 DEF Enqueue
  <2>3. \A i \in DOMAIN tasks' : tasks'[i] = Popped + i
    <3> SUFFICES ASSUME NEW i \in 1..(Len(tasks) + 1) PROVE tasks'[i] = Popped + i
      BY <2>1
    <3>1. CASE i \in DOMAIN tasks
      BY <1>0, <2>1, <3>1
    <3>2. CASE i = Len(tasks) + 1
      BY <1>0, <2>1, <3>2
    <3> QED BY <1>0, <3>1, <3>2
  <2>4. InProgress' = InProgress /\ Running' = Running /\ finished' = finished
        /\ task' = task
    BY <1>2 DEF Enqueue
  <2>5. Len(tasks') <= enqueued'
    BY <1>0, <1>2, <2>1 DEF Enqueue
  <2> QED BY <1>0, <2>2, <2>3, <2>4, <2>5
<1>3. ASSUME UNCHANGED <<tasks, enqueued, task, finished>>, Running' = Running
      PROVE  QueueInv'
  BY <1>0, <1>3
<1>4. CASE NotifyOne
  BY <1>0, <1>3, <1>4 DEF NotifyOne, Waiting, TypeOK
<1>5. CASE NotifyAll
  BY <1>0, <1>3, <1>5 DEF NotifyAll, Waiting, TypeOK
<1>6. CASE RequestStop \/ Joined \/ UNCHANGED vars
  BY <1>3, <1>6 DEF RequestStop, Joined, vars
<1>7. ASSUME NEW w \in Workers, Wait(w) \/ SpuriousWakeup(w) \/ Exit(w)
      PROVE  QueueInv'
  BY <1>0, <1>3, <1>7 DEF Wait, SpuriousWakeup, Exit, TypeOK
<1>8. ASSUME NEW w \in Workers, Take(w) PROVE QueueInv'
  <2>1. /\ Len(tasks') = Len(tasks) - 1 /\ DOMAIN tasks' = 1..(Len(tasks) - 1)
        /\ \A i \in 1..(Len(tasks) - 1) : tasks'[i] = tasks[i + 1]
        /\ Head(tasks) = tasks[1] /\ Len(tasks) >= 1
    BY <1>0, <1>8, QueueTail DEF Take, TypeOK
  <2>2. Popped' = Popped + 1 /\ Head(tasks) = Popped + 1
    BY <1>0, <1>8, <2>1 DEF Take
  <2>3. \A i \in DOMAIN tasks' : tasks'[i] = Popped' + i
    <3> SUFFICES ASSUME NEW i \in 1..(Len(tasks) - 1) PROVE tasks[i + 1] = Popped + 1 + i
      BY <2>1, <2>2
    <3>1. i + 1 \in DOMAIN tasks
      BY <1>0
    <3> QED BY <1>0, <3>1
  <2>4. Running' = Running \cup {w} /\ w \notin Running
    BY <1>0, <1>8 DEF Take, TypeOK
  <2>5. task'[w] = Popped + 1 /\ \A v \in Running : task'[v] = task[v]
    BY <1>0, <1>8, <2>2, <2>4 DEF Take, TypeOK
  <2>6. InProgress' = InProgress \cup {Popped + 1}
    BY <2>4, <2>5
  <2>7. 1..(Popped + 1) = (1..Popped) \cup {Popped + 1} /\ Popped + 1 \notin 1..Popped
    BY <1>0
  <2>8. finished' = finished
    BY <1>8 DEF Take
  <2>9. \A v \in Running : task[v] # Popped + 1
    BY <1>0, <2>7
  <2>10. \A u, v \in Running' : task'[u] = task'[v] => u = v
    BY <1>0, <2>4, <2>5, <2>9
  <2>11. Len(tasks') <= enqueued'
    BY <1>0, <1>8, <2>1 DEF Take
  <2>12. finished' \cup InProgress' = 1..Popped' /\ finished' \cap InProgress' = {}
    <3>1. finished \cup InProgress = 1..Popped /\ finished \cap InProgress = {}
      BY <1>0
    <3> HIDE DEF InProgress, Popped
    <3> QED BY <2>2, <2>6, <2>7, <2>8, <3>1
  <2> QED BY <2>3, <2>10, <2>11, <2>12
<1>9. ASSUME NEW w \in Workers, Return(w) PROVE QueueInv'
  <2>1. Running' = Running \ {w} /\ w \in Running
    BY <1>0, <1>9 DEF Return, TypeOK
  <2>2. \A v \in Running' : task'[v] = task[v]
    BY <1>0, <1>9, <2>1 DEF Return, TypeOK
  <2>3. InProgress' = InProgress \ {task[w]} /\ task[w] \in InProgress
    BY <1>0, <2>1, <2>2
  <2>4. finished' = finished \cup {task[w]} /\ tasks' = tasks /\ Popped' = Popped
    BY <1>9 DEF Return
  <2>5. \A u, v \in Running' : task'[u] = task'[v] => u = v
    BY <1>0, <2>1, <2>2
  <2>6. finished' \cup InProgress' = 1..Popped' /\ finished' \cap InProgress' = {}
    <3>1. finished \cup InProgress = 1..Popped /\ finished \cap InProgress = {}
      BY <1>0
    <3> HIDE DEF InProgress, Popped
    <3> QED BY <2>3, <2>4, <3>1
  <2>7. Len(tasks') <= enqueued' /\ \A i \in DOMAIN tasks' : tasks'[i] = Popped' + i
    BY <1>0, <1>9, <2>4 DEF Return
  <2> QED BY <2>5, <2>6, <2>7
<1> QED
  BY <1>1, <1>2, <1>4, <1>5, <1>6, <1>7, <1>8, <1>9 DEF Next, OwnerNext, WorkerLoop

-----------------------------------------------------------------------------
(* Shutdown: who may have ended, and who may still wait.                   *)

\* Workers end only when stop_ is set and the queue is empty; notify_all
\* wakes all.
LEMMA StopNext == IInv /\ [Next]_vars => StopInv'
<1> SUFFICES ASSUME IInv, [Next]_vars PROVE StopInv'
  OBVIOUS
<1> USE DEF StopInv, NoWaiterAtJoin, Waiting
<1>0. TypeOK /\ StopInv
  BY DEF IInv
<1>1. CASE Construct
  BY <1>0, <1>1 DEF Construct, TypeOK
<1>2. CASE Enqueue
  BY <1>0, <1>2 DEF Enqueue
<1>3. CASE NotifyOne
  BY <1>0, <1>3 DEF NotifyOne, TypeOK
<1>4. CASE RequestStop
  BY <1>0, <1>4 DEF RequestStop
<1>5. CASE NotifyAll
  BY <1>0, <1>5 DEF NotifyAll, TypeOK
<1>6. CASE Joined
  BY <1>0, <1>6 DEF Joined
<1>7. ASSUME NEW w \in Workers, Wait(w) PROVE StopInv'
  BY <1>0, <1>7 DEF Wait, TypeOK
<1>8. ASSUME NEW w \in Workers, SpuriousWakeup(w) PROVE StopInv'
  BY <1>0, <1>8 DEF SpuriousWakeup, TypeOK
<1>9. ASSUME NEW w \in Workers, Exit(w) PROVE StopInv'
  BY <1>0, <1>9 DEF Exit, TypeOK
<1>10. ASSUME NEW w \in Workers, Take(w) PROVE StopInv'
  BY <1>0, <1>10 DEF Take, TypeOK
<1>11. ASSUME NEW w \in Workers, Return(w) PROVE StopInv'
  BY <1>0, <1>11 DEF Return, TypeOK
<1>12. CASE UNCHANGED vars
  BY <1>0, <1>12 DEF vars
<1> QED
  BY <1>1, <1>2, <1>3, <1>4, <1>5, <1>6, <1>7, <1>8, <1>9, <1>10, <1>11, <1>12
     DEF Next, OwnerNext, WorkerLoop

-----------------------------------------------------------------------------
(* Wakeups: idle, awake workers against queued tasks.                      *)

\* A worker goes to sleep only when the queue is empty, and each new task
\* wakes one.
LEMMA WorkConservingNext == IInv /\ [Next]_vars => WorkConserving'
<1> SUFFICES ASSUME IInv, [Next]_vars, Waiting' # {} PROVE WorkConserving'
  BY DEF WorkConserving
<1> DEFINE C == Cardinality(Checking)
<1>0. /\ TypeOK /\ StopInv /\ WorkConserving
      /\ Len(tasks) \in Nat
  BY LenProperties DEF IInv, TypeOK
<1>a. IsFiniteSet(Checking) /\ C \in Nat
  BY SomeWorkers DEF Checking
<1>b. ASSUME Checking' = Checking, Waiting' = Waiting, tasks' = tasks,
             owner = "notify" => owner' = "notify"
      PROVE  WorkConserving'
  BY <1>0, <1>a, <1>b DEF WorkConserving
<1>c. ASSUME NEW w \in Workers, Checking' = Checking \cup {w}, w \notin Checking,
             Waiting # {}, tasks' = tasks
      PROVE  WorkConserving'
  <2>1. Cardinality(Checking') = C + 1
    BY <1>a, <1>c, FS_AddElement
  <2> QED BY <1>0, <1>a, <1>c, <2>1 DEF WorkConserving
<1>d. ASSUME tasks' = <<>>, Checking' \in SUBSET Workers
      PROVE  WorkConserving'
  <2>1. Len(tasks') = 0
    BY <1>d
  <2>2. Cardinality(Checking') \in Nat
    BY <1>d, SomeWorkers
  <2> QED BY <2>1, <2>2 DEF WorkConserving
<1>1. CASE Construct
  BY <1>1 DEF Construct, Waiting
<1>2. CASE Enqueue
  <2>1. Len(tasks') = Len(tasks) + 1
    <3>1. enqueued + 1 \in 1..MaxTasks
      BY <1>0, <1>2, MaxTasksAssumption DEF Enqueue, TypeOK
    <3> QED BY <1>0, <1>2, <3>1, AppendProperties DEF Enqueue, TypeOK
  <2>2. Checking' = Checking /\ Waiting' = Waiting /\ owner = "open" /\ owner' = "notify"
    BY <1>2 DEF Enqueue, Checking, Waiting
  <2> QED BY <1>0, <1>a, <2>1, <2>2 DEF WorkConserving
<1>3. CASE NotifyOne
  <2>1. PICK w \in Waiting : worker' = [worker EXCEPT ![w] = "check"]
    BY <1>3 DEF NotifyOne, Waiting
  <2>2. Checking' = Checking \cup {w} /\ w \notin Checking /\ w \in Workers
    BY <1>0, <2>1 DEF Checking, Waiting, TypeOK
  <2> QED BY <1>3, <1>c, <2>1, <2>2 DEF NotifyOne
<1>4. CASE RequestStop
  BY <1>4, <1>b DEF RequestStop, Checking, Waiting
<1>5. CASE NotifyAll
  BY <1>0, <1>5 DEF NotifyAll, Waiting, TypeOK
<1>6. CASE Joined
  BY <1>6, <1>b DEF Joined, Checking, Waiting
<1>7. ASSUME NEW w \in Workers, Wait(w) \/ Exit(w) PROVE WorkConserving'
  BY <1>7, <1>d DEF Wait, Exit, Checking
<1>8. ASSUME NEW w \in Workers, SpuriousWakeup(w) PROVE WorkConserving'
  <2>1. Checking' = Checking \cup {w} /\ w \notin Checking /\ w \in Waiting
    BY <1>0, <1>8 DEF SpuriousWakeup, Checking, Waiting, TypeOK
  <2> QED BY <1>8, <1>c, <2>1 DEF SpuriousWakeup
<1>9. ASSUME NEW w \in Workers, Take(w) PROVE WorkConserving'
  <2>1. Checking' = Checking \ {w} /\ w \in Checking /\ Waiting' = Waiting
    BY <1>0, <1>9 DEF Take, Checking, Waiting, TypeOK
  <2>2. Cardinality(Checking') = C - 1
    BY <1>a, <2>1, FS_RemoveElement
  <2>3. Len(tasks') = Len(tasks) - 1
    BY <1>0, <1>9, QueueTail DEF Take, TypeOK
  <2>4. owner' = owner
    BY <1>9 DEF Take
  <2> QED BY <1>0, <1>a, <2>1, <2>2, <2>3, <2>4 DEF WorkConserving
<1>10. ASSUME NEW w \in Workers, Return(w) PROVE WorkConserving'
  <2>1. Checking' = Checking \cup {w} /\ w \notin Checking /\ Waiting' = Waiting
    BY <1>0, <1>10 DEF Return, Checking, Waiting, TypeOK
  <2> QED BY <1>10, <1>c, <2>1 DEF Return
<1>11. CASE UNCHANGED vars
  BY <1>11, <1>b DEF vars, Checking, Waiting
<1> QED
  BY <1>1, <1>2, <1>3, <1>4, <1>5, <1>6, <1>7, <1>8, <1>9, <1>10, <1>11
     DEF Next, OwnerNext, WorkerLoop

-----------------------------------------------------------------------------
(* Order: for every task that has returned, some worker is past it.        *)

\* A task that returns has overtaken only those that other workers run.
LEMMA PastNext == IInv /\ [Next]_vars => PastInv'
<1> SUFFICES ASSUME IInv, [Next]_vars PROVE PastInv'
  OBVIOUS
<1> DEFINE Past(w, k) == ~(worker[w] = "running" /\ task[w] < k)
<1>0. TypeOK /\ QueueInv /\ StopInv /\ PastInv
  BY DEF IInv
<1>1. ASSUME finished' = finished, task' = task, Running' \subseteq Running
      PROVE  PastInv'
  BY <1>0, <1>1 DEF PastInv, Running
<1>2. CASE Construct
  BY <1>1, <1>2 DEF Construct, Running
<1>3. CASE NotifyOne
  BY <1>0, <1>1, <1>3 DEF NotifyOne, Waiting, Running, TypeOK
<1>4. CASE NotifyAll
  BY <1>0, <1>1, <1>4 DEF NotifyAll, Waiting, Running, TypeOK
<1>5. CASE Enqueue \/ RequestStop \/ Joined \/ UNCHANGED vars
  BY <1>1, <1>5 DEF Enqueue, RequestStop, Joined, vars, Running
<1>6. ASSUME NEW w \in Workers, Wait(w) \/ SpuriousWakeup(w) \/ Exit(w)
      PROVE  PastInv'
  BY <1>0, <1>1, <1>6 DEF Wait, SpuriousWakeup, Exit, Running, TypeOK
<1>7. ASSUME NEW w \in Workers, Take(w) PROVE PastInv'
  <2>1. Head(tasks) = Popped + 1
    BY <1>0, <1>7, QueueTail DEF Take, TypeOK, QueueInv, RunOnce
  <2>2. \A k \in finished : k \in 1..Popped
    BY <1>0 DEF QueueInv, RunOnce
  <2>3. SUFFICES ASSUME NEW k \in finished
                 PROVE  \E v \in Workers : Past(v, k)'
    BY <1>7 DEF Take, PastInv
  <2>4. PICK v \in Workers : Past(v, k)
    BY <1>0 DEF PastInv
  <2>5. Len(tasks) \in Nat /\ enqueued \in Nat
    BY <1>0, LenProperties, MaxTasksAssumption DEF TypeOK
  <2>6. CASE v = w
    <3>1. task'[w] = Popped + 1
      BY <1>0, <1>7, <2>1 DEF Take, TypeOK
    <3>2. ~(task'[w] < k)
      BY <2>2, <2>5, <3>1 DEF Popped
    <3> QED BY <2>6, <3>2
  <2>7. CASE v # w
    BY <1>0, <1>7, <2>4, <2>7 DEF Take, TypeOK
  <2> QED BY <2>6, <2>7
<1>8. ASSUME NEW w \in Workers, Return(w) PROVE PastInv'
  <2>1. SUFFICES ASSUME NEW k \in finished' PROVE \E v \in Workers : Past(v, k)'
    BY DEF PastInv
  <2>2. Past(w, k)'
    BY <1>0, <1>8 DEF Return, TypeOK
  <2> QED BY <2>2
<1> QED
  BY <1>2, <1>3, <1>4, <1>5, <1>6, <1>7, <1>8 DEF Next, OwnerNext, WorkerLoop

-----------------------------------------------------------------------------
(* The invariant and what follows from it.                                 *)

\* The invariant is inductive.
THEOREM Invariance == SafeSpec => []IInv
<1>1. Init => IInv
  <2> SUFFICES ASSUME Init PROVE IInv
    OBVIOUS
  <2>1. TypeOK
    BY TypeInit
  <2>2. QueueInv
    <3>1. Running = {} /\ Len(tasks) = 0 /\ DOMAIN tasks = {} /\ 1..0 = {}
      BY DEF Init, Running
    <3> QED BY <3>1 DEF QueueInv, RunOnce, Popped, InProgress, Init
  <2>3. StopInv
    BY DEF Init, StopInv, NoWaiterAtJoin, Waiting
  <2>4. WorkConserving /\ PastInv
    BY DEF Init, WorkConserving, PastInv, Waiting
  <2> QED BY <2>1, <2>2, <2>3, <2>4 DEF IInv
<1>2. IInv /\ [Next]_vars => IInv'
  BY TypeNext, QueueNext, StopNext, WorkConservingNext, PastNext DEF IInv
<1> QED BY <1>1, <1>2, PTL DEF SafeSpec

\* No wakeup, spurious or not, lets a worker past the predicate without a task.
THEOREM TypeCorrect == SafeSpec => []TypeOK
<1>1. IInv => TypeOK
  BY DEF IInv
<1> QED BY <1>1, Invariance, PTL

\* Every task enqueued is queued, being run by one worker, or done.
THEOREM RunOnceCorrect == SafeSpec => []RunOnce
<1>1. IInv => RunOnce
  BY DEF IInv, QueueInv
<1> QED BY <1>1, Invariance, PTL

\* No worker sleeps while a task is queued for which no idle worker is awake,
\* nor when the destructor joins it.
THEOREM WakeupsReach == SafeSpec => []NoLostWakeup
<1>1. IInv => NoLostWakeup
  BY DEF IInv, StopInv, NoLostWakeup
<1> QED BY <1>1, Invariance, PTL

\* When the destructor has returned, every task enqueued has been run.
THEOREM Drained == SafeSpec => []DrainedWhenDestroyed
<1>1. IInv => DrainedWhenDestroyed
  <2> SUFFICES ASSUME IInv, owner = "absent" PROVE DrainedWhenDestroyed
    BY DEF DrainedWhenDestroyed
  <2>1. \A w \in Workers : worker[w] = "exited"
    BY DEF IInv, StopInv
  <2>2. tasks = <<>>
    BY <2>1, WorkersAssumption DEF IInv, StopInv
  <2>3. InProgress = {}
    BY <2>1 DEF InProgress, Running
  <2>4. Popped = enqueued
    BY <2>2, MaxTasksAssumption DEF Popped, IInv, TypeOK
  <2> QED BY <2>1, <2>2, <2>3, <2>4 DEF DrainedWhenDestroyed, IInv, QueueInv, RunOnce
<1> QED BY <1>1, Invariance, PTL

\* A task that has returned has overtaken fewer tasks than there are workers.
THEOREM Overtaking == SafeSpec => []BoundedOvertaking
<1>1. IInv => BoundedOvertaking
  <2> SUFFICES ASSUME IInv, NEW k \in finished
               PROVE  Cardinality({j \in 1..k : j \notin finished}) < Cardinality(Workers)
    BY DEF BoundedOvertaking
  <2>0. /\ TypeOK /\ QueueInv /\ k \in Nat
        /\ Len(tasks) \in Nat /\ enqueued \in Nat
    BY MaxTasksAssumption, LenProperties DEF IInv, TypeOK
  <2>1. PICK p \in Workers : ~(worker[p] = "running" /\ task[p] < k)
    BY DEF IInv, PastInv
  <2> DEFINE Behind == {w \in Running : task[w] < k}
  <2>2. Behind \in SUBSET Workers /\ Behind # Workers
    BY <2>1 DEF Running
  <2>3. ASSUME NEW j \in 1..k, j \notin finished PROVE j \in {task[w] : w \in Behind}
    <3>1. k <= Popped
      BY <2>0 DEF QueueInv, RunOnce, Popped
    <3>2. j \in 1..Popped /\ j < k
      BY <2>0, <2>3, <3>1 DEF Popped
    <3>3. j \in InProgress
      BY <2>0, <2>3, <3>2 DEF QueueInv, RunOnce
    <3> QED BY <3>2, <3>3 DEF InProgress
  <2>4. {j \in 1..k : j \notin finished} \subseteq {task[w] : w \in Behind}
    BY <2>3
  <2> QED BY <2>2, <2>4, FewerTasksThanWorkers
<1> QED BY <1>1, Invariance, PTL

-----------------------------------------------------------------------------
(* The refinement: the workers, the mutex and the condition variable        *)
(* implement the executor.  Its liveness is left to TLC.                    *)

\* Every behaviour of the pool is one of the executor, liveness aside.
THEOREM ImplementsExecutorSafely == SafeSpec => Executor!SafeSpec
<1>1. Init => Executor!Init
  BY DEF Init, Executor!Init, InProgress, Running
<1>2. IInv /\ [Next]_vars => [Executor!Next]_(Executor!executorVars)
  <2> SUFFICES ASSUME IInv, [Next]_vars
               PROVE  [Executor!Next]_(Executor!executorVars)
    OBVIOUS
  <2> USE DEF Executor!Next, Executor!executorVars
  <2>0. TypeOK /\ QueueInv /\ StopInv
    BY DEF IInv
  <2>1. ASSUME NEW w \in Workers, Take(w) PROVE Executor!Begin(Head(tasks))
    <3>1. Running # Workers /\ Running \in SUBSET Workers
      BY <2>1 DEF Take, Running
    <3>2. Cardinality(InProgress) < Cardinality(Workers)
      BY <3>1, FewerTasksThanWorkers DEF InProgress
    <3>3. Running' = Running \cup {w} /\ w \notin Running
      BY <2>0, <2>1 DEF Take, Running, TypeOK
    <3>4. task'[w] = Head(tasks) /\ \A v \in Running : task'[v] = task[v]
      BY <2>0, <2>1, <3>3 DEF Take, Running, TypeOK
    <3>5. InProgress' = InProgress \cup {Head(tasks)}
      BY <3>3, <3>4 DEF InProgress
    <3>6. tasks # <<>> /\ tasks' = Tail(tasks) /\ owner' = owner /\ finished' = finished
      BY <2>1 DEF Take
    <3>7. Executor!Cardinality(InProgress) = Cardinality(InProgress)
      BY DEF Cardinality, Executor!Cardinality
    <3> QED BY <3>2, <3>5, <3>6, <3>7 DEF Executor!Begin
  <2>2. ASSUME NEW w \in Workers, Return(w) PROVE Executor!Finish(task[w])
    <3>1. Running' = Running \ {w} /\ w \in Running
      BY <2>0, <2>2 DEF Return, Running, TypeOK
    <3>2. \A v \in Running' : task'[v] = task[v]
      BY <2>0, <2>2, <3>1 DEF Return, Running, TypeOK
    <3>3. InProgress' = InProgress \ {task[w]} /\ task[w] \in InProgress
      BY <2>0, <3>1, <3>2 DEF InProgress, QueueInv, RunOnce
    <3> QED BY <2>2, <3>3 DEF Return, Executor!Finish
  <2>3. ASSUME UNCHANGED <<tasks, task, finished>>, Running' = Running,
               owner' = owner
               \/ {owner, owner'} = {"open", "notify"} \/ {owner, owner'} = {"stop", "join"}
        PROVE  UNCHANGED Executor!executorVars
    <3>1. InProgress' = InProgress
      BY <2>3 DEF InProgress
    <3> QED BY <2>3, <3>1
  <2>4. CASE Construct
    <3>1. \A w \in Workers : worker[w] = "exited"
      BY <2>0, <2>4 DEF Construct, StopInv
    <3>2. tasks = <<>>
      BY <2>0, <3>1, WorkersAssumption DEF StopInv
    <3>3. Running = {} /\ Running' = {}
      BY <2>0, <2>4, <3>1 DEF Construct, Running, TypeOK
    <3> QED BY <2>4, <3>2, <3>3 DEF Construct, Executor!Open, InProgress
  <2>5. CASE Enqueue
    <3>1. enqueued + 1 \in 1..MaxTasks /\ enqueued \in Nat
          /\ Len(tasks) \in Nat /\ DOMAIN tasks = 1..Len(tasks) /\ Len(tasks) <= enqueued
      BY <2>0, <2>5, MaxTasksAssumption, LenProperties DEF Enqueue, TypeOK, QueueInv
    <3>2. enqueued + 1 \notin finished \cup InProgress
      BY <2>0, <3>1 DEF QueueInv, RunOnce, Popped
    <3>3. \A i \in DOMAIN tasks : tasks[i] # enqueued + 1
      BY <2>0, <3>1 DEF QueueInv, RunOnce, Popped
    <3>4. InProgress' = InProgress
      BY <2>5 DEF Enqueue, InProgress, Running
    <3>5. Executor!Submit(enqueued + 1)
      BY <2>5, <3>2, <3>3, <3>4 DEF Enqueue, Executor!Submit, Executor!Known
    <3> QED BY <3>1, <3>5
  <2>6. CASE NotifyOne
    <3>1. Running' = Running
      BY <2>0, <2>6 DEF NotifyOne, Waiting, Running, TypeOK
    <3> QED BY <2>3, <2>6, <3>1 DEF NotifyOne
  <2>7. CASE RequestStop
    <3>1. InProgress' = InProgress
      BY <2>7 DEF RequestStop, InProgress, Running
    <3> QED BY <2>7, <3>1 DEF RequestStop, Executor!Close
  <2>8. CASE NotifyAll
    <3>1. Running' = Running
      BY <2>0, <2>8 DEF NotifyAll, Waiting, Running, TypeOK
    <3> QED BY <2>3, <2>8, <3>1 DEF NotifyAll
  <2>9. CASE Joined
    <3>1. InProgress = {} /\ InProgress' = {}
      BY <2>9 DEF Joined, InProgress, Running
    <3>2. tasks = <<>>
      BY <2>0, <2>9, WorkersAssumption DEF Joined, StopInv
    <3> QED BY <2>9, <3>1, <3>2 DEF Joined, Executor!Closed
  <2>10. ASSUME NEW w \in Workers, Wait(w) \/ SpuriousWakeup(w) \/ Exit(w)
         PROVE  UNCHANGED Executor!executorVars
    <3>1. Running' = Running
      BY <2>0, <2>10 DEF Wait, SpuriousWakeup, Exit, Running, TypeOK
    <3> QED BY <2>3, <2>10, <3>1 DEF Wait, SpuriousWakeup, Exit
  <2>11. CASE UNCHANGED vars
    BY <2>3, <2>11 DEF vars, Running
  <2>12. ASSUME NEW w \in Workers, Take(w) PROVE Executor!Next
    <3>1. Head(tasks) \in 1..MaxTasks
      BY <2>0, <2>12, QueueTail DEF Take, TypeOK
    <3> QED BY <2>1, <2>12, <3>1
  <2>13. ASSUME NEW w \in Workers, Return(w) PROVE Executor!Next
    <3>1. task[w] \in 1..MaxTasks
      BY <2>0, <2>13 DEF Return, TypeOK
    <3> QED BY <2>2, <2>13, <3>1
  <2> QED
    BY <2>4, <2>5, <2>6, <2>7, <2>8, <2>9, <2>10, <2>11, <2>12, <2>13
       DEF Next, OwnerNext, WorkerLoop
<1> QED
  BY <1>1, <1>2, Invariance, PTL DEF SafeSpec, Executor!SafeSpec
=============================================================================
