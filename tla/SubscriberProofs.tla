-------------------------- MODULE SubscriberProofs --------------------------
(***************************************************************************)
(* Theorems about Subscriber, for every subscription, executor, number of   *)
(* threads, set of callbacks and number of publications.                    *)
(***************************************************************************)
EXTENDS Subscriber, SequenceTheorems, TLAPS

(***************************************************************************)
(* The inductive invariant.  What the application may rely on when stop has *)
(* returned (Quiescent) follows from how far the receive thread must have   *)
(* come: it is gone only after the pool is, and the pool only after every   *)
(* job is done.                                                             *)
(***************************************************************************)

\* The receive thread against the application.
ThreadInv ==
  /\ app \in {"idle", "destroyed"} /\ ~running => worker = "none"
  /\ app # "idle" => ~running

\* The pool against the receive thread.
PoolInv ==
  /\ Executor = "ThreadPool" =>
       /\ worker # "dispatch"
       /\ worker \in {"none", "setup", "exited"} => phase = "absent"
       /\ worker \in {"check", "poll", "scan"} => phase = "open"
       /\ worker = "closing" => phase = "closing"
  /\ Executor = "Inline" => phase = "absent"
  /\ phase = "absent" => pending = <<>> /\ active = {}

\* A job holds the mutex exactly while it copies the vector.
MutexInv == \A n \in Job : stage[n] = "unlock" <=> callback_mutex = n

\* Each socket is received from at most once more: not before the scan that
\* follows the stop, and then when its turn comes.
CutOffInv ==
  \A s \in Socket :
    /\ late[s] <= 1
    /\ worker \in {"setup", "poll"} => late[s] = 0
    /\ worker # "none" /\ running => late[s] = 0
    /\ worker \in {"scan", "dispatch"} /\ s \in ready => late[s] = 0

\* A socket that is to be received from has a message, so recv does not block.
ReadyInv ==
  /\ \A s \in ready : inbox[s] # <<>>
  /\ worker \notin {"scan", "dispatch"} => ready = {}

\* No job is queued twice, and a job inside a callback has that callback to go.
QueueInv ==
  /\ \A i, j \in DOMAIN pending : pending[i] = pending[j] => i = j
  /\ \A n \in Job : stage[n] = "called" => todo[n] # <<>>

IInv ==
  /\ TypeOK /\ ThreadInv /\ PoolInv /\ MutexInv /\ CutOffInv /\ ReadyInv
  /\ QueueInv

-----------------------------------------------------------------------------
(* TypeOK, in two halves.                                                  *)

\* What the threads and the transport share.
SharedOK ==
  /\ running \in BOOLEAN /\ app \in AppStates /\ worker \in WorkerStates
  /\ inbox \in [Socket -> Seq(Message)] /\ ready \subseteq Socket
  /\ callbacks \in [MessageType -> Seq(Callback)]
  /\ published \in 0..MaxPublished /\ late \in [Socket -> Nat]

LogEntry == [socket : Socket, message : Message, audience : Nat]

\* The jobs, and the pool they are in.
JobsOK ==
  /\ callback_mutex \in Job \cup {Free}
  /\ log \in Seq(LogEntry)
  /\ stage \in [Job -> Stages] /\ todo \in [Job -> Seq(Callback)]
  /\ heard \in [Callback -> Seq(Job)]
  /\ phase \in {"absent", "open", "closing"} /\ pending \in Seq(Job)
  /\ finished \subseteq Job
  /\ Executor = "ThreadPool" => Queued = Range(pending) /\ Dispatching = active
  /\ Executor = "Inline" =>
       Queued = {} /\ Dispatching = IF worker = "dispatch" THEN {Len(log)} ELSE {}

\* TypeOK is those two halves.
LEMMA TypeHalves == TypeOK <=> SharedOK /\ JobsOK
BY DEF TypeOK, SharedOK, JobsOK, LogEntry

\* Sockets are positions in config.subscribe.
LEMMA Sockets ==
  /\ Socket = 1..Len(Subscribe) /\ Len(Subscribe) \in Nat
  /\ \A s \in Socket : Subscribe[s] \in MessageType
BY ConfigAssumption, LenProperties, ElementOfSeq DEF Socket

\* The first states have what the threads share.
LEMMA SharedInit == Init => SharedOK
<1> SUFFICES ASSUME Init PROVE SharedOK
  OBVIOUS
<1>1. running \in BOOLEAN
  BY DEF Init
<1>2. app \in AppStates /\ worker \in WorkerStates
  BY DEF Init, AppStates, WorkerStates
<1>3. inbox \in [Socket -> Seq(Message)] /\ callbacks \in [MessageType -> Seq(Callback)]
  BY EmptySeq DEF Init
<1>4. ready \subseteq Socket
  BY DEF Init
<1>5. published \in 0..MaxPublished
  BY BoundAssumption DEF Init
<1>6. late \in [Socket -> Nat]
  BY DEF Init
<1> QED BY <1>1, <1>2, <1>3, <1>4, <1>5, <1>6 DEF SharedOK

\* Every step keeps the types of what the threads share: recv never meets an
\* empty inbox.
LEMMA SharedNext == SharedOK /\ ReadyInv /\ [Next]_vars => SharedOK'
<1> SUFFICES ASSUME SharedOK, ReadyInv, [Next]_vars PROVE SharedOK'
  OBVIOUS
<1>u. ASSUME UNCHANGED <<inbox, ready, callbacks, published, late>>,
             running' \in BOOLEAN, app' \in AppStates, worker' \in WorkerStates
      PROVE  SharedOK'
  BY <1>u DEF SharedOK
<1>1. CASE Start
  <2>1. late' \in [Socket -> Nat]
    BY <1>1 DEF Start
  <2>2. running' \in BOOLEAN
    BY <1>1 DEF Start
  <2> QED BY <1>1, <2>1, <2>2 DEF Start, SharedOK, WorkerStates
<1>2. CASE StartFails \/ Stop \/ Destroy \/ Join
  <2>1. running' \in BOOLEAN
    BY <1>2 DEF StartFails, Stop, Destroy, Join, SharedOK
  <2>2. app' \in AppStates /\ worker' \in WorkerStates
    BY <1>2 DEF StartFails, Stop, Destroy, Join, SharedOK, AppStates, WorkerStates,
                workerVars
  <2>3. UNCHANGED <<inbox, ready, callbacks, published, late>>
    BY <1>2 DEF StartFails, Stop, Destroy, Join, workerVars
  <2> QED BY <1>u, <2>1, <2>2, <2>3
<1>3. CASE Destroyed \/ UNCHANGED vars
  BY <1>3, <1>u DEF Destroyed, vars, appVars, workerVars, SharedOK
<1>4. ASSUME NEW c \in Callback, Register(c) PROVE SharedOK'
  <2>1. CallbackType[c] \in MessageType
    BY CallbackAssumption
  <2>2. Append(callbacks[CallbackType[c]], c) \in Seq(Callback)
    BY <2>1, AppendProperties DEF SharedOK
  <2>3. callbacks' \in [MessageType -> Seq(Callback)]
    BY <1>4, <2>1, <2>2 DEF Register, On, SharedOK
  <2> QED BY <1>4, <2>3 DEF Register, On, SharedOK, appVars, workerVars
<1>5. ASSUME NEW receivers \in SUBSET Socket, Publish(receivers) PROVE SharedOK'
  <2>1. published + 1 \in Message /\ published' \in 0..MaxPublished
    BY <1>5, BoundAssumption DEF Publish, SharedOK, Message
  <2>2. \A s \in Socket : Append(inbox[s], published + 1) \in Seq(Message)
    BY <2>1, AppendProperties DEF SharedOK
  <2>3. inbox' \in [Socket -> Seq(Message)]
    BY <1>5, <2>2 DEF Publish, SharedOK
  <2> QED BY <1>5, <2>1, <2>3 DEF Publish, SharedOK, appVars
<1>6. CASE Setup \/ Continue \/ EndScan \/ LeaveLoop
  BY <1>6, <1>u DEF Setup, Continue, EndScan, LeaveLoop, SharedOK, appVars, WorkerStates
<1>7. CASE Poll
  BY <1>7 DEF Poll, Readable, SharedOK, appVars, WorkerStates
<1>8. CASE Exit
  <2>1. inbox' \in [Socket -> Seq(Message)]
    BY <1>8, EmptySeq DEF Exit
  <2> QED BY <1>8, <2>1 DEF Exit, SharedOK, appVars, WorkerStates
<1>9. ASSUME NEW s \in Socket, Receive(s) PROVE SharedOK'
  <2>1. inbox[s] \in Seq(Message)
    BY DEF SharedOK
  <2>2. inbox[s] # <<>>
    BY <1>9 DEF Receive, ReadyInv
  <2>3. Left(s) \in Seq(Message)
    BY <2>1, <2>2, HeadTailProperties DEF Left
  <2>4. inbox' \in [Socket -> Seq(Message)]
    BY <1>9, <2>3 DEF Receive, SharedOK
  <2>5. late' \in [Socket -> Nat]
    BY <1>9 DEF Receive, SharedOK
  <2>6. worker' \in WorkerStates
    BY <1>9 DEF Receive, Drop, Handle, SharedOK, WorkerStates
  <2>7. UNCHANGED <<running, app, callbacks, published>>
    BY <1>9 DEF Receive, appVars
  <2>8. ready' \subseteq Socket
    BY <1>9 DEF Receive, Unvisited, SharedOK
  <2> QED BY <2>4, <2>5, <2>6, <2>7, <2>8 DEF SharedOK
<1>10. ASSUME NEW n \in Job, Begin(n) \/ Copy(n) \/ Unlock(n) \/ Call(n) \/ Return(n)
       PROVE  SharedOK'
  BY <1>10, <1>u DEF Begin, Copy, Unlock, Call, Return, appVars, workerVars, SharedOK
<1>11. ASSUME NEW n \in Job, Finish(n) PROVE SharedOK'
  BY <1>11, <1>u DEF Finish, appVars, SharedOK, WorkerStates
<1> QED
  BY <1>1, <1>2, <1>3, <1>4, <1>5, <1>6, <1>7, <1>8, <1>9, <1>10, <1>11
     DEF Next, RunLoop, DispatchMessage

\* At first there are no jobs, and no pool.
LEMMA JobsInit == Init => JobsOK
<1> SUFFICES ASSUME Init PROVE JobsOK
  OBVIOUS
<1>1. Job = {}
  BY DEF Init, Job
<1>2. /\ callback_mutex \in Job \cup {Free} /\ log \in Seq(LogEntry)
      /\ stage \in [Job -> Stages] /\ todo \in [Job -> Seq(Callback)]
  BY <1>1, EmptySeq DEF Init
<1>3. heard \in [Callback -> Seq(Job)] /\ pending \in Seq(Job)
  BY EmptySeq DEF Init, Pool!Init
<1>4. Queued = {} /\ Dispatching = {} /\ Range(pending) = {}
  BY <1>1 DEF Queued, Dispatching, Init, Pool!Init, Range
<1>5. worker # "dispatch" /\ phase = "absent" /\ active = {} /\ finished = {}
  BY DEF Init, Pool!Init
<1> QED BY <1>2, <1>3, <1>4, <1>5 DEF JobsOK

\* One more entry in log, and in stage and todo.
LEMMA NewJob ==
  ASSUME log \in Seq(LogEntry), stage \in [Job -> Stages], todo \in [Job -> Seq(Callback)],
         NEW e \in LogEntry, NEW st \in Stages,
         log' = Append(log, e), stage' = Append(stage, st), todo' = Append(todo, <<>>)
  PROVE  /\ Len(log) \in Nat /\ Len(log') = Len(log) + 1
         /\ Job = 1..Len(log) /\ Job' = 1..(Len(log) + 1)
         /\ log' \in Seq(LogEntry)
         /\ stage' \in [Job' -> Stages] /\ todo' \in [Job' -> Seq(Callback)]
         /\ stage'[Len(log) + 1] = st /\ \A n \in Job : stage'[n] = stage[n]
<1>1. Len(log) \in Nat /\ Job = 1..Len(log)
  BY LenProperties DEF Job
<1>2. stage \in Seq(Stages) /\ Len(stage) = Len(log)
  BY <1>1
<1>3. todo \in Seq(Seq(Callback)) /\ Len(todo) = Len(log)
  BY <1>1
<1>4. log' \in Seq(LogEntry) /\ Len(log') = Len(log) + 1
  BY AppendProperties
<1>5. Job' = 1..(Len(log) + 1)
  BY <1>4, LenProperties DEF Job
<1>6. /\ stage' \in Seq(Stages) /\ Len(stage') = Len(log) + 1
      /\ stage'[Len(log) + 1] = st /\ \A n \in 1..Len(log) : stage'[n] = stage[n]
  BY <1>1, <1>2, AppendProperties
<1>7. todo' \in Seq(Seq(Callback)) /\ Len(todo') = Len(log) + 1
  <2>1. <<>> \in Seq(Callback)
    BY EmptySeq
  <2> QED BY <1>3, <2>1, AppendProperties
<1>8. stage' \in [Job' -> Stages] /\ todo' \in [Job' -> Seq(Callback)]
  BY <1>5, <1>6, <1>7, LenProperties
<1> QED BY <1>1, <1>4, <1>5, <1>6, <1>8

\* A job goes to another stage.
LEMMA NewStage ==
  ASSUME JobsOK, NEW n \in Job, NEW st \in Stages,
         stage' = [stage EXCEPT ![n] = st], log' = log
  PROVE  /\ Job' = Job /\ stage' \in [Job' -> Stages]
         /\ Queued' = IF st = "queued" THEN Queued \cup {n} ELSE Queued \ {n}
         /\ Dispatching' = IF st \in {"copy", "unlock", "call", "called"}
                           THEN Dispatching \cup {n} ELSE Dispatching \ {n}
<1>1. Job' = Job
  BY DEF Job
<1>2. stage \in [Job -> Stages]
  BY DEF JobsOK
<1> QED BY <1>1, <1>2 DEF Queued, Dispatching

\* Every step keeps the jobs and the pool in agreement.
LEMMA JobsNext ==
  SharedOK /\ JobsOK /\ ThreadInv /\ ReadyInv /\ QueueInv /\ [Next]_vars => JobsOK'
<1> SUFFICES ASSUME SharedOK, JobsOK, ThreadInv, ReadyInv, QueueInv, [Next]_vars
             PROVE  JobsOK'
  OBVIOUS
<1>0. Executor \in {"ThreadPool", "Inline"}
  BY ConfigAssumption
<1>u. ASSUME UNCHANGED <<log, stage, todo, heard, callback_mutex>>,
             UNCHANGED <<pending, active, finished>>,
             phase' \in {"absent", "open", "closing"},
             worker' = "dispatch" <=> worker = "dispatch"
      PROVE  JobsOK'
  <2>1. Job' = Job /\ Queued' = Queued /\ Dispatching' = Dispatching
    BY <1>u DEF Job, Queued, Dispatching
  <2> QED BY <1>u, <2>1 DEF JobsOK
<1>1. CASE Start
  <2>1. worker = "none" /\ worker' = "setup"
    BY <1>1 DEF Start, ThreadInv
  <2> QED BY <1>1, <1>u, <2>1 DEF Start, jobVars, poolVars, JobsOK
<1>2. CASE StartFails \/ Stop \/ Destroy \/ Destroyed \/ UNCHANGED vars
  BY <1>2, <1>u DEF StartFails, Stop, Destroy, Destroyed, vars, workerVars, jobVars,
                    poolVars, JobsOK
<1>3. CASE Join
  BY <1>3, <1>u DEF Join, jobVars, poolVars, JobsOK
<1>4. ASSUME NEW c \in Callback, Register(c) PROVE JobsOK'
  BY <1>4, <1>u DEF Register, On, workerVars, jobVars, poolVars, JobsOK
<1>5. ASSUME NEW receivers \in SUBSET Socket, Publish(receivers) PROVE JobsOK'
  BY <1>5, <1>u DEF Publish, jobVars, poolVars, JobsOK
<1>6. CASE Setup \/ LeaveLoop \/ Exit
  BY <1>6, <1>u DEF Setup, LeaveLoop, Exit, Pool!Open, Pool!Close, Pool!Closed, jobVars,
                    poolVars, JobsOK
<1>7. CASE Continue \/ Poll \/ EndScan
  BY <1>7, <1>u DEF Continue, Poll, EndScan, jobVars, poolVars, JobsOK
<1>8. ASSUME NEW s \in Socket, Receive(s) PROVE JobsOK'
  <2> DEFINE m == Head(inbox[s])
             n == Len(log) + 1
             e == [socket |-> s, message |-> m, audience |-> Len(callbacks[Subscribe[s]])]
  <2>1. CASE ~Parsed(m) /\ Drop
    BY <1>8, <1>u, <2>1 DEF Receive, Drop, poolVars, JobsOK
  <2>2. CASE /\ Parsed(m) /\ log' = Append(log, e) /\ todo' = Append(todo, <<>>)
             /\ Handle(n)
    <3>1. e \in LogEntry
      <4>1. m \in Message
        <5>1. inbox[s] \in Seq(Message) /\ inbox[s] # <<>>
          BY <1>8 DEF Receive, ReadyInv, SharedOK
        <5> QED BY <5>1, HeadTailProperties
      <4>2. Len(callbacks[Subscribe[s]]) \in Nat
        <5>1. callbacks[Subscribe[s]] \in Seq(Callback)
          BY Sockets DEF SharedOK
        <5> QED BY <5>1, LenProperties
      <4> QED BY <4>1, <4>2 DEF LogEntry
    <3>2. UNCHANGED <<heard, callback_mutex>> /\ worker = "scan"
      BY <1>8 DEF Receive
    <3>3. ASSUME NEW st \in Stages, stage' = Append(stage, st)
          PROVE  /\ n \in Nat /\ n \notin Job /\ Job' = Job \cup {n} /\ Len(log') = n
                 /\ log' \in Seq(LogEntry)
                 /\ stage' \in [Job' -> Stages] /\ todo' \in [Job' -> Seq(Callback)]
                 /\ st = "queued" => Queued' = Queued \cup {n} /\ Dispatching' = Dispatching
                 /\ st = "copy" => Queued' = Queued /\ Dispatching' = Dispatching \cup {n}
                 /\ callback_mutex' \in Job' \cup {Free}
                 /\ heard' \in [Callback -> Seq(Job')]
                 /\ pending \in Seq(Job') /\ finished \subseteq Job'
      <4>1. stage \in [Job -> Stages] /\ todo \in [Job -> Seq(Callback)]
            /\ log \in Seq(LogEntry)
        BY DEF JobsOK
      <4>2. /\ Len(log) \in Nat /\ Len(log') = n
            /\ Job = 1..Len(log) /\ Job' = 1..n
            /\ log' \in Seq(LogEntry)
            /\ stage' \in [Job' -> Stages] /\ todo' \in [Job' -> Seq(Callback)]
            /\ stage'[n] = st /\ \A k \in Job : stage'[k] = stage[k]
        BY <2>2, <3>1, <3>3, <4>1, NewJob
      <4>3. n \in Nat /\ n \notin Job /\ Job' = Job \cup {n}
        BY <4>2
      <4>4. Queued' = (IF st = "queued" THEN Queued \cup {n} ELSE Queued)
        BY <4>2, <4>3 DEF Queued
      <4>5. Dispatching' = (IF st \in {"copy", "unlock", "call", "called"}
                            THEN Dispatching \cup {n} ELSE Dispatching)
        BY <4>2, <4>3 DEF Dispatching
      <4>6. heard' \in [Callback -> Seq(Job')]
        <5>1. \A c \in Callback : heard[c] \in Seq(Job')
          BY <4>3, SeqMonotonic DEF JobsOK
        <5> QED BY <3>2, <5>1 DEF JobsOK
      <4>7. pending \in Seq(Job') /\ finished \subseteq Job'
        BY <4>3, SeqMonotonic DEF JobsOK
      <4>8. callback_mutex' \in Job' \cup {Free}
        BY <3>2, <4>3 DEF JobsOK
      <4> QED BY <4>2, <4>3, <4>4, <4>5, <4>6, <4>7, <4>8
    <3>4. CASE Executor = "ThreadPool"
      <4>1. stage' = Append(stage, "queued") /\ worker' = worker /\ Pool!Submit(n)
        BY <2>2, <3>4 DEF Handle
      <4>2. pending' \in Seq(Job') /\ Range(pending') = Range(pending) \cup {n}
        <5>1. pending \in Seq(Job') /\ n \in Job'
          BY <3>3, <4>1 DEF Stages
        <5>2. pending' = Append(pending, n)
          BY <4>1 DEF Pool!Submit
        <5> QED BY <5>1, <5>2, AppendProperties, LenProperties DEF Range
      <4> QED BY <3>3, <3>4, <4>1, <4>2 DEF Pool!Submit, JobsOK, Stages
    <3>5. CASE Executor = "Inline"
      <4>1. stage' = Append(stage, "copy") /\ worker' = "dispatch" /\ UNCHANGED poolVars
        BY <2>2, <3>5 DEF Handle
      <4>2. pending' \in Seq(Job')
        BY <3>3, <4>1 DEF poolVars, Stages
      <4>3. Dispatching = {}
        BY <3>2, <3>5 DEF JobsOK
      <4> QED BY <3>3, <3>5, <4>1, <4>2, <4>3 DEF poolVars, JobsOK, Stages
    <3> QED BY <1>0, <3>4, <3>5
  <2> QED BY <1>8, <2>1, <2>2 DEF Receive
<1>9. ASSUME NEW n \in Job, Begin(n) PROVE JobsOK'
  <2>1. Executor = "ThreadPool"
    BY <1>0, <1>9 DEF Begin, JobsOK, Queued
  <2>2. /\ pending \in Seq(Job) /\ pending # <<>> /\ n = pending[1]
        /\ pending' = Tail(pending) /\ active' = active \cup {n}
        /\ UNCHANGED <<phase, finished>>
    BY <1>9 DEF Begin, Pool!Begin, JobsOK
  <2>3. UNCHANGED <<log, todo, heard, callback_mutex, worker>>
        /\ stage' = [stage EXCEPT ![n] = "copy"]
    BY <1>9 DEF Begin, workerVars
  <2>4. Job' = Job /\ stage' \in [Job' -> Stages]
        /\ Queued' = Queued \ {n} /\ Dispatching' = Dispatching \cup {n}
    BY <2>3, NewStage DEF Stages
  <2>5. pending' \in Seq(Job) /\ Range(pending') = Range(pending) \ {n}
    <3>1. /\ Len(pending) \in Nat \ {0} /\ DOMAIN pending = 1..Len(pending)
          /\ pending' \in Seq(Job) /\ DOMAIN pending' = 1..(Len(pending) - 1)
          /\ \A i \in 1..(Len(pending) - 1) : pending'[i] = pending[i + 1]
      BY <2>2, EmptySeq, LenProperties, HeadTailProperties
    <3>2. \A i \in DOMAIN pending : pending[i] = n => i = 1
      BY <2>2, <3>1 DEF QueueInv
    <3>3. \A x : x \in Range(pending') <=> x \in Range(pending) \ {n}
      <4>1. ASSUME NEW x \in Range(pending') PROVE x \in Range(pending) \ {n}
        BY <3>1, <3>2, <4>1 DEF Range
      <4>2. ASSUME NEW x \in Range(pending), x # n PROVE x \in Range(pending')
        <5>1. PICK i \in 1..Len(pending) : x = pending[i]
          BY <3>1 DEF Range
        <5>2. i # 1 /\ i - 1 \in DOMAIN pending' /\ pending'[i - 1] = x
          BY <2>2, <3>1, <4>2, <5>1
        <5> QED BY <5>2 DEF Range
      <4> QED BY <4>1, <4>2
    <3> QED BY <3>1, <3>3
  <2> QED BY <2>1, <2>2, <2>3, <2>4, <2>5 DEF JobsOK
<1>10. ASSUME NEW n \in Job, NEW st \in {"unlock", "call", "called"},
              stage' = [stage EXCEPT ![n] = st], stage[n] \in {"copy", "unlock", "call", "called"},
              UNCHANGED <<log, worker>>, UNCHANGED poolVars,
              callback_mutex' \in Job \cup {Free},
              todo' \in [Job -> Seq(Callback)], heard' \in [Callback -> Seq(Job)]
       PROVE  JobsOK'
  <2>1. Job' = Job /\ stage' \in [Job' -> Stages]
        /\ Queued' = Queued \ {n} /\ Dispatching' = Dispatching \cup {n}
    BY <1>10, NewStage DEF Stages
  <2>2. Queued' = Queued /\ Dispatching' = Dispatching
    BY <1>10, <2>1 DEF Queued, Dispatching
  <2> QED BY <1>10, <2>1, <2>2 DEF JobsOK, poolVars
<1>11. ASSUME NEW n \in Job, Copy(n) PROVE JobsOK'
  <2>1. Snapshot(Type(n)) \in Seq(Callback)
    <3>1. log[n] \in LogEntry
      BY ElementOfSeq, LenProperties DEF JobsOK, Job
    <3> QED BY <3>1, Sockets DEF LogEntry, Type, Snapshot, SharedOK
  <2>2. todo' \in [Job -> Seq(Callback)]
    BY <1>11, <2>1 DEF Copy, JobsOK
  <2> QED BY <1>10, <1>11, <2>2 DEF Copy, workerVars, JobsOK
<1>12. ASSUME NEW n \in Job, Unlock(n) PROVE JobsOK'
  BY <1>10, <1>12 DEF Unlock, workerVars, Released, JobsOK
<1>13. ASSUME NEW n \in Job, Call(n) PROVE JobsOK'
  <2>1. Head(todo[n]) \in Callback
    BY <1>13, HeadTailProperties DEF Call, JobsOK
  <2>2. heard' \in [Callback -> Seq(Job)]
    <3>1. Append(heard[Head(todo[n])], n) \in Seq(Job)
      BY <2>1, AppendProperties DEF JobsOK
    <3> QED BY <1>13, <2>1, <3>1 DEF Call, JobsOK
  <2> QED BY <1>10, <1>13, <2>2 DEF Call, workerVars, JobsOK
<1>14. ASSUME NEW n \in Job, Return(n) PROVE JobsOK'
  <2>1. Tail(todo[n]) \in Seq(Callback)
    BY <1>14, HeadTailProperties DEF Return, JobsOK, QueueInv
  <2>2. todo' \in [Job -> Seq(Callback)]
    BY <1>14, <2>1 DEF Return, JobsOK
  <2> QED BY <1>10, <1>14, <2>2 DEF Return, workerVars, JobsOK
<1>15. ASSUME NEW n \in Job, Finish(n) PROVE JobsOK'
  <2>1. UNCHANGED <<log, todo, heard, callback_mutex>>
        /\ stage[n] = "call" /\ stage' = [stage EXCEPT ![n] = "done"]
    BY <1>15 DEF Finish
  <2>2. Job' = Job /\ stage' \in [Job' -> Stages]
        /\ Queued' = Queued \ {n} /\ Dispatching' = Dispatching \ {n}
    BY <2>1, NewStage DEF Stages
  <2>3. Queued' = Queued /\ n \in Dispatching
    BY <2>1, <2>2 DEF Queued, Dispatching
  <2>4. CASE Executor = "ThreadPool"
    <3>1. /\ active' = active \ {n} /\ finished' = finished \cup {n}
          /\ UNCHANGED <<phase, pending, worker>>
      BY <1>15, <2>4 DEF Finish, Pool!Finish
    <3> QED BY <2>1, <2>2, <2>3, <2>4, <3>1 DEF JobsOK
  <2>5. CASE Executor = "Inline"
    <3>1. worker' = "scan" /\ UNCHANGED poolVars
      BY <1>15, <2>5 DEF Finish
    <3>2. Dispatching' = {}
      BY <2>2, <2>3, <2>5 DEF JobsOK
    <3> QED BY <2>1, <2>2, <2>3, <2>5, <3>1, <3>2 DEF JobsOK, poolVars
  <2> QED BY <1>0, <2>4, <2>5
<1> QED
  BY <1>1, <1>2, <1>3, <1>4, <1>5, <1>6, <1>7, <1>8, <1>9, <1>11, <1>12, <1>13, <1>14, <1>15
     DEF Next, RunLoop, DispatchMessage

-----------------------------------------------------------------------------
(* The other parts of the invariant.                                       *)

\* Inline, it is run_loop that a dispatch returns to.
LEMMA FinishWhere ==
  ASSUME JobsOK, NEW n \in Job, Finish(n)
  PROVE  \/ Executor = "ThreadPool" /\ worker' = worker /\ Pool!Finish(n)
         \/ /\ Executor = "Inline" /\ worker = "dispatch" /\ worker' = "scan"
            /\ UNCHANGED poolVars
BY ConfigAssumption DEF Finish, JobsOK, Dispatching

\* start, stop and the receive thread keep ThreadInv.
LEMMA ThreadNext == JobsOK /\ ThreadInv /\ [Next]_vars => ThreadInv'
<1> SUFFICES ASSUME JobsOK, ThreadInv, [Next]_vars PROVE ThreadInv'
  OBVIOUS
<1> USE DEF ThreadInv
<1>1. CASE Start \/ StartFails \/ Stop \/ Destroy \/ Join
  BY <1>1 DEF Start, StartFails, Stop, Destroy, Join, Joinable, workerVars
<1>2. CASE Destroyed \/ UNCHANGED vars
  BY <1>2 DEF Destroyed, vars, appVars, workerVars
<1>3. ASSUME NEW c \in Callback, Register(c) PROVE ThreadInv'
  BY <1>3 DEF Register, On, appVars, workerVars
<1>4. ASSUME NEW receivers \in SUBSET Socket, Publish(receivers) PROVE ThreadInv'
  BY <1>4 DEF Publish, appVars
<1>5. ASSUME UNCHANGED appVars, worker # "none" PROVE ThreadInv'
  BY <1>5 DEF appVars
<1>6. CASE Setup \/ Continue \/ Poll \/ EndScan \/ LeaveLoop \/ Exit
  BY <1>5, <1>6 DEF Setup, Continue, Poll, EndScan, LeaveLoop, Exit
<1>7. ASSUME NEW s \in Socket, Receive(s) PROVE ThreadInv'
  BY <1>5, <1>7 DEF Receive
<1>8. ASSUME NEW n \in Job, Begin(n) \/ Copy(n) \/ Unlock(n) \/ Call(n) \/ Return(n)
      PROVE  ThreadInv'
  BY <1>8 DEF Begin, Copy, Unlock, Call, Return, appVars, workerVars
<1>9. ASSUME NEW n \in Job, Finish(n) PROVE ThreadInv'
  BY <1>5, <1>9, FinishWhere DEF Finish, appVars
<1> QED
  BY <1>1, <1>2, <1>3, <1>4, <1>6, <1>7, <1>8, <1>9 DEF Next, RunLoop, DispatchMessage

\* The receive thread makes the pool and is the one that waits for its end.
LEMMA PoolNext == JobsOK /\ ThreadInv /\ PoolInv /\ [Next]_vars => PoolInv'
<1> SUFFICES ASSUME JobsOK, ThreadInv, PoolInv, [Next]_vars PROVE PoolInv'
  OBVIOUS
<1> USE DEF PoolInv
<1>0. Executor \in {"ThreadPool", "Inline"}
  BY ConfigAssumption
<1>u. ASSUME UNCHANGED poolVars, UNCHANGED worker PROVE PoolInv'
  BY <1>u DEF poolVars
<1>1. CASE Start
  <2>1. worker = "none" /\ worker' = "setup" /\ UNCHANGED poolVars
    BY <1>1 DEF Start, ThreadInv
  <2> QED BY <2>1 DEF poolVars
<1>2. CASE StartFails \/ Stop \/ Destroy \/ Destroyed \/ UNCHANGED vars
  BY <1>2, <1>u DEF StartFails, Stop, Destroy, Destroyed, vars, workerVars
<1>3. CASE Join
  BY <1>3 DEF Join, poolVars
<1>4. ASSUME NEW c \in Callback, Register(c) PROVE PoolInv'
  BY <1>4, <1>u DEF Register, On, workerVars
<1>5. ASSUME NEW receivers \in SUBSET Socket, Publish(receivers) PROVE PoolInv'
  BY <1>5, <1>u DEF Publish
<1>6. CASE Setup
  BY <1>0, <1>6 DEF Setup, Pool!Open, poolVars
<1>7. CASE Continue \/ Poll \/ EndScan
  BY <1>7 DEF Continue, Poll, EndScan, poolVars
<1>8. CASE LeaveLoop
  BY <1>0, <1>8 DEF LeaveLoop, Pool!Close, poolVars
<1>9. CASE Exit
  BY <1>0, <1>9 DEF Exit, Pool!Closed, poolVars
<1>10. ASSUME NEW s \in Socket, Receive(s) PROVE PoolInv'
  <2>1. CASE Drop
    BY <1>u, <2>1 DEF Drop
  <2>2. CASE Handle(Len(log) + 1)
    BY <1>0, <1>10, <2>2 DEF Receive, Handle, Pool!Submit, poolVars
  <2> QED BY <1>10, <2>1, <2>2 DEF Receive
<1>11. ASSUME NEW n \in Job, Begin(n) PROVE PoolInv'
  BY <1>11 DEF Begin, Pool!Begin, workerVars
<1>12. ASSUME NEW n \in Job, Copy(n) \/ Unlock(n) \/ Call(n) \/ Return(n) PROVE PoolInv'
  BY <1>12, <1>u DEF Copy, Unlock, Call, Return, workerVars
<1>13. ASSUME NEW n \in Job, Finish(n) PROVE PoolInv'
  BY <1>13, FinishWhere DEF Pool!Finish, poolVars
<1> QED
  BY <1>1, <1>2, <1>3, <1>4, <1>5, <1>6, <1>7, <1>8, <1>9, <1>10, <1>11, <1>12, <1>13
     DEF Next, RunLoop, DispatchMessage

\* A job locks, copies and unlocks, and no other gets in between.
LEMMA MutexNext ==
  JobsOK /\ JobsOK' /\ MutexInv /\ [Next]_vars => MutexInv'
<1> SUFFICES ASSUME JobsOK, JobsOK', MutexInv, [Next]_vars PROVE MutexInv'
  OBVIOUS
<1> USE DEF MutexInv
<1>0. Len(log) \in Nat /\ Job = 1..Len(log) /\ stage \in [Job -> Stages]
      /\ callback_mutex \in Job \cup {Free}
  BY LenProperties DEF JobsOK, Job
<1>u. ASSUME UNCHANGED <<log, stage, callback_mutex>> PROVE MutexInv'
  BY <1>u DEF Job
<1>1. CASE Start \/ StartFails \/ Stop \/ Destroy \/ Join \/ Destroyed \/ UNCHANGED vars
  BY <1>1, <1>u DEF Start, StartFails, Stop, Destroy, Join, Destroyed, vars, jobVars,
                    workerVars
<1>2. ASSUME NEW c \in Callback, Register(c) PROVE MutexInv'
  BY <1>2, <1>u DEF Register, On, jobVars, workerVars
<1>3. ASSUME NEW receivers \in SUBSET Socket, Publish(receivers) PROVE MutexInv'
  BY <1>3, <1>u DEF Publish, jobVars
<1>4. CASE Setup \/ Continue \/ Poll \/ EndScan \/ LeaveLoop \/ Exit
  BY <1>4, <1>u DEF Setup, Continue, Poll, EndScan, LeaveLoop, Exit, jobVars
<1>5. ASSUME NEW s \in Socket, Receive(s) PROVE MutexInv'
  <2>1. CASE Drop
    BY <1>5, <1>u, <2>1 DEF Receive, Drop
  <2>2. ASSUME NEW e, log' = Append(log, e), Handle(Len(log) + 1) PROVE MutexInv'
    <3>1. Job' = 1..(Len(log) + 1)
      <4>1. Len(log') = Len(log) + 1
        BY <2>2 DEF JobsOK
      <4> QED BY <4>1, LenProperties DEF JobsOK, Job
    <3>2. stage'[Len(log) + 1] \in {"queued", "copy"}
          /\ \A n \in Job : stage'[n] = stage[n]
      <4>1. stage \in Seq(Stages) /\ Len(stage) = Len(log)
        BY <1>0
      <4>2. PICK st \in {"queued", "copy"} : stage' = Append(stage, st)
        BY <2>2 DEF Handle
      <4>3. st \in Stages
        BY DEF Stages
      <4> QED BY <1>0, <4>1, <4>2, <4>3, AppendProperties
    <3>3. callback_mutex' = callback_mutex
      BY <1>5 DEF Receive
    <3>4. ASSUME NEW n \in Job' PROVE stage'[n] = "unlock" <=> callback_mutex' = n
      <4>1. CASE n \in Job
        BY <3>2, <3>3, <4>1
      <4>2. CASE n = Len(log) + 1
        BY <1>0, <3>2, <3>3, <4>2 DEF Free
      <4> QED BY <1>0, <3>1, <4>1, <4>2
    <3> QED BY <3>4
  <2> QED BY <1>5, <2>1, <2>2 DEF Receive
<1>6. ASSUME NEW n \in Job, Begin(n) \/ Call(n) \/ Return(n) \/ Finish(n) PROVE MutexInv'
  BY <1>0, <1>6 DEF Begin, Call, Return, Finish, workerVars, Job
<1>7. ASSUME NEW n \in Job, Copy(n) PROVE MutexInv'
  BY <1>0, <1>7 DEF Copy, workerVars, Job, Free
<1>8. ASSUME NEW n \in Job, Unlock(n) PROVE MutexInv'
  BY <1>0, <1>8 DEF Unlock, Released, workerVars, Job, Free
<1> QED
  BY <1>1, <1>2, <1>3, <1>4, <1>5, <1>6, <1>7, <1>8 DEF Next, RunLoop, DispatchMessage

\* Once running is cleared, only the scan that follows still receives.
LEMMA CutOffNext ==
  SharedOK /\ JobsOK /\ ThreadInv /\ CutOffInv /\ [Next]_vars => CutOffInv'
<1> SUFFICES ASSUME SharedOK, JobsOK, ThreadInv, CutOffInv, [Next]_vars PROVE CutOffInv'
  OBVIOUS
<1> USE DEF CutOffInv
<1>0. late \in [Socket -> Nat] /\ worker \in WorkerStates /\ app \in AppStates
  BY DEF SharedOK
<1>1. CASE Start
  BY <1>1 DEF Start
<1>2. CASE StartFails
  BY <1>2 DEF StartFails, ThreadInv, workerVars
<1>3. CASE Stop \/ Destroy \/ Join
  BY <1>3 DEF Stop, Destroy, Join, workerVars
<1>u. ASSUME UNCHANGED <<running, worker, ready, late>> PROVE CutOffInv'
  BY <1>u
<1>4. CASE Destroyed \/ UNCHANGED vars
  BY <1>4, <1>u DEF Destroyed, vars, appVars, workerVars
<1>5. ASSUME NEW c \in Callback, Register(c) PROVE CutOffInv'
  BY <1>5, <1>u DEF Register, On, appVars, workerVars
<1>6. ASSUME NEW receivers \in SUBSET Socket, Publish(receivers) PROVE CutOffInv'
  BY <1>6, <1>u DEF Publish, appVars
<1>7. CASE Setup \/ Continue \/ Poll \/ EndScan \/ LeaveLoop \/ Exit
  BY <1>7 DEF Setup, Continue, KeepRunning, Poll, EndScan, LeaveLoop, Exit, appVars
<1>8. ASSUME NEW s \in Socket, Receive(s) PROVE CutOffInv'
  <2>1. worker = "scan" /\ s \in ready /\ ready' = ready \ {s} /\ late[s] = 0
    BY <1>8 DEF Receive, Unvisited
  <2>2. worker' \in {"scan", "dispatch"} /\ running' = running
    BY <1>8 DEF Receive, Drop, Handle, appVars
  <2>3. \A r \in Socket \ {s} : late'[r] = late[r]
    BY <1>0, <1>8 DEF Receive
  <2>4. late'[s] = IF running THEN 0 ELSE 1
    BY <1>0, <1>8, <2>1 DEF Receive
  <2> QED BY <2>1, <2>2, <2>3, <2>4
<1>9. ASSUME NEW n \in Job, Begin(n) \/ Copy(n) \/ Unlock(n) \/ Call(n) \/ Return(n)
      PROVE  CutOffInv'
  BY <1>9, <1>u DEF Begin, Copy, Unlock, Call, Return, appVars, workerVars
<1>10. ASSUME NEW n \in Job, Finish(n) PROVE CutOffInv'
  BY <1>10, FinishWhere DEF Finish, appVars
<1> QED
  BY <1>1, <1>2, <1>3, <1>4, <1>5, <1>6, <1>7, <1>8, <1>9, <1>10
     DEF Next, RunLoop, DispatchMessage

\* Only the receive thread takes messages out of a socket.
LEMMA ReadyNext ==
  SharedOK /\ JobsOK /\ ThreadInv /\ ReadyInv /\ [Next]_vars => ReadyInv'
<1> SUFFICES ASSUME SharedOK, JobsOK, ThreadInv, ReadyInv, [Next]_vars PROVE ReadyInv'
  OBVIOUS
<1> USE DEF ReadyInv
<1>0. inbox \in [Socket -> Seq(Message)] /\ ready \subseteq Socket
  BY DEF SharedOK
<1>u. ASSUME UNCHANGED <<worker, ready, inbox>> PROVE ReadyInv'
  BY <1>u
<1>1. CASE Start \/ Join
  BY <1>1 DEF Start, Join, ThreadInv
<1>2. CASE StartFails \/ Stop \/ Destroy \/ Destroyed \/ UNCHANGED vars
  BY <1>2, <1>u DEF StartFails, Stop, Destroy, Destroyed, vars, workerVars
<1>3. ASSUME NEW c \in Callback, Register(c) PROVE ReadyInv'
  BY <1>3, <1>u DEF Register, On, workerVars
<1>4. ASSUME NEW receivers \in SUBSET Socket, Publish(receivers) PROVE ReadyInv'
  <2>1. published + 1 \in Message
    BY <1>4, BoundAssumption DEF Publish, SharedOK, Message
  <2>2. \A s \in ready : inbox'[s] # <<>>
    <3>1. \A s \in Socket : inbox'[s] = inbox[s] \/ inbox'[s] = Append(inbox[s], published + 1)
      BY <1>4 DEF Publish
    <3>2. \A s \in Socket : Append(inbox[s], published + 1) # <<>>
      BY <1>0, <2>1, AppendProperties, EmptySeq
    <3> QED BY <1>0, <3>1, <3>2
  <2> QED BY <1>4, <2>2 DEF Publish
<1>5. CASE Setup \/ Continue \/ EndScan \/ LeaveLoop
  BY <1>5 DEF Setup, Continue, EndScan, LeaveLoop
<1>6. CASE Poll
  BY <1>6 DEF Poll, Readable
<1>7. CASE Exit
  BY <1>7 DEF Exit
<1>8. ASSUME NEW s \in Socket, Receive(s) PROVE ReadyInv'
  <2>1. worker = "scan" /\ worker' \in {"scan", "dispatch"} /\ ready' = ready \ {s}
    BY <1>8 DEF Receive, Drop, Handle, Unvisited
  <2>2. \A r \in ready \ {s} : inbox'[r] = inbox[r]
    BY <1>0, <1>8 DEF Receive
  <2> QED BY <2>1, <2>2
<1>9. ASSUME NEW n \in Job, Begin(n) \/ Copy(n) \/ Unlock(n) \/ Call(n) \/ Return(n)
      PROVE  ReadyInv'
  BY <1>9, <1>u DEF Begin, Copy, Unlock, Call, Return, workerVars
<1>10. ASSUME NEW n \in Job, Finish(n) PROVE ReadyInv'
  BY <1>10, FinishWhere DEF Finish
<1> QED
  BY <1>1, <1>2, <1>3, <1>4, <1>5, <1>6, <1>7, <1>8, <1>9, <1>10
     DEF Next, RunLoop, DispatchMessage

\* Jobs are numbered as they are queued, and each callback of a job is
\* called once.
LEMMA QueueNext ==
  JobsOK /\ JobsOK' /\ QueueInv /\ [Next]_vars => QueueInv'
<1> SUFFICES ASSUME JobsOK, JobsOK', QueueInv, [Next]_vars PROVE QueueInv'
  OBVIOUS
<1> USE DEF QueueInv
<1>0. /\ Len(log) \in Nat /\ Job = 1..Len(log) /\ stage \in [Job -> Stages]
      /\ todo \in [Job -> Seq(Callback)] /\ pending \in Seq(Job)
  BY LenProperties DEF JobsOK, Job
<1>u. ASSUME UNCHANGED <<log, stage, todo, pending>> PROVE QueueInv'
  BY <1>u DEF Job
<1>1. CASE Start \/ StartFails \/ Stop \/ Destroy \/ Join \/ Destroyed \/ UNCHANGED vars
  BY <1>1, <1>u DEF Start, StartFails, Stop, Destroy, Join, Destroyed, vars, jobVars,
                    workerVars, poolVars
<1>2. ASSUME NEW c \in Callback, Register(c) PROVE QueueInv'
  BY <1>2, <1>u DEF Register, On, jobVars, workerVars, poolVars
<1>3. ASSUME NEW receivers \in SUBSET Socket, Publish(receivers) PROVE QueueInv'
  BY <1>3, <1>u DEF Publish, jobVars, poolVars
<1>4. CASE Setup \/ Continue \/ Poll \/ EndScan \/ LeaveLoop \/ Exit
  BY <1>4, <1>u DEF Setup, Continue, Poll, EndScan, LeaveLoop, Exit, jobVars, poolVars,
                    Pool!Open, Pool!Close, Pool!Closed
<1>5. ASSUME NEW s \in Socket, Receive(s) PROVE QueueInv'
  <2>1. CASE Drop
    BY <1>5, <1>u, <2>1 DEF Receive, Drop, poolVars
  <2>2. ASSUME NEW e, log' = Append(log, e), todo' = Append(todo, <<>>), Handle(Len(log) + 1)
        PROVE  QueueInv'
    <3>1. Job' = 1..(Len(log) + 1)
      <4>1. Len(log') = Len(log) + 1
        BY <2>2 DEF JobsOK
      <4> QED BY <4>1, LenProperties DEF JobsOK, Job
    <3>2. stage'[Len(log) + 1] \in {"queued", "copy"}
          /\ \A n \in Job : stage'[n] = stage[n]
      <4>1. stage \in Seq(Stages) /\ Len(stage) = Len(log)
        <5>1. Len(log) \in Nat /\ stage \in [1..Len(log) -> Stages]
          BY <1>0
        <5> QED BY <5>1
      <4>2. PICK st \in {"queued", "copy"} : stage' = Append(stage, st)
        BY <2>2 DEF Handle
      <4>3. st \in Stages
        BY DEF Stages
      <4> QED BY <1>0, <4>1, <4>2, <4>3, AppendProperties
    <3>3. \A n \in Job : todo'[n] = todo[n]
      <4>1. todo \in Seq(Seq(Callback)) /\ Len(todo) = Len(log) /\ <<>> \in Seq(Callback)
        BY <1>0, EmptySeq
      <4> QED BY <1>0, <2>2, <4>1, AppendProperties
    <3>4. \A n \in Job' : stage'[n] = "called" => todo'[n] # <<>>
      BY <1>0, <3>1, <3>2, <3>3
    <3>5. \A i, j \in DOMAIN pending' : pending'[i] = pending'[j] => i = j
      <4>1. CASE UNCHANGED poolVars
        BY <4>1 DEF poolVars
      <4>2. CASE Pool!Submit(Len(log) + 1)
        <5>1. pending' = Append(pending, Len(log) + 1)
              /\ \A i \in DOMAIN pending : pending[i] # Len(log) + 1
          BY <4>2 DEF Pool!Submit, Pool!Known
        <5>2. pending \in Seq(Job \cup {Len(log) + 1}) /\ Len(pending) \in Nat
              /\ DOMAIN pending = 1..Len(pending)
          BY <1>0, SeqMonotonic, LenProperties
        <5>3. /\ DOMAIN pending' = 1..(Len(pending) + 1)
              /\ pending'[Len(pending) + 1] = Len(log) + 1
              /\ \A i \in 1..Len(pending) : pending'[i] = pending[i]
          BY <5>1, <5>2, AppendProperties, LenProperties
        <5> QED BY <5>1, <5>2, <5>3
      <4> QED BY <2>2, <4>1, <4>2 DEF Handle
    <3> QED BY <3>4, <3>5
  <2> QED BY <1>5, <2>1, <2>2 DEF Receive
<1>6. ASSUME NEW n \in Job, Begin(n) PROVE QueueInv'
  <2>1. pending # <<>> /\ pending' = Tail(pending)
    BY <1>6 DEF Begin, Pool!Begin
  <2>2. /\ Len(pending) \in Nat \ {0} /\ DOMAIN pending = 1..Len(pending)
        /\ DOMAIN pending' = 1..(Len(pending) - 1)
        /\ \A i \in 1..(Len(pending) - 1) : pending'[i] = pending[i + 1]
    BY <1>0, <2>1, EmptySeq, LenProperties, HeadTailProperties
  <2>3. ASSUME NEW i \in DOMAIN pending', NEW j \in DOMAIN pending', pending'[i] = pending'[j]
        PROVE  i = j
    <3>1. i + 1 \in DOMAIN pending /\ j + 1 \in DOMAIN pending
          /\ pending[i + 1] = pending[j + 1]
      BY <2>2, <2>3
    <3>2. i + 1 = j + 1
      BY <3>1
    <3> QED BY <2>2, <3>2
  <2>4. \A k \in Job' : stage'[k] = "called" => todo'[k] # <<>>
    BY <1>0, <1>6 DEF Begin, workerVars, Job
  <2> QED BY <2>3, <2>4
<1>7. ASSUME NEW n \in Job, Copy(n) \/ Unlock(n) \/ Call(n) \/ Return(n) PROVE QueueInv'
  BY <1>0, <1>7 DEF Copy, Unlock, Call, Return, workerVars, poolVars, Job
<1>8. ASSUME NEW n \in Job, Finish(n) PROVE QueueInv'
  BY <1>0, <1>8, FinishWhere DEF Finish, Pool!Finish, poolVars, Job
<1> QED
  BY <1>1, <1>2, <1>3, <1>4, <1>5, <1>6, <1>7, <1>8 DEF Next, RunLoop, DispatchMessage

-----------------------------------------------------------------------------
(* The invariant and what follows from it.                                 *)

\* The invariant is inductive.
THEOREM Invariance == SafeSpec => []IInv
<1>1. Init => IInv
  <2> SUFFICES ASSUME Init PROVE IInv
    OBVIOUS
  <2>1. TypeOK
    BY SharedInit, JobsInit, TypeHalves
  <2>2. Job = {} /\ DOMAIN pending = {}
    BY DEF Init, Job, Pool!Init
  <2>3. ThreadInv /\ PoolInv
    BY DEF Init, ThreadInv, PoolInv, Pool!Init
  <2>4. MutexInv /\ CutOffInv /\ ReadyInv /\ QueueInv
    BY <2>2 DEF Init, MutexInv, CutOffInv, ReadyInv, QueueInv
  <2> QED BY <2>1, <2>3, <2>4 DEF IInv
<1>2. IInv /\ [Next]_vars => IInv'
  <2> SUFFICES ASSUME IInv, [Next]_vars PROVE IInv'
    OBVIOUS
  <2>1. SharedOK /\ JobsOK
    BY TypeHalves DEF IInv
  <2>2. SharedOK' /\ JobsOK'
    BY <2>1, SharedNext, JobsNext DEF IInv
  <2>3. TypeOK'
    BY <2>2 DEF TypeOK, SharedOK, JobsOK, LogEntry
  <2>4. ThreadInv' /\ PoolInv' /\ MutexInv'
    BY <2>1, <2>2, ThreadNext, PoolNext, MutexNext DEF IInv
  <2>5. CutOffInv' /\ ReadyInv' /\ QueueInv'
    BY <2>1, <2>2, CutOffNext, ReadyNext, QueueNext DEF IInv
  <2> QED BY <2>3, <2>4, <2>5 DEF IInv
<1> QED BY <1>1, <1>2, PTL DEF SafeSpec

\* The stage of every job agrees with where its closure is.
THEOREM TypeCorrect == SafeSpec => []TypeOK
<1>1. IInv => TypeOK
  BY DEF IInv
<1> QED BY <1>1, Invariance, PTL

\* A receive thread that has come to its end, or is gone, has left nothing to do.
LEMMA NothingLeft ==
  ASSUME IInv, worker \in {"none", "exited"}
  PROVE  phase = "absent" /\ \A n \in Job : stage[n] = "done"
<1>0. JobsOK
  BY TypeHalves DEF IInv
<1>1. phase = "absent" /\ pending = <<>> /\ active = {}
  BY ConfigAssumption DEF IInv, PoolInv
<1>2. Queued = {} /\ Dispatching = {}
  <2>1. Range(pending) = {}
    BY <1>1 DEF Range
  <2> QED BY <1>0, <1>1, <2>1, ConfigAssumption DEF JobsOK
<1> QED BY <1>0, <1>1, <1>2 DEF JobsOK, Stages, Queued, Dispatching

\* When stop has returned or the subscriber is destroyed nothing of it runs, with
\* either executor, any number of sockets, threads, callbacks and messages.
THEOREM QuiescentAfterStop == SafeSpec => []Quiescent
<1>1. IInv => Quiescent
  <2> SUFFICES ASSUME IInv, app \in {"idle", "destroyed"}, ~running PROVE Quiescent
    BY DEF Quiescent
  <2>1. worker = "none"
    BY DEF IInv, ThreadInv
  <2>2. phase = "absent" /\ \A n \in Job : stage[n] = "done"
    BY <2>1, NothingLeft
  <2>3. callback_mutex = Free
    BY <2>2 DEF IInv, TypeOK, MutexInv
  <2> QED BY <2>1, <2>2, <2>3 DEF Quiescent
<1> QED BY <1>1, Invariance, PTL

\* After stop has cleared running no socket is received from more than once.
THEOREM CutOff == SafeSpec => []StopCutsOff
<1>1. IInv => StopCutsOff
  BY DEF IInv, CutOffInv, StopCutsOff
<1> QED BY <1>1, Invariance, PTL

\* A callback never runs on a thread that holds callback_mutex.
THEOREM ReentrantOn == SafeSpec => []CallbackMayRegister
<1>1. IInv => CallbackMayRegister
  BY DEF IInv, MutexInv, CallbackMayRegister
<1> QED BY <1>1, Invariance, PTL
=============================================================================
