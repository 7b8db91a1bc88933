----------------------------- MODULE Subscriber -----------------------------
(***************************************************************************)
(* Subscriber of src/subscriber.cpp: the thread that starts, stops and      *)
(* destroys it, the receive thread (run_loop), and the dispatching of each  *)
(* received message to the callbacks, on the receive thread or on the pool. *)
(*                                                                         *)
(* The pool is the executor of TaskExecutor, which ThreadPool implements.   *)
(* A job is one run of dispatch_message; jobs are numbered in the order in  *)
(* which their messages were received, over all starts.  Start, stop and    *)
(* destruction are called by one thread, the application, and never from a  *)
(* callback; callbacks return and do not throw.                             *)
(***************************************************************************)
EXTENDS Naturals, Sequences, FiniteSets, Functions

CONSTANTS
  Subscribe,     \* config.subscribe: the message type of each socket, in order
  Executor,      \* config.callback_executor: "ThreadPool" or "Inline"
  PoolSize,      \* the threads of the pool, 2 in run_loop
  Callback,      \* the callbacks that can be registered, each once
  CallbackType,  \* the message type each callback takes
  Malformed,     \* the messages that ParseFromArray rejects
  MaxPublished   \* bound: how many messages are published

MessageType ==
  {"HydrophoneData", "TargetData", "ProcessorSettings", "VesselInfo"}

Socket == DOMAIN Subscribe
Message == 1..MaxPublished

ASSUME ConfigAssumption ==
  /\ Subscribe \in Seq(MessageType)
  /\ Executor \in {"ThreadPool", "Inline"}
  /\ PoolSize \in Nat \ {0}

ASSUME CallbackAssumption == CallbackType \in [Callback -> MessageType]

ASSUME BoundAssumption == MaxPublished \in Nat /\ Malformed \subseteq Message

VARIABLES
  running,         \* Impl::running
  app,             \* what the application is doing, see AppStates
  worker,          \* where Impl::worker is, see WorkerStates
  inbox,           \* the messages waiting in each socket
  ready,           \* the sockets that poll reported and the scan is still to visit
  callbacks,       \* the callback vector of each message type
  callback_mutex,  \* the job that holds it, or Free
  log,             \* the socket and the message of each job, and, for the
                   \* properties, how many callbacks its type had on receipt
  stage,           \* where each job of log is in dispatch_message, see Stages
  todo,            \* what is left of the copy of the vector each job goes through
  published,       \* how many messages have been published
  heard,           \* history: the jobs each callback has been called with
  late,            \* history: what each socket received after the last stop
  phase, pending, active, finished  \* the pool

poolVars == <<phase, pending, active, finished>>
appVars == <<running, app>>
workerVars == <<worker, inbox, ready, log, late>>
jobVars == <<stage, todo, heard, callback_mutex>>
vars == <<appVars, workerVars, jobVars, callbacks, published, poolVars>>

Free == 0
AppStates == {"idle", "stopping", "destroying", "destroyed"}

\* "none": not joinable.  "check": at the head of the loop.  "poll" and "scan":
\* in zmq::poll and in the loop over the sockets.  "dispatch": in
\* dispatch_message, inline.  "closing": in the destructors of the locals.
WorkerStates ==
  {"none", "setup", "check", "poll", "scan", "dispatch", "closing", "exited"}

\* "copy": about to lock.  "unlock": holds the lock, has copied the vector.
\* "call": between two calls.  "called": inside a callback.
Stages == {"queued", "copy", "unlock", "call", "called", "done"}

Pool == INSTANCE TaskExecutor WITH Task <- Nat, Capacity <- PoolSize

Job == DOMAIN log
Type(n) == Subscribe[log[n].socket]
Registered == {c \in Callback : c \in Range(callbacks[CallbackType[c]])}

Init ==
  /\ running = FALSE /\ app = "idle" /\ worker = "none"
  /\ inbox = [s \in Socket |-> <<>>] /\ ready = {}
  /\ callbacks = [t \in MessageType |-> <<>>] /\ callback_mutex = Free
  /\ log = <<>>
  /\ stage = <<>> /\ todo = <<>>
  /\ published = 0
  /\ heard = [c \in Callback |-> <<>>] /\ late = [s \in Socket |-> 0]
  /\ Pool!Init

-----------------------------------------------------------------------------
(* The application.                                                        *)

\* Assigning to Impl::worker while it is joinable would end the process; that
\* it is not is part of Quiescent.  start throws when running is set.
Start ==
  /\ app = "idle" /\ ~running
  /\ running' = TRUE
  /\ worker' = "setup"
  /\ late' = [s \in Socket |-> 0]
  /\ UNCHANGED <<app, inbox, ready, log, jobVars, callbacks, published, poolVars>>

\* The thread cannot be created: start throws with running already set.
StartFails ==
  /\ app = "idle" /\ ~running
  /\ running' = TRUE
  /\ UNCHANGED <<app, workerVars, jobVars, callbacks, published, poolVars>>

\* Impl::worker.joinable().  A faulty variant: the thread has been detached.
Detached == FALSE
Joinable == worker # "none"

\* stop returns at once when running is not set, and does not join a worker that
\* is not joinable.
Stop ==
  /\ app = "idle" /\ running
  /\ running' = FALSE
  /\ app' = IF Joinable THEN "stopping" ELSE "idle"
  /\ UNCHANGED <<workerVars, jobVars, callbacks, published, poolVars>>

\* The destructor calls stop; then Impl dies.
Destroy ==
  /\ app = "idle"
  /\ running' = FALSE
  /\ app' = IF running /\ Joinable THEN "destroying" ELSE "destroyed"
  /\ UNCHANGED <<workerVars, jobVars, callbacks, published, poolVars>>

Join ==
  /\ app \in {"stopping", "destroying"}
  /\ worker = "exited"
  /\ worker' = "none"
  /\ app' = IF app = "stopping" THEN "idle" ELSE "destroyed"
  /\ UNCHANGED <<running, inbox, ready, log, late,
                 jobVars, callbacks, published, poolVars>>

\* on: the lock, push_back and the unlock are one step.  An on whose message
\* type is not that of the callback throws and changes nothing.
On(c) ==
  /\ callback_mutex = Free
  /\ c \notin Registered
  /\ callbacks' = [callbacks EXCEPT ![CallbackType[c]] = Append(@, c)]
  /\ UNCHANGED <<appVars, workerVars, jobVars, published, poolVars>>

\* Callbacks are registered by the application, before and after start, and by
\* callbacks.
Register(c) ==
  /\ app = "idle" \/ \E n \in Job : stage[n] = "called"
  /\ On(c)

\* Nothing follows destruction.
Destroyed == app = "destroyed" /\ UNCHANGED vars

-----------------------------------------------------------------------------
(* The server, and the transport: a publication reaches any of the sockets  *)
(* connected to its type's port, and waits there.                           *)

Connected == worker \in {"check", "poll", "scan", "dispatch", "closing"}

Publish(receivers) ==
  /\ Connected
  /\ published < MaxPublished
  /\ receivers # {}
  /\ \A r, s \in receivers : Subscribe[r] = Subscribe[s]
  /\ published' = published + 1
  /\ inbox' = [s \in Socket |->
                 IF s \in receivers THEN Append(inbox[s], published + 1) ELSE inbox[s]]
  /\ UNCHANGED <<appVars, worker, ready, log, late, jobVars, callbacks, poolVars>>

-----------------------------------------------------------------------------
(* run_loop.                                                               *)

Setup ==
  /\ worker = "setup"
  /\ worker' = "check"
  /\ IF Executor = "ThreadPool" THEN Pool!Open ELSE UNCHANGED poolVars
  /\ UNCHANGED <<appVars, inbox, ready, log, late, jobVars, callbacks, published>>

\* The condition of the loop.  A faulty variant: while (true).
Always == TRUE
KeepRunning == running

\* One more round: running was read TRUE.
Continue ==
  /\ worker = "check" /\ KeepRunning
  /\ worker' = "poll"
  /\ UNCHANGED <<appVars, inbox, ready, log, late,
                 jobVars, callbacks, published, poolVars>>

\* What zmq::poll finds.  A faulty variant: it is given the first socket only.
ReadableFirst == {s \in Socket : s = 1 /\ inbox[s] # <<>>}
Readable == {s \in Socket : inbox[s] # <<>>}

\* zmq::poll returns with the readable sockets, none when it times out.
Poll ==
  /\ worker = "poll"
  /\ worker' = "scan"
  /\ ready' = Readable
  /\ UNCHANGED <<appVars, inbox, log, late, jobVars, callbacks, published, poolVars>>

\* recv takes the oldest message.  A faulty variant: it is left there.
LeftAfterPeek(s) == inbox[s]
Left(s) == Tail(inbox[s])

\* A socket is visited once in a scan.  A faulty variant: until it is empty.
UnvisitedUntilEmpty(s) == IF Len(inbox[s]) > 1 THEN ready ELSE ready \ {s}
Unvisited(s) == ready \ {s}

\* ParseFromArray.  A faulty variant: its result is not looked at.
ParsedAnyway(m) == TRUE
Parsed(m) == m \notin Malformed

\* What does not parse is dropped: break leaves the switch.  A faulty variant:
\* return leaves the loop.
DropAndReturn ==
  /\ worker' = "closing"
  /\ UNCHANGED <<log, stage, todo, poolVars>>
Drop == UNCHANGED <<worker, log, stage, todo, poolVars>>

\* A faulty variant: a thread of its own for each message.
HandleDetached(n) ==
  /\ stage' = Append(stage, "copy")
  /\ UNCHANGED <<worker, poolVars>>

\* Hand the new job over, or dispatch it here.
Handle(n) ==
  \/ /\ Executor = "ThreadPool"
     /\ Pool!Submit(n)
     /\ stage' = Append(stage, "queued")
     /\ UNCHANGED worker
  \/ /\ Executor = "Inline"
     /\ stage' = Append(stage, "copy")
     /\ worker' = "dispatch"
     /\ UNCHANGED poolVars

\* The next ready socket: one message is received, however many wait.
Receive(s) ==
  /\ worker = "scan"
  /\ s \in ready /\ \A r \in ready : s <= r
  /\ ready' = Unvisited(s)
  /\ inbox' = [inbox EXCEPT ![s] = Left(s)]
  /\ late' = IF running THEN late ELSE [late EXCEPT ![s] = @ + 1]
  /\ LET m == Head(inbox[s]) IN
       \/ ~Parsed(m) /\ Drop
       \/ /\ Parsed(m)
          /\ log' = Append(log, [socket |-> s, message |-> m,
                                 audience |-> Len(callbacks[Subscribe[s]])])
          /\ todo' = Append(todo, <<>>)
          /\ Handle(Len(log) + 1)
  /\ UNCHANGED <<appVars, heard, callback_mutex, callbacks, published>>

EndScan ==
  /\ worker = "scan" /\ ready = {}
  /\ worker' = "check"
  /\ UNCHANGED <<appVars, inbox, ready, log, late,
                 jobVars, callbacks, published, poolVars>>

\* running was read FALSE: the destructor of the pool begins.
LeaveLoop ==
  /\ worker = "check" /\ ~KeepRunning
  /\ worker' = "closing"
  /\ IF Executor = "ThreadPool" THEN Pool!Close ELSE UNCHANGED poolVars
  /\ UNCHANGED <<appVars, inbox, ready, log, late, jobVars, callbacks, published>>

\* The pool is destroyed first, then the sockets with what waits in them.
Exit ==
  /\ worker = "closing"
  /\ IF Executor = "ThreadPool" THEN Pool!Closed ELSE UNCHANGED poolVars
  /\ worker' = "exited"
  /\ inbox' = [s \in Socket |-> <<>>]
  /\ UNCHANGED <<appVars, ready, log, late, jobVars, callbacks, published>>

-----------------------------------------------------------------------------
(* dispatch_message, run for job n by a thread of the pool or by run_loop.  *)

\* A faulty variant: any job that is queued.
BeginAny(n) ==
  /\ stage[n] = "queued" /\ Cardinality(active) < PoolSize
  /\ pending' = SelectSeq(pending, LAMBDA m : m # n)
  /\ active' = active \cup {n}
  /\ stage' = [stage EXCEPT ![n] = "copy"]
  /\ UNCHANGED <<appVars, workerVars, todo, heard, callback_mutex, callbacks, published,
                 phase, finished>>

\* A thread of the pool takes the job.
Begin(n) ==
  /\ stage[n] = "queued"
  /\ Pool!Begin(n)
  /\ stage' = [stage EXCEPT ![n] = "copy"]
  /\ UNCHANGED <<appVars, workerVars, todo, heard, callback_mutex, callbacks, published>>

\* The copy of the vector.  A faulty variant: off by one.
SnapshotButLast(t) == SubSeq(callbacks[t], 1, Len(callbacks[t]) - 1)
Snapshot(t) == callbacks[t]

Copy(n) ==
  /\ stage[n] = "copy"
  /\ callback_mutex = Free
  /\ callback_mutex' = n
  /\ todo' = [todo EXCEPT ![n] = Snapshot(Type(n))]
  /\ stage' = [stage EXCEPT ![n] = "unlock"]
  /\ UNCHANGED <<appVars, workerVars, heard, callbacks, published, poolVars>>

\* Who holds the lock once the copy is made.  A faulty variant: still the job.
Kept == callback_mutex
Released == Free

Unlock(n) ==
  /\ stage[n] = "unlock"
  /\ callback_mutex' = Released
  /\ stage' = [stage EXCEPT ![n] = "call"]
  /\ UNCHANGED <<appVars, workerVars, todo, heard, callbacks, published, poolVars>>

Call(n) ==
  /\ stage[n] = "call" /\ todo[n] # <<>>
  /\ heard' = [heard EXCEPT ![Head(todo[n])] = Append(@, n)]
  /\ stage' = [stage EXCEPT ![n] = "called"]
  /\ UNCHANGED <<appVars, workerVars, todo, callback_mutex, callbacks, published, poolVars>>

Return(n) ==
  /\ stage[n] = "called"
  /\ todo' = [todo EXCEPT ![n] = Tail(@)]
  /\ stage' = [stage EXCEPT ![n] = "call"]
  /\ UNCHANGED <<appVars, workerVars, heard, callback_mutex, callbacks, published, poolVars>>

\* dispatch_message returns, to worker_loop or to run_loop.
Finish(n) ==
  /\ stage[n] = "call" /\ todo[n] = <<>>
  /\ stage' = [stage EXCEPT ![n] = "done"]
  /\ IF Executor = "ThreadPool"
       THEN Pool!Finish(n) /\ UNCHANGED worker
       ELSE worker' = "scan" /\ UNCHANGED poolVars
  /\ UNCHANGED <<appVars, inbox, ready, log, late,
                 todo, heard, callback_mutex, callbacks, published>>

-----------------------------------------------------------------------------

RunLoop ==
  \/ Setup \/ Continue \/ Poll \/ EndScan \/ LeaveLoop \/ Exit
  \/ \E s \in Socket : Receive(s)

DispatchMessage(n) ==
  /\ n \in Job
  /\ Begin(n) \/ Copy(n) \/ Unlock(n) \/ Call(n) \/ Return(n) \/ Finish(n)

\* A socket receives each publication at most once, so there are no more jobs.
MaxJobs == MaxPublished * Len(Subscribe)

Next ==
  \/ Start \/ StartFails \/ Stop \/ Destroy \/ Join \/ Destroyed
  \/ \E c \in Callback : Register(c)
  \/ \E receivers \in SUBSET Socket : Publish(receivers)
  \/ RunLoop
  \/ \E n \in Job : DispatchMessage(n)

SafeSpec == Init /\ [][Next]_vars

\* Threads that can run are run, and callbacks return.  Nothing is assumed of
\* the application, which may never stop the subscriber, nor of the server.
Fairness ==
  /\ WF_vars(Join) /\ WF_vars(RunLoop)
  /\ \A n \in 1..MaxJobs : WF_vars(DispatchMessage(n))

Spec == SafeSpec /\ Fairness

-----------------------------------------------------------------------------
(* Properties.                                                             *)

Concurrency == IF Executor = "ThreadPool" THEN PoolSize ELSE 1

Heard(c, n) == n \in Range(heard[c])

Queued == {n \in Job : stage[n] = "queued"}
Dispatching == {n \in Job : stage[n] \in {"copy", "unlock", "call", "called"}}

\* The types.  A job is queued or begun in the pool exactly while its closure is
\* there; inline, the receive thread is in at most one dispatch_message, that of
\* the message it received last.
TypeOK ==
  /\ running \in BOOLEAN /\ app \in AppStates /\ worker \in WorkerStates
  /\ inbox \in [Socket -> Seq(Message)] /\ ready \subseteq Socket
  /\ callbacks \in [MessageType -> Seq(Callback)]
  /\ callback_mutex \in Job \cup {Free}
  /\ log \in Seq([socket : Socket, message : Message, audience : Nat])
  /\ stage \in [Job -> Stages] /\ todo \in [Job -> Seq(Callback)]
  /\ published \in 0..MaxPublished
  /\ heard \in [Callback -> Seq(Job)] /\ late \in [Socket -> Nat]
  /\ phase \in {"absent", "open", "closing"} /\ pending \in Seq(Job)
  /\ finished \subseteq Job
  /\ Executor = "ThreadPool" =>
       Queued = Range(pending) /\ Dispatching = active
  /\ Executor = "Inline" =>
       Queued = {} /\ Dispatching = IF worker = "dispatch" THEN {Len(log)} ELSE {}

\* When stop has returned, and when the subscriber is destroyed, nothing of it
\* runs any more: the receive thread has been joined, there is no pool, every
\* message received has been dispatched to the end and nobody holds the mutex.
\* So a callback may use what the application frees after stop, Impl may die,
\* and the next start finds a thread object it may assign to.
Quiescent ==
  app \in {"idle", "destroyed"} /\ ~running =>
    /\ worker = "none" /\ phase = "absent" /\ callback_mutex = Free
    /\ \A n \in Job : stage[n] = "done"

\* A message that has been dispatched was heard by every callback that was
\* registered when it was received, and whoever has heard it so far are the
\* first of the vector: callbacks are called in the order of registration.
HeardByAudience ==
  \A n \in Job :
    LET vector == callbacks[Type(n)]
        called == {i \in DOMAIN vector : Heard(vector[i], n)}
    IN  /\ called = 1..Cardinality(called)
        /\ stage[n] = "done" => Cardinality(called) >= log[n].audience

\* No callback hears a message twice from one socket, whatever is stopped and
\* started in between, and none hears a message that is malformed or of a type
\* it was not registered for.
HeardOnce ==
  \A c \in Callback :
    LET jobs == [i \in DOMAIN heard[c] |-> log[heard[c][i]]] IN
    /\ \A i, j \in DOMAIN jobs :
         jobs[i].socket = jobs[j].socket /\ jobs[i].message = jobs[j].message => i = j
    /\ \A i \in DOMAIN jobs : /\ Subscribe[jobs[i].socket] = CallbackType[c]
                              /\ jobs[i].message \notin Malformed

\* Inline, a callback hears the messages of a socket in the order they were
\* published.  On the pool a message can be called back before earlier ones of
\* its socket, but before fewer of them than the pool has threads.
BoundedReordering ==
  \A c \in Callback : \A i \in DOMAIN heard[c] :
    Cardinality({j \in DOMAIN heard[c] :
      /\ j > i
      /\ log[heard[c][j]].socket = log[heard[c][i]].socket
      /\ log[heard[c][j]].message < log[heard[c][i]].message}) < Concurrency

\* After stop has cleared running, run_loop receives at most one more message
\* from each socket, however many are waiting.
StopCutsOff == \A s \in Socket : late[s] <= 1

\* A callback is never entered by a thread that holds callback_mutex, so it may
\* call on.
CallbackMayRegister == \A n \in Job : stage[n] = "called" => callback_mutex # n

\* stop and the destructor return.
StopReturns ==
  app \in {"stopping", "destroying"} ~> app \in {"idle", "destroyed"}

\* A message that has been received is dispatched to the end.
EveryJobDone ==
  \A n \in 1..MaxJobs : n \in Job ~> n \in Job /\ stage[n] = "done"

\* A well-formed message that has reached a socket is received, unless stop is
\* called: malformed ones before it, and other sockets, do not hold it up.
EveryMessageReceived ==
  \A s \in Socket, m \in Message \ Malformed :
    m \in Range(inbox[s])
      ~> \/ \E n \in Job : log[n].socket = s /\ log[n].message = m
         \/ ~running
-----------------------------------------------------------------------------
(* The abstract specification.                                             *)

\* start and stop as the application sees them.  running stays set between a
\* start that has failed and the stop that follows.
State ==
  CASE running -> "up"
    [] ~running /\ app = "idle" -> "down"
    [] ~running /\ app = "destroyed" -> "gone"
    [] OTHER -> app

DoneJobs == {n \in Job : stage[n] = "done"}

\* While stop waits, the sockets that have had their last message received.
Closed ==
  IF app \in {"stopping", "destroying"} THEN {s \in Socket : late[s] > 0} ELSE {}

Service == INSTANCE Notifications WITH
             Message <- Message \ Malformed, Capacity <- Concurrency,
             state <- State, registered <- callbacks, received <- log,
             done <- DoneJobs, closed <- Closed

\* What callbacks hear, and when, is what the service promises.
ImplementsNotifications == Service!SafeSpec
=============================================================================
