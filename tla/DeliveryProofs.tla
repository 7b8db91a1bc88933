---------------------------- MODULE DeliveryProofs ----------------------------
(***************************************************************************)
(* Who hears what, how often and in which order: theorems about the         *)
(* properties of Subscriber that relate what callbacks have heard to what    *)
(* has been received, for every subscription, executor, number of threads,   *)
(* set of callbacks and number of publications.                              *)
(***************************************************************************)
EXTENDS SubscriberProofs, FiniteSetTheorems

(***************************************************************************)
(* The inductive invariant, on top of IInv.  Job n and a callback of its     *)
(* type meet in Progress: how far the job has gone through the vector says   *)
(* which of the callbacks have heard it.  Overtaken carries the order in     *)
(* which the pool begins jobs to the moment when callbacks hear them.        *)
(***************************************************************************)

\* The vector of the callbacks of a job's type.
Vector(n) == callbacks[Type(n)]

\* Callbacks are registered for their type, and once.
VectorInv ==
  \A t \in MessageType :
    /\ \A i \in DOMAIN callbacks[t] : CallbackType[callbacks[t][i]] = t
    /\ \A i, j \in DOMAIN callbacks[t] : callbacks[t][i] = callbacks[t][j] => i = j

\* The messages of a socket are received in the order of their publication: those
\* that wait come after those that have been received.
StreamInv ==
  /\ \A s \in Socket :
       /\ \A i, j \in DOMAIN inbox[s] : i < j => inbox[s][i] < inbox[s][j]
       /\ \A i \in DOMAIN inbox[s] : inbox[s][i] <= published
  /\ \A n \in Job :
       /\ log[n].message <= published /\ log[n].message \notin Malformed
       /\ \A i \in DOMAIN inbox[log[n].socket] : log[n].message < inbox[log[n].socket][i]
  /\ \A m, n \in Job :
       m < n /\ log[m].socket = log[n].socket => log[m].message < log[n].message

\* todo is vector[from + 1], ..., vector[to].
IsPart(seq, vector, from, to) ==
  /\ Len(seq) = to - from
  /\ \A i \in 1..Len(seq) : seq[i] = vector[from + i]

\* Of the vector of its type, job n has copied the first `copied' and called the
\* first `called' callbacks; the rest of the copy is its todo.
Progress(n, copied, called) ==
  /\ called <= copied /\ copied <= Len(Vector(n))
  /\ \A i \in DOMAIN Vector(n) : Heard(Vector(n)[i], n) <=> i <= called
  /\ stage[n] \in {"queued", "copy", "unlock"} => called = 0
  /\ stage[n] \notin {"queued", "copy"} => log[n].audience <= copied
  /\ stage[n] \in {"unlock", "call"} => IsPart(todo[n], Vector(n), called, copied)
  /\ stage[n] = "called" => called > 0 /\ IsPart(todo[n], Vector(n), called - 1, copied)
  /\ stage[n] = "done" => called = copied

JobInv(n) ==
  /\ log[n].audience <= Len(Vector(n))
  /\ \E copied, called \in 0..Len(Vector(n)) : Progress(n, copied, called)

ProgressInv == \A n \in Job : JobInv(n)

\* A callback that is registered hears a job once, and jobs of its type.
HeardInv ==
  \A c \in Callback :
    /\ heard[c] # <<>> => c \in Registered
    /\ \A i, j \in DOMAIN heard[c] : heard[c][i] = heard[c][j] => i = j
    /\ \A i \in DOMAIN heard[c] : Type(heard[c][i]) = CallbackType[c]

\* Jobs are begun in their order, and few are in progress at a time.
OrderInv ==
  /\ \A i, j \in DOMAIN pending : i < j => pending[i] < pending[j]
  /\ \A m, n \in Job : m < n /\ stage[m] = "queued" => stage[n] = "queued"
  /\ IsFiniteSet(Dispatching) /\ Cardinality(Dispatching) <= Concurrency

\* The earlier jobs that callback c has still to hear, or may still have, when it
\* hears its i-th job; and those that it has heard since.
Overtaken(c, i) ==
  {m \in Job : /\ m < heard[c][i]
               /\ stage[m] # "done" \/ Heard(c, m)
               /\ \A j \in 1..i : heard[c][j] # m}

OvertakenInv ==
  \A c \in Callback : \A i \in DOMAIN heard[c] : Cardinality(Overtaken(c, i)) < Concurrency

DInv == VectorInv /\ StreamInv /\ ProgressInv /\ HeardInv /\ OrderInv /\ OvertakenInv

-----------------------------------------------------------------------------
(* What the types say.                                                     *)

\* The jobs are numbered, and each has a type that has a vector.
LEMMA Jobs ==
  ASSUME TypeOK
  PROVE  /\ Len(log) \in Nat /\ Job = 1..Len(log)
         /\ stage \in [Job -> Stages] /\ todo \in [Job -> Seq(Callback)]
         /\ heard \in [Callback -> Seq(Job)] /\ pending \in Seq(Job)
         /\ \A n \in Job :
              /\ log[n].socket \in Socket /\ log[n].message \in Message
              /\ log[n].audience \in Nat
              /\ Type(n) \in MessageType
              /\ Vector(n) \in Seq(Callback) /\ Len(Vector(n)) \in Nat
              /\ DOMAIN Vector(n) = 1..Len(Vector(n))
<1>1. log \in Seq(LogEntry)
  BY DEF TypeOK, LogEntry
<1>2. Len(log) \in Nat /\ Job = 1..Len(log)
  BY <1>1, LenProperties DEF Job
<1>3. ASSUME NEW n \in Job
      PROVE  /\ log[n].socket \in Socket /\ log[n].message \in Message
             /\ log[n].audience \in Nat
             /\ Type(n) \in MessageType /\ Vector(n) \in Seq(Callback)
  <2>1. log[n] \in LogEntry
    BY <1>1, <1>2, ElementOfSeq
  <2> QED BY <2>1, Sockets DEF LogEntry, Type, Vector, TypeOK
<1>4. \A n \in Job : Len(Vector(n)) \in Nat /\ DOMAIN Vector(n) = 1..Len(Vector(n))
  BY <1>3, LenProperties
<1> QED BY <1>2, <1>3, <1>4 DEF TypeOK

\* The sequences that are indexed.
LEMMA Indices ==
  ASSUME TypeOK
  PROVE  /\ \A t \in MessageType : /\ callbacks[t] \in Seq(Callback)
                                   /\ Len(callbacks[t]) \in Nat
                                   /\ DOMAIN callbacks[t] = 1..Len(callbacks[t])
         /\ \A s \in Socket : /\ inbox[s] \in Seq(Message) /\ Len(inbox[s]) \in Nat
                             /\ DOMAIN inbox[s] = 1..Len(inbox[s])
         /\ \A c \in Callback : /\ heard[c] \in Seq(Job) /\ Len(heard[c]) \in Nat
                               /\ DOMAIN heard[c] = 1..Len(heard[c])
         /\ Len(pending) \in Nat /\ DOMAIN pending = 1..Len(pending)
<1>1. ASSUME NEW t \in MessageType
      PROVE  /\ callbacks[t] \in Seq(Callback) /\ Len(callbacks[t]) \in Nat
             /\ DOMAIN callbacks[t] = 1..Len(callbacks[t])
  <2>1. callbacks[t] \in Seq(Callback)
    BY DEF TypeOK
  <2> QED BY <2>1, LenProperties
<1>2. ASSUME NEW s \in Socket
      PROVE  /\ inbox[s] \in Seq(Message) /\ Len(inbox[s]) \in Nat
             /\ DOMAIN inbox[s] = 1..Len(inbox[s])
  <2>1. inbox[s] \in Seq(Message)
    BY DEF TypeOK
  <2> QED BY <2>1, LenProperties
<1>3. ASSUME NEW c \in Callback
      PROVE  /\ heard[c] \in Seq(Job) /\ Len(heard[c]) \in Nat
             /\ DOMAIN heard[c] = 1..Len(heard[c])
  <2>1. heard[c] \in Seq(Job)
    BY DEF TypeOK
  <2> QED BY <2>1, LenProperties
<1>4. Len(pending) \in Nat /\ DOMAIN pending = 1..Len(pending)
  <2>1. pending \in Seq(Job)
    BY DEF TypeOK
  <2> QED BY <2>1, LenProperties
<1> QED BY <1>1, <1>2, <1>3, <1>4

-----------------------------------------------------------------------------
(* What the steps do.                                                      *)

\* Receiving drops the oldest message of a socket, or makes it the next job.
LEMMA Received ==
  ASSUME IInv, IInv', NEW s \in Socket, Receive(s)
  PROVE  /\ inbox[s] # <<>> /\ inbox' = [inbox EXCEPT ![s] = Tail(inbox[s])]
         /\ UNCHANGED <<callbacks, heard, published>>
         /\ \/ UNCHANGED <<log, stage, todo>> /\ UNCHANGED <<pending, active>>
            \/ LET n == Len(log) + 1
                    m == Head(inbox[s]) IN
               /\ m \notin Malformed
               /\ n \in Nat /\ n \notin Job /\ Job' = Job \cup {n}
               /\ \A k \in Job : /\ log'[k] = log[k] /\ stage'[k] = stage[k]
                                 /\ todo'[k] = todo[k]
               /\ log'[n] = [socket |-> s, message |-> m,
                             audience |-> Len(callbacks[Subscribe[s]])]
               /\ \/ /\ Executor = "ThreadPool" /\ stage'[n] = "queued"
                     /\ pending' = Append(pending, n) /\ active' = active
                  \/ /\ Executor = "Inline" /\ stage'[n] = "copy"
                     /\ UNCHANGED <<pending, active>>
<1> DEFINE n == Len(log) + 1
           m == Head(inbox[s])
           e == [socket |-> s, message |-> m, audience |-> Len(callbacks[Subscribe[s]])]
<1>1. /\ inbox[s] # <<>> /\ inbox' = [inbox EXCEPT ![s] = Tail(inbox[s])]
      /\ UNCHANGED <<callbacks, heard, published>>
  BY DEF Receive, Left, IInv, ReadyInv
<1>2. CASE Drop
  BY <1>1, <1>2 DEF Drop, poolVars
<1>3. CASE /\ Parsed(m) /\ log' = Append(log, e) /\ todo' = Append(todo, <<>>)
           /\ Handle(n)
  <2>0. log \in Seq(LogEntry) /\ log' \in Seq(LogEntry)
    BY DEF IInv, TypeOK, LogEntry
  <2>1. e \in LogEntry
    <3>1. m \in Message
      <4>1. inbox[s] \in Seq(Message)
        BY DEF IInv, TypeOK
      <4> QED BY <1>1, <4>1, HeadTailProperties
    <3>2. Len(callbacks[Subscribe[s]]) \in Nat
      BY Sockets, Indices DEF IInv
    <3> QED BY <3>1, <3>2 DEF LogEntry
  <2>2. PICK st \in {"queued", "copy"} :
          /\ stage' = Append(stage, st)
          /\ \/ /\ Executor = "ThreadPool" /\ st = "queued"
                /\ pending' = Append(pending, n) /\ active' = active
             \/ /\ Executor = "Inline" /\ st = "copy"
                /\ UNCHANGED <<pending, active>>
    BY <1>3 DEF Handle, Pool!Submit, poolVars
  <2>3. /\ Len(log) \in Nat /\ Job = 1..Len(log)
        /\ stage \in [Job -> Stages] /\ todo \in [Job -> Seq(Callback)]
    BY Jobs DEF IInv
  <2>4. Job' = 1..n /\ stage'[n] = st /\ \A k \in Job : stage'[k] = stage[k]
    BY <1>3, <2>0, <2>1, <2>2, <2>3, NewJob DEF Stages
  <2>5. log'[n] = e /\ \A k \in Job : log'[k] = log[k]
    BY <1>3, <2>0, <2>1, <2>3, AppendProperties
  <2>6. \A k \in Job : todo'[k] = todo[k]
    <3>1. todo \in Seq(Seq(Callback)) /\ Len(todo) = Len(log) /\ <<>> \in Seq(Callback)
      BY <2>3, EmptySeq
    <3> QED BY <1>3, <2>3, <3>1, AppendProperties
  <2> HIDE DEF e
  <2>7. m \notin Malformed /\ n \in Nat /\ n \notin Job /\ Job' = Job \cup {n}
    BY <1>3, <2>3, <2>4 DEF Parsed
  <2> QED BY <1>1, <2>2, <2>4, <2>5, <2>6, <2>7 DEF e
<1> QED BY <1>2, <1>3 DEF Receive

\* A call adds one job to what one callback has heard.
LEMMA Called ==
  ASSUME TypeOK, NEW n \in Job, Call(n)
  PROVE  /\ Head(todo[n]) \in Callback /\ Head(todo[n]) = todo[n][1]
         /\ Len(todo[n]) \in Nat /\ Len(todo[n]) > 0
         /\ \A c \in Callback : heard'[c] =
              IF c = Head(todo[n]) THEN Append(heard[c], n) ELSE heard[c]
         /\ \A c \in Callback, k \in Nat :
              Heard(c, k)' <=> Heard(c, k) \/ (c = Head(todo[n]) /\ k = n)
<1>1. todo[n] \in Seq(Callback) /\ todo[n] # <<>>
  BY DEF Call, TypeOK
<1>2. /\ Head(todo[n]) \in Callback /\ Head(todo[n]) = todo[n][1]
      /\ Len(todo[n]) \in Nat /\ Len(todo[n]) > 0
  BY <1>1, EmptySeq, HeadTailProperties
<1>3. \A c \in Callback : heard'[c] =
        IF c = Head(todo[n]) THEN Append(heard[c], n) ELSE heard[c]
  BY <1>2 DEF Call, TypeOK
<1>4. ASSUME NEW c \in Callback, NEW k \in Nat
      PROVE  Heard(c, k)' <=> Heard(c, k) \/ (c = Head(todo[n]) /\ k = n)
  <2>1. CASE c # Head(todo[n])
    BY <1>3, <2>1 DEF Heard, Range
  <2>2. CASE c = Head(todo[n])
    <3>1. heard[c] \in Seq(Job) /\ heard'[c] = Append(heard[c], n)
      BY <1>3, <2>2 DEF TypeOK
    <3>2. /\ Len(heard[c]) \in Nat /\ DOMAIN heard[c] = 1..Len(heard[c])
          /\ DOMAIN heard'[c] = 1..(Len(heard[c]) + 1)
          /\ heard'[c][Len(heard[c]) + 1] = n
          /\ \A i \in 1..Len(heard[c]) : heard'[c][i] = heard[c][i]
      BY <3>1, AppendProperties, LenProperties
    <3>3. (\E i \in DOMAIN heard'[c] : k = heard'[c][i])
            <=> (\E i \in DOMAIN heard[c] : k = heard[c][i]) \/ k = n
      <4>1. ASSUME NEW i \in DOMAIN heard'[c], k = heard'[c][i]
            PROVE  (\E j \in DOMAIN heard[c] : k = heard[c][j]) \/ k = n
        BY <3>2, <4>1
      <4>2. ASSUME NEW i \in DOMAIN heard[c], k = heard[c][i]
            PROVE  \E j \in DOMAIN heard'[c] : k = heard'[c][j]
        BY <3>2, <4>2
      <4>3. k = n => \E j \in DOMAIN heard'[c] : k = heard'[c][j]
        BY <3>2
      <4> QED BY <4>1, <4>2, <4>3
    <3>4. Heard(c, k) <=> \E i \in DOMAIN heard[c] : k = heard[c][i]
      BY DEF Heard, Range
    <3>5. Heard(c, k)' <=> \E i \in DOMAIN heard'[c] : k = heard'[c][i]
      BY DEF Heard, Range
    <3> QED BY <2>2, <3>3, <3>4, <3>5
  <2> QED BY <2>1, <2>2
<1> QED BY <1>2, <1>3, <1>4

\* on puts a callback at the end of the vector of its type, if it is not there.
LEMMA Added ==
  ASSUME TypeOK, NEW c \in Callback, Register(c)
  PROVE  /\ c \notin Registered /\ CallbackType[c] \in MessageType
         /\ UNCHANGED <<log, stage, todo, heard, inbox, published>>
         /\ \A t \in MessageType \ {CallbackType[c]} : callbacks'[t] = callbacks[t]
         /\ LET old == callbacks[CallbackType[c]]
                 new == callbacks'[CallbackType[c]] IN
            /\ Len(new) = Len(old) + 1 /\ new[Len(old) + 1] = c
            /\ \A i \in 1..Len(old) : new[i] = old[i] /\ old[i] # c
<1> DEFINE old == callbacks[CallbackType[c]]
<1>1. CallbackType[c] \in MessageType
  BY CallbackAssumption
<1>2. old \in Seq(Callback) /\ DOMAIN old = 1..Len(old)
  BY <1>1, Indices
<1>3. /\ callbacks'[CallbackType[c]] = Append(old, c)
      /\ \A t \in MessageType \ {CallbackType[c]} : callbacks'[t] = callbacks[t]
      /\ c \notin Registered /\ UNCHANGED <<log, stage, todo, heard, inbox, published>>
  BY <1>1 DEF Register, On, TypeOK, workerVars, jobVars
<1>4. \A i \in 1..Len(old) : old[i] # c
  BY <1>2, <1>3 DEF Registered, Range
<1> QED BY <1>1, <1>2, <1>3, <1>4, AppendProperties

-----------------------------------------------------------------------------
(* The invariant is kept.                                                  *)

\* Steps that touch nothing of what it is about.
QuietVars == <<callbacks, log, stage, todo, published, heard, inbox>>

\* The steps of the application and of the receive thread that are quiet, but
\* for the sockets that Exit closes.
LEMMA Quiet ==
  ASSUME \/ Start \/ StartFails \/ Stop \/ Destroy \/ Join \/ Destroyed \/ UNCHANGED vars
         \/ Setup \/ Continue \/ Poll \/ EndScan \/ LeaveLoop
  PROVE  UNCHANGED QuietVars /\ UNCHANGED <<pending, active>>
BY DEF Start, StartFails, Stop, Destroy, Join, Destroyed, vars, Setup, Continue, Poll,
       EndScan, LeaveLoop, QuietVars, workerVars, jobVars, poolVars,
       Pool!Open, Pool!Close

\* The sockets are closed with what waits in them.
LEMMA Exited ==
  ASSUME Exit
  PROVE  /\ UNCHANGED <<callbacks, log, stage, todo, published, heard>>
         /\ UNCHANGED <<pending, active>>
         /\ inbox' = [s \in Socket |-> <<>>]
BY DEF Exit, jobVars, poolVars, Pool!Closed

\* A publication reaches some sockets, behind what waits there.
LEMMA Published ==
  ASSUME NEW receivers \in SUBSET Socket, Publish(receivers)
  PROVE  /\ UNCHANGED <<callbacks, log, stage, todo, heard>> /\ UNCHANGED <<pending, active>>
         /\ published' = published + 1
         /\ \A s \in Socket : \/ inbox'[s] = inbox[s]
                             \/ inbox'[s] = Append(inbox[s], published + 1)
BY DEF Publish, jobVars, poolVars

\* dispatch_message leaves alone what waits and what is registered.
LEMMA Dispatched ==
  ASSUME NEW n \in Job, DispatchMessage(n)
  PROVE  UNCHANGED <<callbacks, log, published, inbox>> /\ Job' = Job
BY DEF DispatchMessage, Begin, Copy, Unlock, Call, Return, Finish, workerVars, Job

\* No callback is registered twice, or for another type.
LEMMA VectorNext == TypeOK /\ VectorInv /\ [Next]_vars => VectorInv'
<1> SUFFICES ASSUME TypeOK, VectorInv, [Next]_vars PROVE VectorInv'
  OBVIOUS
<1>1. CASE UNCHANGED callbacks
  BY <1>1 DEF VectorInv
<1>2. ASSUME NEW c \in Callback, Register(c) PROVE VectorInv'
  <2> SUFFICES ASSUME NEW t \in MessageType
               PROVE  /\ \A i \in DOMAIN callbacks'[t] : CallbackType[callbacks'[t][i]] = t
                      /\ \A i, j \in DOMAIN callbacks'[t] :
                           callbacks'[t][i] = callbacks'[t][j] => i = j
    BY DEF VectorInv
  <2>1. CASE t # CallbackType[c]
    BY <1>2, <2>1, Added DEF VectorInv
  <2>2. CASE t = CallbackType[c]
    <3>1. /\ Len(callbacks'[t]) = Len(callbacks[t]) + 1 /\ callbacks'[t][Len(callbacks[t]) + 1] = c
          /\ \A i \in 1..Len(callbacks[t]) :
               callbacks'[t][i] = callbacks[t][i] /\ callbacks[t][i] # c
      BY <1>2, <2>2, Added
    <3>2. Len(callbacks[t]) \in Nat /\ DOMAIN callbacks[t] = 1..Len(callbacks[t])
      BY Indices
    <3>3. DOMAIN callbacks'[t] = 1..(Len(callbacks[t]) + 1)
      <4>1. callbacks'[t] = Append(callbacks[t], c)
        BY <1>2, <2>2 DEF Register, On, TypeOK
      <4>2. callbacks[t] \in Seq(Callback)
        BY Indices
      <4> QED BY <3>1, <4>1, <4>2, AppendProperties, LenProperties
    <3>4. \A i \in DOMAIN callbacks'[t] : CallbackType[callbacks'[t][i]] = t
      BY <2>2, <3>1, <3>2, <3>3 DEF VectorInv
    <3>5. \A i, j \in 1..Len(callbacks[t]) : callbacks[t][i] = callbacks[t][j] => i = j
      BY <3>2 DEF VectorInv
    <3>6. \A i, j \in DOMAIN callbacks'[t] : callbacks'[t][i] = callbacks'[t][j] => i = j
      BY <3>1, <3>2, <3>3, <3>5
    <3> QED BY <3>4, <3>6
  <2> QED BY <2>1, <2>2
<1>3. ASSUME NEW s \in Socket, Receive(s) PROVE UNCHANGED callbacks
  BY <1>3 DEF Receive
<1> QED
  BY <1>1, <1>2, <1>3, Quiet, Exited, Published, Dispatched
     DEF Next, RunLoop, QuietVars

\* Each socket hands its messages on in order.
LEMMA StreamNext == IInv /\ IInv' /\ StreamInv /\ [Next]_vars => StreamInv'
<1> SUFFICES ASSUME IInv, IInv', StreamInv, [Next]_vars PROVE StreamInv'
  OBVIOUS
<1>0. TypeOK /\ TypeOK' /\ published \in Nat
  BY BoundAssumption DEF IInv, TypeOK
<1>1. CASE UNCHANGED <<log, inbox, published>>
  BY <1>1 DEF StreamInv, Job
<1>2. CASE Exit
  <2>1. UNCHANGED <<log, published>> /\ inbox' = [s \in Socket |-> <<>>] /\ Job' = Job
    BY <1>2, Exited DEF Job
  <2>2. \A s \in Socket : DOMAIN inbox'[s] = {}
    BY <2>1
  <2>3. \A n \in Job : log[n].socket \in Socket
    BY <1>0, Jobs
  <2> QED BY <2>1, <2>2, <2>3 DEF StreamInv
<1>3. ASSUME NEW receivers \in SUBSET Socket, Publish(receivers) PROVE StreamInv'
  <2>1. UNCHANGED log /\ published' = published + 1 /\ Job' = Job
    BY <1>3, Published DEF Job
  <2>2. ASSUME NEW s \in Socket
        PROVE  \A i \in DOMAIN inbox'[s] :
                 \/ i \in DOMAIN inbox[s] /\ inbox'[s][i] = inbox[s][i]
                 \/ /\ \A j \in DOMAIN inbox[s] : j < i
                    /\ \A j \in DOMAIN inbox'[s] : j <= i
                    /\ inbox'[s][i] = published + 1
    <3>1. /\ inbox[s] \in Seq(Message) /\ Len(inbox[s]) \in Nat
          /\ DOMAIN inbox[s] = 1..Len(inbox[s])
      BY <1>0, Indices
    <3>2. CASE inbox'[s] = inbox[s]
      BY <3>2
    <3>3. CASE inbox'[s] = Append(inbox[s], published + 1)
      <4>1. published + 1 \in Message
        BY <1>0, <1>3, BoundAssumption DEF Publish, Message
      <4>2. /\ DOMAIN inbox'[s] = 1..(Len(inbox[s]) + 1)
            /\ inbox'[s][Len(inbox[s]) + 1] = published + 1
            /\ \A i \in 1..Len(inbox[s]) : inbox'[s][i] = inbox[s][i]
        BY <3>1, <3>3, <4>1, AppendProperties, LenProperties
      <4> QED BY <3>1, <4>2
    <3> QED BY <1>3, <3>2, <3>3, Published
  <2>3. ASSUME NEW s \in Socket
        PROVE  \A i \in DOMAIN inbox[s] : i \in Nat /\ inbox[s][i] \in Nat
    <3>1. inbox[s] \in Seq(Message) /\ DOMAIN inbox[s] = 1..Len(inbox[s])
      BY <1>0, Indices
    <3>2. \A i \in 1..Len(inbox[s]) : inbox[s][i] \in Message
      BY <3>1, ElementOfSeq
    <3> QED BY <3>1, <3>2 DEF Message
  <2>4. ASSUME NEW s \in Socket
        PROVE  /\ \A i, j \in DOMAIN inbox'[s] : i < j => inbox'[s][i] < inbox'[s][j]
               /\ \A i \in DOMAIN inbox'[s] : inbox'[s][i] <= published'
    <3>1. \A i \in DOMAIN inbox'[s] : i \in Nat
      <4>1. inbox'[s] \in Seq(Message)
        BY <1>0 DEF TypeOK
      <4> QED BY <4>1, LenProperties
    <3>2. /\ \A i, j \in DOMAIN inbox[s] : i < j => inbox[s][i] < inbox[s][j]
          /\ \A i \in DOMAIN inbox[s] : inbox[s][i] <= published
      BY DEF StreamInv
    <3>3. \A i \in DOMAIN inbox'[s] : inbox'[s][i] <= published'
      BY <1>0, <2>1, <2>2, <2>3, <3>2
    <3>4. ASSUME NEW i \in DOMAIN inbox'[s], NEW j \in DOMAIN inbox'[s], i < j
          PROVE  inbox'[s][i] < inbox'[s][j]
      <4>1. i \in DOMAIN inbox[s] /\ inbox'[s][i] = inbox[s][i]
        BY <2>2, <3>1, <3>4
      <4>2. CASE j \in DOMAIN inbox[s] /\ inbox'[s][j] = inbox[s][j]
        BY <3>2, <3>4, <4>1, <4>2
      <4>3. CASE inbox'[s][j] = published + 1
        BY <1>0, <2>3, <3>2, <4>1, <4>3
      <4> QED BY <2>2, <4>2, <4>3
    <3> QED BY <3>3, <3>4
  <2>5. ASSUME NEW n \in Job
        PROVE  /\ log[n].message <= published' /\ log[n].message \notin Malformed
               /\ \A i \in DOMAIN inbox'[log[n].socket] :
                    log[n].message < inbox'[log[n].socket][i]
    <3>1. /\ log[n].message \in Nat /\ log[n].socket \in Socket
      BY <1>0, Jobs DEF Message
    <3>2. /\ log[n].message <= published /\ log[n].message \notin Malformed
          /\ \A i \in DOMAIN inbox[log[n].socket] : log[n].message < inbox[log[n].socket][i]
      BY DEF StreamInv
    <3> QED BY <1>0, <2>1, <2>2, <3>1, <3>2
  <2> QED BY <2>1, <2>4, <2>5 DEF StreamInv
<1>4. ASSUME NEW s \in Socket, Receive(s) PROVE StreamInv'
  <2> DEFINE n == Len(log) + 1
             m == Head(inbox[s])
  <2>1. /\ inbox[s] # <<>> /\ inbox' = [inbox EXCEPT ![s] = Tail(inbox[s])]
        /\ published' = published
    BY <1>4, Received
  <2>2. inbox \in [Socket -> Seq(Message)] /\ inbox[s] \in Seq(Message)
    BY <1>0 DEF TypeOK
  <2>3. /\ Len(inbox[s]) \in Nat /\ Len(inbox[s]) > 0 /\ DOMAIN inbox[s] = 1..Len(inbox[s])
        /\ DOMAIN inbox'[s] = 1..(Len(inbox[s]) - 1)
        /\ \A i \in 1..(Len(inbox[s]) - 1) : inbox'[s][i] = inbox[s][i + 1]
        /\ m = inbox[s][1] /\ m \in Message
    BY <2>1, <2>2, EmptySeq, LenProperties, HeadTailProperties
  <2>4. \A r \in Socket \ {s} : inbox'[r] = inbox[r]
    BY <2>1, <2>2
  <2>5. ASSUME NEW r \in Socket
        PROVE  /\ \A i, j \in DOMAIN inbox'[r] : i < j => inbox'[r][i] < inbox'[r][j]
               /\ \A i \in DOMAIN inbox'[r] : inbox'[r][i] <= published'
    <3>1. /\ \A i, j \in DOMAIN inbox[r] : i < j => inbox[r][i] < inbox[r][j]
          /\ \A i \in DOMAIN inbox[r] : inbox[r][i] <= published
      BY DEF StreamInv
    <3>2. CASE r = s
      BY <2>1, <2>3, <3>1, <3>2
    <3> QED BY <2>1, <2>4, <3>1, <3>2
  <2>6. \A r \in Socket : \A i \in DOMAIN inbox'[r] :
          \E j \in DOMAIN inbox[r] : inbox'[r][i] = inbox[r][j]
    <3> SUFFICES ASSUME NEW r \in Socket, NEW i \in DOMAIN inbox'[r]
                 PROVE  \E j \in DOMAIN inbox[r] : inbox'[r][i] = inbox[r][j]
      OBVIOUS
    <3>1. CASE r = s
      <4>1. i + 1 \in DOMAIN inbox[s] /\ inbox'[s][i] = inbox[s][i + 1]
        BY <2>3, <3>1
      <4> QED BY <3>1, <4>1
    <3> QED BY <2>4, <3>1
  <2>7. \A k \in Job :
          /\ log[k].socket \in Socket
          /\ log[k].message <= published /\ log[k].message \notin Malformed
          /\ \A i \in DOMAIN inbox'[log[k].socket] : log[k].message < inbox'[log[k].socket][i]
    <3> SUFFICES ASSUME NEW k \in Job
                 PROVE  /\ log[k].socket \in Socket
                        /\ log[k].message <= published /\ log[k].message \notin Malformed
                        /\ \A i \in DOMAIN inbox'[log[k].socket] :
                             log[k].message < inbox'[log[k].socket][i]
      OBVIOUS
    <3>1. log[k].socket \in Socket
      BY <1>0, Jobs
    <3>2. /\ log[k].message <= published /\ log[k].message \notin Malformed
          /\ \A i \in DOMAIN inbox[log[k].socket] : log[k].message < inbox[log[k].socket][i]
      BY DEF StreamInv
    <3> QED BY <2>6, <3>1, <3>2
  <2>8. CASE UNCHANGED log
    <3>1. Job' = Job
      BY <2>8 DEF Job
    <3> QED BY <2>1, <2>5, <2>7, <2>8, <3>1 DEF StreamInv
  <2>9. CASE /\ m \notin Malformed
             /\ n \in Nat /\ n \notin Job /\ Job' = Job \cup {n}
             /\ \A k \in Job : log'[k] = log[k]
             /\ log'[n].socket = s /\ log'[n].message = m
    <3>1. \A i \in DOMAIN inbox'[s] : m < inbox'[s][i]
      <4>1. \A i \in 1..(Len(inbox[s]) - 1) : inbox[s][1] < inbox[s][i + 1]
        <5>1. \A i, j \in DOMAIN inbox[s] : i < j => inbox[s][i] < inbox[s][j]
          BY DEF StreamInv
        <5>2. ASSUME NEW i \in 1..(Len(inbox[s]) - 1) PROVE inbox[s][1] < inbox[s][i + 1]
          <6>1. 1 \in DOMAIN inbox[s] /\ i + 1 \in DOMAIN inbox[s] /\ 1 < i + 1
            BY <2>3
          <6> QED BY <5>1, <6>1
        <5> QED BY <5>2
      <4> QED BY <2>3, <4>1
    <3>2. m <= published
      BY <2>3 DEF StreamInv
    <3>3. ASSUME NEW k \in Job, log[k].socket = s PROVE log[k].message < m
      <4>1. 1 \in DOMAIN inbox[s] /\ m = inbox[s][1]
        BY <2>3
      <4>2. \A i \in DOMAIN inbox[log[k].socket] : log[k].message < inbox[log[k].socket][i]
        BY DEF StreamInv
      <4> QED BY <3>3, <4>1, <4>2
    <3>4. \A k \in Job' :
            /\ log'[k].message <= published' /\ log'[k].message \notin Malformed
            /\ \A i \in DOMAIN inbox'[log'[k].socket] :
                 log'[k].message < inbox'[log'[k].socket][i]
      <4> SUFFICES ASSUME NEW k \in Job'
                   PROVE  /\ log'[k].message <= published' /\ log'[k].message \notin Malformed
                          /\ \A i \in DOMAIN inbox'[log'[k].socket] :
                               log'[k].message < inbox'[log'[k].socket][i]
        OBVIOUS
      <4>1. CASE k \in Job
        BY <2>1, <2>7, <2>9, <4>1
      <4>2. CASE k = n
        BY <2>1, <2>9, <3>1, <3>2, <4>2
      <4> QED BY <2>9, <4>1, <4>2
    <3>5. ASSUME NEW k \in Job', NEW l \in Job', k < l, log'[k].socket = log'[l].socket
          PROVE  log'[k].message < log'[l].message
      <4>1. \A j \in Job : j \in Nat /\ j < n
        BY <1>0, Jobs
      <4>2. k \in Job
        BY <2>9, <3>5, <4>1
      <4>3. CASE l \in Job
        BY <2>9, <3>5, <4>2, <4>3 DEF StreamInv
      <4>4. CASE l = n
        BY <2>9, <3>3, <3>5, <4>2, <4>4
      <4> QED BY <2>9, <4>3, <4>4
    <3> QED BY <2>5, <3>4, <3>5 DEF StreamInv
  <2>10. UNCHANGED log
         \/ /\ m \notin Malformed
            /\ n \in Nat /\ n \notin Job /\ Job' = Job \cup {n}
            /\ \A k \in Job : log'[k] = log[k]
            /\ log'[n].socket = s /\ log'[n].message = m
    <3> DEFINE e == [socket |-> s, message |-> m, audience |-> Len(callbacks[Subscribe[s]])]
    <3>1. UNCHANGED log
          \/ /\ m \notin Malformed
             /\ n \in Nat /\ n \notin Job /\ Job' = Job \cup {n}
             /\ \A k \in Job : log'[k] = log[k]
             /\ log'[n] = e
      BY <1>4, Received
    <3>2. e.socket = s /\ e.message = m
      OBVIOUS
    <3> QED BY <3>1, <3>2
  <2> QED BY <2>8, <2>9, <2>10
<1>5. ASSUME NEW c \in Callback, Register(c) PROVE UNCHANGED <<log, inbox, published>>
  BY <1>0, <1>5, Added
<1> QED
  BY <1>1, <1>2, <1>3, <1>4, <1>5, Quiet, Dispatched DEF Next, RunLoop, QuietVars

\* What can happen to the jobs in progress on the pool.
LEMMA ActiveSteps ==
  ASSUME IInv, IInv', [Next]_vars
  PROVE  \/ active' = active
         \/ \E n \in Job : \/ active' = active \ {n}
                           \/ Cardinality(active) < PoolSize /\ active' = active \cup {n}
<1>1. ASSUME NEW s \in Socket, Receive(s) PROVE active' = active
  BY <1>1, Received
<1>2. ASSUME NEW n \in Job, Begin(n)
      PROVE  Cardinality(active) < PoolSize /\ active' = active \cup {n}
  <2>1. Pool!Cardinality(active) = Cardinality(active)
    BY DEF Pool!Cardinality, Cardinality
  <2> QED BY <1>2, <2>1 DEF Begin, Pool!Begin
<1>3. ASSUME NEW n \in Job, Copy(n) \/ Unlock(n) \/ Call(n) \/ Return(n)
      PROVE  active' = active
  BY <1>3 DEF Copy, Unlock, Call, Return, poolVars
<1>4. ASSUME NEW n \in Job, Finish(n) PROVE active' = active \/ active' = active \ {n}
  BY <1>4 DEF Finish, Pool!Finish, poolVars
<1>5. ASSUME NEW c \in Callback, Register(c) PROVE active' = active
  BY <1>5 DEF Register, On, poolVars
<1> QED
  BY <1>1, <1>2, <1>3, <1>4, <1>5, Quiet, Exited, Published
     DEF Next, RunLoop, DispatchMessage

\* There is no more in progress than the executor has threads.
LEMMA LoadNext ==
  ASSUME IInv, IInv', [Next]_vars,
         IsFiniteSet(Dispatching), Cardinality(Dispatching) <= Concurrency
  PROVE  IsFiniteSet(Dispatching') /\ Cardinality(Dispatching') <= Concurrency
<1>0. TypeOK /\ TypeOK' /\ Executor \in {"ThreadPool", "Inline"} /\ PoolSize \in Nat \ {0}
  BY ConfigAssumption DEF IInv
<1>1. CASE Executor = "Inline"
  <2>1. Dispatching' = {} \/ Dispatching' = {Len(log')}
    BY <1>0, <1>1 DEF TypeOK
  <2>2. Concurrency = 1
    BY <1>1 DEF Concurrency
  <2>3. CASE Dispatching' = {}
    <3>1. IsFiniteSet({}) /\ Cardinality({}) <= 1
      BY FS_EmptySet
    <3> QED BY <2>2, <2>3, <3>1
  <2>4. CASE Dispatching' = {Len(log')}
    <3>1. \A x : IsFiniteSet({x}) /\ Cardinality({x}) = 1
      BY FS_Singleton
    <3>2. PICK x : Dispatching' = {x}
      BY <2>4
    <3>3. IsFiniteSet({x}) /\ Cardinality({x}) = 1
      BY <3>1
    <3> QED BY <2>2, <3>2, <3>3
  <2> QED BY <2>1, <2>3, <2>4
<1>2. CASE Executor = "ThreadPool"
  <2>1. Dispatching = active /\ Dispatching' = active' /\ Concurrency = PoolSize
    BY <1>0, <1>2 DEF TypeOK, Concurrency
  <2>2. Cardinality(active) \in Nat
    BY <2>1, FS_CardinalityType
  <2>3. CASE active' = active
    BY <2>1, <2>3
  <2>4. ASSUME NEW n \in Job, active' = active \ {n}
        PROVE  IsFiniteSet(Dispatching') /\ Cardinality(Dispatching') <= Concurrency
    BY <1>0, <2>1, <2>2, <2>4, FS_RemoveElement
  <2>5. ASSUME NEW n \in Job, Cardinality(active) < PoolSize, active' = active \cup {n}
        PROVE  IsFiniteSet(Dispatching') /\ Cardinality(Dispatching') <= Concurrency
    BY <1>0, <2>1, <2>2, <2>5, FS_AddElement
  <2> QED BY <2>3, <2>4, <2>5, ActiveSteps
<1> QED BY <1>0, <1>1, <1>2

\* The queue keeps the order of the jobs, and is begun from its head.
LEMMA OrderNext == IInv /\ IInv' /\ OrderInv /\ [Next]_vars => OrderInv'
<1> SUFFICES ASSUME IInv, IInv', OrderInv, [Next]_vars PROVE OrderInv'
  OBVIOUS
<1>0. /\ TypeOK /\ Executor \in {"ThreadPool", "Inline"}
      /\ Job = 1..Len(log) /\ Len(log) \in Nat /\ stage \in [Job -> Stages]
      /\ pending \in Seq(Job) /\ Len(pending) \in Nat /\ DOMAIN pending = 1..Len(pending)
  BY ConfigAssumption, Jobs, Indices DEF IInv
<1> DEFINE Sorted == \A i, j \in DOMAIN pending : i < j => pending[i] < pending[j]
           Fifo == \A m, n \in Job : m < n /\ stage[m] = "queued" => stage[n] = "queued"
<1>s. Sorted /\ Fifo
  BY DEF OrderInv
<1>l. IsFiniteSet(Dispatching') /\ Cardinality(Dispatching') <= Concurrency
  BY LoadNext DEF OrderInv
<1>q. SUFFICES Sorted' /\ Fifo'
  BY <1>l DEF OrderInv, Concurrency
<1>1. CASE UNCHANGED <<log, stage, pending>>
  BY <1>1, <1>s DEF Job
<1>2. ASSUME NEW s \in Socket, Receive(s) PROVE Sorted' /\ Fifo'
  <2> DEFINE n == Len(log) + 1
  <2>1. CASE UNCHANGED <<log, stage, pending>>
    BY <1>1, <2>1
  <2>2. CASE /\ n \in Nat /\ n \notin Job /\ Job' = Job \cup {n}
             /\ \A k \in Job : stage'[k] = stage[k]
             /\ \/ /\ Executor = "ThreadPool" /\ stage'[n] = "queued"
                   /\ pending' = Append(pending, n)
                \/ /\ Executor = "Inline" /\ stage'[n] = "copy" /\ UNCHANGED pending
    <3>1. \A k \in Job : k < n
      BY <1>0
    <3>2. Executor = "Inline" => \A k \in Job : stage[k] # "queued"
      BY <1>0 DEF TypeOK, Queued
    <3>3. Fifo'
      <4> SUFFICES ASSUME NEW k \in Job', NEW l \in Job', k < l, stage'[k] = "queued"
                   PROVE  stage'[l] = "queued"
        OBVIOUS
      <4>1. k \in Job /\ stage[k] = "queued"
        BY <1>0, <2>2, <3>1
      <4>2. CASE l \in Job
        BY <1>s, <2>2, <4>1, <4>2
      <4>3. CASE l = n
        BY <1>0, <2>2, <3>2, <4>1, <4>3
      <4> QED BY <2>2, <4>2, <4>3
    <3>4. Sorted'
      <4>1. CASE UNCHANGED pending
        BY <1>s, <4>1
      <4>2. CASE pending' = Append(pending, n)
        <5>1. pending \in Seq(Nat) /\ \A i \in DOMAIN pending : pending[i] < n
          BY <1>0, <3>1, SeqMonotonic
        <5>2. /\ DOMAIN pending' = 1..(Len(pending) + 1)
              /\ pending'[Len(pending) + 1] = n
              /\ \A i \in 1..Len(pending) : pending'[i] = pending[i]
          BY <2>2, <4>2, <5>1, AppendProperties, LenProperties
        <5> QED BY <1>0, <1>s, <5>1, <5>2
      <4> QED BY <2>2, <4>1, <4>2
    <3> QED BY <3>3, <3>4
  <2> HIDE DEF Sorted, Fifo
  <2>3. \/ UNCHANGED <<log, stage, pending>>
        \/ /\ n \in Nat /\ n \notin Job /\ Job' = Job \cup {n}
           /\ \A k \in Job : stage'[k] = stage[k]
           /\ \/ /\ Executor = "ThreadPool" /\ stage'[n] = "queued"
                 /\ pending' = Append(pending, n)
              \/ /\ Executor = "Inline" /\ stage'[n] = "copy" /\ UNCHANGED pending
    BY <1>2, Received
  <2> QED BY <2>1, <2>2, <2>3
<1>3. ASSUME NEW n \in Job, Begin(n) PROVE Sorted' /\ Fifo'
  <2>1. /\ pending # <<>> /\ n = Head(pending) /\ pending' = Tail(pending)
        /\ stage[n] = "queued" /\ stage' = [stage EXCEPT ![n] = "copy"] /\ Job' = Job
    BY <1>3 DEF Begin, Pool!Begin, workerVars, Job
  <2>2. /\ Len(pending) > 0 /\ n = pending[1]
        /\ DOMAIN pending' = 1..(Len(pending) - 1)
        /\ \A i \in 1..(Len(pending) - 1) : pending'[i] = pending[i + 1]
    BY <1>0, <2>1, EmptySeq, LenProperties, HeadTailProperties
  <2>3. Sorted'
    <3> SUFFICES ASSUME NEW i \in DOMAIN pending', NEW j \in DOMAIN pending', i < j
                 PROVE  pending'[i] < pending'[j]
      OBVIOUS
    <3>1. i + 1 \in DOMAIN pending /\ j + 1 \in DOMAIN pending /\ i + 1 < j + 1
      BY <1>0, <2>2
    <3> QED BY <1>s, <2>2, <3>1
  <2>4. ASSUME NEW k \in Job, stage[k] = "queued" PROVE n <= k
    <3>1. Executor = "ThreadPool"
      BY <1>0, <2>4 DEF TypeOK, Queued
    <3>2. k \in Range(pending)
      BY <1>0, <2>4, <3>1 DEF TypeOK, Queued
    <3>3. PICK i \in DOMAIN pending : k = pending[i]
      BY <3>2 DEF Range
    <3>4. CASE i = 1
      BY <1>0, <2>2, <3>3, <3>4
    <3>5. CASE i # 1
      <4>1. 1 \in DOMAIN pending /\ 1 < i
        BY <1>0, <2>2, <3>5
      <4>2. pending[1] < pending[i]
        BY <1>s, <3>3, <4>1
      <4> QED BY <1>0, <2>2, <3>3, <4>2
    <3> QED BY <3>4, <3>5
  <2>5. Fifo'
    <3> SUFFICES ASSUME NEW k \in Job, NEW l \in Job, k < l, stage'[k] = "queued"
                 PROVE  stage'[l] = "queued"
      BY <2>1
    <3>1. k # n /\ stage[k] = "queued"
      BY <1>0, <2>1
    <3>2. n <= k /\ l # n
      BY <1>0, <2>4, <3>1
    <3> QED BY <1>0, <1>s, <2>1, <3>1, <3>2
  <2> QED BY <2>3, <2>5
<1>4. ASSUME NEW n \in Job, Copy(n) \/ Unlock(n) \/ Call(n) \/ Return(n) \/ Finish(n)
      PROVE  Sorted' /\ Fifo'
  <2>1. UNCHANGED <<log, pending>> /\ Job' = Job
    BY <1>4 DEF Copy, Unlock, Call, Return, Finish, Pool!Finish, workerVars, poolVars, Job
  <2>2. /\ stage[n] # "queued" /\ stage'[n] # "queued"
        /\ \A k \in Job \ {n} : stage'[k] = stage[k]
    BY <1>0, <1>4 DEF Copy, Unlock, Call, Return, Finish
  <2> QED BY <1>s, <2>1, <2>2
<1>5. ASSUME NEW c \in Callback, Register(c) PROVE UNCHANGED <<log, stage, pending>>
  BY <1>5 DEF Register, On, workerVars, jobVars, poolVars
<1> HIDE DEF Sorted, Fifo
<1> QED
  BY <1>1, <1>2, <1>3, <1>4, <1>5, Quiet, Exited, Published
     DEF Next, RunLoop, DispatchMessage, QuietVars

\* The callback that a job calls next is the first of its vector that has not
\* heard it.
LEMMA NextCallback ==
  ASSUME TypeOK, ProgressInv, NEW n \in Job, Call(n)
  PROVE  \E copied, called \in 0..Len(Vector(n)) :
           /\ Progress(n, copied, called) /\ called < copied
           /\ called + 1 \in DOMAIN Vector(n)
           /\ Head(todo[n]) = Vector(n)[called + 1]
           /\ ~Heard(Head(todo[n]), n)
<1>1. PICK copied, called \in 0..Len(Vector(n)) : Progress(n, copied, called)
  BY DEF ProgressInv, JobInv
<1>2. IsPart(todo[n], Vector(n), called, copied)
  BY <1>1 DEF Call, Progress
<1>3. Len(Vector(n)) \in Nat /\ DOMAIN Vector(n) = 1..Len(Vector(n))
  BY Jobs
<1>4. called < copied /\ called + 1 \in DOMAIN Vector(n)
  BY <1>1, <1>2, <1>3, Called DEF IsPart, Progress
<1>5. Head(todo[n]) = Vector(n)[called + 1]
  <2>1. 1 \in 1..Len(todo[n]) /\ Head(todo[n]) = todo[n][1]
    BY Called
  <2> QED BY <1>2, <2>1 DEF IsPart
<1>6. ~Heard(Head(todo[n]), n)
  BY <1>1, <1>3, <1>4, <1>5 DEF Progress
<1> QED BY <1>1, <1>4, <1>5, <1>6

\* No callback hears a job again, or one of another type.
LEMMA HeardNext ==
  IInv /\ IInv' /\ VectorInv /\ ProgressInv /\ HeardInv /\ [Next]_vars => HeardInv'
<1> SUFFICES ASSUME IInv, IInv', VectorInv, ProgressInv, HeardInv, [Next]_vars
             PROVE  HeardInv'
  OBVIOUS
<1>0. TypeOK
  BY DEF IInv
<1>u. ASSUME UNCHANGED heard,
             \A n \in Job : Type(n)' = Type(n),
             \A c \in Registered : c \in Registered'
      PROVE  HeardInv'
  <2>1. \A c \in Callback : \A i \in DOMAIN heard[c] : heard[c][i] \in Job
    BY <1>0, Indices, ElementOfSeq
  <2> QED BY <1>u, <2>1 DEF HeardInv
<1>1. CASE UNCHANGED <<callbacks, log, heard>>
  BY <1>1, <1>u DEF Type, Registered
<1>2. ASSUME NEW c \in Callback, Register(c) PROVE HeardInv'
  <2>1. UNCHANGED <<log, heard>> /\ \A n \in Job : Type(n)' = Type(n)
    BY <1>0, <1>2, Added DEF Type
  <2>2. ASSUME NEW d \in Registered PROVE d \in Registered'
    <3>1. d \in Callback /\ CallbackType[d] \in MessageType
      BY CallbackAssumption DEF Registered
    <3>2. CASE CallbackType[d] # CallbackType[c]
      BY <1>0, <1>2, <3>1, <3>2, Added DEF Registered
    <3>3. CASE CallbackType[d] = CallbackType[c]
      <4>1. PICK i \in DOMAIN callbacks[CallbackType[d]] : d = callbacks[CallbackType[d]][i]
        BY DEF Registered, Range
      <4>2. callbacks'[CallbackType[d]] = Append(callbacks[CallbackType[d]], c)
        BY <1>0, <1>2, <3>1, <3>3 DEF Register, On, TypeOK
      <4>3. /\ callbacks[CallbackType[d]] \in Seq(Callback)
            /\ DOMAIN callbacks[CallbackType[d]] = 1..Len(callbacks[CallbackType[d]])
            /\ Len(callbacks[CallbackType[d]]) \in Nat
        BY <1>0, <3>1, Indices
      <4>4. i \in DOMAIN callbacks'[CallbackType[d]] /\ callbacks'[CallbackType[d]][i] = d
        BY <4>1, <4>2, <4>3, AppendProperties, LenProperties
      <4> QED BY <3>1, <4>4 DEF Registered, Range
    <3> QED BY <3>2, <3>3
  <2> QED BY <1>u, <2>1, <2>2
<1>3. ASSUME NEW s \in Socket, Receive(s) PROVE HeardInv'
  <2>1. UNCHANGED <<callbacks, heard>> /\ \A k \in Job : log'[k] = log[k]
    BY <1>3, Received
  <2> QED BY <1>u, <2>1 DEF Type, Registered
<1>4. ASSUME NEW n \in Job, Call(n) PROVE HeardInv'
  <2> DEFINE c == Head(todo[n])
  <2>1. UNCHANGED <<callbacks, log>>
    BY <1>4 DEF Call, workerVars
  <2>2. PICK k \in DOMAIN Vector(n) : c = Vector(n)[k] /\ ~Heard(c, n)
    BY <1>0, <1>4, NextCallback
  <2>3. c \in Callback /\ CallbackType[c] = Type(n)
    BY <1>0, <1>4, <2>2, Called, Jobs DEF VectorInv, Vector
  <2>4. c \in Registered
    BY <2>2, <2>3 DEF Registered, Range, Vector
  <2>5. \A i \in DOMAIN heard[c] : heard[c][i] # n
    BY <2>2 DEF Heard, Range
  <2>6. heard'[c] = Append(heard[c], n) /\ \A d \in Callback \ {c} : heard'[d] = heard[d]
    BY <1>0, <1>4, <2>3, Called
  <2>7. /\ heard[c] \in Seq(Job) /\ Len(heard[c]) \in Nat /\ DOMAIN heard[c] = 1..Len(heard[c])
    BY <1>0, <2>3, Indices
  <2>8. /\ DOMAIN heard'[c] = 1..(Len(heard[c]) + 1) /\ heard'[c][Len(heard[c]) + 1] = n
        /\ \A i \in 1..Len(heard[c]) : heard'[c][i] = heard[c][i]
    BY <2>6, <2>7, AppendProperties, LenProperties
  <2> HIDE DEF c
  <2>9. ASSUME NEW i \in DOMAIN heard'[c], NEW j \in DOMAIN heard'[c], heard'[c][i] = heard'[c][j]
        PROVE  i = j
    <3>1. \A k1, k2 \in 1..Len(heard[c]) : heard[c][k1] = heard[c][k2] => k1 = k2
      BY <2>3, <2>7 DEF HeardInv
    <3> QED BY <2>5, <2>7, <2>8, <2>9, <3>1
  <2>10. \A i \in DOMAIN heard'[c] : Type(heard'[c][i]) = CallbackType[c]
    <3>1. \A i \in 1..Len(heard[c]) : Type(heard[c][i]) = CallbackType[c]
      BY <2>3, <2>7 DEF HeardInv
    <3> QED BY <2>3, <2>7, <2>8, <3>1
  <2>11. Registered' = Registered
    BY <2>1 DEF Registered
  <2>12. ASSUME NEW d \in Callback
         PROVE  /\ heard'[d] # <<>> => d \in Registered'
                /\ \A i, j \in DOMAIN heard'[d] : heard'[d][i] = heard'[d][j] => i = j
                /\ \A i \in DOMAIN heard'[d] : Type(heard'[d][i]) = CallbackType[d]
    <3>1. CASE d = c
      BY <2>4, <2>9, <2>10, <2>11, <3>1
    <3>2. CASE d # c
      BY <2>6, <2>11, <3>2 DEF HeardInv
    <3> QED BY <3>1, <3>2
  <2> QED BY <2>1, <2>12 DEF HeardInv, Type
<1>5. ASSUME NEW n \in Job, Begin(n) \/ Copy(n) \/ Unlock(n) \/ Return(n) \/ Finish(n)
      PROVE  UNCHANGED <<callbacks, log, heard>>
  BY <1>5 DEF Begin, Copy, Unlock, Return, Finish, workerVars
<1> QED
  BY <1>1, <1>2, <1>3, <1>4, <1>5, Quiet, Exited, Published
     DEF Next, RunLoop, DispatchMessage, QuietVars

\* A job that the step leaves alone is as far as it was, in a vector that at most
\* has grown by callbacks that have not heard it.
LEMMA ProgressKept ==
  ASSUME TypeOK, TypeOK', NEW n \in Job, n \in Job', JobInv(n),
         log'[n] = log[n], stage'[n] = stage[n], todo'[n] = todo[n],
         Len(Vector(n)) <= Len(Vector(n)'),
         \A i \in 1..Len(Vector(n)) :
           /\ Vector(n)[i]' = Vector(n)[i]
           /\ Heard(Vector(n)[i], n)' <=> Heard(Vector(n)[i], n),
         \A i \in DOMAIN Vector(n)' : i > Len(Vector(n)) => ~Heard(Vector(n)[i], n)'
  PROVE  JobInv(n)'
<1>1. PICK copied, called \in 0..Len(Vector(n)) : Progress(n, copied, called)
  BY DEF JobInv
<1>2. /\ Len(Vector(n)) \in Nat /\ DOMAIN Vector(n) = 1..Len(Vector(n))
      /\ Len(Vector(n)') \in Nat /\ DOMAIN Vector(n)' = 1..Len(Vector(n)')
      /\ log[n].audience \in Nat
  BY Jobs
<1>3. called <= copied /\ copied <= Len(Vector(n)')
  BY <1>1, <1>2 DEF Progress
<1>4. \A i \in DOMAIN Vector(n)' : Heard(Vector(n)[i], n)' <=> i <= called
  BY <1>1, <1>2 DEF Progress
<1>5. ASSUME NEW from \in Nat, IsPart(todo[n], Vector(n), from, copied)
      PROVE  IsPart(todo[n], Vector(n), from, copied)'
  <2>1. todo[n] \in Seq(Callback) /\ Len(todo[n]) \in Nat
    BY Jobs, LenProperties
  <2>2. Len(todo'[n]) = copied - from
    BY <1>5 DEF IsPart
  <2>3. ASSUME NEW i \in 1..Len(todo'[n]) PROVE todo'[n][i] = Vector(n)'[from + i]
    <3>1. i \in 1..Len(todo[n]) /\ Len(todo[n]) = copied - from
      BY <1>5 DEF IsPart
    <3>2. from + i \in 1..Len(Vector(n))
      BY <1>1, <1>2, <2>1, <3>1
    <3>3. todo[n][i] = Vector(n)[from + i]
      BY <1>5, <3>1 DEF IsPart
    <3> QED BY <3>2, <3>3
  <2> QED BY <2>2, <2>3 DEF IsPart
<1>6. /\ stage'[n] \in {"queued", "copy", "unlock"} => called = 0
      /\ stage'[n] \notin {"queued", "copy"} => log'[n].audience <= copied
      /\ stage'[n] = "called" => called > 0
      /\ stage'[n] = "done" => called = copied
  BY <1>1 DEF Progress
<1>7. stage'[n] \in {"unlock", "call"} => IsPart(todo[n], Vector(n), called, copied)'
  BY <1>1, <1>5 DEF Progress
<1>8. stage'[n] = "called" => IsPart(todo[n], Vector(n), called - 1, copied)'
  BY <1>1, <1>5, <1>6 DEF Progress
<1>9. Progress(n, copied, called)'
  BY <1>3, <1>4, <1>6, <1>7, <1>8 DEF Progress
<1>10. copied \in 0..Len(Vector(n)') /\ called \in 0..Len(Vector(n)')
  BY <1>2, <1>3
<1>11. log'[n].audience <= Len(Vector(n)')
  BY <1>2 DEF JobInv
<1> QED BY <1>9, <1>10, <1>11 DEF JobInv

\* So is every job when callbacks and what they have heard of it are unchanged.
LEMMA ProgressSame ==
  ASSUME TypeOK, TypeOK', NEW n \in Job, n \in Job', JobInv(n),
         log'[n] = log[n], stage'[n] = stage[n], todo'[n] = todo[n],
         callbacks' = callbacks,
         \A c \in Callback : Heard(c, n)' <=> Heard(c, n)
  PROVE  JobInv(n)'
<1>1. Vector(n)' = Vector(n)
  BY DEF Vector, Type
<1>2. /\ Vector(n) \in Seq(Callback) /\ DOMAIN Vector(n) = 1..Len(Vector(n))
      /\ Len(Vector(n)) \in Nat
  BY Jobs
<1>3. \A i \in 1..Len(Vector(n)) : Vector(n)[i] \in Callback
  BY <1>2, ElementOfSeq
<1>4. ASSUME NEW i \in 1..Len(Vector(n))
      PROVE  /\ Vector(n)[i]' = Vector(n)[i]
             /\ Heard(Vector(n)[i], n)' <=> Heard(Vector(n)[i], n)
  <2>1. Vector(n)[i]' = Vector(n)[i]
    BY <1>1
  <2>2. Heard(Vector(n)[i], n)' <=> n \in Range(heard'[Vector(n)[i]])
    BY <1>1 DEF Heard
  <2>3. Heard(Vector(n)[i], n) <=> n \in Range(heard'[Vector(n)[i]])
    BY <1>3 DEF Heard
  <2> QED BY <2>1, <2>2, <2>3
<1>5. \A i \in DOMAIN Vector(n)' : ~(i > Len(Vector(n)))
  BY <1>1, <1>2
<1> QED BY <1>1, <1>2, <1>4, <1>5, ProgressKept

\* A job goes from stage to stage, and through the vector with its callbacks.
LEMMA ProgressOwn ==
  ASSUME IInv, IInv', VectorInv, ProgressInv, NEW n \in Job, DispatchMessage(n)
  PROVE  JobInv(n)'
<1> DEFINE vector == Vector(n)
<1>0. /\ TypeOK /\ stage \in [Job -> Stages] /\ todo \in [Job -> Seq(Callback)]
      /\ vector \in Seq(Callback) /\ DOMAIN vector = 1..Len(vector) /\ Len(vector) \in Nat
      /\ log[n].audience \in Nat
  BY Jobs DEF IInv
<1>1. Vector(n)' = vector /\ log' = log /\ n \in Job'
  BY Dispatched DEF Vector, Type
<1>2. log[n].audience <= Len(vector)
  BY DEF ProgressInv, JobInv
<1>3. PICK copied, called \in 0..Len(vector) : Progress(n, copied, called)
  BY DEF ProgressInv, JobInv
<1>4. SUFFICES \E p, q \in 0..Len(vector) : Progress(n, p, q)'
  BY <1>1, <1>2 DEF JobInv
<1>5. \A i \in DOMAIN vector : Heard(vector[i], n) <=> i <= called
  BY <1>3 DEF Progress
<1>6. called <= copied /\ copied <= Len(vector)
  BY <1>3 DEF Progress
<1>h. ASSUME UNCHANGED heard
      PROVE  \A i \in DOMAIN Vector(n)' : Heard(Vector(n)[i], n)' <=> i <= called
  BY <1>h, <1>1, <1>5 DEF Heard
<1>7. CASE Begin(n)
  <2>1. stage'[n] = "copy" /\ stage[n] = "queued" /\ UNCHANGED <<heard, todo>>
    BY <1>0, <1>7 DEF Begin
  <2>2. called = 0
    BY <1>3, <2>1 DEF Progress
  <2>3. Progress(n, copied, called)'
    BY <1>1, <1>6, <1>h, <2>1, <2>2 DEF Progress
  <2> QED BY <2>3
<1>8. CASE Copy(n)
  <2>1. /\ stage[n] = "copy" /\ stage'[n] = "unlock"
        /\ UNCHANGED heard /\ todo'[n] = vector
    BY <1>0, <1>8 DEF Copy, Snapshot, Vector
  <2>2. called = 0
    BY <1>3, <2>1 DEF Progress
  <2>3. PICK p \in 0..Len(vector) : p = Len(vector)
    <3>1. \A k \in Nat : \E p \in 0..k : p = k
      OBVIOUS
    <3> QED BY <1>0, <3>1
  <2>4. IsPart(todo[n], Vector(n), 0, p)'
    BY <1>0, <1>1, <2>1, <2>3 DEF IsPart
  <2>5. Progress(n, p, 0)'
    BY <1>0, <1>1, <1>2, <1>h, <2>1, <2>2, <2>3, <2>4 DEF Progress
  <2> QED BY <1>0, <2>5
<1>9. CASE Unlock(n)
  <2>1. stage[n] = "unlock" /\ stage'[n] = "call" /\ UNCHANGED <<heard, todo>>
    BY <1>0, <1>9 DEF Unlock
  <2>2. log[n].audience <= copied /\ IsPart(todo[n], vector, called, copied)
    BY <1>3, <2>1 DEF Progress
  <2>3. Progress(n, copied, called)'
    BY <1>1, <1>6, <1>h, <2>1, <2>2 DEF Progress, IsPart
  <2> QED BY <2>3
<1>10. CASE Call(n)
  <2>1. stage[n] = "call" /\ stage'[n] = "called" /\ UNCHANGED todo
    BY <1>0, <1>10 DEF Call
  <2>2. PICK p, q \in 0..Len(vector) :
          /\ Progress(n, p, q) /\ q < p /\ q + 1 \in DOMAIN vector
          /\ Head(todo[n]) = vector[q + 1]
    BY <1>0, <1>10, NextCallback
  <2>3. log[n].audience <= p /\ IsPart(todo[n], vector, q, p) /\ p <= Len(vector)
    BY <2>1, <2>2 DEF Progress
  <2>4. \A i \in DOMAIN vector : Heard(vector[i], n) <=> i <= q
    BY <2>2 DEF Progress
  <2>5. ASSUME NEW i \in DOMAIN vector
        PROVE  Heard(Vector(n)[i], n)' <=> i <= q + 1
    <3>1. vector[i] \in Callback /\ n \in Nat
      BY <1>0, ElementOfSeq, Jobs
    <3>2. \A c \in Callback : Heard(c, n)' <=> Heard(c, n) \/ c = Head(todo[n])
      BY <1>0, <1>10, <3>1, Called
    <3>3. Heard(Vector(n)[i], n)' <=> n \in Range(heard'[vector[i]])
      BY <1>1 DEF Heard
    <3>4. n \in Range(heard'[vector[i]]) <=> Heard(vector[i], n) \/ vector[i] = vector[q + 1]
      BY <2>2, <3>1, <3>2 DEF Heard
    <3>5. vector[i] = vector[q + 1] <=> i = q + 1
      <4>1. Type(n) \in MessageType
        BY <1>0, Jobs
      <4> QED BY <2>2, <4>1 DEF VectorInv, Vector
    <3> QED BY <1>0, <2>2, <2>4, <3>3, <3>4, <3>5
  <2>6. q + 1 <= p /\ q + 1 > 0 /\ (q + 1) - 1 = q /\ q + 1 \in 0..Len(vector)
    BY <1>0, <2>2, <2>3
  <2>7. Progress(n, p, q + 1)'
    BY <1>1, <2>1, <2>3, <2>5, <2>6 DEF Progress, IsPart
  <2> QED BY <2>6, <2>7
<1>11. CASE Return(n)
  <2>1. /\ stage[n] = "called" /\ stage'[n] = "call" /\ UNCHANGED heard
        /\ todo'[n] = Tail(todo[n])
    BY <1>0, <1>11 DEF Return
  <2>2. /\ log[n].audience <= copied /\ called > 0
        /\ IsPart(todo[n], vector, called - 1, copied)
    BY <1>3, <2>1 DEF Progress
  <2>3. todo[n] # <<>> /\ todo[n] \in Seq(Callback)
    BY <1>0, <2>1 DEF IInv, QueueInv
  <2>4. /\ Len(todo[n]) \in Nat /\ Len(todo'[n]) = Len(todo[n]) - 1
        /\ \A i \in 1..(Len(todo[n]) - 1) : todo'[n][i] = todo[n][i + 1]
    BY <2>1, <2>3, LenProperties, HeadTailProperties
  <2>5. IsPart(todo[n], Vector(n), called, copied)'
    <3>1. Len(todo'[n]) = copied - called
      BY <2>2, <2>4 DEF IsPart
    <3>2. ASSUME NEW i \in 1..Len(todo'[n]) PROVE todo'[n][i] = vector[called + i]
      <4>1. i + 1 \in 1..Len(todo[n]) /\ todo'[n][i] = todo[n][i + 1]
        BY <2>4
      <4>2. (called - 1) + (i + 1) = called + i
        OBVIOUS
      <4> QED BY <2>2, <4>1, <4>2 DEF IsPart
    <3> QED BY <1>1, <3>1, <3>2 DEF IsPart
  <2>6. Progress(n, copied, called)'
    BY <1>1, <1>6, <1>h, <2>1, <2>2, <2>5 DEF Progress
  <2> QED BY <2>6
<1>12. CASE Finish(n)
  <2>1. /\ stage[n] = "call" /\ todo[n] = <<>> /\ stage'[n] = "done"
        /\ UNCHANGED heard
    BY <1>0, <1>12 DEF Finish
  <2>2. log[n].audience <= copied /\ IsPart(todo[n], vector, called, copied)
    BY <1>3, <2>1 DEF Progress
  <2>3. called = copied
    BY <2>1, <2>2 DEF IsPart
  <2>4. Progress(n, copied, called)'
    BY <1>1, <1>6, <1>h, <2>1, <2>2, <2>3 DEF Progress
  <2> QED BY <2>4
<1> QED
  BY <1>7, <1>8, <1>9, <1>10, <1>11, <1>12 DEF DispatchMessage

\* How far each job has come is known after every step.
LEMMA ProgressNext ==
  IInv /\ IInv' /\ VectorInv /\ ProgressInv /\ HeardInv /\ [Next]_vars => ProgressInv'
<1> SUFFICES ASSUME IInv, IInv', VectorInv, ProgressInv, HeardInv, [Next]_vars
             PROVE  ProgressInv'
  OBVIOUS
<1>0. /\ TypeOK /\ TypeOK' /\ Len(log) \in Nat /\ Job = 1..Len(log)
      /\ \A n \in Job : JobInv(n)
  BY Jobs DEF IInv, ProgressInv
<1>1. CASE UNCHANGED <<callbacks, log, stage, todo, heard>>
  <2>1. Job' = Job /\ \A c \in Callback, n \in Job : Heard(c, n)' <=> Heard(c, n)
    BY <1>1 DEF Job, Heard
  <2> QED BY <1>0, <1>1, <2>1, ProgressSame DEF ProgressInv
<1>2. ASSUME NEW c \in Callback, Register(c) PROVE ProgressInv'
  <2>1. /\ UNCHANGED <<log, stage, todo, heard>> /\ Job' = Job
        /\ c \notin Registered /\ CallbackType[c] \in MessageType
    BY <1>0, <1>2, Added DEF Job
  <2>2. ASSUME NEW n \in Job PROVE JobInv(n)'
    <3>1. Type(n)' = Type(n) /\ Type(n) \in MessageType
      BY <1>0, <2>1, Jobs DEF Type
    <3>2. CASE Type(n) # CallbackType[c]
      <4>1. Vector(n)' = Vector(n)
        BY <1>0, <1>2, <3>1, <3>2, Added DEF Vector
      <4>2. DOMAIN Vector(n) = 1..Len(Vector(n)) /\ Len(Vector(n)) \in Nat
        BY <1>0, Jobs
      <4>3. \A i \in 1..Len(Vector(n)) :
              /\ Vector(n)[i]' = Vector(n)[i]
              /\ Heard(Vector(n)[i], n)' <=> Heard(Vector(n)[i], n)
        BY <2>1, <4>1 DEF Heard
      <4>4. \A i \in DOMAIN Vector(n)' : ~(i > Len(Vector(n)))
        BY <4>1, <4>2
      <4> QED BY <1>0, <2>1, <4>1, <4>2, <4>3, <4>4, ProgressKept
    <3>3. CASE Type(n) = CallbackType[c]
      <4>1. /\ Len(Vector(n)') = Len(Vector(n)) + 1
            /\ Vector(n)'[Len(Vector(n)) + 1] = c
            /\ \A i \in 1..Len(Vector(n)) : Vector(n)'[i] = Vector(n)[i]
        BY <1>0, <1>2, <3>1, <3>3, Added DEF Vector
      <4>2. /\ Len(Vector(n)) \in Nat /\ DOMAIN Vector(n)' = 1..Len(Vector(n)')
        BY <1>0, <2>1, Jobs
      <4>3. heard[c] = <<>>
        BY <2>1 DEF HeardInv
      <4>4. ~ n \in Range(heard'[c])
        BY <2>1, <4>3 DEF Range
      <4>5. \A i \in 1..Len(Vector(n)) :
              /\ Vector(n)[i]' = Vector(n)[i]
              /\ Heard(Vector(n)[i], n)' <=> Heard(Vector(n)[i], n)
        BY <2>1, <4>1 DEF Heard
      <4>6. ASSUME NEW i \in DOMAIN Vector(n)', i > Len(Vector(n))
            PROVE  ~Heard(Vector(n)[i], n)'
        <5>1. i = Len(Vector(n)) + 1
          BY <4>1, <4>2, <4>6
        <5>2. Vector(n)'[i] = c
          BY <4>1, <5>1
        <5> QED BY <4>4, <5>2 DEF Heard
      <4>7. Len(Vector(n)) <= Len(Vector(n)')
        BY <4>1, <4>2
      <4> QED BY <1>0, <2>1, <4>5, <4>6, <4>7, ProgressKept
    <3> QED BY <3>2, <3>3
  <2> QED BY <2>1, <2>2 DEF ProgressInv
<1>3. ASSUME NEW s \in Socket, Receive(s) PROVE ProgressInv'
  <2> DEFINE n == Len(log) + 1
  <2>1. UNCHANGED <<callbacks, heard>>
    BY <1>3, Received
  <2>2. CASE UNCHANGED <<log, stage, todo>>
    BY <1>1, <2>1, <2>2
  <2>3. CASE /\ n \in Nat /\ n \notin Job /\ Job' = Job \cup {n}
             /\ \A k \in Job : /\ log'[k] = log[k] /\ stage'[k] = stage[k]
                               /\ todo'[k] = todo[k]
             /\ log'[n].socket = s /\ log'[n].audience = Len(callbacks[Subscribe[s]])
             /\ stage'[n] \in {"queued", "copy"}
    <3>1. ASSUME NEW k \in Job PROVE JobInv(k)'
      <4>1. \A c \in Callback : Heard(c, k)' <=> Heard(c, k)
        BY <2>1 DEF Heard
      <4> QED BY <1>0, <2>1, <2>3, <4>1, ProgressSame
    <3>2. ASSUME NEW k \in Job', k = n PROVE JobInv(k)'
      <4>1. /\ Vector(k)' = callbacks[Subscribe[s]] /\ log'[k].audience = Len(Vector(k)')
            /\ stage'[k] \in {"queued", "copy"}
        BY <2>1, <2>3, <3>2 DEF Vector, Type
      <4>2. /\ Vector(k)' \in Seq(Callback) /\ Len(Vector(k)') \in Nat
            /\ DOMAIN Vector(k)' = 1..Len(Vector(k)')
        BY <1>0, <4>1, Sockets, Indices
      <4>3. \A c \in Callback : ~ k \in Range(heard[c])
        <5>1. \A c \in Callback : \A i \in DOMAIN heard[c] : heard[c][i] \in Job
          BY <1>0, Indices, ElementOfSeq
        <5> QED BY <2>3, <3>2, <5>1 DEF Range
      <4>4. ASSUME NEW i \in DOMAIN Vector(k)'
            PROVE  Heard(Vector(k)[i], k)' <=> i <= 0
        <5>1. Vector(k)'[i] \in Callback
          BY <4>2, ElementOfSeq
        <5>2. ~Heard(Vector(k)[i], k)'
          BY <2>1, <4>3, <5>1 DEF Heard
        <5>3. ~(i <= 0)
          BY <4>2
        <5> QED BY <5>2, <5>3
      <4>5. Progress(k, 0, 0)'
        BY <4>1, <4>2, <4>4 DEF Progress
      <4>6. 0 \in 0..Len(Vector(k)') /\ log'[k].audience <= Len(Vector(k)')
        BY <4>1, <4>2
      <4> QED BY <4>5, <4>6 DEF JobInv
    <3> QED BY <2>3, <3>1, <3>2 DEF ProgressInv
  <2>4. \/ UNCHANGED <<log, stage, todo>>
        \/ /\ n \in Nat /\ n \notin Job /\ Job' = Job \cup {n}
           /\ \A k \in Job : /\ log'[k] = log[k] /\ stage'[k] = stage[k]
                             /\ todo'[k] = todo[k]
           /\ log'[n].socket = s /\ log'[n].audience = Len(callbacks[Subscribe[s]])
           /\ stage'[n] \in {"queued", "copy"}
    <3> DEFINE e == [socket |-> s, message |-> Head(inbox[s]),
                     audience |-> Len(callbacks[Subscribe[s]])]
    <3>1. \/ UNCHANGED <<log, stage, todo>>
          \/ /\ n \in Nat /\ n \notin Job /\ Job' = Job \cup {n}
             /\ \A k \in Job : /\ log'[k] = log[k] /\ stage'[k] = stage[k]
                               /\ todo'[k] = todo[k]
             /\ log'[n] = e /\ stage'[n] \in {"queued", "copy"}
      BY <1>3, Received
    <3>2. e.socket = s /\ e.audience = Len(callbacks[Subscribe[s]])
      OBVIOUS
    <3> QED BY <3>1, <3>2
  <2> QED BY <2>2, <2>3, <2>4
<1>4. ASSUME NEW n \in Job, DispatchMessage(n) PROVE ProgressInv'
  <2>1. UNCHANGED <<callbacks, log>> /\ Job' = Job
    BY <1>4, Dispatched
  <2>2. ASSUME NEW k \in Job, k # n PROVE JobInv(k)'
    <3>1. stage'[k] = stage[k] /\ todo'[k] = todo[k]
      BY <1>0, <1>4, <2>2 DEF DispatchMessage, Begin, Copy, Unlock, Call, Return, Finish, TypeOK
    <3>2. ASSUME NEW c \in Callback PROVE Heard(c, k)' <=> Heard(c, k)
      <4>1. CASE Call(n)
        BY <1>0, <2>2, <4>1, Called
      <4>2. CASE UNCHANGED heard
        BY <4>2 DEF Heard
      <4> QED
        BY <1>4, <4>1, <4>2 DEF DispatchMessage, Begin, Copy, Unlock, Return, Finish
    <3> QED BY <1>0, <2>1, <3>1, <3>2, ProgressSame
  <2>3. JobInv(n)'
    BY <1>4, ProgressOwn
  <2> QED BY <2>1, <2>2, <2>3 DEF ProgressInv
<1> QED
  BY <1>1, <1>2, <1>3, <1>4, Quiet, Exited, Published DEF Next, RunLoop, QuietVars

\* Jobs that are done stay so, and what a callback has heard only grows, by the job
\* that calls it.
LEMMA Monotone ==
  ASSUME IInv, IInv', [Next]_vars
  PROVE  /\ \A m \in Job : m \in Job' /\ (stage[m] = "done" => stage'[m] = "done")
         /\ \/ UNCHANGED heard
            \/ \E n \in Job : Call(n)
<1>0. /\ TypeOK /\ stage \in [Job -> Stages] /\ Job = 1..Len(log) /\ Len(log) \in Nat
  BY Jobs DEF IInv
<1>1. CASE UNCHANGED <<log, stage, heard>>
  BY <1>1 DEF Job
<1>2. ASSUME NEW s \in Socket, Receive(s)
      PROVE  /\ UNCHANGED heard
             /\ \A m \in Job : m \in Job' /\ (stage[m] = "done" => stage'[m] = "done")
  <2>1. UNCHANGED heard
    BY <1>2, Received
  <2>2. CASE UNCHANGED <<log, stage>>
    BY <2>1, <2>2 DEF Job
  <2>3. CASE /\ Job \subseteq Job' /\ \A k \in Job : stage'[k] = stage[k]
    BY <2>1, <2>3
  <2> QED BY <1>2, <2>1, <2>2, <2>3, Received
<1>3. ASSUME NEW n \in Job, DispatchMessage(n)
      PROVE  /\ UNCHANGED heard \/ Call(n)
             /\ \A m \in Job : m \in Job' /\ (stage[m] = "done" => stage'[m] = "done")
  <2>1. Job' = Job
    BY <1>3, Dispatched
  <2>2. UNCHANGED heard \/ Call(n)
    BY <1>3 DEF DispatchMessage, Begin, Copy, Unlock, Return, Finish
  <2>3. \A m \in Job : stage[m] = "done" => stage'[m] = "done"
    BY <1>0, <1>3 DEF DispatchMessage, Begin, Copy, Unlock, Call, Return, Finish
  <2> QED BY <2>1, <2>2, <2>3
<1>4. ASSUME NEW c \in Callback, Register(c) PROVE UNCHANGED <<log, stage, heard>>
  BY <1>0, <1>4, Added
<1> QED
  BY <1>1, <1>2, <1>3, <1>4, Quiet, Exited, Published DEF Next, RunLoop, QuietVars

\* A callback that hears an earlier job later loses it from those it overtook, and
\* none come in.
LEMMA OvertakenShrinks ==
  ASSUME IInv, IInv', [Next]_vars, NEW c \in Callback, NEW i \in DOMAIN heard[c],
         heard'[c][i] = heard[c][i],
         \A j \in 1..i : heard'[c][j] = heard[c][j]
  PROVE  Overtaken(c, i)' \subseteq Overtaken(c, i)
<1>0. /\ TypeOK /\ TypeOK' /\ Job = 1..Len(log) /\ Len(log) \in Nat
  BY Jobs DEF IInv
<1>1. heard[c][i] \in Job
  BY <1>0, Indices, ElementOfSeq
<1>2. SUFFICES ASSUME NEW m \in Overtaken(c, i)' PROVE m \in Overtaken(c, i)
  OBVIOUS
<1>3. /\ m \in Job' /\ m < heard[c][i]
      /\ stage'[m] # "done" \/ m \in Range(heard'[c])
      /\ \A j \in 1..i : heard[c][j] # m
  BY DEF Overtaken, Heard
<1>4. m \in Job
  <2>1. Job' = 1..Len(log') /\ Len(log') \in Nat
    <3>1. log' \in Seq(LogEntry)
      BY <1>0 DEF TypeOK, LogEntry
    <3> QED BY <3>1, LenProperties DEF Job
  <2> QED BY <1>0, <1>1, <1>3, <2>1
<1>5. m \in Range(heard'[c]) => m \in Range(heard[c]) \/ stage[m] # "done"
  <2>1. CASE UNCHANGED heard
    BY <2>1
  <2>2. ASSUME NEW n \in Job, Call(n)
        PROVE  m \in Range(heard'[c]) => m \in Range(heard[c]) \/ m = n
    <3>1. m \in Nat
      BY <1>0, <1>4
    <3>2. Heard(c, m)' <=> Heard(c, m) \/ (c = Head(todo[n]) /\ m = n)
      BY <1>0, <2>2, <3>1, Called
    <3> QED BY <3>2 DEF Heard
  <2>3. \A n \in Job : Call(n) => stage[n] # "done"
    BY DEF Call
  <2> QED BY <2>1, <2>2, <2>3, Monotone
<1>6. stage'[m] # "done" => stage[m] # "done"
  BY <1>4, Monotone
<1> QED BY <1>3, <1>4, <1>5, <1>6 DEF Overtaken, Heard

\* What can be overtaken is in progress when the callback is called.
LEMMA OvertakenAtFirst ==
  ASSUME IInv, IInv', OrderInv, NEW n \in Job, Call(n), NEW c \in Callback, NEW i \in Nat,
         DOMAIN heard'[c] = 1..i, heard'[c][i] = n
  PROVE  Overtaken(c, i)' \subseteq Dispatching \ {n}
<1>0. TypeOK /\ stage \in [Job -> Stages] /\ Job = 1..Len(log) /\ Len(log) \in Nat
  BY Jobs DEF IInv
<1>1. SUFFICES ASSUME NEW m \in Overtaken(c, i)' PROVE m \in Dispatching \ {n}
  OBVIOUS
<1>2. Job' = Job /\ stage[n] = "call" /\ \A k \in Job \ {n} : stage'[k] = stage[k]
  BY <1>0 DEF Call, workerVars, Job
<1>3. /\ m \in Job /\ m < n
      /\ stage'[m] # "done" \/ m \in Range(heard'[c])
      /\ \A j \in 1..i : heard'[c][j] # m
  BY <1>2 DEF Overtaken, Heard
<1>4. m \notin Range(heard'[c])
  BY <1>3 DEF Range
<1>5. m # n /\ stage[m] # "done"
  BY <1>0, <1>2, <1>3, <1>4
<1>6. stage[m] # "queued"
  BY <1>2, <1>3 DEF OrderInv
<1> QED BY <1>0, <1>3, <1>5, <1>6 DEF Dispatching, Stages

\* No callback hears a job before as many earlier ones as there are threads.
LEMMA OvertakenNext == IInv /\ IInv' /\ OrderInv /\ OvertakenInv /\ [Next]_vars => OvertakenInv'
<1> SUFFICES ASSUME IInv, IInv', OrderInv, OvertakenInv, [Next]_vars,
                    NEW c \in Callback, NEW i \in DOMAIN heard'[c]
             PROVE  Cardinality(Overtaken(c, i)') < Concurrency
  BY DEF OvertakenInv, Concurrency
<1>0. /\ TypeOK /\ TypeOK' /\ Job = 1..Len(log) /\ Len(log) \in Nat
      /\ heard[c] \in Seq(Job) /\ Len(heard[c]) \in Nat /\ DOMAIN heard[c] = 1..Len(heard[c])
  BY Jobs, Indices DEF IInv
<1>1. Concurrency \in Nat
  BY ConfigAssumption DEF Concurrency
<1>2. ASSUME i \in DOMAIN heard[c], \A j \in 1..i : heard'[c][j] = heard[c][j]
      PROVE  Cardinality(Overtaken(c, i)') < Concurrency
  <2>1. IsFiniteSet(Overtaken(c, i))
    <3>1. IsFiniteSet(1..Len(log))
      BY <1>0, FS_Interval
    <3>2. Overtaken(c, i) \subseteq 1..Len(log)
      BY <1>0 DEF Overtaken
    <3> QED BY <3>1, <3>2, FS_Subset
  <2>2. Overtaken(c, i)' \subseteq Overtaken(c, i)
    BY <1>0, <1>2, OvertakenShrinks
  <2>3. /\ Cardinality(Overtaken(c, i)') <= Cardinality(Overtaken(c, i))
        /\ IsFiniteSet(Overtaken(c, i)')
    BY <2>1, <2>2, FS_Subset
  <2>4. /\ Cardinality(Overtaken(c, i)') \in Nat /\ Cardinality(Overtaken(c, i)) \in Nat
    BY <2>1, <2>3, FS_CardinalityType
  <2>5. Cardinality(Overtaken(c, i)) < Concurrency
    BY <1>2 DEF OvertakenInv
  <2> QED BY <1>1, <2>3, <2>4, <2>5
<1>3. CASE UNCHANGED heard
  BY <1>2, <1>3
<1>4. ASSUME NEW n \in Job, Call(n)
      PROVE  Cardinality(Overtaken(c, i)') < Concurrency
  <2>1. CASE heard'[c] = heard[c]
    BY <1>2, <2>1
  <2>2. CASE heard'[c] = Append(heard[c], n)
    <3>1. /\ DOMAIN heard'[c] = 1..(Len(heard[c]) + 1) /\ heard'[c][Len(heard[c]) + 1] = n
          /\ \A j \in 1..Len(heard[c]) : heard'[c][j] = heard[c][j]
      BY <1>0, <2>2, AppendProperties, LenProperties
    <3>2. CASE i \in DOMAIN heard[c]
      <4>1. \A j \in 1..i : heard'[c][j] = heard[c][j]
        BY <1>0, <3>1, <3>2
      <4> QED BY <1>2, <3>2, <4>1
    <3>3. CASE i = Len(heard[c]) + 1
      <4>1. i \in Nat /\ DOMAIN heard'[c] = 1..i /\ heard'[c][i] = n
        BY <1>0, <3>1, <3>3
      <4>2. Overtaken(c, i)' \subseteq Dispatching \ {n}
        BY <1>4, <4>1, OvertakenAtFirst
      <4>3. n \in Dispatching
        BY <1>4 DEF Call, Dispatching
      <4>4. IsFiniteSet(Dispatching) /\ Cardinality(Dispatching) <= Concurrency
        BY DEF OrderInv
      <4>5. /\ IsFiniteSet(Dispatching \ {n})
            /\ Cardinality(Dispatching \ {n}) = Cardinality(Dispatching) - 1
        BY <4>3, <4>4, FS_RemoveElement
      <4>6. /\ Cardinality(Overtaken(c, i)') <= Cardinality(Dispatching \ {n})
            /\ IsFiniteSet(Overtaken(c, i)')
        BY <4>2, <4>5, FS_Subset
      <4>7. /\ Cardinality(Overtaken(c, i)') \in Nat /\ Cardinality(Dispatching) \in Nat
        BY <4>4, <4>6, FS_CardinalityType
      <4> QED BY <1>1, <4>4, <4>5, <4>6, <4>7
    <3> QED BY <1>0, <3>1, <3>2, <3>3
  <2> QED BY <1>0, <1>4, <2>1, <2>2, Called
<1> QED BY <1>3, <1>4, Monotone

-----------------------------------------------------------------------------
(* The invariant, and what callbacks hear.                                 *)

\* The invariant is inductive, on top of IInv.
THEOREM DeliveryInvariance == SafeSpec => []DInv
<1>1. Init => DInv
  <2> SUFFICES ASSUME Init PROVE DInv
    OBVIOUS
  <2>1. Job = {} /\ Queued = {} /\ Dispatching = {}
    BY DEF Init, Job, Queued, Dispatching
  <2>2. VectorInv /\ HeardInv
    BY DEF Init, VectorInv, HeardInv
  <2>3. StreamInv /\ ProgressInv /\ OvertakenInv
    BY <2>1 DEF Init, StreamInv, ProgressInv, OvertakenInv
  <2>4. OrderInv
    <3>1. IsFiniteSet({}) /\ Cardinality({}) <= Concurrency
      BY FS_EmptySet, ConfigAssumption DEF Concurrency
    <3> QED BY <2>1, <3>1 DEF Init, Pool!Init, OrderInv
  <2> QED BY <2>2, <2>3, <2>4 DEF DInv
<1>2. IInv /\ IInv' /\ DInv /\ [Next]_vars => DInv'
  <2> SUFFICES ASSUME IInv, IInv', DInv, [Next]_vars PROVE DInv'
    OBVIOUS
  <2>1. TypeOK
    BY DEF IInv
  <2>2. VectorInv' /\ StreamInv' /\ OrderInv'
    BY <2>1, VectorNext, StreamNext, OrderNext DEF DInv
  <2>3. ProgressInv' /\ HeardInv' /\ OvertakenInv'
    BY ProgressNext, HeardNext, OvertakenNext DEF DInv
  <2> QED BY <2>2, <2>3 DEF DInv
<1> QED BY <1>1, <1>2, Invariance, PTL DEF SafeSpec

\* Every callback that was registered when a message was received has heard it when
\* its dispatch is done, and callbacks are called in the order of registration.
THEOREM AudienceHears == SafeSpec => []HeardByAudience
<1>1. IInv /\ DInv => HeardByAudience
  <2> SUFFICES ASSUME IInv, DInv, NEW n \in Job
               PROVE  LET vector == callbacks[Type(n)]
                          hearing == {i \in DOMAIN vector : Heard(vector[i], n)}
                      IN  /\ hearing = 1..Cardinality(hearing)
                          /\ stage[n] = "done" => Cardinality(hearing) >= log[n].audience
    BY DEF HeardByAudience
  <2> DEFINE hearing == {i \in DOMAIN Vector(n) : Heard(Vector(n)[i], n)}
  <2>0. /\ Len(Vector(n)) \in Nat /\ DOMAIN Vector(n) = 1..Len(Vector(n))
        /\ log[n].audience \in Nat
    BY Jobs DEF IInv
  <2>1. PICK copied, called \in 0..Len(Vector(n)) : Progress(n, copied, called)
    BY DEF DInv, ProgressInv, JobInv
  <2>2. hearing = 1..called
    BY <2>0, <2>1 DEF Progress
  <2>3. Cardinality(1..called) = called
    BY <2>0, FS_Interval
  <2>4. stage[n] = "done" => called >= log[n].audience
    BY <2>0, <2>1 DEF Progress
  <2> QED BY <2>2, <2>3, <2>4 DEF Vector
<1> QED BY <1>1, Invariance, DeliveryInvariance, PTL

\* No callback hears a message of a socket twice, a malformed one, or one of a type
\* it was not registered for.
THEOREM HearsOnce == SafeSpec => []HeardOnce
<1>1. IInv /\ DInv => HeardOnce
  <2> SUFFICES ASSUME IInv, DInv, NEW c \in Callback
               PROVE  LET jobs == [i \in DOMAIN heard[c] |-> log[heard[c][i]]] IN
                      /\ \A i, j \in DOMAIN jobs :
                           jobs[i].socket = jobs[j].socket /\ jobs[i].message = jobs[j].message
                             => i = j
                      /\ \A i \in DOMAIN jobs : /\ Subscribe[jobs[i].socket] = CallbackType[c]
                                                /\ jobs[i].message \notin Malformed
    BY DEF HeardOnce
  <2>0. \A i \in DOMAIN heard[c] : heard[c][i] \in Job
    BY Indices, ElementOfSeq DEF IInv
  <2>1. ASSUME NEW i \in DOMAIN heard[c], NEW j \in DOMAIN heard[c],
               log[heard[c][i]].socket = log[heard[c][j]].socket,
               log[heard[c][i]].message = log[heard[c][j]].message
        PROVE  i = j
    <3>1. \A m, n \in Job :
            m < n /\ log[m].socket = log[n].socket => log[m].message < log[n].message
      BY DEF DInv, StreamInv
    <3>2. \A n \in Job : n \in Nat /\ log[n].message \in Nat
      BY Jobs DEF IInv, Message
    <3>3. heard[c][i] = heard[c][j]
      BY <2>0, <2>1, <3>1, <3>2
    <3> QED BY <3>3 DEF DInv, HeardInv
  <2>2. ASSUME NEW i \in DOMAIN heard[c]
        PROVE  /\ Subscribe[log[heard[c][i]].socket] = CallbackType[c]
               /\ log[heard[c][i]].message \notin Malformed
    BY <2>0 DEF DInv, HeardInv, StreamInv, Type
  <2> QED BY <2>1, <2>2
<1> QED BY <1>1, Invariance, DeliveryInvariance, PTL

\* A callback hears a message before fewer earlier ones of its socket than the
\* executor has threads: inline, in the order of publication.
THEOREM ReorderingBounded == SafeSpec => []BoundedReordering
<1>1. IInv /\ DInv => BoundedReordering
  <2> SUFFICES ASSUME IInv, DInv, NEW c \in Callback, NEW i \in DOMAIN heard[c]
               PROVE  Cardinality({j \in DOMAIN heard[c] :
                        /\ j > i
                        /\ log[heard[c][j]].socket = log[heard[c][i]].socket
                        /\ log[heard[c][j]].message < log[heard[c][i]].message}) < Concurrency
    BY DEF BoundedReordering
  <2> DEFINE later == {j \in DOMAIN heard[c] :
                        /\ j > i
                        /\ log[heard[c][j]].socket = log[heard[c][i]].socket
                        /\ log[heard[c][j]].message < log[heard[c][i]].message}
             f == [j \in later |-> heard[c][j]]
  <2>0. /\ Job = 1..Len(log) /\ Len(log) \in Nat /\ DOMAIN heard[c] = 1..Len(heard[c])
        /\ Len(heard[c]) \in Nat
        /\ \A n \in Job : n \in Nat /\ log[n].message \in Nat
    BY Jobs, Indices DEF IInv, Message
  <2>1. \A j \in DOMAIN heard[c] : heard[c][j] \in Job
    BY Indices, ElementOfSeq DEF IInv
  <2>2. \A j, k \in DOMAIN heard[c] : heard[c][j] = heard[c][k] => j = k
    BY DEF DInv, HeardInv
  <2>3. ASSUME NEW j \in later PROVE heard[c][j] \in Overtaken(c, i)
    <3>1. heard[c][j] < heard[c][i]
      <4>1. heard[c][i] \in Job /\ heard[c][j] \in Job
        BY <2>1
      <4>2. ~(heard[c][i] < heard[c][j])
        <5>1. heard[c][i] < heard[c][j]
                => log[heard[c][i]].message < log[heard[c][j]].message
          BY <4>1 DEF DInv, StreamInv
        <5>2. log[heard[c][j]].message < log[heard[c][i]].message
          OBVIOUS
        <5> QED BY <2>0, <4>1, <5>1, <5>2
      <4>3. heard[c][i] # heard[c][j]
        BY <2>0, <2>2
      <4> QED BY <2>0, <4>1, <4>2, <4>3
    <3>2. Heard(c, heard[c][j])
      BY DEF Heard, Range
    <3>3. ASSUME NEW k \in 1..i PROVE heard[c][k] # heard[c][j]
      <4>1. k \in DOMAIN heard[c] /\ k # j
        BY <2>0
      <4> QED BY <2>2, <4>1
    <3> QED BY <2>1, <3>1, <3>2, <3>3 DEF Overtaken
  <2>4. f \in Injection(later, Overtaken(c, i))
    BY <2>2, <2>3 DEF Injection, IsInjective
  <2>5. IsFiniteSet(Overtaken(c, i))
    <3>1. IsFiniteSet(1..Len(log))
      BY <2>0, FS_Interval
    <3>2. Overtaken(c, i) \subseteq 1..Len(log)
      BY <2>0 DEF Overtaken
    <3> QED BY <3>1, <3>2, FS_Subset
  <2> HIDE DEF f, later
  <2>6. IsFiniteSet(later) /\ Cardinality(later) <= Cardinality(Overtaken(c, i))
    BY <2>4, <2>5, FS_Injection
  <2>7. Cardinality(later) \in Nat /\ Cardinality(Overtaken(c, i)) \in Nat
    BY <2>5, <2>6, FS_CardinalityType
  <2>8. Cardinality(Overtaken(c, i)) < Concurrency /\ Concurrency \in Nat
    BY ConfigAssumption DEF DInv, OvertakenInv, Concurrency
  <2> QED BY <2>6, <2>7, <2>8 DEF later
<1> QED BY <1>1, Invariance, DeliveryInvariance, PTL

-----------------------------------------------------------------------------
(* The abstract specification.                                             *)

\* What the service calls jobs, vectors and hearing.
LEMMA SameWords ==
  /\ Service!Socket = Socket /\ Service!Job = Job
  /\ \A n : Service!Vector(n) = Vector(n)
  /\ \A c, n : Service!Hears(c, n) <=> Heard(c, n)
BY DEF Service!Socket, Socket, Service!Job, Job, Service!Vector, Vector, Type,
       Service!Hears, Heard, Range

\* Where the application is, and what the service is then.
LEMMA StateIs ==
  ASSUME IInv
  PROVE  /\ State = "up" <=> running
         /\ running => app = "idle" /\ Closed = {}
         /\ ~running /\ app = "idle" => State = "down" /\ Closed = {} /\ worker = "none"
         /\ app = "destroyed" => State = "gone" /\ Closed = {} /\ worker = "none"
         /\ app \in {"stopping", "destroying"} =>
              ~running /\ State = app /\ Closed = {s \in Socket : late[s] > 0}
<1>1. app \in AppStates /\ running \in BOOLEAN
  BY DEF IInv, TypeOK
<1>2. /\ app \in {"idle", "destroyed"} /\ ~running => worker = "none"
      /\ app # "idle" => ~running
  BY DEF IInv, ThreadInv
<1> QED BY <1>1, <1>2 DEF AppStates, State, Closed

\* Steps that the application does not see.
LEMMA Unseen ==
  ASSUME UNCHANGED <<running, app, late>>, UNCHANGED <<callbacks, log, heard>>,
         DoneJobs' = DoneJobs
  PROVE  UNCHANGED Service!serviceVars
BY DEF Service!serviceVars, State, Closed

\* The calls of start, stop and the destructor, and their returns.
LEMMA CallsMap ==
  ASSUME IInv, IInv', Start \/ StartFails \/ Stop \/ Destroy \/ Join
  PROVE  Service!Start \/ Service!Stop \/ Service!End
<1>1. DoneJobs' = DoneJobs /\ UNCHANGED <<callbacks, log, heard>>
  BY DEF Start, StartFails, Stop, Destroy, Join, jobVars, workerVars, DoneJobs, Job
<1>2. CASE Start \/ StartFails
  <2>1. State = "down" /\ Closed = {}
    BY <1>2, StateIs DEF Start, StartFails
  <2>2. app' = "idle" /\ running'
    BY <1>2 DEF Start, StartFails
  <2>3. State' = "up" /\ Closed' = {}
    BY <2>2 DEF State, Closed
  <2> QED BY <1>1, <2>1, <2>3 DEF Service!Start
<1>3. ASSUME running, Joinable, app' \in {"stopping", "destroying"}, ~running', late' = late
      PROVE  Service!Stop
  <2>1. State = "up" /\ Closed = {}
    BY <1>3, StateIs
  <2>2. State' = app' /\ Closed' = {s \in Socket : late[s] > 0}
    BY <1>3 DEF State, Closed
  <2>3. \A s \in Socket : late[s] = 0
    BY <1>3 DEF IInv, CutOffInv, Joinable
  <2>4. Closed' = {}
    BY <2>2, <2>3
  <2> QED BY <1>1, <1>3, <2>1, <2>2, <2>4 DEF Service!Stop
<1>4. ASSUME worker \in {"none", "exited"}, ~running',
             \/ app \in {"idle", "stopping"} /\ app' = "idle" /\ State # "down"
             \/ app \in {"idle", "destroying"} /\ app' = "destroyed"
      PROVE  Service!End
  <2>1. DoneJobs = Service!Job
    BY <1>4, NothingLeft, SameWords DEF DoneJobs
  <2>2. /\ app' = "idle" => State' = "down"
        /\ app' = "destroyed" => State' = "gone"
        /\ Closed' = {}
    BY <1>4 DEF State, Closed
  <2>3. /\ app = "idle" => State \in {"up", "down"}
        /\ app = "stopping" => State = "stopping"
        /\ app = "destroying" => State = "destroying"
    BY StateIs
  <2> QED BY <1>1, <1>4, <2>1, <2>2, <2>3 DEF Service!End
<1>5. CASE Stop
  <2>1. CASE Joinable
    BY <1>3, <1>5, <2>1 DEF Stop, workerVars
  <2>2. CASE ~Joinable
    BY <1>4, <1>5, <2>2, StateIs DEF Stop, Joinable
  <2> QED BY <2>1, <2>2
<1>6. CASE Destroy
  <2>1. CASE running /\ Joinable
    BY <1>3, <1>6, <2>1 DEF Destroy, workerVars
  <2>2. CASE ~(running /\ Joinable)
    BY <1>4, <1>6, <2>2, StateIs DEF Destroy, Joinable
  <2> QED BY <2>1, <2>2
<1>7. CASE Join
  BY <1>4, <1>7, StateIs DEF Join
<1> QED BY <1>2, <1>5, <1>6, <1>7

\* A message that parses is received by the service; any closes the socket, once
\* stop has cleared running.
LEMMA ReceiveMaps ==
  ASSUME IInv, IInv', DInv, NEW s \in Socket, Receive(s)
  PROVE  \/ UNCHANGED Service!serviceVars
         \/ Service!Close(s)
         \/ \E m \in Message \ Malformed : Service!Receive(s, m)
<1> DEFINE m == Head(inbox[s])
           e == [socket |-> s, message |-> m, audience |-> Len(callbacks[Subscribe[s]])]
<1>1. /\ UNCHANGED <<running, app>> /\ UNCHANGED <<callbacks, heard>>
      /\ worker = "scan" /\ s \in ready
  BY DEF Receive, appVars
<1>2. State' = State
  BY <1>1 DEF State
<1>3. /\ \/ running /\ State = "up"
         \/ ~running /\ State \in {"stopping", "destroying"}
      /\ s \notin Closed
      /\ Closed' = IF State = "up" THEN Closed ELSE Closed \cup {s}
  <2>1. late[s] = 0 /\ late \in [Socket -> Nat]
    BY <1>1 DEF IInv, CutOffInv, TypeOK
  <2>2. CASE running
    <3>1. State = "up" /\ Closed = {} /\ app = "idle"
      BY <2>2, StateIs
    <3>2. Closed' = {}
      BY <1>1, <3>1 DEF Closed
    <3> QED BY <2>2, <3>1, <3>2
  <2>3. CASE ~running
    <3>1. app \in {"stopping", "destroying"}
      BY <1>1, <2>3, StateIs DEF IInv, TypeOK, AppStates
    <3>2. State = app /\ Closed = {r \in Socket : late[r] > 0}
      BY <3>1, StateIs
    <3>3. Closed' = {r \in Socket : late'[r] > 0}
      BY <1>1, <3>1 DEF Closed
    <3>4. late' = [late EXCEPT ![s] = @ + 1]
      BY <2>3 DEF Receive
    <3>5. \A r \in Socket : late'[r] > 0 <=> late[r] > 0 \/ r = s
      BY <2>1, <3>4
    <3> QED BY <2>1, <2>3, <3>1, <3>2, <3>3, <3>5
  <2> QED BY <2>2, <2>3 DEF IInv, TypeOK
<1>4. CASE Drop
  <2>1. DoneJobs' = DoneJobs /\ log' = log
    BY <1>4 DEF Drop, DoneJobs, Job
  <2>2. CASE State = "up"
    BY <1>1, <1>2, <1>3, <2>1, <2>2 DEF Service!serviceVars
  <2>3. CASE State # "up"
    BY <1>1, <1>2, <1>3, <2>1, <2>3 DEF Service!Close
  <2> QED BY <2>2, <2>3
<1>5. CASE Parsed(m) /\ log' = Append(log, e)
  <2>1. DoneJobs' = DoneJobs
    <3>0. /\ Len(log) \in Nat /\ Job = 1..Len(log) /\ log \in Seq(LogEntry)
          /\ log' \in Seq(LogEntry)
      BY Jobs DEF IInv, TypeOK, LogEntry
    <3>1. Len(log') = Len(log) + 1
      BY <1>5, <3>0, AppendProperties
    <3>2. log' # log
      BY <3>0, <3>1
    <3>3. PICK n : /\ n \notin Job /\ Job' = Job \cup {n}
                   /\ \A k \in Job : stage'[k] = stage[k]
                   /\ stage'[n] \in {"queued", "copy"}
      BY <3>2, Received
    <3> QED BY <3>3 DEF DoneJobs
  <2>2. inbox[s] # <<>> /\ inbox[s] \in Seq(Message)
    BY Received DEF IInv, TypeOK
  <2>3. m \in Message \ Malformed /\ m = inbox[s][1] /\ 1 \in DOMAIN inbox[s]
    BY <1>5, <2>2, EmptySeq, HeadTailProperties DEF Parsed
  <2>4. \A n \in Job : log[n].socket = s => log[n].message < m
    BY <2>3 DEF DInv, StreamInv
  <2>5. Service!Receive(s, m)
    BY <1>1, <1>2, <1>3, <1>5, <2>1, <2>4, SameWords DEF Service!Receive
  <2> QED BY <2>3, <2>5
<1> QED BY <1>4, <1>5 DEF Receive

\* A callback is called when its turn has come, and few earlier jobs are left.
LEMMA CallMaps ==
  ASSUME IInv, DInv, NEW n \in Job, Call(n)
  PROVE  \E i \in DOMAIN Vector(n) : Service!Notify(n, i)
<1>0. /\ TypeOK /\ ProgressInv /\ OrderInv
      /\ Job = 1..Len(log) /\ Len(log) \in Nat /\ stage \in [Job -> Stages]
      /\ Len(Vector(n)) \in Nat /\ DOMAIN Vector(n) = 1..Len(Vector(n))
  BY Jobs DEF IInv, DInv
<1>1. PICK copied, called \in 0..Len(Vector(n)) :
        /\ Progress(n, copied, called) /\ called < copied
        /\ called + 1 \in DOMAIN Vector(n)
        /\ Head(todo[n]) = Vector(n)[called + 1]
        /\ ~Heard(Head(todo[n]), n)
  BY <1>0, NextCallback
<1> DEFINE i == called + 1
           before == {k \in Job \ DoneJobs : k < n}
<1>2. \A j \in 1..(i - 1) : Heard(Vector(n)[j], n)
  BY <1>0, <1>1 DEF Progress
<1>3. before \subseteq Dispatching \ {n}
  <2> SUFFICES ASSUME NEW k \in before PROVE k \in Dispatching \ {n}
    OBVIOUS
  <2>1. k \in Job /\ stage[k] # "done" /\ k < n /\ k # n
    BY <1>0 DEF DoneJobs
  <2>2. stage[k] # "queued"
    BY <2>1 DEF OrderInv, Call, DInv
  <2> QED BY <1>0, <2>1, <2>2 DEF Dispatching, Stages
<1>4. Cardinality(before) < Concurrency
  <2>1. n \in Dispatching
    BY DEF Call, Dispatching
  <2>2. IsFiniteSet(Dispatching) /\ Cardinality(Dispatching) <= Concurrency
    BY <1>0 DEF OrderInv
  <2>3. /\ IsFiniteSet(Dispatching \ {n})
        /\ Cardinality(Dispatching \ {n}) = Cardinality(Dispatching) - 1
    BY <2>1, <2>2, FS_RemoveElement
  <2>4. /\ Cardinality(before) <= Cardinality(Dispatching \ {n})
        /\ IsFiniteSet(before)
    BY <1>3, <2>3, FS_Subset
  <2>5. /\ Cardinality(before) \in Nat /\ Cardinality(Dispatching) \in Nat
        /\ Concurrency \in Nat
    BY <2>2, <2>4, FS_CardinalityType, ConfigAssumption DEF Concurrency
  <2> QED BY <2>2, <2>3, <2>4, <2>5
<1>5. Service!Cardinality(before) < Concurrency
  BY <1>4 DEF Cardinality, Service!Cardinality
<1>6. State' = State /\ Closed' = Closed /\ DoneJobs' = DoneJobs /\ n \notin DoneJobs
  <2>1. UNCHANGED <<running, app, late, log>>
    BY DEF Call, appVars, workerVars
  <2>2. \A k \in Job : stage'[k] = "done" <=> stage[k] = "done"
    BY <1>0 DEF Call
  <2> QED BY <2>1, <2>2 DEF State, Closed, DoneJobs, Call, Job
<1>7. heard' = [heard EXCEPT ![Vector(n)[i]] = Append(@, n)] /\ UNCHANGED <<callbacks, log>>
  BY <1>1 DEF Call, workerVars
<1> HIDE DEF i, before
<1>8. Service!Notify(n, i)
  BY <1>1, <1>2, <1>5, <1>6, <1>7, SameWords DEF Service!Notify, i, before
<1> QED BY <1>1, <1>8 DEF i

\* A job that is finished has been heard by its audience.
LEMMA FinishMaps ==
  ASSUME IInv, DInv, NEW n \in Job, Finish(n)
  PROVE  Service!Done(n)
<1>0. /\ stage \in [Job -> Stages] /\ Len(Vector(n)) \in Nat
      /\ DOMAIN Vector(n) = 1..Len(Vector(n)) /\ log[n].audience \in Nat
      /\ stage[n] = "call" /\ todo[n] = <<>>
  BY Jobs DEF IInv, Finish
<1>1. PICK copied, called \in 0..Len(Vector(n)) : Progress(n, copied, called)
  BY DEF DInv, ProgressInv, JobInv
<1>2. copied = called /\ log[n].audience <= called
  <2>1. Len(todo[n]) = copied - called /\ log[n].audience <= copied
    BY <1>0, <1>1 DEF Progress, IsPart
  <2>2. Len(todo[n]) = 0
    BY <1>0
  <2> QED BY <1>0, <2>1, <2>2
<1>3. \A i \in 1..log[n].audience : Heard(Vector(n)[i], n)
  BY <1>0, <1>1, <1>2 DEF Progress
<1>4. State' = State /\ Closed' = Closed /\ UNCHANGED <<callbacks, log, heard>>
  BY DEF Finish, appVars, State, Closed
<1>5. n \notin DoneJobs /\ DoneJobs' = DoneJobs \cup {n}
  BY <1>0 DEF Finish, DoneJobs, Job
<1> QED BY <1>3, <1>4, <1>5, SameWords DEF Service!Done

\* The subscriber implements the abstract service, for every subscription, executor,
\* number of threads, set of callbacks and number of publications: start, stop and
\* the destructor are its calls and returns, Receive, Call and Finish are its steps
\* on messages, and everything else is unseen.
THEOREM Implementation == SafeSpec => ImplementsNotifications
<1>1. Init => Service!Init
  <2> SUFFICES ASSUME Init PROVE Service!Init
    OBVIOUS
  <2>1. State = "down" /\ Closed = {} /\ DoneJobs = {}
    BY DEF Init, State, Closed, DoneJobs, Job
  <2> QED BY <2>1 DEF Init, Service!Init
<1>2. IInv /\ IInv' /\ DInv /\ [Next]_vars => [Service!Next]_(Service!serviceVars)
  <2> SUFFICES ASSUME IInv, IInv', DInv, [Next]_vars
               PROVE  Service!Next \/ UNCHANGED Service!serviceVars
    OBVIOUS
  <2>1. CASE Start \/ StartFails \/ Stop \/ Destroy \/ Join
    BY <2>1, CallsMap DEF Service!Next
  <2>2. CASE UNCHANGED <<running, app, late>> /\ UNCHANGED <<callbacks, log, heard, stage>>
    BY <2>2, Unseen DEF DoneJobs, Job
  <2>3. CASE \/ Destroyed \/ UNCHANGED vars \/ Setup \/ Continue \/ Poll \/ EndScan
             \/ LeaveLoop \/ Exit \/ \E receivers \in SUBSET Socket : Publish(receivers)
    BY <2>2, <2>3 DEF Destroyed, vars, Setup, Continue, Poll, EndScan, LeaveLoop, Exit,
                      Publish, appVars, workerVars, jobVars
  <2>4. ASSUME NEW c \in Callback, Register(c) PROVE Service!Register(c)
    <3>1. UNCHANGED <<running, app, late>> /\ UNCHANGED <<log, heard, stage>>
          /\ callbacks' = [callbacks EXCEPT ![CallbackType[c]] = Append(@, c)]
      BY <2>4 DEF Register, On, appVars, workerVars, jobVars
    <3>2. State' = State /\ Closed' = Closed /\ DoneJobs' = DoneJobs
      BY <3>1 DEF State, Closed, DoneJobs, Job
    <3>3. app # "destroyed"
      <4>1. app = "destroyed" => \A n \in Job : stage[n] = "done"
        BY StateIs, NothingLeft
      <4> QED BY <2>4, <4>1 DEF Register
    <3>4. State # "gone"
      BY <3>3, StateIs DEF IInv, TypeOK, AppStates
    <3>5. \A i \in DOMAIN callbacks[CallbackType[c]] : callbacks[CallbackType[c]][i] # c
      BY <2>4 DEF Register, On, Registered, Range
    <3> QED BY <3>1, <3>2, <3>4, <3>5 DEF Service!Register
  <2>5. ASSUME NEW s \in Socket, Receive(s)
        PROVE  Service!Next \/ UNCHANGED Service!serviceVars
    BY <2>5, ReceiveMaps, SameWords DEF Service!Next
  <2>6. ASSUME NEW n \in Job, DispatchMessage(n)
        PROVE  Service!Next \/ UNCHANGED Service!serviceVars
    <3>1. CASE Call(n)
      BY <3>1, CallMaps, SameWords DEF Service!Next
    <3>2. CASE Finish(n)
      BY <3>2, FinishMaps, SameWords DEF Service!Next
    <3>3. CASE Begin(n) \/ Copy(n) \/ Unlock(n) \/ Return(n)
      <4>1. UNCHANGED <<running, app, late>> /\ UNCHANGED <<callbacks, log, heard>>
        BY <3>3 DEF Begin, Copy, Unlock, Return, appVars, workerVars
      <4>2. stage \in [Job -> Stages]
        BY DEF IInv, TypeOK
      <4>3. DoneJobs' = DoneJobs
        BY <3>3, <4>1, <4>2 DEF Begin, Copy, Unlock, Return, DoneJobs, Job
      <4> QED BY <4>1, <4>3, Unseen
    <3> QED BY <2>6, <3>1, <3>2, <3>3 DEF DispatchMessage
  <2> QED BY <2>1, <2>3, <2>4, <2>5, <2>6 DEF Next, RunLoop, Service!Next
<1> QED
  BY <1>1, <1>2, Invariance, DeliveryInvariance, PTL
     DEF SafeSpec, ImplementsNotifications, Service!SafeSpec
=============================================================================
