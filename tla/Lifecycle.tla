----------------------------- MODULE Lifecycle -----------------------------
(***************************************************************************)
(* The life of Subscriber objects (src/subscriber.cpp): construction, move, *)
(* on, start, stop and destruction, called by any thread at any time, from  *)
(* callbacks too, at the grain of the loads and stores of the code.  What   *)
(* the receive thread does between two reads of running is in Subscriber.   *)
(*                                                                         *)
(* The code takes no lock here and states no rule for its callers, so       *)
(* broken records which of five rules they have broken: the properties say  *)
(* what holds as long as they keep them, the actions what happens if not.   *)
(*   "serial"   moves, start, stop and the destructor do not overlap on one *)
(*              subscriber; on, which locks, may overlap all but a move and *)
(*              the destructor, and the latter too in one of the callbacks  *)
(*              that the destructor waits for;                              *)
(*   "outside"  start, stop and the destructor are not called by callbacks; *)
(*   "settled"  a subscriber is not moved before the thread it has started  *)
(*              has read impl_, and not assigned to while it is running;    *)
(*   "engaged"  a subscriber that has been moved from is not started, and   *)
(*              nothing is registered with it;                              *)
(*   "caught"   callbacks let no exception through.                         *)
(* Once a rule is broken, the calls under way run to their end, in every    *)
(* order, and no other call is made.                                       *)
(***************************************************************************)
CONSTANTS
  Subscribers,   \* Subscriber objects
  Impls,         \* Subscriber::Impl objects
  Threads,       \* threads that std::thread can create
  Controllers,   \* threads of the application
  Slots,         \* callbacks that a receive thread and its pool run at a time
  Inline,        \* the Impls whose callbacks run on the receive thread
  None           \* no object, no thread, no call

Callbacks == Threads \X Slots
Callers == Controllers \cup Callbacks

\* "made": has captured a Subscriber and not read its impl_ yet.  "looping" and
\* "closing": runs run_loop of an Impl, has left its loop and waits for the
\* callbacks in the destructor of the pool.
NoThread == [at |-> "none", of |-> None]
ThreadStates ==
  {NoThread} \cup [at : {"made"}, of : Subscribers]
    \cup [at : {"looping", "closing", "exited"}, of : Impls]

\* at is the next load or store of the call; new the thread that start has made.
Calls ==
  [op : {"on"}, at : {"register"}, on : Subscribers, new : {None}]
    \cup [op : {"start"}, at : {"check", "mark", "spawn", "keep"},
          on : Subscribers, new : Threads \cup {None}]
    \cup [op : {"stop", "destroy"}, at : {"check", "clear", "joinable", "join"},
          on : Subscribers, new : {None}]
    \cup [op : {"destroy"}, at : {"free"}, on : Subscribers, new : {None}]

ASSUME LifecycleAssumption ==
  /\ Inline \subseteq Impls
  /\ None \notin Subscribers \cup Impls \cup Threads \cup Calls
  /\ Controllers \cap Callbacks = {}

VARIABLES
  impl_,    \* of each subscriber that is alive: its Impl, None after a move
  running,  \* Impl::running
  worker,   \* Impl::worker: the thread, None if it is not joinable
  thread,   \* what each thread does, and of what: see ThreadStates
  call,     \* what each caller is executing, see Calls
  process,  \* "alive", "terminated" (std::terminate) or "undefined"
  broken    \* the rules that callers have broken

vars == <<impl_, running, worker, thread, call, process, broken>>

Rules == {"serial", "outside", "settled", "engaged", "caught"}

Idle == {c \in Callers : call[c] = None}
Alive == DOMAIN impl_
Engaged(s) == s \in Alive /\ impl_[s] # None
Busy(s) == \E c \in Callers \ Idle : call[c].on = s
In(t, i) == thread[t].at \in {"looping", "closing"} /\ thread[t].of = i

\* Caller c is a callback of the Impl that s has.
Own(c, s) == c \in Callbacks /\ Engaged(s) /\ In(c[1], impl_[s])

Init ==
  /\ impl_ = [s \in {} |-> None]
  /\ running = [i \in Impls |-> FALSE]
  /\ worker = [i \in Impls |-> None]
  /\ thread = [t \in Threads |-> NoThread]
  /\ call = [c \in Callers |-> None]
  /\ process = "alive"
  /\ broken = {}

-----------------------------------------------------------------------------
(* How a step of a call goes on or ends.                                   *)

Goto(c, p) == call' = [call EXCEPT ![c].at = p]
Return(c) == call' = [call EXCEPT ![c] = None]
End(how) == process' = how /\ UNCHANGED <<impl_, running, worker, thread, call, broken>>
OnlyCall == UNCHANGED <<impl_, running, worker, thread, process, broken>>

\* A faulty variant: stop goes on as if it were the destructor.
StoppedFrees(c) == Goto(c, "free")

\* The end of stop, from which the destructor goes on.
Stopped(c) == IF call[c].op = "destroy" THEN Goto(c, "free") ELSE Return(c)

\* An exception leaves the call: a destructor is noexcept, and a callback may let
\* it through, out of the function of its thread.
Throw(c) ==
  \/ call[c].op # "destroy" /\ Return(c) /\ OnlyCall
  \/ call[c].op = "destroy" /\ End("terminated")
  \/ /\ c \in Callbacks
     /\ process' = "terminated" /\ broken' = broken \cup {"caught"}
     /\ UNCHANGED <<impl_, running, worker, thread, call>>

\* Caller c is at step p of one of ops, on a subscriber that has an Impl.
At(c, ops, p) ==
  c \notin Idle /\ call[c].op \in ops /\ call[c].at = p /\ Engaged(call[c].on)
Mine(c) == impl_[call[c].on]
Stopping == {"stop", "destroy"}

\* The destructor of Impl i: a joinable std::thread ends the process, and a
\* run_loop that still runs on i goes on without it.
Fate(i) ==
  IF i # None /\ worker[i] # None THEN "terminated"
  ELSE IF \E t \in Threads : In(t, i) THEN "undefined" ELSE "alive"

-----------------------------------------------------------------------------
(* The calls.                                                              *)

Construct(s, i) ==
  /\ broken = {}
  /\ s \notin Alive /\ \A x \in Alive : impl_[x] # i
  /\ impl_' = [x \in Alive \cup {s} |-> IF x = s THEN i ELSE impl_[x]]
  /\ running' = [running EXCEPT ![i] = FALSE]
  /\ UNCHANGED <<worker, thread, call, process, broken>>

\* The defaulted moves: from s to a new subscriber d, or to one that is alive,
\* whose Impl dies without a stop.
Move(s, d) ==
  /\ broken = {} /\ s \in Alive /\ d # s
  /\ LET over == IF d \in Alive THEN impl_[d] ELSE None IN
       /\ impl_' = [x \in Alive \cup {d} |->
                      IF x = d THEN impl_[s] ELSE IF x = s THEN None ELSE impl_[x]]
       /\ process' = Fate(over)
       /\ broken' =
            (IF Busy(s) \/ Busy(d) THEN {"serial"} ELSE {}) \cup
            (IF \/ \E t \in Threads : thread[t].at = "made" /\ thread[t].of \in {s, d}
                \/ over # None /\ running[over]
             THEN {"settled"} ELSE {})
  /\ UNCHANGED <<running, worker, thread, call>>

\* A callback runs on the thread of run_loop, one at a time, or on a thread of
\* its pool, which goes on until it has been joined.
CanCall(c) ==
  c \in Callbacks =>
    LET t == c[1] IN
      \/ thread[t].at = "looping" /\ thread[t].of \in Inline
           /\ \A k \in Slots : <<t, k>> \in Idle
      \/ thread[t].at \in {"looping", "closing"} /\ thread[t].of \notin Inline

\* A call of op on s by c must not overlap call[d].
Clash(c, op, s, d) ==
  /\ call[d].on = s
  /\ \/ "on" \notin {op, call[d].op}
     \/ op = "on" /\ call[d].op = "destroy" /\ ~Own(c, s)
     \/ op = "destroy" /\ call[d].op = "on" /\ ~Own(d, s)

Call(c, op, s) ==
  /\ broken = {} /\ c \in Idle /\ s \in Alive /\ CanCall(c)
  /\ call' = [call EXCEPT ![c] = [op |-> op, at |-> IF op = "on" THEN "register" ELSE "check",
                                 on |-> s, new |-> None]]
  /\ broken' =
       (IF \E d \in Callers \ Idle : Clash(c, op, s, d) THEN {"serial"} ELSE {}) \cup
       (IF op # "on" /\ c \in Callbacks THEN {"outside"} ELSE {}) \cup
       (IF op \in {"on", "start"} /\ impl_[s] = None THEN {"engaged"} ELSE {})
  /\ UNCHANGED <<impl_, running, worker, thread, process>>

\* There is no Impl: it was moved away or destroyed, perhaps during the call.
\* stop tests impl_ first; later, and in on and start, it is dereferenced.
NoImpl(c) ==
  /\ c \notin Idle /\ call[c].at # "free" /\ ~Engaged(call[c].on)
  /\ IF call[c].op \in Stopping /\ call[c].at = "check" /\ call[c].on \in Alive
     THEN Stopped(c) /\ OnlyCall
     ELSE End("undefined")

-----------------------------------------------------------------------------
(* on.                                                                     *)

\* The callback is of another type than the message, or the name is of none: on
\* throws before it looks at the subscriber.
Refuse(c) == c \notin Idle /\ call[c].op = "on" /\ Throw(c)

\* The callback is added to a vector of the Impl, under its mutex.
Register(c) == At(c, {"on"}, "register") /\ Return(c) /\ OnlyCall

-----------------------------------------------------------------------------
(* start.                                                                  *)

\* A faulty variant: start does not look whether the subscriber is running.
StartUnchecked(c) == At(c, {"start"}, "check") /\ Goto(c, "mark") /\ OnlyCall

StartCheck(c) ==
  /\ At(c, {"start"}, "check")
  /\ IF running[Mine(c)] THEN Throw(c) ELSE Goto(c, "mark") /\ OnlyCall

Mark(c) ==
  /\ At(c, {"start"}, "mark")
  /\ running' = [running EXCEPT ![Mine(c)] = TRUE]
  /\ Goto(c, "spawn")
  /\ UNCHANGED <<impl_, worker, thread, process, broken>>

\* std::thread(...): the new thread runs at once, or it cannot be created.
Spawn(c) ==
  /\ At(c, {"start"}, "spawn")
  /\ \/ Throw(c)
     \/ \E t \in Threads :
          /\ thread[t] = NoThread
          /\ thread' = [thread EXCEPT ![t] = [at |-> "made", of |-> call[c].on]]
          /\ call' = [call EXCEPT ![c].at = "keep", ![c].new = t]
          /\ UNCHANGED <<impl_, running, worker, process, broken>>

\* impl_->worker = ...: assigning to a joinable std::thread ends the process.
Keep(c) ==
  /\ At(c, {"start"}, "keep")
  /\ \/ worker[Mine(c)] # None /\ End("terminated")
     \/ /\ worker[Mine(c)] = None
        /\ worker' = [worker EXCEPT ![Mine(c)] = call[c].new]
        /\ Return(c)
        /\ UNCHANGED <<impl_, running, thread, process, broken>>

-----------------------------------------------------------------------------
(* stop and the destructor.                                                *)

StopCheck(c) ==
  /\ At(c, Stopping, "check")
  /\ IF running[Mine(c)] THEN Goto(c, "clear") ELSE Stopped(c)
  /\ OnlyCall

\* A faulty variant: running is not cleared before the join.
ClearForgotten(c) == At(c, Stopping, "clear") /\ Goto(c, "joinable") /\ OnlyCall

Clear(c) ==
  /\ At(c, Stopping, "clear")
  /\ running' = [running EXCEPT ![Mine(c)] = FALSE]
  /\ Goto(c, "joinable")
  /\ UNCHANGED <<impl_, worker, thread, process, broken>>

\* A faulty variant: stop does not wait for its thread.
NotJoined(c) == At(c, Stopping, "joinable") /\ Stopped(c) /\ OnlyCall

Joinable(c) ==
  /\ At(c, Stopping, "joinable")
  /\ IF worker[Mine(c)] # None THEN Goto(c, "join") ELSE Stopped(c)
  /\ OnlyCall

\* A faulty variant: the thread is detached.
Detach(c) ==
  /\ At(c, Stopping, "join") /\ worker[Mine(c)] # None
  /\ worker' = [worker EXCEPT ![Mine(c)] = None]
  /\ Stopped(c)
  /\ UNCHANGED <<impl_, running, thread, process, broken>>

Join(c) ==
  /\ At(c, Stopping, "join")
  /\ \E t \in Threads :
       /\ worker[Mine(c)] = t /\ thread[t].at = "exited"
       /\ worker' = [worker EXCEPT ![Mine(c)] = None]
       /\ thread' = [thread EXCEPT ![t] = NoThread]
  /\ Stopped(c)
  /\ UNCHANGED <<impl_, running, process, broken>>

\* std::system_error: another call has joined the thread since it was found
\* joinable, or the thread is to join itself.
JoinThrows(c) ==
  /\ At(c, Stopping, "join")
  /\ \/ worker[Mine(c)] = None
     \/ c \in Callbacks /\ worker[Mine(c)] = c[1] /\ thread[c[1]].of \in Inline
  /\ Throw(c)

\* Two calls join one std::thread: the outcome is undefined.
JoinTwice(c) ==
  /\ At(c, Stopping, "join")
  /\ \E d \in Callers \ {c} : At(d, Stopping, "join") /\ Mine(d) = Mine(c)
  /\ Throw(c) \/ End("undefined")

\* The end of the destructor, or of one that runs on a dead object.
Free(c) ==
  /\ c \notin Idle /\ call[c].at = "free"
  /\ \/ call[c].on \notin Alive /\ End("undefined")
     \/ /\ call[c].on \in Alive
        /\ process' = Fate(Mine(c))
        /\ impl_' = [x \in Alive \ {call[c].on} |-> impl_[x]]
        /\ Return(c)
        /\ UNCHANGED <<running, worker, thread, broken>>

-----------------------------------------------------------------------------
(* The receive threads.                                                    *)

Becomes(t, p, o) ==
  /\ thread' = [thread EXCEPT ![t] = [at |-> p, of |-> o]]
  /\ UNCHANGED <<impl_, running, worker, call, process, broken>>

\* impl_->run_loop(), through the subscriber that was captured.
Begin(t) ==
  /\ thread[t].at = "made"
  /\ IF Engaged(thread[t].of) THEN Becomes(t, "looping", impl_[thread[t].of])
                              ELSE End("undefined")

\* The head of the loop finds running cleared.  An inline callback runs on t.
Leave(t) ==
  /\ thread[t].at = "looping" /\ ~running[thread[t].of]
  /\ thread[t].of \in Inline => \A k \in Slots : <<t, k>> \in Idle
  /\ Becomes(t, "closing", thread[t].of)

\* The pool, whose threads run the callbacks, is joined.
Exit(t) ==
  /\ thread[t].at = "closing" /\ \A k \in Slots : <<t, k>> \in Idle
  /\ Becomes(t, "exited", thread[t].of)

-----------------------------------------------------------------------------
On(c) == Refuse(c) \/ Register(c)
Start(c) == StartCheck(c) \/ Mark(c) \/ Spawn(c) \/ Keep(c)
Stop(c) == StopCheck(c) \/ Clear(c) \/ Joinable(c) \/ Join(c) \/ JoinThrows(c) \/ JoinTwice(c)
Run(t) == Begin(t) \/ Leave(t) \/ Exit(t)

Next ==
  /\ process = "alive"
  /\ \/ \E s \in Subscribers, i \in Impls : Construct(s, i)
     \/ \E s, d \in Subscribers : Move(s, d)
     \/ \E c \in Callers, op \in {"on", "start", "stop", "destroy"}, s \in Subscribers :
          Call(c, op, s)
     \/ \E c \in Callers : NoImpl(c) \/ On(c) \/ Start(c) \/ Stop(c) \/ Free(c)
     \/ \E t \in Threads : Run(t)

Spec == Init /\ [][Next]_vars

-----------------------------------------------------------------------------
\* The type invariant.
TypeOK ==
  /\ Alive \subseteq Subscribers
  /\ impl_ \in [Alive -> Impls \cup {None}]
  /\ running \in [Impls -> BOOLEAN]
  /\ worker \in [Impls -> Threads \cup {None}]
  /\ thread \in [Threads -> ThreadStates]
  /\ call \in [Callers -> Calls \cup {None}]
  /\ process \in {"alive", "terminated", "undefined"}
  /\ broken \subseteq Rules

\* As long as callers keep the rules, no call, thread or destructor ends the
\* process or uses an object that is gone: no std::thread is joinable when it is
\* assigned to or destroyed, none is joined twice or by itself, no run_loop
\* outlives its Impl, and whoever calls on, from a callback during the destructor
\* too, finds one, whatever is started, stopped, moved and destroyed.
RulesSuffice == broken = {} => process = "alive"

\* Thread t runs, or is to run, on Impl i.
Serves(t, i) ==
  \/ In(t, i)
  \/ thread[t].at = "made" /\ Engaged(thread[t].of) /\ impl_[thread[t].of] = i

\* As long as callers keep the rules: when no call but on is made on a subscriber
\* and running is not set, stop has left nothing behind, also when the subscriber
\* has been moved since the start: no thread runs on its Impl or has yet to
\* begin, and no std::thread is left to join.
StopIsBarrier ==
  broken = {} =>
    \A s \in Alive :
      LET i == impl_[s] IN
        i # None /\ ~running[i]
          /\ (\A c \in Callers \ Idle : call[c].on = s => call[c].op = "on") =>
          worker[i] = None /\ \A t \in Threads : ~Serves(t, i)

\* As long as callers keep the rules, an Impl is run by one thread at a time: a
\* second one would receive on sockets of its own and call every callback twice.
OneReceiver ==
  broken = {} =>
    \A i \in Impls, t, u \in Threads : Serves(t, i) /\ Serves(u, i) => t = u

\* As long as callers keep the rules, a call that waits in join waits for a thread
\* that will end: it serves the Impl that is being stopped, running stays cleared
\* until the call returns, and its callbacks call nothing that waits, only on.
JoinsEnd ==
  broken = {} =>
    \A c \in Callers \ Idle :
      call[c].at = "join" =>
        \E t \in Threads :
          /\ worker[Mine(c)] = t
          /\ thread[t].at = "exited" \/ Serves(t, Mine(c))
          /\ ~running[Mine(c)]
          /\ \A k \in Slots : <<t, k>> \in Idle \/ call[<<t, k>>].op = "on"

=============================================================================
