-------------------------- MODULE LifecycleProofs --------------------------
(***************************************************************************)
(* Proofs about Lifecycle, for any sets of subscribers, Impls, threads and  *)
(* callers: the type invariant, and what the rules give the callers that    *)
(* keep them.  The inductive invariant Good says, of the states in which no *)
(* rule is broken, who owns what: each Impl has one subscriber, each thread *)
(* one Impl, each subscriber at most one caller of start, stop or the       *)
(* destructor; and whoever calls on has an Impl, which nobody destroys but  *)
(* a destructor that waits for the caller.                                  *)
(***************************************************************************)
EXTENDS Lifecycle, TLAPS

\* The callers of on, and of the rest.
Registering == {c \in Callers \ Idle : call[c].op = "on"}
Active == {c \in Callers \ Idle : call[c].op # "on"}

\* The Impl that thread t runs on, or will when it reads impl_.
Target(t) == IF thread[t].at = "made" THEN impl_[thread[t].of] ELSE thread[t].of

CallsOK ==
  \A c \in Active :
    /\ c \in Controllers
    /\ \A d \in Active : call[d].on = call[c].on => d = c
    /\ call[c].on \in Alive
    /\ call[c].op = "start" \/ call[c].at \in {"clear", "joinable", "join"} => Mine(c) # None
    /\ Mine(c) # None =>
         /\ call[c].at \in {"mark", "spawn", "keep", "free"} => worker[Mine(c)] = None
         /\ call[c].at \in {"mark", "joinable", "join", "free"} => ~running[Mine(c)]
         /\ call[c].at \in {"spawn", "keep"} => running[Mine(c)]
         /\ call[c].at = "join" => worker[Mine(c)] # None
         /\ call[c].at = "keep" =>
              /\ call[c].new \in Threads
              /\ thread[call[c].new] # NoThread
              /\ Target(call[c].new) = Mine(c)

OnsOK ==
  \A c \in Registering :
    /\ call[c].on \in Alive /\ Mine(c) # None
    /\ \A d \in Active :
         call[d].op = "destroy" /\ call[d].on = call[c].on => Own(c, call[c].on)

ImplsOK ==
  \A s \in Alive : impl_[s] # None =>
    /\ \A x \in Alive : impl_[x] = impl_[s] => x = s
    /\ ~running[impl_[s]] /\ worker[impl_[s]] # None =>
         \E c \in Active : call[c].on = s /\ call[c].at \in {"joinable", "join"}

WorkersOK ==
  \A i \in Impls : worker[i] # None =>
    /\ \E s \in Alive : impl_[s] = i
    /\ thread[worker[i]] # NoThread
    /\ Target(worker[i]) = i

ThreadsOK ==
  \A t \in Threads : thread[t] # NoThread =>
    /\ thread[t].at = "made" => Engaged(thread[t].of)
    /\ \/ worker[Target(t)] = t
       \/ \E c \in Active : call[c].at = "keep" /\ call[c].new = t /\ Mine(c) = Target(t)

Good == process = "alive" /\ CallsOK /\ OnsOK /\ ImplsOK /\ WorkersOK /\ ThreadsOK

Inv == broken = {} => Good

-----------------------------------------------------------------------------
(* The type invariant.                                                     *)

Typed(k) == k \in Calls \cup {None}

\* A call of start goes on as one of start, and one of stop as one of stop.
LEMMA StartGoes ==
  ASSUME NEW k \in Calls, k.op = "start", NEW p \in {"mark", "spawn"}
  PROVE  [k EXCEPT !.at = p] \in Calls
  BY DEF Calls

\* A call of stop, or of the destructor, goes on as one.
LEMMA StopGoes ==
  ASSUME NEW k \in Calls, k.op \in Stopping, NEW p \in {"clear", "joinable", "join"}
  PROVE  [k EXCEPT !.at = p] \in Calls
  BY DEF Calls, Stopping

\* The destructor goes on after its stop.
LEMMA DestroyGoes ==
  ASSUME NEW k \in Calls, k.op = "destroy"
  PROVE  [k EXCEPT !.at = "free"] \in Calls
  BY DEF Calls

\* With the step of one caller replaced, the calls keep their type.
LEMMA GotoTyped ==
  ASSUME NEW c \in Callers, NEW p, call \in [Callers -> Calls \cup {None}],
         [call[c] EXCEPT !.at = p] \in Calls, call' = [call EXCEPT ![c].at = p]
  PROVE  call' \in [Callers -> Calls \cup {None}]
  OBVIOUS

\* A call that ends leaves its caller without one.
LEMMA ReturnTyped ==
  ASSUME NEW c \in Callers, call \in [Callers -> Calls \cup {None}], Return(c)
  PROVE  call' \in [Callers -> Calls \cup {None}]
  BY DEF Return

\* The end of stop, and of its part of the destructor.
LEMMA StoppedTyped ==
  ASSUME NEW c \in Callers, call \in [Callers -> Calls \cup {None}], c \notin Idle,
         call[c].op \in Stopping, Stopped(c)
  PROVE  call' \in [Callers -> Calls \cup {None}]
  <1>1. call[c] \in Calls
    BY DEF Idle
  <1>2. CASE call[c].op = "destroy"
    BY <1>1, <1>2, DestroyGoes, GotoTyped DEF Stopped, Goto
  <1>3. CASE call[c].op # "destroy"
    BY <1>3, ReturnTyped DEF Stopped
  <1> QED
    BY <1>2, <1>3

\* The initial state has the types.
LEMMA InitTyped == Init => TypeOK
  BY DEF Init, TypeOK, Alive, ThreadStates

\* Every step keeps the types.
LEMMA NextTyped == TypeOK /\ [Next]_vars => TypeOK'
  <1> SUFFICES ASSUME TypeOK, Next
               PROVE  TypeOK'
    BY DEF TypeOK, vars, Alive
  <1>1. ASSUME NEW s \in Subscribers, NEW i \in Impls, Construct(s, i)
        PROVE  TypeOK'
    BY <1>1 DEF TypeOK, Construct, Alive
  <1>2. ASSUME NEW s \in Subscribers, NEW d \in Subscribers, Move(s, d)
        PROVE  TypeOK'
    BY <1>2 DEF TypeOK, Move, Alive, Fate, Rules
  <1>3. ASSUME NEW c \in Callers, NEW op \in {"on", "start", "stop", "destroy"},
               NEW s \in Subscribers, Call(c, op, s)
        PROVE  TypeOK'
    <2>1. [op |-> op, at |-> IF op = "on" THEN "register" ELSE "check",
           on |-> s, new |-> None] \in Calls
      BY DEF Calls
    <2> QED
      BY <1>3, <2>1 DEF TypeOK, Call, Alive, Rules
  <1>4. ASSUME NEW c \in Callers, Throw(c)
        PROVE  TypeOK'
    BY <1>4, ReturnTyped DEF TypeOK, Throw, OnlyCall, End, Alive, Rules
  <1>5. ASSUME NEW c \in Callers, NoImpl(c)
        PROVE  TypeOK'
    BY <1>5, StoppedTyped DEF TypeOK, NoImpl, OnlyCall, End, Alive
  <1>6. ASSUME NEW c \in Callers, Start(c)
        PROVE  TypeOK'
    <2>1. CASE StartCheck(c)
      <3>1. call[c] \in Calls /\ call[c].op = "start"
        BY <2>1 DEF StartCheck, At, Idle, TypeOK
      <3> QED
        BY <2>1, <3>1, <1>4, StartGoes, GotoTyped DEF TypeOK, StartCheck, Goto, OnlyCall, Alive
    <2>2. CASE Mark(c)
      <3>1. call[c] \in Calls /\ call[c].op = "start"
        BY <2>2 DEF Mark, At, Idle, TypeOK
      <3> QED
        BY <2>2, <3>1, StartGoes, GotoTyped DEF TypeOK, Mark, Goto, Alive
    <2>3. CASE Spawn(c)
      <3>1. CASE Throw(c)
        BY <3>1, <1>4
      <3>2. ASSUME NEW t \in Threads,
                   thread' = [thread EXCEPT ![t] = [at |-> "made", of |-> call[c].on]],
                   call' = [call EXCEPT ![c].at = "keep", ![c].new = t],
                   UNCHANGED <<impl_, running, worker, process, broken>>
            PROVE  TypeOK'
        <4>1. call[c] \in Calls /\ call[c].op = "start"
          BY <2>3 DEF Spawn, At, Idle, TypeOK
        <4>2. call[c].on \in Subscribers /\ [call[c] EXCEPT !.at = "keep", !.new = t] \in Calls
          BY <4>1 DEF Calls
        <4>3. call' = [call EXCEPT ![c] = [call[c] EXCEPT !.at = "keep", !.new = t]]
          BY <3>2 DEF TypeOK
        <4>4. [at |-> "made", of |-> call[c].on] \in ThreadStates
          BY <4>2 DEF ThreadStates
        <4> QED
          BY <3>2, <4>2, <4>3, <4>4 DEF TypeOK, Alive
      <3> QED
        BY <2>3, <3>1, <3>2 DEF Spawn
    <2>4. CASE Keep(c)
      <3>1. call[c] \in Calls /\ call[c].op = "start" /\ call[c].on \in Alive
        BY <2>4 DEF Keep, At, Idle, TypeOK, Engaged
      <3>2. call[c].new \in Threads \cup {None}
        BY <3>1 DEF Calls
      <3> QED
        BY <2>4, <3>1, <3>2, ReturnTyped DEF Keep, TypeOK, End, Mine, Alive
    <2> QED
      BY <1>6, <2>1, <2>2, <2>3, <2>4 DEF Start
  <1>7. ASSUME NEW c \in Callers, Stop(c)
        PROVE  TypeOK'
    <2>a. ASSUME c \notin Idle, call[c].op \in Stopping,
                 Goto(c, "clear") \/ Goto(c, "joinable") \/ Goto(c, "join") \/ Stopped(c)
          PROVE  call' \in [Callers -> Calls \cup {None}]
      <3>1. call[c] \in Calls
        BY <2>a DEF TypeOK, Idle
      <3>2. CASE Stopped(c)
        BY <2>a, <3>2, StoppedTyped DEF TypeOK
      <3> QED
        BY <2>a, <3>1, <3>2, StopGoes, GotoTyped DEF TypeOK, Goto
    <2>1. CASE StopCheck(c)
      BY <2>1, <2>a DEF TypeOK, StopCheck, At, OnlyCall, Alive
    <2>2. CASE Clear(c)
      BY <2>2, <2>a DEF TypeOK, Clear, At, Alive
    <2>3. CASE Joinable(c)
      BY <2>3, <2>a DEF TypeOK, Joinable, At, OnlyCall, Alive
    <2>4. CASE Join(c)
      <3>1. NoThread \in ThreadStates
        BY DEF ThreadStates
      <3> QED
        BY <2>4, <3>1, StoppedTyped DEF TypeOK, Join, At, Alive
    <2>5. CASE JoinThrows(c)
      BY <2>5, <1>4 DEF JoinThrows
    <2>6. CASE JoinTwice(c)
      BY <2>6, <1>4 DEF JoinTwice, TypeOK, End, Alive
    <2> QED
      BY <1>7, <2>1, <2>2, <2>3, <2>4, <2>5, <2>6 DEF Stop
  <1>8. ASSUME NEW c \in Callers, Free(c)
        PROVE  TypeOK'
    BY <1>8, ReturnTyped DEF TypeOK, Free, End, Alive, Fate
  <1>10. ASSUME NEW c \in Callers, On(c)
         PROVE  TypeOK'
    BY <1>4, <1>10, ReturnTyped DEF TypeOK, On, Refuse, Register, OnlyCall, Alive
  <1>9. ASSUME NEW t \in Threads, Run(t)
        PROVE  TypeOK'
    <2>1. thread[t] \in ThreadStates
      BY DEF TypeOK
    <2>2. CASE Begin(t)
      <3>1. CASE Engaged(thread[t].of)
        <4>1. [at |-> "looping", of |-> impl_[thread[t].of]] \in ThreadStates
          BY <3>1 DEF ThreadStates, Engaged, TypeOK
        <4> QED
          BY <2>2, <3>1, <4>1 DEF Begin, Becomes, TypeOK, Alive
      <3>2. CASE ~Engaged(thread[t].of)
        BY <2>2, <3>2 DEF Begin, End, TypeOK, Alive
      <3> QED
        BY <3>1, <3>2
    <2>3. CASE Leave(t)
      <3>1. [at |-> "closing", of |-> thread[t].of] \in ThreadStates
        BY <2>1, <2>3 DEF Leave, ThreadStates, NoThread
      <3> QED
        BY <2>3, <3>1 DEF Leave, Becomes, TypeOK, Alive
    <2>4. CASE Exit(t)
      <3>1. [at |-> "exited", of |-> thread[t].of] \in ThreadStates
        BY <2>1, <2>4 DEF Exit, ThreadStates, NoThread
      <3> QED
        BY <2>4, <3>1 DEF Exit, Becomes, TypeOK, Alive
    <2> QED
      BY <1>9, <2>2, <2>3, <2>4 DEF Run
  <1> QED
    BY <1>1, <1>2, <1>3, <1>5, <1>6, <1>7, <1>8, <1>9, <1>10 DEF Next

\* The type invariant, for any sets of objects, threads and callers.
THEOREM TypeCorrect == Spec => []TypeOK
  BY InitTyped, NextTyped, PTL DEF Spec

-----------------------------------------------------------------------------
(* Good is inductive while the rules are kept.                             *)

\* A caller that goes on from one step to the next keeps its call.
LEMMA Moved ==
  ASSUME TypeOK, NEW c \in Active, NEW p,
         [call[c] EXCEPT !.at = p] \in Calls, call' = [call EXCEPT ![c].at = p]
  PROVE  /\ Active' = Active
         /\ call'[c].op = call[c].op /\ call'[c].on = call[c].on
         /\ call'[c].new = call[c].new /\ call'[c].at = p
         /\ \A d \in Active : d # c => call'[d] = call[d]
         /\ Registering' = Registering /\ \A d \in Registering : call'[d] = call[d]
  <1> DEFINE k == [call[c] EXCEPT !.at = p]
  <1>1. c \in Callers /\ c \notin Idle /\ call[c] \in Calls
    BY DEF TypeOK, Idle, Active
  <1>2. k.op = call[c].op /\ k.on = call[c].on /\ k.new = call[c].new /\ k.at = p
    BY <1>1 DEF Calls
  <1>3. call' = [call EXCEPT ![c] = k]
    BY DEF TypeOK
  <1>4. k # None
    BY LifecycleAssumption
  <1> HIDE DEF k
  <1>5. call'[c] = k /\ \A d \in Callers : d # c => call'[d] = call[d]
    BY <1>1, <1>3 DEF TypeOK
  <1> QED
    BY <1>1, <1>2, <1>4, <1>5 DEF Idle, Active, Registering

\* A caller that has returned is idle; the others keep their calls.
LEMMA Returned ==
  ASSUME TypeOK, NEW c \in Callers, call' = [call EXCEPT ![c] = None]
  PROVE  /\ Active' = Active \ {c}
         /\ \A d \in Active : d # c => call'[d] = call[d]
         /\ Registering' = Registering \ {c}
         /\ \A d \in Registering : d # c => call'[d] = call[d]
  BY DEF TypeOK, Idle, Active, Registering

\* No caller is of both kinds.
LEMMA OfOneKind == \A c \in Active : c \notin Registering
  BY DEF Active, Registering

\* What a step has to show to keep what is known of the callers of on.
LEMMA OnsKept ==
  ASSUME TypeOK, Good,
         Registering' \subseteq Registering,
         \A c \in Registering' : call'[c] = call[c],
         \A c \in Registering' : call[c].on \in Alive' /\ impl_'[call[c].on] = Mine(c),
         \A c \in Registering', i \in Impls :
           c \in Callbacks /\ In(c[1], i) => thread'[c[1]].at \in {"looping", "closing"}
                                             /\ thread'[c[1]].of = i,
         \A d \in Active' : call'[d].op = "destroy" =>
           d \in Active /\ call[d].op = "destroy" /\ call[d].on = call'[d].on
  PROVE  OnsOK'
  <1> SUFFICES ASSUME NEW c \in Registering'
               PROVE  /\ call'[c].on \in Alive' /\ impl_'[call'[c].on] # None
                      /\ \A d \in Active' :
                           call'[d].op = "destroy" /\ call'[d].on = call'[c].on =>
                             Own(c, call[c].on)'
    BY DEF OnsOK, Mine, Own
  <1>1. c \in Registering /\ call'[c] = call[c] /\ Mine(c) # None /\ call[c].on \in Alive
    BY DEF Good, OnsOK
  <1>2. ASSUME Own(c, call[c].on)
        PROVE  Own(c, call[c].on)'
    BY <1>1, <1>2 DEF Own, In, Engaged, Mine, TypeOK
  <1> QED
    BY <1>1, <1>2 DEF Good, OnsOK

\* The same for a step that leaves subscribers and threads alone.
LEMMA OnsSame ==
  ASSUME TypeOK, Good, impl_' = impl_, thread' = thread,
         Registering' = Registering, \A d \in Registering : call'[d] = call[d],
         \A d \in Active' : call'[d].op = "destroy" =>
           d \in Active /\ call[d].op = "destroy" /\ call[d].on = call'[d].on
  PROVE  OnsOK'
  <1>1. \A d \in Registering : call[d].on \in Alive /\ impl_[call[d].on] = Mine(d)
    BY DEF Good, OnsOK, Mine
  <1>2. Alive' = Alive
    BY DEF Alive
  <1> QED
    BY <1>1, <1>2, OnsKept DEF In

\* What a step of caller c that leaves the objects alone has to show.
LEMMA CallMoves ==
  ASSUME TypeOK, Good, NEW c \in Active, OnlyCall, NEW p,
         Active' = Active,
         call'[c].op = call[c].op, call'[c].on = call[c].on, call'[c].at = p,
         \A d \in Active : d # c => call'[d] = call[d],
         Registering' = Registering, \A d \in Registering : call'[d] = call[d],
         p # "keep", call[c].at # "keep",
         call[c].at \in {"joinable", "join"} => p \in {"joinable", "join"} \/ worker[Mine(c)] = None,
         call[c].op = "start" \/ p \in {"clear", "joinable", "join"} => Mine(c) # None,
         Mine(c) # None =>
           /\ p \in {"mark", "spawn", "free"} => worker[Mine(c)] = None
           /\ p \in {"mark", "joinable", "join", "free"} => ~running[Mine(c)]
           /\ p = "spawn" => running[Mine(c)]
           /\ p = "join" => worker[Mine(c)] # None
  PROVE  Good'
  <1>1. CallsOK'
    BY DEF Good, CallsOK, OnlyCall, Mine, Target, Alive
  <1>2. ImplsOK'
    BY DEF Good, ImplsOK, CallsOK, OnlyCall, Mine, Alive
  <1>3. WorkersOK'
    BY DEF Good, WorkersOK, OnlyCall, Target, Alive
  <1>4. ThreadsOK'
    BY DEF Good, ThreadsOK, CallsOK, OnlyCall, Target, Mine, Alive, Engaged
  <1>5. OnsOK'
    BY OnsSame DEF OnlyCall
  <1> QED
    BY <1>1, <1>2, <1>3, <1>4, <1>5 DEF Good, OnlyCall

\* What the return of caller c has to show, when it leaves the objects alone.
LEMMA CallReturns ==
  ASSUME TypeOK, Good, NEW c \in Active, OnlyCall,
         Active' = Active \ {c},
         \A d \in Active : d # c => call'[d] = call[d],
         Registering' = Registering, \A d \in Registering : call'[d] = call[d],
         call[c].at # "keep",
         call[c].at \in {"joinable", "join"} => worker[Mine(c)] = None
  PROVE  Good'
  <1>1. CallsOK'
    BY DEF Good, CallsOK, OnlyCall, Mine, Target, Alive
  <1>2. ImplsOK'
    BY DEF Good, ImplsOK, CallsOK, OnlyCall, Mine, Alive
  <1>3. WorkersOK'
    BY DEF Good, WorkersOK, OnlyCall, Target, Alive
  <1>4. ThreadsOK'
    BY DEF Good, ThreadsOK, CallsOK, OnlyCall, Target, Mine, Alive, Engaged
  <1>5. OnsOK'
    BY OnsSame DEF OnlyCall
  <1> QED
    BY <1>1, <1>2, <1>3, <1>4, <1>5 DEF Good, OnlyCall

\* A call that throws, of a caller that keeps the rules, just returns.
LEMMA Thrown ==
  ASSUME TypeOK, Good, NEW c \in Active, Throw(c), call[c].op # "destroy",
         call[c].at # "keep", call[c].at \notin {"joinable", "join"}
  PROVE  Good'
  <1>1. c \in Controllers /\ c \in Callers
    BY DEF Good, CallsOK, Active
  <1>2. Return(c) /\ OnlyCall
    BY <1>1, LifecycleAssumption DEF Throw
  <1>3. c \notin Registering
    BY OfOneKind
  <1> QED
    BY <1>1, <1>2, <1>3, Returned, CallReturns DEF Return

\* The end of stop, or of the part of it in the destructor.
LEMMA StopEnds ==
  ASSUME TypeOK, Good, NEW c \in Active, Stopped(c), OnlyCall, call[c].op \in Stopping,
         call[c].at # "keep",
         Mine(c) # None => worker[Mine(c)] = None /\ ~running[Mine(c)]
  PROVE  Good'
  <1>1. c \in Callers /\ c \notin Idle /\ call[c] \in Calls
    BY DEF TypeOK, Active, Idle
  <1>2. CASE call[c].op = "destroy"
    <2>1. call' = [call EXCEPT ![c].at = "free"]
      BY <1>2 DEF Stopped, Goto
    <2>2. [call[c] EXCEPT !.at = "free"] \in Calls
      BY <1>1, <1>2, DestroyGoes
    <2>3. /\ Active' = Active
          /\ call'[c].op = call[c].op /\ call'[c].on = call[c].on /\ call'[c].at = "free"
          /\ \A d \in Active : d # c => call'[d] = call[d]
          /\ Registering' = Registering /\ \A d \in Registering : call'[d] = call[d]
      BY <1>1, <2>1, <2>2, Moved
    <2>4. call[c].at \in {"joinable", "join"} => worker[Mine(c)] = None
      BY DEF Good, CallsOK
    <2> QED
      BY <1>2, <2>3, <2>4, CallMoves
  <1>3. CASE call[c].op # "destroy"
    <2>1. call[c].at \in {"joinable", "join"} => worker[Mine(c)] = None
      BY DEF Good, CallsOK
    <2> QED
      BY <1>1, <1>3, <2>1, Returned, OfOneKind, CallReturns DEF Stopped, Return
  <1> QED
    BY <1>2, <1>3

\* What is known of a caller that is about to execute a step.
LEMMA AtKnown ==
  ASSUME Good, TypeOK, NEW c \in Callers, NEW ops, "on" \notin ops, NEW p, At(c, ops, p)
  PROVE  /\ c \in Active /\ c \notin Idle /\ call[c] \in Calls
         /\ call[c].op \in ops /\ call[c].at = p
         /\ call[c].on \in Alive /\ Mine(c) # None /\ Mine(c) \in Impls
  BY DEF At, Active, Idle, Engaged, Mine, TypeOK

\* A stop that finds running cleared, before it has cleared it itself, finds
\* no thread to join.
LEMMA NothingToStop ==
  ASSUME Good, TypeOK, NEW c \in Active, call[c].at = "check", Mine(c) # None,
         ~running[Mine(c)]
  PROVE  worker[Mine(c)] = None
  BY DEF Good, CallsOK, ImplsOK, Mine

\* start looks at running.
LEMMA StartCheckGood ==
  ASSUME TypeOK, Good, NEW c \in Callers, StartCheck(c)
  PROVE  Good'
  <1>1. At(c, {"start"}, "check")
    BY DEF StartCheck
  <1>2. /\ c \in Active /\ c \notin Idle /\ call[c] \in Calls
        /\ call[c].op = "start" /\ call[c].at = "check" /\ Mine(c) # None
    BY <1>1, AtKnown DEF Stopping
  <1>3. CASE running[Mine(c)]
    BY <1>2, <1>3, Thrown DEF StartCheck
  <1>4. CASE ~running[Mine(c)]
    <2>1. call' = [call EXCEPT ![c].at = "mark"] /\ OnlyCall
      BY <1>4 DEF StartCheck, Goto
    <2>2. [call[c] EXCEPT !.at = "mark"] \in Calls
      BY <1>2, StartGoes
    <2>3. worker[Mine(c)] = None
      BY <1>2, <1>4, NothingToStop
    <2>4. /\ Active' = Active
          /\ call'[c].op = call[c].op /\ call'[c].on = call[c].on /\ call'[c].at = "mark"
          /\ \A d \in Active : d # c => call'[d] = call[d]
          /\ Registering' = Registering /\ \A d \in Registering : call'[d] = call[d]
      BY <1>2, <2>1, <2>2, Moved
    <2> QED
      BY <1>2, <1>4, <2>1, <2>3, <2>4, CallMoves
  <1> QED
    BY <1>3, <1>4

\* The Impl of one caller is not the Impl of another.
LEMMA OwnImpl ==
  ASSUME TypeOK, Good, NEW c \in Active, Mine(c) # None
  PROVE  /\ \A d \in Active : Mine(d) = Mine(c) => d = c
         /\ \A s \in Alive : impl_[s] = Mine(c) => s = call[c].on
  BY DEF Good, CallsOK, ImplsOK, Mine

\* start sets running.
LEMMA MarkGood ==
  ASSUME TypeOK, Good, NEW c \in Callers, Mark(c)
  PROVE  Good'
  <1>1. At(c, {"start"}, "mark")
    BY DEF Mark
  <1>2. /\ c \in Active /\ c \notin Idle /\ call[c] \in Calls
        /\ call[c].op = "start" /\ call[c].at = "mark" /\ Mine(c) # None /\ Mine(c) \in Impls
    BY <1>1, AtKnown DEF Stopping
  <1>3. [call[c] EXCEPT !.at = "spawn"] \in Calls
    BY <1>2, StartGoes
  <1>4. /\ Active' = Active
        /\ call'[c].op = call[c].op /\ call'[c].on = call[c].on /\ call'[c].at = "spawn"
        /\ \A d \in Active : d # c => call'[d] = call[d]
        /\ Registering' = Registering /\ \A d \in Registering : call'[d] = call[d]
    BY <1>2, <1>3, Moved DEF Mark, Goto
  <1>5. /\ running'[Mine(c)] /\ UNCHANGED <<impl_, worker, thread, process, broken>>
        /\ \A i \in Impls : i # Mine(c) => running'[i] = running[i]
    BY <1>2 DEF Mark, TypeOK
  <1>6. \A d \in Active : Mine(d)' = Mine(d)
    BY <1>2, <1>4, <1>5 DEF Mine
  <1>7. \A d \in Active : d # c /\ Mine(d) # None => Mine(d) \in Impls /\ Mine(d) # Mine(c)
    BY <1>2, OwnImpl DEF Good, CallsOK, TypeOK, Mine
  <1>8. CallsOK'
    BY <1>2, <1>4, <1>5, <1>6, <1>7 DEF Good, CallsOK, Target, Alive
  <1>9. ImplsOK'
    BY <1>2, <1>4, <1>5 DEF Good, ImplsOK, CallsOK, Alive, TypeOK
  <1>10. WorkersOK'
    BY <1>5 DEF Good, WorkersOK, Target, Alive
  <1>11. ThreadsOK'
    BY <1>2, <1>4, <1>5, <1>6 DEF Good, ThreadsOK, Target, Alive, Engaged
  <1>12. OnsOK'
    BY <1>4, <1>5, OnsSame
  <1> QED
    BY <1>5, <1>8, <1>9, <1>10, <1>11, <1>12 DEF Good

\* The step of start that creates its thread.
LEMMA SpawnGood ==
  ASSUME TypeOK, Good, NEW c \in Callers, Spawn(c)
  PROVE  Good'
  <1>1. At(c, {"start"}, "spawn")
    BY DEF Spawn
  <1>2. /\ c \in Active /\ c \notin Idle /\ call[c] \in Calls
        /\ call[c].op = "start" /\ call[c].at = "spawn" /\ call[c].on \in Alive
        /\ Mine(c) # None /\ Mine(c) \in Impls
    BY <1>1, AtKnown DEF Stopping
  <1>3. CASE Throw(c)
    BY <1>2, <1>3, Thrown
  <1>4. ASSUME NEW t \in Threads, thread[t] = NoThread,
               thread' = [thread EXCEPT ![t] = [at |-> "made", of |-> call[c].on]],
               call' = [call EXCEPT ![c].at = "keep", ![c].new = t],
               UNCHANGED <<impl_, running, worker, process, broken>>
        PROVE  Good'
    <2> DEFINE k == [call[c] EXCEPT !.at = "keep", !.new = t]
    <2>0. UNCHANGED <<impl_, running, worker, process, broken>>
      BY <1>4
    <2>1. /\ k \in Calls /\ k.op = "start" /\ k.on = call[c].on
          /\ k.at = "keep" /\ k.new = t
      BY <1>2 DEF Calls
    <2>2. call' = [call EXCEPT ![c] = k] /\ k # None
      BY <1>4, <2>1, LifecycleAssumption DEF TypeOK
    <2> HIDE DEF k
    <2>3. /\ Active' = Active /\ call'[c] = k
          /\ \A d \in Active : d # c => call'[d] = call[d]
          /\ Registering' = Registering /\ \A d \in Registering : call'[d] = call[d]
      <3>1. c \in Callers /\ \A d \in Callers : d # c => call'[d] = call[d]
        BY <2>2 DEF TypeOK
      <3>2. call'[c] = k
        BY <2>2, <3>1 DEF TypeOK
      <3> QED
        BY <1>2, <2>1, <2>2, <3>1, <3>2 DEF Active, Registering, Idle
    <2>4. /\ thread'[t].at = "made" /\ thread'[t].of = call[c].on /\ thread'[t] # NoThread
          /\ \A u \in Threads : u # t => thread'[u] = thread[u]
      BY <1>4 DEF TypeOK, NoThread
    <2>5. /\ Target(t)' = Mine(c)
          /\ \A u \in Threads : u # t => Target(u)' = Target(u)
      BY <1>4, <2>4 DEF Target, Mine
    <2>6. \A d \in Active : Mine(d)' = Mine(d)
      BY <2>0, <2>1, <2>3 DEF Mine
    <2>7. Mine(c) # None /\ worker[Mine(c)] = None /\ running[Mine(c)]
      BY <1>2 DEF Good, CallsOK
    <2>8. \A d \in Active : Mine(d) # None /\ call[d].at = "keep" => call[d].new # t
      BY <1>4 DEF Good, CallsOK
    <2>9. CallsOK'
      <3>1. \A d \in Active, u \in Threads :
              d # c /\ Mine(d) # None /\ call[d].at = "keep" /\ call[d].new = u =>
                thread'[u] # NoThread /\ Target(u)' = Mine(d)
        <4> SUFFICES ASSUME NEW d \in Active, NEW u \in Threads, d # c, Mine(d) # None,
                            call[d].at = "keep", call[d].new = u
                     PROVE  thread'[u] # NoThread /\ Target(u)' = Mine(d)
          OBVIOUS
        <4>1. u # t /\ thread[u] # NoThread /\ Target(u) = Mine(d)
          BY <2>8 DEF Good, CallsOK
        <4> QED
          BY <4>1, <2>4, <2>5
      <3>2. \A d \in Active : call'[d].on = call[d].on /\ call'[d].op = call[d].op
        BY <1>2, <2>1, <2>3
      <3>3. \A d \in Active :
              /\ d \in Controllers
              /\ \A e \in Active : call'[e].on = call'[d].on => e = d
              /\ call'[d].on \in Alive'
        BY <2>0, <3>2 DEF Good, CallsOK, Alive
      <3>4. \A d \in Active :
              call'[d].op = "start" \/ call'[d].at \in {"clear", "joinable", "join"}
                => Mine(d)' # None
        BY <1>2, <2>1, <2>3, <2>6 DEF Good, CallsOK
      <3>5. \A d \in Active : Mine(d)' # None =>
              /\ call'[d].at \in {"mark", "spawn", "keep", "free"} => worker'[Mine(d)'] = None
              /\ call'[d].at \in {"mark", "joinable", "join", "free"} => ~running'[Mine(d)']
              /\ call'[d].at \in {"spawn", "keep"} => running'[Mine(d)']
              /\ call'[d].at = "join" => worker'[Mine(d)'] # None
        BY <1>2, <2>0, <2>1, <2>3, <2>6, <2>7 DEF Good, CallsOK
      <3>6. \A d \in Active : Mine(d)' # None /\ call'[d].at = "keep" =>
              /\ call'[d].new \in Threads
              /\ \A u \in Threads : call'[d].new = u =>
                   thread'[u] # NoThread /\ Target(u)' = Mine(d)'
        <4> SUFFICES ASSUME NEW d \in Active, Mine(d)' # None, call'[d].at = "keep"
                     PROVE  /\ call'[d].new \in Threads
                            /\ \A u \in Threads : call'[d].new = u =>
                                 thread'[u] # NoThread /\ Target(u)' = Mine(d)'
          OBVIOUS
        <4>1. CASE d = c
          BY <4>1, <1>2, <2>1, <2>3, <2>4, <2>5, <2>6
        <4>2. CASE d # c
          BY <4>2, <2>3, <2>6, <3>1 DEF Good, CallsOK
        <4> QED
          BY <4>1, <4>2
      <3> QED
        BY <2>3, <3>3, <3>4, <3>5, <3>6 DEF CallsOK, Target
    <2>10. ImplsOK'
      <3>1. \A d \in Active \ {c} : call'[d] = call[d]
        BY <2>3
      <3>2. \A d \in Active : call[d].at \in {"joinable", "join"} => d # c
        BY <1>2
      <3> QED
        BY <2>0, <2>3, <3>1, <3>2 DEF Good, ImplsOK, Alive
    <2>11. WorkersOK'
      <3>1. \A i \in Impls : worker[i] # None => worker[i] \in Threads /\ worker[i] # t
        BY <1>4 DEF Good, WorkersOK, TypeOK
      <3> QED
        BY <2>0, <2>4, <2>5, <3>1 DEF Good, WorkersOK, Alive
    <2>12. ThreadsOK'
      <3> SUFFICES ASSUME NEW u \in Threads, thread'[u] # NoThread
                   PROVE  /\ thread'[u].at = "made" => Engaged(thread'[u].of)
                          /\ \/ worker[Target(u)'] = u
                             \/ \E d \in Active : call'[d].at = "keep" /\ call'[d].new = u
                                                    /\ Mine(d)' = Target(u)'
        BY <2>0, <2>3 DEF ThreadsOK, Engaged, Alive
      <3>1. CASE u = t
        BY <3>1, <1>2, <2>1, <2>3, <2>4, <2>5, <2>6 DEF Engaged, Mine
      <3>2. CASE u # t
        BY <3>2, <1>2, <2>3, <2>4, <2>5, <2>6 DEF Good, ThreadsOK
      <3> QED
        BY <3>1, <3>2
    <2>13. OnsOK'
      <3>1. \A d \in Registering : call[d].on \in Alive' /\ impl_'[call[d].on] = Mine(d)
        BY <2>0 DEF Good, OnsOK, Mine, Alive
      <3>2. \A u \in Threads, i \in Impls : In(u, i) => thread'[u] = thread[u]
        BY <1>4, <2>4 DEF In, NoThread
      <3>3. \A d \in Registering', i \in Impls :
              d \in Callbacks /\ In(d[1], i) => thread'[d[1]].at \in {"looping", "closing"}
                                                /\ thread'[d[1]].of = i
        BY <3>2 DEF Callbacks, In
      <3>4. \A d \in Active' : call'[d].op = "destroy" =>
              d \in Active /\ call[d].op = "destroy" /\ call[d].on = call'[d].on
        BY <1>2, <2>1, <2>3
      <3> QED
        BY <2>3, <3>1, <3>3, <3>4, OnsKept
    <2> QED
      BY <2>0, <2>9, <2>10, <2>11, <2>12, <2>13 DEF Good
  <1> QED
    BY <1>3, <1>4 DEF Spawn

\* The step of start that keeps its thread in worker.
LEMMA KeepGood ==
  ASSUME TypeOK, Good, NEW c \in Callers, Keep(c)
  PROVE  Good'
  <1>1. At(c, {"start"}, "keep")
    BY DEF Keep
  <1>2. /\ c \in Active /\ c \notin Idle /\ call[c] \in Calls
        /\ call[c].op = "start" /\ call[c].at = "keep" /\ call[c].on \in Alive
        /\ Mine(c) # None /\ Mine(c) \in Impls
    BY <1>1, AtKnown DEF Stopping
  <1> DEFINE n == call[c].new
  <1>3. /\ worker[Mine(c)] = None /\ running[Mine(c)] /\ n \in Threads
        /\ thread[n] # NoThread /\ Target(n) = Mine(c)
    BY <1>2 DEF Good, CallsOK
  <1>4. /\ worker' = [worker EXCEPT ![Mine(c)] = n] /\ Return(c)
        /\ UNCHANGED <<impl_, running, thread, process, broken>>
    BY <1>3 DEF Keep
  <1> HIDE DEF n
  <1>5. /\ Active' = Active \ {c} /\ \A d \in Active : d # c => call'[d] = call[d]
        /\ Registering' = Registering /\ \A d \in Registering : call'[d] = call[d]
    BY <1>2, <1>4, Returned, OfOneKind DEF Return
  <1>6. worker'[Mine(c)] = n /\ \A i \in Impls : i # Mine(c) => worker'[i] = worker[i]
    BY <1>2, <1>4 DEF TypeOK
  <1>7. \A d \in Active : d # c => Mine(d)' = Mine(d)
    BY <1>4, <1>5 DEF Mine
  <1>8. \A t \in Threads : Target(t)' = Target(t)
    BY <1>4 DEF Target
  <1>9. \A d \in Active : d # c /\ Mine(d) # None => Mine(d) \in Impls /\ Mine(d) # Mine(c)
    BY <1>2, OwnImpl DEF Good, CallsOK, TypeOK, Mine
  <1>10. CallsOK'
    BY <1>4, <1>5, <1>6, <1>7, <1>8, <1>9 DEF Good, CallsOK, Alive
  <1>11. ImplsOK'
    BY <1>2, <1>3, <1>4, <1>5, <1>6 DEF Good, ImplsOK, Alive, TypeOK
  <1>12. WorkersOK'
    BY <1>2, <1>3, <1>4, <1>6, <1>8 DEF Good, WorkersOK, Alive, Mine, TypeOK
  <1>13. ThreadsOK'
    <2> SUFFICES ASSUME NEW t \in Threads, thread[t] # NoThread
                 PROVE  \/ worker'[Target(t)] = t
                        \/ \E d \in Active \ {c} :
                             call'[d].at = "keep" /\ call'[d].new = t /\ Mine(d)' = Target(t)
      BY <1>4, <1>5, <1>8 DEF Good, ThreadsOK, Engaged, Alive
    <2>1. CASE worker[Target(t)] = t
      <3>1. Target(t) # Mine(c)
        BY <2>1, <1>3, LifecycleAssumption
      <3> QED
        BY <2>1, <3>1, <1>2, <1>4 DEF TypeOK
    <2>2. ASSUME NEW d \in Active, call[d].at = "keep", call[d].new = t, Mine(d) = Target(t)
          PROVE  \/ worker'[Target(t)] = t
                 \/ \E e \in Active \ {c} :
                      call'[e].at = "keep" /\ call'[e].new = t /\ Mine(e)' = Target(t)
      BY <2>2, <1>5, <1>6, <1>7 DEF n
    <2> QED
      BY <2>1, <2>2 DEF Good, ThreadsOK
  <1>14. OnsOK'
    BY <1>4, <1>5, OnsSame
  <1> QED
    BY <1>4, <1>10, <1>11, <1>12, <1>13, <1>14 DEF Good

\* stop, and the destructor, look at running.
LEMMA StopCheckGood ==
  ASSUME TypeOK, Good, NEW c \in Callers, StopCheck(c)
  PROVE  Good'
  <1>1. At(c, Stopping, "check") /\ OnlyCall
    BY DEF StopCheck
  <1>2. /\ c \in Active /\ c \notin Idle /\ call[c] \in Calls
        /\ call[c].op \in Stopping /\ call[c].at = "check" /\ Mine(c) # None
    BY <1>1, AtKnown DEF Stopping
  <1>3. CASE running[Mine(c)]
    <2>1. call' = [call EXCEPT ![c].at = "clear"]
      BY <1>3 DEF StopCheck, Goto
    <2>2. [call[c] EXCEPT !.at = "clear"] \in Calls
      BY <1>2, StopGoes DEF Stopping
    <2>3. /\ Active' = Active
          /\ call'[c].op = call[c].op /\ call'[c].on = call[c].on /\ call'[c].at = "clear"
          /\ \A d \in Active : d # c => call'[d] = call[d]
          /\ Registering' = Registering /\ \A d \in Registering : call'[d] = call[d]
      BY <1>2, <2>1, <2>2, Moved
    <2> QED
      BY <1>1, <1>2, <2>3, CallMoves
  <1>4. CASE ~running[Mine(c)]
    BY <1>1, <1>2, <1>4, NothingToStop, StopEnds DEF StopCheck
  <1> QED
    BY <1>3, <1>4

\* stop clears running.
LEMMA ClearGood ==
  ASSUME TypeOK, Good, NEW c \in Callers, Clear(c)
  PROVE  Good'
  <1>1. At(c, Stopping, "clear")
    BY DEF Clear
  <1>2. /\ c \in Active /\ c \notin Idle /\ call[c] \in Calls
        /\ call[c].op \in Stopping /\ call[c].at = "clear" /\ Mine(c) # None /\ Mine(c) \in Impls
    BY <1>1, AtKnown DEF Stopping
  <1>3. [call[c] EXCEPT !.at = "joinable"] \in Calls
    BY <1>2, StopGoes
  <1>4. /\ Active' = Active
        /\ call'[c].op = call[c].op /\ call'[c].on = call[c].on /\ call'[c].at = "joinable"
        /\ \A d \in Active : d # c => call'[d] = call[d]
        /\ Registering' = Registering /\ \A d \in Registering : call'[d] = call[d]
    BY <1>2, <1>3, Moved DEF Clear, Goto
  <1>5. /\ ~running'[Mine(c)] /\ UNCHANGED <<impl_, worker, thread, process, broken>>
        /\ \A i \in Impls : i # Mine(c) => running'[i] = running[i]
    BY <1>2 DEF Clear, TypeOK
  <1>6. \A d \in Active : Mine(d)' = Mine(d)
    BY <1>2, <1>4, <1>5 DEF Mine
  <1>7. \A d \in Active : d # c /\ Mine(d) # None => Mine(d) \in Impls /\ Mine(d) # Mine(c)
    BY <1>2, OwnImpl DEF Good, CallsOK, TypeOK, Mine
  <1>8. CallsOK'
    BY <1>2, <1>4, <1>5, <1>6, <1>7 DEF Good, CallsOK, Target, Alive
  <1>9. ImplsOK'
    <2> SUFFICES ASSUME NEW s \in Alive, impl_[s] # None, ~running'[impl_[s]],
                        worker[impl_[s]] # None
                 PROVE  \E d \in Active : call'[d].on = s /\ call'[d].at \in {"joinable", "join"}
      BY <1>4, <1>5 DEF Good, ImplsOK, Alive
    <2>1. CASE impl_[s] = Mine(c)
      BY <2>1, <1>2, <1>4, OwnImpl
    <2>2. CASE impl_[s] # Mine(c)
      <3>1. ~running[impl_[s]]
        BY <2>2, <1>5 DEF TypeOK
      <3> QED
        BY <3>1, <1>2, <1>4 DEF Good, ImplsOK
    <2> QED
      BY <2>1, <2>2
  <1>10. WorkersOK'
    BY <1>5 DEF Good, WorkersOK, Target, Alive
  <1>11. ThreadsOK'
    BY <1>2, <1>4, <1>5, <1>6 DEF Good, ThreadsOK, Target, Alive, Engaged
  <1>12. OnsOK'
    BY <1>4, <1>5, OnsSame
  <1> QED
    BY <1>5, <1>8, <1>9, <1>10, <1>11, <1>12 DEF Good

\* stop asks whether the thread is joinable.
LEMMA JoinableGood ==
  ASSUME TypeOK, Good, NEW c \in Callers, Joinable(c)
  PROVE  Good'
  <1>1. At(c, Stopping, "joinable") /\ OnlyCall
    BY DEF Joinable
  <1>2. /\ c \in Active /\ c \notin Idle /\ call[c] \in Calls
        /\ call[c].op \in Stopping /\ call[c].at = "joinable" /\ Mine(c) # None
    BY <1>1, AtKnown DEF Stopping
  <1>a. ~running[Mine(c)]
    BY <1>2 DEF Good, CallsOK
  <1>3. CASE worker[Mine(c)] # None
    <2>1. call' = [call EXCEPT ![c].at = "join"]
      BY <1>3 DEF Joinable, Goto
    <2>2. [call[c] EXCEPT !.at = "join"] \in Calls
      BY <1>2, StopGoes DEF Stopping
    <2>3. /\ Active' = Active
          /\ call'[c].op = call[c].op /\ call'[c].on = call[c].on /\ call'[c].at = "join"
          /\ \A d \in Active : d # c => call'[d] = call[d]
          /\ Registering' = Registering /\ \A d \in Registering : call'[d] = call[d]
      BY <1>2, <2>1, <2>2, Moved
    <2> QED
      BY <1>1, <1>2, <1>3, <1>a, <2>3, CallMoves
  <1>4. CASE worker[Mine(c)] = None
    BY <1>1, <1>2, <1>4, <1>a, StopEnds DEF Joinable
  <1> QED
    BY <1>3, <1>4

\* stop joins the thread.
LEMMA JoinGood ==
  ASSUME TypeOK, Good, NEW c \in Callers, Join(c)
  PROVE  Good'
  <1>1. At(c, Stopping, "join")
    BY DEF Join
  <1>2. /\ c \in Active /\ c \notin Idle /\ call[c] \in Calls
        /\ call[c].op \in Stopping /\ call[c].at = "join" /\ call[c].on \in Alive
        /\ Mine(c) # None /\ Mine(c) \in Impls
    BY <1>1, AtKnown DEF Stopping
  <1>3. PICK t \in Threads :
          /\ worker[Mine(c)] = t /\ thread[t].at = "exited"
          /\ worker' = [worker EXCEPT ![Mine(c)] = None]
          /\ thread' = [thread EXCEPT ![t] = NoThread]
    BY DEF Join
  <1>4. Stopped(c) /\ UNCHANGED <<impl_, running, process, broken>>
    BY DEF Join
  <1>5. ~running[Mine(c)] /\ Target(t) = Mine(c) /\ t # None
    BY <1>2, <1>3, LifecycleAssumption DEF Good, CallsOK, WorkersOK
  <1>6. /\ worker'[Mine(c)] = None /\ \A i \in Impls : i # Mine(c) => worker'[i] = worker[i]
        /\ thread'[t] = NoThread /\ \A u \in Threads : u # t => thread'[u] = thread[u]
    BY <1>2, <1>3 DEF TypeOK
  <1>7. \A u \in Threads : u # t => Target(u)' = Target(u)
    BY <1>4, <1>6 DEF Target
  <1>8. \A d \in Active : d # c => call'[d] = call[d]
    <2>1. CASE call[c].op = "destroy"
      <3>1. [call[c] EXCEPT !.at = "free"] \in Calls
        BY <1>2, <2>1, DestroyGoes
      <3> QED
        BY <1>2, <1>4, <2>1, <3>1, Moved DEF Stopped, Goto
    <2>2. CASE call[c].op # "destroy"
      BY <1>2, <1>4, <2>2, Returned DEF Stopped, Return
    <2> QED
      BY <2>1, <2>2
  <1>9. \/ /\ Active' = Active
           /\ call'[c].op = "destroy" /\ call'[c].on = call[c].on /\ call'[c].at = "free"
        \/ Active' = Active \ {c}
    <2>1. CASE call[c].op = "destroy"
      <3>1. [call[c] EXCEPT !.at = "free"] \in Calls
        BY <1>2, <2>1, DestroyGoes
      <3> QED
        BY <1>2, <1>4, <2>1, <3>1, Moved DEF Stopped, Goto
    <2>2. CASE call[c].op # "destroy"
      BY <1>2, <1>4, <2>2, Returned DEF Stopped, Return
    <2> QED
      BY <2>1, <2>2
  <1>10. \A d \in Active : d # c => Mine(d)' = Mine(d)
    BY <1>4, <1>8 DEF Mine
  <1>11. \A d \in Active : d # c /\ Mine(d) # None => Mine(d) \in Impls /\ Mine(d) # Mine(c)
    BY <1>2, OwnImpl DEF Good, CallsOK, TypeOK, Mine
  <1>12. \A d \in Active, u \in Threads :
           d # c /\ Mine(d) # None /\ call[d].at = "keep" /\ call[d].new = u =>
             thread'[u] # NoThread /\ Target(u)' = Mine(d)
    <2> SUFFICES ASSUME NEW d \in Active, NEW u \in Threads, d # c, Mine(d) # None,
                        call[d].at = "keep", call[d].new = u
                 PROVE  thread'[u] # NoThread /\ Target(u)' = Mine(d)
      OBVIOUS
    <2>1. thread[u] # NoThread /\ Target(u) = Mine(d)
      BY DEF Good, CallsOK
    <2>2. u # t
      BY <2>1, <1>5, <1>11
    <2> QED
      BY <2>1, <2>2, <1>6, <1>7
  <1>13. CallsOK'
    <2>1. \A d \in Active' :
            /\ d \in Controllers
            /\ \A e \in Active' : call'[e].on = call'[d].on => e = d
            /\ call'[d].on \in Alive'
      BY <1>2, <1>4, <1>8, <1>9 DEF Good, CallsOK, Alive
    <2>2. \A d \in Active' : d # c =>
            (call'[d].op = "start" \/ call'[d].at \in {"clear", "joinable", "join"}
               => Mine(d)' # None)
      BY <1>8, <1>9, <1>10 DEF Good, CallsOK
    <2>3. \A d \in Active' : d # c /\ Mine(d)' # None =>
            /\ call'[d].at \in {"mark", "spawn", "keep", "free"} => worker'[Mine(d)'] = None
            /\ call'[d].at \in {"mark", "joinable", "join", "free"} => ~running'[Mine(d)']
            /\ call'[d].at \in {"spawn", "keep"} => running'[Mine(d)']
            /\ call'[d].at = "join" => worker'[Mine(d)'] # None
      BY <1>4, <1>6, <1>8, <1>9, <1>10, <1>11 DEF Good, CallsOK
    <2>4. \A d \in Active' : d # c /\ Mine(d)' # None /\ call'[d].at = "keep" =>
            /\ call'[d].new \in Threads
            /\ \A u \in Threads : call'[d].new = u =>
                 thread'[u] # NoThread /\ Target(u)' = Mine(d)'
      BY <1>8, <1>9, <1>10, <1>12 DEF Good, CallsOK
    <2>5. c \in Active' =>
            /\ call'[c].op = "destroy" /\ call'[c].at = "free" /\ Mine(c)' = Mine(c)
            /\ worker'[Mine(c)'] = None /\ ~running'[Mine(c)']
      BY <1>4, <1>5, <1>6, <1>9 DEF Mine
    <2> QED
      BY <2>1, <2>2, <2>3, <2>4, <2>5 DEF CallsOK, Target
  <1>14. ImplsOK'
    <2> SUFFICES ASSUME NEW s \in Alive, impl_[s] # None, ~running[impl_[s]],
                        worker'[impl_[s]] # None
                 PROVE  \E d \in Active' : call'[d].on = s /\ call'[d].at \in {"joinable", "join"}
      BY <1>4 DEF Good, ImplsOK, Alive
    <2>1. impl_[s] # Mine(c) /\ s # call[c].on
      BY <1>6 DEF Mine
    <2>2. worker[impl_[s]] # None
      BY <1>6, <2>1 DEF TypeOK
    <2>3. PICK d \in Active : call[d].on = s /\ call[d].at \in {"joinable", "join"}
      BY <2>2 DEF Good, ImplsOK
    <2> QED
      BY <2>1, <2>3, <1>8, <1>9
  <1>15. WorkersOK'
    <2>1. \A i \in Impls : worker'[i] # None =>
            worker'[i] = worker[i] /\ worker[i] \in Threads /\ worker[i] # t
      BY <1>2, <1>5, <1>6 DEF Good, WorkersOK, TypeOK
    <2> QED
      BY <1>4, <1>6, <1>7, <2>1 DEF Good, WorkersOK, Alive
  <1>16. ThreadsOK'
    <2> SUFFICES ASSUME NEW u \in Threads, thread'[u] # NoThread
                 PROVE  /\ thread'[u].at = "made" => Engaged(thread'[u].of)
                        /\ \/ worker'[Target(u)] = u
                           \/ \E d \in Active' : call'[d].at = "keep" /\ call'[d].new = u
                                                   /\ Mine(d)' = Target(u)
      BY <1>4, <1>6, <1>7 DEF ThreadsOK, Engaged, Alive
    <2>1. u # t /\ thread'[u] = thread[u] /\ thread[u] # NoThread
      BY <1>6
    <2>2. CASE worker[Target(u)] = u
      <3>1. Target(u) # Mine(c)
        BY <2>1, <2>2, <1>3
      <3>2. worker'[Target(u)] = u
        BY <2>2, <3>1, <1>2, <1>3 DEF TypeOK
      <3> QED
        BY <2>1, <3>2 DEF Good, ThreadsOK
    <2>3. ASSUME NEW d \in Active, call[d].at = "keep", call[d].new = u, Mine(d) = Target(u)
          PROVE  \E e \in Active' : call'[e].at = "keep" /\ call'[e].new = u
                                      /\ Mine(e)' = Target(u)
      <3>1. d # c
        BY <2>3, <1>2
      <3> QED
        BY <2>3, <3>1, <1>8, <1>9, <1>10
    <2> QED
      BY <2>1, <2>2, <2>3 DEF Good, ThreadsOK
  <1>17. OnsOK'
    <2>1. Registering' = Registering /\ \A d \in Registering : call'[d] = call[d]
      <3>1. CASE call[c].op = "destroy"
        <4>1. [call[c] EXCEPT !.at = "free"] \in Calls
          BY <1>2, <3>1, DestroyGoes
        <4> QED
          BY <1>2, <1>4, <3>1, <4>1, Moved DEF Stopped, Goto
      <3>2. CASE call[c].op # "destroy"
        BY <1>2, <1>4, <3>2, Returned, OfOneKind DEF Stopped, Return
      <3> QED
        BY <3>1, <3>2
    <2>2. \A d \in Registering : call[d].on \in Alive' /\ impl_'[call[d].on] = Mine(d)
      BY <1>4 DEF Good, OnsOK, Mine, Alive
    <2>3. \A u \in Threads, i \in Impls : In(u, i) => thread'[u] = thread[u]
      BY <1>3, <1>6 DEF In, Join
    <2>4. \A d \in Registering', i \in Impls :
            d \in Callbacks /\ In(d[1], i) => thread'[d[1]].at \in {"looping", "closing"}
                                              /\ thread'[d[1]].of = i
      BY <2>3 DEF Callbacks, In
    <2>5. \A d \in Active' : call'[d].op = "destroy" =>
            d \in Active /\ call[d].op = "destroy" /\ call[d].on = call'[d].on
      <3>1. CASE call[c].op = "destroy"
        <4>1. [call[c] EXCEPT !.at = "free"] \in Calls
          BY <1>2, <3>1, DestroyGoes
        <4> QED
          BY <1>2, <1>4, <3>1, <4>1, Moved DEF Stopped, Goto
      <3>2. CASE call[c].op # "destroy"
        BY <1>2, <1>4, <3>2, Returned DEF Stopped, Return
      <3> QED
        BY <3>1, <3>2
    <2> QED
      BY <2>1, <2>2, <2>4, <2>5, OnsKept
  <1> QED
    BY <1>4, <1>13, <1>14, <1>15, <1>16, <1>17 DEF Good

\* No join throws or is made twice.
LEMMA NoBadJoin ==
  ASSUME TypeOK, Good, NEW c \in Callers
  PROVE  ~JoinThrows(c) /\ ~JoinTwice(c)
  <1> SUFFICES ASSUME At(c, Stopping, "join"),
                      \/ worker[Mine(c)] = None
                      \/ c \in Callbacks
                      \/ \E d \in Callers \ {c} : At(d, Stopping, "join") /\ Mine(d) = Mine(c)
               PROVE  FALSE
    BY DEF JoinThrows, JoinTwice
  <1>1. c \in Active /\ Mine(c) # None /\ call[c].at = "join"
    BY AtKnown DEF Stopping
  <1>2. c \in Controllers /\ worker[Mine(c)] # None
    BY <1>1 DEF Good, CallsOK
  <1>3. PICK d \in Callers \ {c} : At(d, Stopping, "join") /\ Mine(d) = Mine(c)
    BY <1>2, LifecycleAssumption
  <1>4. d \in Active
    BY <1>3, AtKnown DEF Stopping
  <1> QED
    BY <1>1, <1>3, <1>4, OwnImpl

\* A call on a subscriber without an Impl is a stop with nothing to do.
LEMMA NoImplGood ==
  ASSUME TypeOK, Good, NEW c \in Callers, NoImpl(c)
  PROVE  Good'
  <1>0. c \notin Registering
    BY DEF Good, OnsOK, NoImpl, Engaged, Mine
  <1>1. c \in Active /\ call[c] \in Calls /\ call[c].at # "free"
    BY <1>0 DEF NoImpl, Active, Registering, TypeOK, Idle
  <1>2. call[c].on \in Alive /\ Mine(c) = None
    BY <1>1 DEF Good, CallsOK, NoImpl, Engaged, Mine
  <1>3. call[c].op # "start" /\ call[c].at \notin {"clear", "joinable", "join"}
    BY <1>1, <1>2 DEF Good, CallsOK
  <1>4. call[c].op \in Stopping /\ call[c].at = "check"
    BY <1>1, <1>3 DEF Calls, Stopping, Active
  <1>5. Stopped(c) /\ OnlyCall
    BY <1>2, <1>4 DEF NoImpl
  <1> QED
    BY <1>1, <1>2, <1>4, <1>5, StopEnds

\* An Impl that has no thread to join, and that no call on another subscriber is
\* about to give one, dies alone.
LEMMA Unserved ==
  ASSUME TypeOK, Good, NEW i \in Impls, worker[i] = None,
         \A d \in Active : call[d].at = "keep" => Mine(d) # i
  PROVE  \A t \in Threads : thread[t] # NoThread => Target(t) # i
  BY LifecycleAssumption DEF Good, ThreadsOK

\* The fate of the process when such an Impl dies.
LEMMA DiesAlone ==
  ASSUME TypeOK, Good, NEW i \in Impls \cup {None},
         i # None => worker[i] = None /\ \A d \in Active : call[d].at = "keep" => Mine(d) # i
  PROVE  Fate(i) = "alive"
  <1>1. \A t \in Threads : ~In(t, i)
    <2> SUFFICES ASSUME NEW t \in Threads, In(t, i)
                 PROVE  FALSE
      OBVIOUS
    <2>1. thread[t] # NoThread /\ Target(t) = i /\ thread[t].of \in Impls
      BY DEF In, NoThread, Target, TypeOK, ThreadStates
    <2>2. i # None
      BY <2>1, LifecycleAssumption DEF In
    <2> QED
      BY <2>1, <2>2, Unserved
  <1> QED
    BY <1>1 DEF Fate

\* The end of the destructor.
LEMMA FreeGood ==
  ASSUME TypeOK, Good, NEW c \in Callers, Free(c)
  PROVE  Good'
  <1>0. /\ c \in Active /\ call[c].at = "free" /\ call[c].op = "destroy"
    BY DEF Free, Active, Idle, TypeOK, Calls
  <1>1. c \in Active /\ call[c].at = "free" /\ call[c].on \in Alive
    BY <1>0 DEF Good, CallsOK
  <1>2. /\ process' = Fate(Mine(c))
        /\ impl_' = [x \in Alive \ {call[c].on} |-> impl_[x]]
        /\ Return(c) /\ UNCHANGED <<running, worker, thread, broken>>
    BY <1>1 DEF Free
  <1>3. /\ Mine(c) \in Impls \cup {None}
        /\ Mine(c) # None =>
             worker[Mine(c)] = None /\ \A d \in Active : call[d].at = "keep" => Mine(d) # Mine(c)
    BY <1>1, OwnImpl DEF Good, CallsOK, TypeOK, Mine
  <1>4. process' = "alive"
    BY <1>2, <1>3, DiesAlone
  <1>5. /\ Active' = Active \ {c} /\ \A d \in Active : d # c => call'[d] = call[d]
        /\ Registering' = Registering /\ \A d \in Registering : call'[d] = call[d]
    BY <1>1, <1>2, Returned, OfOneKind DEF Return, Active
  <1>6. /\ Alive' = Alive \ {call[c].on}
        /\ \A s \in Alive : s # call[c].on => impl_'[s] = impl_[s]
    BY <1>2 DEF Alive
  <1>7. \A d \in Active : d # c => call[d].on # call[c].on /\ Mine(d)' = Mine(d)
    BY <1>1, <1>5, <1>6 DEF Good, CallsOK, Mine
  <1>8. \A t \in Threads : thread[t] # NoThread =>
          /\ Target(t)' = Target(t)
          /\ thread[t].at = "made" => thread[t].of # call[c].on
    <2> SUFFICES ASSUME NEW t \in Threads, thread[t] # NoThread
                 PROVE  /\ Target(t)' = Target(t)
                        /\ thread[t].at = "made" => thread[t].of # call[c].on
      OBVIOUS
    <2>1. CASE thread[t].at = "made"
      <3>1. Engaged(thread[t].of)
        BY <2>1 DEF Good, ThreadsOK
      <3>2. thread[t].of # call[c].on
        BY <2>1, <3>1, <1>3, Unserved DEF Engaged, Target, Mine
      <3> QED
        BY <2>1, <3>1, <3>2, <1>2, <1>6 DEF Target, Engaged
    <2>2. CASE thread[t].at # "made"
      BY <2>2, <1>2 DEF Target
    <2> QED
      BY <2>1, <2>2
  <1>9. CallsOK'
    <2>1. \A d \in Active' :
            /\ d \in Controllers
            /\ \A e \in Active' : call'[e].on = call'[d].on => e = d
            /\ call'[d].on \in Alive'
            /\ call'[d].op = "start" \/ call'[d].at \in {"clear", "joinable", "join"}
                 => Mine(d)' # None
      BY <1>5, <1>6, <1>7 DEF Good, CallsOK
    <2>2. \A d \in Active' : Mine(d)' # None =>
            /\ call'[d].at \in {"mark", "spawn", "keep", "free"} => worker'[Mine(d)'] = None
            /\ call'[d].at \in {"mark", "joinable", "join", "free"} => ~running'[Mine(d)']
            /\ call'[d].at \in {"spawn", "keep"} => running'[Mine(d)']
            /\ call'[d].at = "join" => worker'[Mine(d)'] # None
      BY <1>2, <1>5, <1>7 DEF Good, CallsOK
    <2>3. \A d \in Active', u \in Threads :
            Mine(d)' # None /\ call'[d].at = "keep" /\ call'[d].new = u =>
              thread'[u] # NoThread /\ Target(u)' = Mine(d)'
      BY <1>2, <1>5, <1>7, <1>8 DEF Good, CallsOK
    <2>4. \A d \in Active' : Mine(d)' # None /\ call'[d].at = "keep" => call'[d].new \in Threads
      BY <1>5, <1>7 DEF Good, CallsOK
    <2> QED
      BY <2>1, <2>2, <2>3, <2>4 DEF CallsOK, Target
  <1>10. ImplsOK'
    BY <1>2, <1>5, <1>6, <1>7 DEF Good, ImplsOK
  <1>11. WorkersOK'
    <2>1. \A i \in Impls : worker[i] # None => worker[i] \in Threads /\ Mine(c) # i
      BY <1>3, LifecycleAssumption DEF TypeOK
    <2>2. \A i \in Impls, u \in Threads : worker[i] = u /\ worker[i] # None =>
            thread'[u] # NoThread /\ Target(u)' = i
      BY <1>2, <1>8 DEF Good, WorkersOK
    <2>3. \A i \in Impls : worker[i] # None => \E s \in Alive' : impl_'[s] = i
      BY <1>6, <2>1 DEF Good, WorkersOK, Mine
    <2> QED
      BY <1>2, <2>1, <2>2, <2>3 DEF WorkersOK, Target
  <1>12. ThreadsOK'
    BY <1>1, <1>2, <1>5, <1>6, <1>7, <1>8 DEF Good, ThreadsOK, Engaged
  <1>13. OnsOK'
    <2>1. \A d \in Registering : call[d].on # call[c].on
      <3> SUFFICES ASSUME NEW d \in Registering, call[d].on = call[c].on
                   PROVE  FALSE
        OBVIOUS
      <3>1. Mine(c) # None /\ Own(d, call[d].on)
        BY <1>0 DEF Good, OnsOK, Mine
      <3>2. d[1] \in Threads /\ In(d[1], Mine(c))
        BY <3>1 DEF Own, Callbacks, Mine
      <3>3. thread[d[1]] # NoThread /\ Target(d[1]) = Mine(c)
        BY <3>2 DEF In, NoThread, Target
      <3> QED
        BY <1>3, <3>1, <3>2, <3>3, Unserved
    <2>2. \A d \in Registering : call[d].on \in Alive' /\ impl_'[call[d].on] = Mine(d)
      BY <1>6, <2>1 DEF Good, OnsOK, Mine
    <2>3. \A d \in Active' : call'[d].op = "destroy" =>
            d \in Active /\ call[d].op = "destroy" /\ call[d].on = call'[d].on
      BY <1>5
    <2>4. thread' = thread
      BY <1>2
    <2> QED
      BY <1>5, <2>2, <2>3, <2>4, OnsKept DEF In
  <1> QED
    BY <1>4, <1>9, <1>10, <1>11, <1>12, <1>13 DEF Good

\* A new subscriber takes an Impl that nothing uses.
LEMMA ConstructGood ==
  ASSUME TypeOK, Good, NEW s \in Subscribers, NEW i \in Impls, Construct(s, i)
  PROVE  Good'
  <1>1. /\ s \notin Alive /\ \A x \in Alive : impl_[x] # i
        /\ UNCHANGED <<worker, thread, call, process, broken>>
    BY DEF Construct
  <1>2. /\ Alive' = Alive \cup {s} /\ impl_'[s] = i
        /\ \A x \in Alive : impl_'[x] = impl_[x]
    BY <1>1 DEF Construct, Alive
  <1>3. ~running'[i] /\ \A j \in Impls : j # i => running'[j] = running[j]
    BY DEF Construct, TypeOK
  <1>4. worker[i] = None
    BY <1>1 DEF Good, WorkersOK
  <1>5. Active' = Active /\ \A d \in Active : Mine(d)' = Mine(d) /\ Mine(d) # i
    BY <1>1, <1>2 DEF Active, Idle, Mine, Good, CallsOK
  <1>6. \A t \in Threads : thread[t] # NoThread =>
          /\ Target(t)' = Target(t)
          /\ thread[t].at = "made" => thread[t].of \in Alive
    BY <1>1, <1>2 DEF Good, ThreadsOK, Engaged, Target
  <1>7. \A d \in Active : Mine(d) # None => Mine(d) \in Impls
    BY DEF Good, CallsOK, Mine, TypeOK
  <1>8. CallsOK'
    <2>1. \A d \in Active' : Mine(d)' # None => running'[Mine(d)'] = running[Mine(d)]
      BY <1>3, <1>5, <1>7
    <2>2. \A d \in Active, u \in Threads :
            Mine(d)' # None /\ call[d].at = "keep" /\ call[d].new = u =>
              thread[u] # NoThread /\ Target(u)' = Mine(d)'
      BY <1>5, <1>6 DEF Good, CallsOK
    <2> QED
      BY <1>1, <1>2, <1>5, <2>1, <2>2 DEF Good, CallsOK, Target
  <1>9. ImplsOK'
    BY <1>1, <1>2, <1>3, <1>4, <1>5 DEF Good, ImplsOK, TypeOK
  <1>10. WorkersOK'
    <2>1. \A j \in Impls, u \in Threads : worker[j] = u /\ worker[j] # None =>
            thread[u] # NoThread /\ Target(u)' = j
      BY <1>6 DEF Good, WorkersOK
    <2> QED
      BY <1>1, <1>2, <2>1 DEF Good, WorkersOK, Target, TypeOK
  <1>11. ThreadsOK'
    BY <1>1, <1>2, <1>5, <1>6 DEF Good, ThreadsOK, Engaged
  <1>12. OnsOK'
    <2>1. Registering' = Registering /\ call' = call /\ thread' = thread
      BY <1>1 DEF Registering, Idle
    <2>2. \A d \in Registering : call[d].on \in Alive' /\ impl_'[call[d].on] = Mine(d)
      BY <1>2 DEF Good, OnsOK, Mine
    <2> QED
      BY <1>5, <2>1, <2>2, OnsKept DEF In
  <1> QED
    BY <1>1, <1>8, <1>9, <1>10, <1>11, <1>12 DEF Good

\* A move that breaks no rule.
LEMMA MoveGood ==
  ASSUME TypeOK, Good, NEW s \in Subscribers, NEW d \in Subscribers, Move(s, d), broken' = {}
  PROVE  Good'
  <1> DEFINE over == IF d \in Alive THEN impl_[d] ELSE None
  <1>1. /\ s \in Alive /\ d # s /\ process' = Fate(over)
        /\ UNCHANGED <<running, worker, thread, call>>
    BY DEF Move
  <1>2. /\ ~Busy(s) /\ ~Busy(d) /\ (over # None => ~running[over])
        /\ \A t \in Threads : thread[t].at = "made" => thread[t].of \notin {s, d}
    BY DEF Move
  <1>3. /\ Alive' = Alive \cup {d} /\ impl_'[d] = impl_[s] /\ impl_'[s] = None
        /\ \A x \in Alive : x \notin {s, d} => impl_'[x] = impl_[x]
    BY <1>1 DEF Move, Alive
  <1>4. Active' = Active /\ \A c \in Active : call[c].on \notin {s, d}
    BY <1>1, <1>2 DEF Active, Idle, Busy
  <1>5. over \in Impls \cup {None} /\ (over # None => worker[over] = None)
    BY <1>2, <1>4 DEF Good, ImplsOK, TypeOK
  <1>6. \A c \in Active : over # None => Mine(c) # over
    BY <1>4 DEF Good, CallsOK, ImplsOK, Mine
  <1>7. process' = "alive"
    BY <1>1, <1>5, <1>6, DiesAlone
  <1> HIDE DEF over
  <1>8. \A c \in Active : Mine(c)' = Mine(c)
    BY <1>1, <1>3, <1>4 DEF Mine, Good, CallsOK
  <1>9. \A t \in Threads : thread[t] # NoThread => Target(t)' = Target(t)
    BY <1>1, <1>2, <1>3 DEF Target, Good, ThreadsOK, Engaged
  <1>10. CallsOK'
    <2>1. \A c \in Active, u \in Threads :
            Mine(c)' # None /\ call[c].at = "keep" /\ call[c].new = u =>
              thread[u] # NoThread /\ Target(u)' = Mine(c)'
      BY <1>8, <1>9 DEF Good, CallsOK
    <2> QED
      BY <1>1, <1>3, <1>4, <1>8, <2>1 DEF Good, CallsOK, Target
  <1>11. ImplsOK'
    BY <1>1, <1>3, <1>4 DEF Good, ImplsOK
  <1>12. WorkersOK'
    <2>1. \A i \in Impls, u \in Threads : worker[i] = u /\ worker[i] # None =>
            thread[u] # NoThread /\ Target(u)' = i
      BY <1>9 DEF Good, WorkersOK
    <2>2. \A i \in Impls : worker[i] # None => \E x \in Alive' : impl_'[x] = i
      BY <1>1, <1>3, <1>5 DEF Good, WorkersOK, over
    <2> QED
      BY <1>1, <2>1, <2>2 DEF WorkersOK, Target, TypeOK
  <1>13. ThreadsOK'
    BY <1>1, <1>2, <1>3, <1>4, <1>8, <1>9 DEF Good, ThreadsOK, Engaged
  <1>14. OnsOK'
    <2>1. Registering' = Registering /\ call' = call /\ thread' = thread
      BY <1>1 DEF Registering, Idle
    <2>2. \A c \in Registering : call[c].on \notin {s, d}
      BY <1>2 DEF Registering, Busy
    <2>3. \A c \in Registering : call[c].on \in Alive' /\ impl_'[call[c].on] = Mine(c)
      BY <1>3, <2>2 DEF Good, OnsOK, Mine
    <2> QED
      BY <1>4, <2>1, <2>3, OnsKept DEF In
  <1> QED
    BY <1>7, <1>10, <1>11, <1>12, <1>13, <1>14 DEF Good

\* A call of on that breaks no rule.
LEMMA OnCallGood ==
  ASSUME TypeOK, Good, NEW c \in Callers, NEW s \in Subscribers, Call(c, "on", s), broken' = {}
  PROVE  Good'
  <1> DEFINE k == [op |-> "on", at |-> "register", on |-> s, new |-> None]
  <1>1. /\ s \in Alive /\ c \in Idle /\ impl_[s] # None
        /\ \A d \in Callers \ Idle : call[d].on = s /\ call[d].op = "destroy" => Own(c, s)
        /\ UNCHANGED <<impl_, running, worker, thread, process>>
    BY DEF Call, Clash
  <1>2. k \in Calls /\ k # None
    BY LifecycleAssumption DEF Calls
  <1>3. k.op = "on" /\ k.on = s
    OBVIOUS
  <1>4. call' = [call EXCEPT ![c] = k]
    BY DEF Call
  <1> HIDE DEF k
  <1>5. call'[c] = k /\ \A d \in Callers : d # c => call'[d] = call[d]
    BY <1>4 DEF TypeOK
  <1>6. /\ Active' = Active /\ \A d \in Active : call'[d] = call[d]
        /\ Registering' = Registering \cup {c} /\ c \notin Registering
        /\ \A d \in Registering : call'[d] = call[d]
    BY <1>1, <1>2, <1>3, <1>5 DEF Active, Registering, Idle
  <1>7. CallsOK'
    BY <1>1, <1>6 DEF Good, CallsOK, Mine, Target, Alive
  <1>8. OnsOK'
    <2> SUFFICES ASSUME NEW d \in Registering'
                 PROVE  /\ call'[d].on \in Alive' /\ Mine(d)' # None
                        /\ \A e \in Active' :
                             call'[e].op = "destroy" /\ call'[e].on = call'[d].on =>
                               Own(d, call'[d].on)
      BY <1>1 DEF OnsOK, Own, Engaged, In, Alive
    <2>1. CASE d = c
      BY <2>1, <1>1, <1>3, <1>5, <1>6 DEF Mine, Active, Alive
    <2>2. CASE d # c
      BY <2>2, <1>1, <1>6 DEF Good, OnsOK, Mine, Alive
    <2> QED
      BY <2>1, <2>2
  <1>9. ImplsOK'
    BY <1>1, <1>6 DEF Good, ImplsOK, Alive
  <1>10. WorkersOK'
    BY <1>1 DEF Good, WorkersOK, Target, Alive
  <1>11. ThreadsOK'
    BY <1>1, <1>6 DEF Good, ThreadsOK, Target, Mine, Alive, Engaged
  <1> QED
    BY <1>1, <1>7, <1>8, <1>9, <1>10, <1>11 DEF Good

\* Another call that breaks no rule.
LEMMA CallGood ==
  ASSUME TypeOK, Good, NEW c \in Callers, NEW op \in {"start", "stop", "destroy"},
         NEW s \in Subscribers, Call(c, op, s), broken' = {}
  PROVE  Good'
  <1> DEFINE k == [op |-> op, at |-> "check", on |-> s, new |-> None]
  <1>1. /\ s \in Alive /\ c \in Idle /\ c \in Controllers
        /\ op = "start" => impl_[s] # None
        /\ \A d \in Callers \ Idle : call[d].on = s =>
             call[d].op = "on" /\ (op = "destroy" => Own(d, s))
        /\ UNCHANGED <<impl_, running, worker, thread, process>>
    BY DEF Call, Clash, Callers
  <1>2. k \in Calls /\ k # None
    BY LifecycleAssumption DEF Calls
  <1>3. k.op = op /\ k.at = "check" /\ k.on = s
    OBVIOUS
  <1>4. call' = [call EXCEPT ![c] = k]
    BY DEF Call
  <1> HIDE DEF k
  <1>a. call'[c] = k /\ \A d \in Callers : d # c => call'[d] = call[d]
    BY <1>4 DEF TypeOK
  <1>5. /\ Active' = Active \cup {c} /\ call'[c] = k
        /\ \A d \in Active : call'[d] = call[d] /\ call[d].on # s
        /\ Registering' = Registering /\ \A d \in Registering : call'[d] = call[d]
    BY <1>1, <1>2, <1>3, <1>a DEF Active, Registering, Idle
  <1>6. \A d \in Active : Mine(d)' = Mine(d)
    BY <1>1, <1>5 DEF Mine
  <1>7. \A t \in Threads : Target(t)' = Target(t)
    BY <1>1 DEF Target
  <1>8. CallsOK'
    <2>1. \A d \in Active, u \in Threads :
            Mine(d)' # None /\ call[d].at = "keep" /\ call[d].new = u =>
              thread[u] # NoThread /\ Target(u)' = Mine(d)'
      BY <1>6, <1>7 DEF Good, CallsOK
    <2>2. \A d \in Active' :
            /\ d \in Controllers
            /\ \A e \in Active' : call'[e].on = call'[d].on => e = d
            /\ call'[d].on \in Alive'
      BY <1>1, <1>3, <1>5 DEF Good, CallsOK, Alive
    <2>3. \A d \in Active :
            (call'[d].op = "start" \/ call'[d].at \in {"clear", "joinable", "join"}
               => Mine(d)' # None)
      BY <1>5, <1>6 DEF Good, CallsOK
    <2>4. \A d \in Active : Mine(d)' # None =>
            /\ call'[d].at \in {"mark", "spawn", "keep", "free"} => worker'[Mine(d)'] = None
            /\ call'[d].at \in {"mark", "joinable", "join", "free"} => ~running'[Mine(d)']
            /\ call'[d].at \in {"spawn", "keep"} => running'[Mine(d)']
            /\ call'[d].at = "join" => worker'[Mine(d)'] # None
            /\ call'[d].at = "keep" => call'[d].new \in Threads
      BY <1>1, <1>5, <1>6 DEF Good, CallsOK
    <2>5. call'[c].at = "check" /\ (call'[c].op = "start" => Mine(c)' # None)
      BY <1>1, <1>3, <1>5 DEF Mine
    <2> QED
      BY <1>1, <1>5, <2>1, <2>2, <2>3, <2>4, <2>5 DEF CallsOK, Target
  <1>9. ImplsOK'
    BY <1>1, <1>5 DEF Good, ImplsOK, Alive
  <1>10. WorkersOK'
    BY <1>1 DEF Good, WorkersOK, Target, Alive
  <1>11. ThreadsOK'
    BY <1>1, <1>5, <1>6, <1>7 DEF Good, ThreadsOK, Engaged, Alive
  <1>12. OnsOK'
    <2> SUFFICES ASSUME NEW d \in Registering
                 PROVE  /\ call[d].on \in Alive /\ Mine(d) # None
                        /\ \A e \in Active' :
                             call'[e].op = "destroy" /\ call'[e].on = call[d].on =>
                               Own(d, call[d].on)
      BY <1>1, <1>5 DEF OnsOK, Own, Engaged, In, Mine, Alive
    <2>1. /\ call[d].on \in Alive /\ Mine(d) # None
          /\ \A e \in Active :
               call[e].op = "destroy" /\ call[e].on = call[d].on => Own(d, call[d].on)
      BY DEF Good, OnsOK
    <2>2. op = "destroy" /\ call[d].on = s => Own(d, call[d].on)
      BY <1>1 DEF Registering
    <2> QED
      BY <1>3, <1>5, <2>1, <2>2
  <1> QED
    BY <1>1, <1>8, <1>9, <1>10, <1>11, <1>12 DEF Good

\* A receive thread that goes on serves the Impl that it was made for.
LEMMA RunGood ==
  ASSUME TypeOK, Good, NEW t \in Threads, Run(t)
  PROVE  Good'
  <1>1. thread[t] # NoThread
    BY DEF Run, Begin, Leave, Exit, NoThread
  <1>2. \E p \in {"looping", "closing", "exited"} : Becomes(t, p, Target(t))
    BY <1>1 DEF Run, Begin, Leave, Exit, Good, ThreadsOK, Target
  <1>3. /\ thread'[t].at \in {"looping", "closing", "exited"} /\ thread'[t] # NoThread
        /\ thread'[t].of = Target(t)
        /\ \A u \in Threads : u # t => thread'[u] = thread[u]
        /\ UNCHANGED <<impl_, running, worker, call, process, broken>>
    BY <1>2 DEF Becomes, TypeOK, NoThread
  <1>4. \A u \in Threads : Target(u)' = Target(u) /\ (thread'[u] = NoThread <=> thread[u] = NoThread)
    BY <1>1, <1>3 DEF Target
  <1>5. Active' = Active /\ \A d \in Active : Mine(d)' = Mine(d)
    BY <1>3 DEF Active, Idle, Mine
  <1>6. CallsOK'
    <2>1. \A d \in Active, u \in Threads :
            Mine(d)' # None /\ call[d].at = "keep" /\ call[d].new = u =>
              thread'[u] # NoThread /\ Target(u)' = Mine(d)'
      BY <1>4, <1>5 DEF Good, CallsOK
    <2> QED
      BY <1>3, <1>5, <2>1 DEF Good, CallsOK, Alive, Target
  <1>7. ImplsOK'
    BY <1>3, <1>5 DEF Good, ImplsOK, Alive
  <1>8. WorkersOK'
    <2>1. \A i \in Impls, u \in Threads : worker[i] = u /\ worker[i] # None =>
            thread'[u] # NoThread /\ Target(u)' = i
      BY <1>4 DEF Good, WorkersOK
    <2> QED
      BY <1>3, <2>1 DEF Good, WorkersOK, Alive, Target, TypeOK
  <1>9. ThreadsOK'
    BY <1>3, <1>4, <1>5 DEF Good, ThreadsOK, Engaged, Alive
  <1>10. OnsOK'
    <2>1. Registering' = Registering /\ call' = call
      BY <1>3 DEF Registering, Idle
    <2>2. \A d \in Registering : call[d].on \in Alive' /\ impl_'[call[d].on] = Mine(d)
      BY <1>3 DEF Good, OnsOK, Mine, Alive
    <2>3. ASSUME NEW d \in Registering, NEW i \in Impls, d \in Callbacks, In(d[1], i)
          PROVE  thread'[d[1]].at \in {"looping", "closing"} /\ thread'[d[1]].of = i
      <3>1. PICK u \in Threads, k \in Slots : d = <<u, k>>
        BY <2>3 DEF Callbacks
      <3>2. d \notin Idle /\ d[1] = u
        BY <3>1 DEF Registering
      <3>3. CASE u = t
        <4>1. Leave(t)
          BY <2>3, <3>1, <3>2, <3>3 DEF Run, Begin, Exit, In
        <4> QED
          BY <2>3, <3>2, <3>3, <4>1 DEF Leave, Becomes, In, TypeOK
      <3>4. CASE u # t
        BY <1>3, <2>3, <3>2, <3>4 DEF In
      <3> QED
        BY <3>3, <3>4
    <2> QED
      BY <1>5, <2>1, <2>2, <2>3, OnsKept
  <1> QED
    BY <1>3, <1>6, <1>7, <1>8, <1>9, <1>10 DEF Good

\* on leaves everything alone, and its caller without a call.
LEMMA OnGood ==
  ASSUME TypeOK, Good, NEW c \in Callers, On(c), broken = {}, broken' = {}
  PROVE  Good'
  <1>1. c \in Registering /\ Return(c) /\ OnlyCall
    BY DEF On, Refuse, Register, At, Throw, Registering
  <1>2. c \notin Active
    BY <1>1, OfOneKind
  <1>3. /\ Active' = Active /\ \A d \in Active : call'[d] = call[d]
        /\ Registering' = Registering \ {c}
        /\ \A d \in Registering' : call'[d] = call[d]
    BY <1>1, <1>2, Returned DEF Return
  <1>4. CallsOK'
    BY <1>1, <1>3 DEF Good, CallsOK, OnlyCall, Mine, Target, Alive
  <1>5. OnsOK'
    <2>1. \A d \in Registering : call[d].on \in Alive' /\ impl_'[call[d].on] = Mine(d)
      BY <1>1 DEF Good, OnsOK, Mine, OnlyCall, Alive
    <2> QED
      BY <1>1, <1>3, <2>1, OnsKept DEF In, OnlyCall
  <1>6. ImplsOK'
    BY <1>1, <1>3 DEF Good, ImplsOK, OnlyCall, Alive
  <1>7. WorkersOK'
    BY <1>1 DEF Good, WorkersOK, OnlyCall, Target, Alive
  <1>8. ThreadsOK'
    BY <1>1, <1>3 DEF Good, ThreadsOK, OnlyCall, Target, Mine, Alive, Engaged
  <1> QED
    BY <1>1, <1>4, <1>5, <1>6, <1>7, <1>8 DEF Good, OnlyCall

\* Every step that breaks no rule keeps Good.
LEMMA GoodKept ==
  ASSUME TypeOK, Inv, [Next]_vars
  PROVE  Inv'
  <1> SUFFICES ASSUME Next, broken' = {}
               PROVE  Good'
    <2>1. CASE UNCHANGED vars
      <3>1. Good => Good'
        BY <2>1 DEF vars, Good, CallsOK, OnsOK, ImplsOK, WorkersOK, ThreadsOK, Active,
                    Registering, Idle, Alive, Mine, Own, In, Target, Engaged
      <3> QED
        BY <2>1, <3>1 DEF Inv, vars
    <2> QED
      BY <2>1 DEF Inv
  <1>1. CASE broken # {}
    <2>1. \A c \in Callers : Throw(c) => broken \subseteq broken'
      BY DEF Throw, OnlyCall, End
    <2>2. \A c \in Callers : Stop(c) => broken \subseteq broken'
      BY <2>1 DEF Stop, StopCheck, Clear, Joinable, Join, JoinThrows, JoinTwice, OnlyCall, End
    <2>3. \A c \in Callers : Start(c) => broken \subseteq broken'
      BY <2>1 DEF Start, StartCheck, Mark, Spawn, Keep, OnlyCall, End
    <2>4. \A c \in Callers : NoImpl(c) \/ Free(c) => broken \subseteq broken'
      BY DEF NoImpl, Free, OnlyCall, End
    <2>5. \A t \in Threads : Run(t) => broken \subseteq broken'
      BY DEF Run, Begin, Leave, Exit, Becomes, End
    <2>6. \A c \in Callers : On(c) => broken \subseteq broken'
      BY <2>1 DEF On, Refuse, Register, OnlyCall
    <2> QED
      BY <1>1, <2>2, <2>3, <2>4, <2>5, <2>6 DEF Next, Construct, Move, Call
  <1>2. CASE broken = {}
    <2>1. Good
      BY <1>2 DEF Inv
    <2>2. \A c \in Callers : Start(c) => Good'
      BY <2>1, StartCheckGood, MarkGood, SpawnGood, KeepGood DEF Start
    <2>3. \A c \in Callers : Stop(c) => Good'
      BY <2>1, StopCheckGood, ClearGood, JoinableGood, JoinGood, NoBadJoin DEF Stop
    <2>4. \A c \in Callers : NoImpl(c) \/ Free(c) => Good'
      BY <2>1, NoImplGood, FreeGood
    <2>5. \A t \in Threads : Run(t) => Good'
      BY <2>1, RunGood
    <2>6. \A s \in Subscribers, i \in Impls : Construct(s, i) => Good'
      BY <2>1, ConstructGood
    <2>7. \A s, d \in Subscribers : Move(s, d) => Good'
      BY <2>1, MoveGood
    <2>8. \A c \in Callers, op \in {"on", "start", "stop", "destroy"}, s \in Subscribers :
            Call(c, op, s) => Good'
      BY <2>1, CallGood, OnCallGood
    <2>9. \A c \in Callers : On(c) => Good'
      BY <1>2, <2>1, OnGood
    <2> QED
      BY <2>2, <2>3, <2>4, <2>5, <2>6, <2>7, <2>8, <2>9 DEF Next
  <1> QED
    BY <1>1, <1>2

\* Nothing exists in the initial state.
LEMMA GoodInit == Init => Inv
  BY DEF Init, Inv, Good, CallsOK, OnsOK, ImplsOK, WorkersOK, ThreadsOK, Active, Registering,
         Idle, Alive

\* Good holds as long as no rule is broken.
THEOREM GoodWhileKept == Spec => [](TypeOK /\ Inv)
  <1>1. Init => TypeOK /\ Inv
    BY InitTyped, GoodInit
  <1>2. TypeOK /\ Inv /\ [Next]_vars => (TypeOK /\ Inv)'
    BY NextTyped, GoodKept
  <1> QED
    BY <1>1, <1>2, PTL DEF Spec

-----------------------------------------------------------------------------
(* What the rules are good for.                                            *)

\* The process neither dies nor uses an object that is gone while callers keep
\* the rules, whatever they start, stop, move and destroy.
THEOREM RulesAreEnough == Spec => []RulesSuffice
  <1>1. TypeOK /\ Inv => RulesSuffice
    BY DEF Inv, Good, RulesSuffice
  <1> QED
    BY <1>1, GoodWhileKept, PTL

\* A thread that serves an Impl is kept in its worker, or about to be.
LEMMA WhoServes ==
  ASSUME TypeOK, Good, NEW t \in Threads, NEW i \in Impls, Serves(t, i)
  PROVE  \/ worker[i] = t
         \/ \E c \in Active : call[c].at = "keep" /\ call[c].new = t /\ Mine(c) = i
  <1>1. thread[t] # NoThread /\ Target(t) = i
    BY DEF Serves, In, Target, NoThread
  <1> QED
    BY <1>1 DEF Good, ThreadsOK

\* An Impl is run by one thread at a time while callers keep the rules.
THEOREM OneThreadPerImpl == Spec => []OneReceiver
  <1>1. ASSUME TypeOK, Inv, broken = {}, NEW i \in Impls, NEW t \in Threads, NEW u \in Threads,
               Serves(t, i), Serves(u, i)
        PROVE  t = u
    <2>1. Good
      BY <1>1 DEF Inv
    <2>2. /\ worker[i] = t \/ \E c \in Active : call[c].at = "keep" /\ call[c].new = t /\ Mine(c) = i
          /\ worker[i] = u \/ \E c \in Active : call[c].at = "keep" /\ call[c].new = u /\ Mine(c) = i
      BY <1>1, <2>1, WhoServes
    <2>3. i # None /\ t # None /\ u # None
      BY LifecycleAssumption
    <2>4. \A c \in Active : call[c].at = "keep" /\ Mine(c) = i => worker[i] = None
      BY <2>1, <2>3 DEF Good, CallsOK
    <2>5. \A c, d \in Active : Mine(c) = i /\ Mine(d) = i => c = d
      BY <1>1, <2>1, <2>3, OwnImpl
    <2> QED
      BY <2>2, <2>3, <2>4, <2>5
  <1>2. TypeOK /\ Inv => OneReceiver
    BY <1>1 DEF OneReceiver
  <1> QED
    BY <1>2, GoodWhileKept, PTL

\* When stop has returned there is no thread and nothing to join, while callers
\* keep the rules.
THEOREM StopLeavesNothing == Spec => []StopIsBarrier
  <1>1. ASSUME TypeOK, Inv, broken = {}, NEW s \in Alive, impl_[s] # None,
               ~running[impl_[s]], \A c \in Callers \ Idle : call[c].on = s => call[c].op = "on"
        PROVE  worker[impl_[s]] = None /\ \A t \in Threads : ~Serves(t, impl_[s])
    <2>1. Good /\ impl_[s] \in Impls
      BY <1>1 DEF Inv, TypeOK
    <2>2. \A c \in Active : call[c].on # s
      BY <1>1 DEF Active
    <2>3. worker[impl_[s]] = None
      BY <1>1, <2>1, <2>2 DEF Good, ImplsOK
    <2>4. \A c \in Active : Mine(c) # impl_[s]
      BY <1>1, <2>1, <2>2 DEF Good, CallsOK, ImplsOK, Mine
    <2>5. \A t \in Threads : ~Serves(t, impl_[s])
      BY <1>1, <2>1, <2>3, <2>4, WhoServes, LifecycleAssumption
    <2> QED
      BY <2>3, <2>5
  <1>2. TypeOK /\ Inv => StopIsBarrier
    BY <1>1 DEF StopIsBarrier
  <1> QED
    BY <1>2, GoodWhileKept, PTL

\* A call in join waits for a thread that no caller keeps from ending, while
\* callers keep the rules.
THEOREM JoinsWaitForOne == Spec => []JoinsEnd
  <1>1. ASSUME TypeOK, Inv, broken = {}, NEW c \in Active, call[c].at = "join"
        PROVE  \E t \in Threads :
                 /\ worker[Mine(c)] = t
                 /\ thread[t].at = "exited" \/ Serves(t, Mine(c))
                 /\ ~running[Mine(c)]
                 /\ \A k \in Slots : <<t, k>> \in Idle \/ call[<<t, k>>].op = "on"
    <2>1. Good
      BY <1>1 DEF Inv
    <2>2. /\ call[c].on \in Alive /\ Mine(c) # None /\ Mine(c) \in Impls
          /\ worker[Mine(c)] # None /\ ~running[Mine(c)]
      BY <1>1, <2>1 DEF Good, CallsOK, Mine, TypeOK
    <2> DEFINE t == worker[Mine(c)]
    <2>3. t \in Threads /\ thread[t] # NoThread /\ Target(t) = Mine(c)
      BY <1>1, <2>1, <2>2 DEF Good, WorkersOK, TypeOK
    <2>4. thread[t].at \in {"made", "looping", "closing", "exited"}
      BY <1>1, <2>3 DEF TypeOK, ThreadStates, NoThread
    <2>5. thread[t].at = "exited" \/ Serves(t, Mine(c))
      BY <2>1, <2>3, <2>4 DEF Good, ThreadsOK, Serves, In, Target
    <2>6. \A k \in Slots : <<t, k>> \in Callbacks
      BY <2>3 DEF Callbacks
    <2>7. \A k \in Slots : <<t, k>> \in Idle \/ call[<<t, k>>].op = "on"
      BY <2>1, <2>6, LifecycleAssumption DEF Good, CallsOK, Active, Callers
    <2> QED
      BY <2>2, <2>3, <2>5, <2>7
  <1>2. TypeOK /\ Inv => JoinsEnd
    <2>1. ASSUME NEW c \in Callers \ Idle, TypeOK, call[c].at = "join"
          PROVE  c \in Active
      BY <2>1 DEF TypeOK, Calls, Active, Idle
    <2> QED
      BY <1>1, <2>1 DEF JoinsEnd
  <1> QED
    BY <1>2, GoodWhileKept, PTL

=============================================================================
