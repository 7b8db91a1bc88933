# FarSounder C++ client: a TLA+ verification project

The client library (`src/`) talks to a FarSounder Argos sonar processor. It
receives a stream of protobuf messages over ZeroMQ SUB sockets and hands each to
the callbacks an application has registered (`Subscriber`), and it makes
request-reply calls over ZeroMQ REQ sockets that read and change the settings of
the processor (`requests.hpp`). This directory models the library: the thread
pool, the subscriber and the life of subscriber objects, the request-reply and
history calls, the configuration, the conversions, and the example client on top of
them. TLC checks the models on small instances; TLAPS proves the main safety results
for every value of the constants.

To check one run: `tlc -config MCSubscriberPool.cfg MCSubscriber`. To check the
proofs of a module: `tlapm SubscriberProofs.tla`.

- [Inventory](#inventory)
- [Modules](#modules)
- [The thread pool](#the-thread-pool)
- [The subscriber](#the-subscriber)
- [The life of a subscriber](#the-life-of-a-subscriber)
- [The request-reply calls](#the-request-reply-calls)
- [Configuration](#configuration)
- [History](#history)
- [Conversions](#conversions)
- [The example client](#the-example-client)
- [Runs](#runs)
- [Proofs](#proofs)
- [What is only model-checked, and what is not modelled](#what-is-only-model-checked-and-what-is-not-modelled)
- [Plan](#plan)

## Inventory

**Thread pool** (`class ThreadPool`, `src/subscriber.cpp` 19-74).
State: a queue of tasks, a stop flag, a mutex, a condition variable, the worker
threads. Operations: construction (at least one worker), `enqueue`, `worker_loop`,
and a destructor that sets the flag, notifies all and joins. It is a local variable
of `run_loop`, so one thread constructs it, enqueues and destroys it.
Hard: `enqueue` notifies one waiter after it has released the mutex; wakeups may be
spurious; the flag is set while tasks are queued.
Correct when: no task is lost, run twice or left waiting while workers sleep; the
queue is drained before the destructor returns, because tasks point into
`Subscriber::Impl`; the destructor returns.

**Subscriber** (`subscriber.cpp` 76-343).
State: the configuration, `running` (atomic), `worker` (the receive thread), four
vectors of callbacks behind `callback_mutex`, and, in `run_loop`, a socket per
subscribed type and the pool.
Operations: `on` (typed, and by name), `start`, `stop`, the destructor, moves;
`run_loop` (poll, then one `recv` from each readable socket, parse, dispatch);
`dispatch_message` (copy the vector under the mutex, then call each callback).
Interactions: the application calls the operations, `run_loop` enqueues
`dispatch_message` or calls it inline, callbacks run application code and may call
`on`.
Hard: receiving, dispatching, registration and shutdown interleave; `stop` races
messages in the sockets and in the queue; two pool threads reorder messages; start
may fail halfway.
Correct when: `stop` leaves nothing running and always returns; each message is
heard once by everyone who was registered for it when it was received; reordering
is bounded; a callback can register callbacks without deadlock; malformed messages
and busy sockets do not hold the others up.

**Request-reply client** (`requests.cpp` 19-67, 149-280).
State: none that outlives a call. Each call makes a context and a REQ socket,
connects to host and port, sends, waits for the reply for `timeout_seconds`, parses
and converts. `_async` forms run the same function on a thread of `std::async` with a
copy of the configuration; the others refer to the caller's.
Hard: calls run concurrently; requests and replies are lost or late; a call that has
timed out may still be carried out; the configuration may change meanwhile.
Correct when: a call is carried out at most once and at the processor it was made
for; a response says what happened to that call, and settings are never stale;
every call ends.

Life of a subscriber (`subscriber.cpp` 257-343): constructor, moves, `on`, `start`,
`stop`, destructor. `running` and `worker` are read and written without a lock; the
receive thread reaches its `Impl` through the `Subscriber` that `start` was called on.
Hard: two threads that start or stop at once, calls from a callback, `on` while the
destructor waits, a move before the thread has begun, assignment over a running
subscriber, calls on one that has been moved from.
Correct when: callers that keep a few rules, which the code does not write down,
can never end the process or leave a thread behind, and every join ends.

**History client** (`requests.cpp` 69-141, 282-319): one HTTP GET and a parser of its
JSON answer, item by item. Hard: one bad item among good ones.
Correct when it is all or nothing: the whole answer, or an exception.

**Configuration** (`config.cpp`): `build_config` checks the timeout, applies port
overrides by name to the default ports, fills in the default subscriptions;
`resolve_*_port` and the name tables. Its result is used by every other part.
Hard: the overrides come in the order of an unordered map; the timeout is a double;
a port is only checked to be positive, and an address that cannot be connected to ends
the process.
Correct when the result does not depend on the order, names and enumerators are
inverse, every message that `build_config` accepts has the port asked for, and every
call gives up.

**Conversions** (`conversions.cpp`): protobuf messages to the types of `types.hpp`.
Hard: time, and enumerations that the processor and the client may know differently.
Correct when timestamps count the days, and an enumeration arrives as it was meant or
as the default.

**Example client** (`examples/basic_client.cpp`): configures, subscribes, makes three
requests, starts, and stops on Ctrl+C. State: the flag of the signal handler.
Hard: the signal comes at any time and to any thread.
Correct when Ctrl+C ends it.

**Wire schema** (`proto/`): used where it decides behaviour (closed enumerations,
defaults, optional fields, whether settings change). **Tests**, **build files**: no
state of their own.

The hazards of each part, with the line where each bites and the properties that
cover it, are listed in `PROJECT.json`.

## Modules

| module | models | relation |
| --- | --- | --- |
| `TaskExecutor` | what the pool promises: tasks run once, begun in order, at most `Capacity` together, all done before it is gone | abstract; `ThreadPool` implements it, `Subscriber` uses it |
| `ThreadPool` | workers, queue, mutex, condition variable, destructor | refines `TaskExecutor` |
| `Notifications` | what a subscriber promises an application: what is received, who hears it and when, what `stop` waits for | abstract |
| `Subscriber` | the application's calls, `run_loop`, `dispatch_message` | instantiates `TaskExecutor` as its pool, refines `Notifications` |
| `Lifecycle` | the calls on `Subscriber` objects by several threads, load by load and store by store, with the receive threads | says when the single controlling thread of `Subscriber` is a sound assumption |
| `Sonar` | endpoints, settings, result codes; what a processor does with a granted request | extended by the next two |
| `RemoteCalls` | what the calls of `requests.hpp` promise over an unreliable network | abstract |
| `RequestReply` | `send_request` and the endpoint functions, losses, delays, timeouts | refines `RemoteCalls` |
| `ClientConfig` | `build_config`, and what run_loop and the calls take from its result | the ports that `RequestReply` and `Subscriber` take as given |
| `History` | `get_history_data` and its parsers | |
| `Conversions` | every `convert_` function, between a processor and an application | the values that `RequestReply` and `Subscriber` pass on |
| `BasicClient` | the example's `main`, its receive thread and SIGINT | uses the calls of the others at their ends |
| `ThreadPoolProofs`, `SubscriberProofs`, `LifecycleProofs`, `RequestReplyProofs`, `ClientConfigProofs`, `HistoryProofs`, `ConversionsProofs` | theorems | extend the module they are about |
| `DeliveryProofs` | theorems about who hears what, and the refinement of `Notifications` | extends `SubscriberProofs` |
| `MCThreadPool`, `MCSubscriber`, `MCLifecycle`, `MCRequestReply`, `MCClientConfig`, `MCHistory`, `MCConversions`, `MCBasicClient` | constants and symmetry for TLC | extend the module they check |

Some operators have a faulty variant beside them, with a comment that says which
mistake it makes (`TakeNewest` beside `Take`, `RepliesToAnyone` beside `RepliesTo`).
They are not part of the specifications: put in place of the operator they stand
beside, each makes the property it is meant for fail, which shows that the property
depends on that code.

## The thread pool

A critical section of `mutex_` is one step (`Enqueue`, `RequestStop`, and each of
`Wait`, `Exit`, `Take`, which evaluate the predicate of `cv_.wait` and act on it
under the lock). What the code does outside the lock is a step of its own: the
notification (`NotifyOne`, `NotifyAll`), the task (`Return`), the joins
(`Joined`). So a worker can act between the unlock of `enqueue` and its
`notify_one`. `owner` is where the owning thread is; `worker[w]` is `check` when the
worker is about to evaluate the predicate, `waiting` while it is in `cv_.wait`.
`SpuriousWakeup` may happen at any time. The pool can be constructed again after it
has been destroyed, as each `start` does.

`RunOnce` relates the queue, what runs and what has finished. `NoLostWakeup` says
that, while anyone waits, enough idle workers are awake for every queued task,
counting the wakeup `enqueue` still owes, and that nobody waits when the destructor
joins. `BoundedOvertaking` is the order that callers can rely on: a task that has
returned overtook fewer tasks than there are workers. `ImplementsExecutor` is the
refinement of `TaskExecutor`, liveness included.

Fairness: each worker's loop, the pending notification and the join are weakly
fair. The operating system schedules threads that can run, and tasks return. The
owner's choice of what to do next is not fair, and neither are spurious wakeups.

## The subscriber

One thread, the application, starts, stops and destroys (`Start`, `StartFails`,
`Stop`, `Destroy`, `Join`). `worker` is where the receive thread is: `Setup`,
`Continue` (reads `running`), `Poll`, a `Receive` for each ready socket, `EndScan`,
`LeaveLoop` and `Exit`, which destroys the pool and then the sockets. A job is one
run of `dispatch_message`; `log` has the socket and message of each job in the order
of reception, `stage` says where it is: `Copy` locks `callback_mutex` and copies the
vector, `Unlock`, then `Call` and `Return` for each callback, `Finish`. With
`CallbackExecutor::ThreadPool` the job is submitted to the pool, which is an
instance of `TaskExecutor`; inline, the receive thread runs it itself. `Register` is
`on`, from the application or from inside a callback. `Publish` is the transport: a
message reaches any of the sockets of its type, so it may be lost to some; a
subset of the messages does not parse.

`Quiescent` says what `stop` and the destructor leave behind: no receive thread, no
pool, no job unfinished, the mutex free. `HeardByAudience` relates what a callback
hears to who was registered when the message was received, `HeardOnce` forbids
duplicates over restarts, `BoundedReordering` bounds how many earlier messages of its
socket a message can be heard before (none inline, one with two threads; by how many
later ones it is overtaken itself is not bounded), `StopCutsOff` says that at
most one more message is received from each socket after `running` is cleared,
`CallbackMayRegister` that no callback runs on a thread holding the mutex. Liveness:
`StopReturns`, `EveryJobDone`, `EveryMessageReceived`.

`ImplementsNotifications` puts this in one statement. `Notifications` has no threads,
queue, mutex or poll: a message of a socket is received, then the callbacks of its type
are notified one after the other (`Notify`), then it is done (`Done`, when its audience
has heard it). A callback is not notified while `Capacity` earlier messages are not
done; while `stop` waits (`Stop` to `End`) each socket is received from once more at
most (`closed`); `stop` returns when everything received is done. In the mapping, `state` is
what the application sees of `running` and `app`, `done` are the jobs at stage `done`,
`closed` comes from `late`, `Capacity` is the number of threads that dispatch, and the
malformed messages are none of the service's.

Fairness: the receive thread, each job and the join are weakly fair: these are
threads that can run, callbacks return, and the mutex is only held for a copy.
Nothing is assumed of the application or of the server.

Assumptions on the application: one thread controls the subscriber, and not from
inside a callback (`Lifecycle` has the others); callbacks return and do not throw. An
exception in the receive thread ends the process: `ClientConfig` has the one of an
address that is refused, `BasicClient` the one of an interrupted poll.

## The life of a subscriber

`Subscriber` objects hold an `Impl` or, after a move, none (`impl_`). Every load and
store of `start`, `stop` and the destructor is a step: `StartCheck`, `Mark`, `Spawn`,
`Keep`; `StopCheck`, `Clear`, `Joinable`, `Join`; `Free`. `on` either throws because of
its arguments (`Refuse`) or reaches a vector of the `Impl` (`Register`; the mutex
and the vectors are in `Subscriber`). `call` has the next step of each caller; callers
are threads of the application and callbacks, which exist while the receive thread runs
their `Impl`. The receive thread reads `impl_` when it begins (`Begin`), leaves its loop
when it finds `running` cleared (`Leave`) and is gone when its pool is (`Exit`). What
ends the process or is undefined is an outcome: assigning to or destroying a joinable
thread, an exception out of a destructor or a callback, an `Impl` that is missing or
that a thread still uses, two joins of one thread.

The code states no rule for callers, and not every program that compiles is safe. The
module names five rules and records in `broken` which have been broken:

- *serial*: moves, `start`, `stop` and the destructor do not overlap on one subscriber.
  `on` may overlap `start`, `stop` and itself, but neither a move nor the destructor,
  unless the caller is one of the callbacks that the destructor waits for;
- *outside*: `start`, `stop` and the destructor are not called by callbacks;
- *settled*: no move before the started thread has read `impl_`, and none onto a running
  subscriber;
- *engaged*: neither `start` nor `on` is called on a subscriber that has been moved from:
  both dereference `impl_` without a test, where `stop` has one;
- *caught*: callbacks let no exception through.

None can be left out: without any one of them `RulesSuffice` fails. `RulesSuffice`: as
long as none is broken, nothing ends the process or uses an object that is gone.
`StopIsBarrier`: a subscriber that no call but `on` is made on and that is not running
has no thread, whatever moves were made between `start` and `stop`. `OneReceiver`: no
`Impl` is run by two threads. `JoinsEnd`: a call that waits in `join` waits for a thread
that has been told to end and whose callbacks call nothing but `on`, which does not wait
for it. That is what `Subscriber` assumes of its single controlling thread. Behaviours
in which a rule is broken are in the model too, until the calls under way have ended;
what the breach of a rule does is a hazard in `PROJECT.json` that no property covers.

There is no liveness here: that a thread leaves its loop and its pool drains is
`StopReturns` of `Subscriber`.

## The request-reply calls

Each call goes through `stage`: `Invoke`, then `Send` or `SendFails`, then
`Receive`, whose reply is rejected by `ParseFromArray` or becomes a response, or
`TimesOut`. `wire` and `replies` are the messages on their way, sets because nothing
orders the sockets of different calls. A socket belongs to one call, so `Receive`
looks only at the replies to it, and a reply that comes after the timeout is never
received. `Packed` is what the socket sends, with the host and endpoint that
`endpoint_address` reads. `config` is the configuration of the application;
`Reconfigure` may change it at any time that no synchronous call refers to it, and
`_async` calls keep the one of the time of the call.

External: `Process` (the processor takes a request at any time, also after the call
has given up, carries it out if its code is `kSuccess`, and answers), `Elsewhere`
(settings change at the processor or by another client), `LoseRequest`, `LoseReply`.
Crashes and restarts of the processor show as losses. `Parsed` is protobuf's
`ParseFromArray` and `code()`: the result code is a closed enum, so an unknown code
reads as the default.

`past` is the history of each processor's settings, each version with the call that
made it, and the properties are stated over it: `AtMostOnce` (no call makes two
versions, or one at a host that it was not made for), `ResponseIsTrue` (`Success`
exactly when the call has made its version, since it was invoked), `FreshSettings`
(what a get returns was true at some time since it was invoked). `EveryCallEnds` is
liveness. `ImplementsRemoteCalls` is the refinement: seen from outside, a call takes
effect at most once, before it returns if it returns a response, and at any time or
never if it throws.

Fairness: `Send` or `SendFails`, and `TimesOut`: the calling thread runs, and both
`sndtimeo` and `rcvtimeo` are set. Nothing is assumed of the processor or the
network, so calls end because they time out.

What `RemoteCalls` does not promise, because the code does not: a set call that
throws on its timeout may still be carried out, also after a later set call on the
same setting has returned.

**Finding.** `conversions_unit_tests.cpp` 48-52 and the default branch of
`convert_result_code` (38-39) have unknown result codes become `UnknownError`. No
received message takes that branch: `RequestResult.code` is a proto2 enum, a code
the schema lacks is left unset by the parser, and `code()` then reads as the first
value, `kSuccess`. The run `request_reply_newer` shows the consequence: a processor
of a newer schema refuses a request with a code of its own, and the call returns
`Success`. `ResponseIsTrue`, `FreshSettings` and the refinement therefore assume
that processors answer with codes of the client's schema; the theorems state this
as a hypothesis (`ServerCode \subseteq KnownCode`).

## Configuration

`CheckTimeout`, `Override` for one entry of the map at a time in any order,
`CheckSubscribe`; then `Connect` for each socket of `run_loop`, where an exception
ends the process, and `Request` for the port and the timeout of a call.
`OrderIsImmaterial` compares the ports with what was asked for, by the names of
`to_string`, and the exceptions with the faults of the arguments: only which of
several faulty overrides is named depends on the order. Of the host the model knows
whether the transport takes it. `build_config` lets any host through, and any port above
0. What becomes of a port above 65535 is not up to this code: `Reaches` has both what
libraries do, refuse it or take its last 16 bits. `OnlyBadAddressesFail`: when `run_loop`
throws while it connects, the host is malformed or the port was above 65535; the
message always has a port, and each socket whose port exists is connected to the one
asked for. `CallsGiveUp`: no call gets a timeout of 0 or one below (which waits for
ever), also for a timeout that is not a number or is too large for `int`, where the
conversion is undefined and any `int` may come out; otherwise it is the configured one,
in whole milliseconds.

## History

`Get` is the request with its three failures; `ParseBottom` and `ParseInwater` parse
one item or throw. A JSON value is its kind and what it is (a number in tenths, so that
fractions exist), and `get<T>()` takes the kinds that the JSON library takes. The two
parsers read member by member, as the code does. `AllOrNothing`: a call that returns has
a detection for every item, at its place, with the values of its members, and the depths
that were sent and no others; one that throws has a reason, which may be in the last
item. A depth that is `null` is such a reason: `contains` is true of it. A count with a
fraction loses it, and one that is a boolean is 0 or 1.

## Conversions

A message is the function of the fields that it carries, and what a getter returns
for one that is absent is protobuf's default; an enumeration with a number that the
schema lacks is absent after parsing. The enumerations are there twice, as in the code:
`types.hpp` has names and numbers, and so has the `Schema`. Every `switch` of
`conversions.cpp` is a table from the names of one side to those of the other with a
default, row by row. `ModesAsMeant` says what the tables are for without them: whatever
number is on the wire, the application is handed the enumerator of `types.hpp` with that
number, and the default for a number that has none; a result code that the schema lacks
is read as `Success` (see the finding above). The field of view goes out through
`convert_fov_to_proto` (`SetFieldOfView`), may be changed elsewhere, and comes back
through `convert_fov`: the one that was set is the one that is heard. The grid mode has
no table: it is cast, and the deprecated `kAlternating` of the wire is no `GridMode`.

The processor's clock counts months and days from 1970 by the calendar, and messages
are stamped with it; the client converts the stamp with the C library's formula.
`TimestampCounts` says that the two agree. `convert_timestamp` has a second branch, for
Windows, whose `_mkgmtime` returns -1 for dates that it does not take; it is not
modelled.

## The example client

`main` goes from its arguments to its return; each request succeeds, is refused or
fails, in a `try` block of its own. `start` is outside of any: if the thread cannot be
made, the process ends. SIGINT is delivered to any thread: the handler clears
`g_running`; in the receive thread it may also interrupt `poll`, which throws
and ends the process, since nothing catches it there. `CtrlCEnds`: once Ctrl+C has
been pressed, the process ends, by returning from `main` (and then the receive
thread has exited) or otherwise. Fairness: `main` and the receive thread are weakly
fair: the system runs them, and requests and polls have timeouts. Nobody has to
press Ctrl+C.

## Runs

| run | instance | what it shows |
| --- | --- | --- |
| `thread_pool` | 2 workers, 4 tasks, any number of constructions | type, task accounting, no lost wakeup, draining, overtaking, the two liveness properties, and that the pool is a `TaskExecutor` |
| `subscriber_pool` | pool of 2, 1 socket, 2 callbacks of its type, 3 messages; symmetric in the callbacks | `Quiescent`, who hears what, how often, in which order, re-entrant `on`, and the refinement of `Notifications`, with registration, stop and destruction at every point |
| `subscriber_pool_liveness` | pool of 2, 2 sockets of different types, 2 messages | `stop` and the destructor return; every received message is dispatched |
| `subscriber_inline` | inline, 3 sockets of which two share a type, 3 messages of which the second is malformed | the inline executor keeps order; reception is cut off by `stop`; no socket is starved; `Notifications` is implemented, with duplicates of a type and a malformed message |
| `lifecycle` | 2 subscribers, 2 Impls (one pooled, one inline), 2 threads, 2 controllers, one callback per thread | the five rules suffice; a stop leaves nothing; one thread per Impl; joins end |
| `request_reply` | 3 symmetric calls, 1 processor, get and set, accepted or refused | `AtMostOnce`, `ResponseIsTrue`, `FreshSettings` under every loss, delay and timeout |
| `request_reply_hosts` | a synchronous and an asynchronous call, 2 processors, reconfiguration | calls go where they were meant to; they end; they implement `RemoteCalls` |
| `request_reply_newer` | 1 call, a processor that answers with a code the schema lacks | the finding above: `UnknownCodeIsError` is violated |
| `client_config` | overrides of 5 names (one unknown) with 4 ports (one above 65535), a host that is taken and one that is not, 4 subscriptions, 7 timeouts, an `int` of up to 8 | the order of the overrides is immaterial; only bad addresses fail to connect; calls give up |
| `history` | lists of up to 2 of 11 items, or none | all or nothing, every value at its place |
| `conversions` | every month from 1970 to 2004, the first, a middle and the last instant, every number of every enumeration and one outside of its schema | timestamps and modes |
| `basic_client` | Ctrl+C up to twice | Ctrl+C ends the process |

Bounds, and why they are enough:

- `MaxTasks = 4` with 2 workers: both run, two more are queued, so the queue is
  longer than the number of idle workers, and there are tasks left over for a second
  pool. The pool of `run_loop` has two workers.
- `MaxPublished`: with three messages on one socket, a pool of two can hold two jobs
  in progress with one queued; reordering needs two and its bound needs three. The
  socket that has two messages waiting when `stop` comes is the case of
  `StopCutsOff`.
- Sockets: three, of which two share a port, is the smallest set where a type is
  listed twice in `subscribe` and another type competes for the scan.
- Calls: a late reply needs an earlier call that has timed out and a later one; a
  third shows a set in between. `MaxVersions` bounds only the changes made
  elsewhere; those made by calls are bounded by the calls.
- `Endpoint` in a run is a get and a set: the other set endpoints differ in the
  setting they name, and `request_reply_hosts` uses another of them.
- `lifecycle`: a rule is about two calls, or a call and a thread, so two controllers
  and two threads meet in every way, and two subscribers are what a move needs.
- `client_config`: a port twice and two names of one enumeration are there, and a name
  of each of the three; 70000 is above 65535 and still a port in its last 16 bits. `MaxInt = 8` stands for the width of `int`: the greatest
  timeout that fits, the least that does not and one that is no number are inputs.
- `history`: the second item of the second list is the last place to go wrong; the
  items differ in one member each, and no two members of an item have the same value,
  so that none can be taken for another.
- `conversions`: 420 months go from 1970 to the end of 2004. Leap years and the year
  2000 are among them; 2100 is not, but the theorem has every year from 1970 on.

`CHECK_DEADLOCK` is on for the pool, the subscriber and the calls. The states where
nothing is left to do are named actions that stutter (`Destroyed`, `Finished`), so a
deadlock would be a real one. It is off where the program ends: in `lifecycle` once
the process has ended or a rule is broken and the calls are over (a wait that never
ends while the rules are kept is against `JoinsEnd`), and in `client_config`,
`history` and `basic_client`, which return or throw.

## Proofs

All hold for every value of the constants, under the assumptions that the modules
name: a non-empty finite set of workers, a configuration that is a sequence of
message types, settings that are functions from settings to values, answers that are
finite lists of items, messages and dates of the shapes in `ConversionsAssumption`.
Nothing else is assumed unless the theorem says so.

**`ThreadPoolProofs`** proves the five invariants of the pool and that it implements
`TaskExecutor` (safety). The inductive invariant adds to the properties where each
task is (`QueueInv`), which workers may have ended (`StopInv`: `stop_` is set and
the queue is empty) and, for the order, `PastInv`: for every task that has returned
some worker is past it, that is, not running an earlier one. `WorkConserving` is
inductive with these: a worker goes to sleep only when the queue is empty, and each
task added wakes one or finds nobody asleep.

**`SubscriberProofs`** proves `TypeOK`, `Quiescent`, `StopCutsOff` and
`CallbackMayRegister`. `Quiescent` is about the moment when `stop` returns, and
follows only from where the receive thread must have been before: the thread is gone
only after the pool is (`ThreadInv`, `PoolInv`), and the pool only after every job is
done, which the type invariant ties to the stages. `CutOffInv` says that a socket
that is still to be visited in the scan under way has not been received from since
the stop. `ReadyInv` says that `recv` never meets an empty socket.

**`DeliveryProofs`** proves `HeardByAudience`, `HeardOnce`, `BoundedReordering` and
the refinement of `Notifications`. On top of the invariant above it needs six more
parts. `VectorInv` and `HeardInv`: a callback is in one vector, once, and hears a job
once. `StreamInv`: what waits in a socket comes after all that has been received from
it, so a later job of a socket has a later message. `ProgressInv` is what the copy of
the vector means: of the vector of its type, as it is now and however it has grown
since, a job has copied the first `copied` and called the first `called` callbacks, and
its `todo` is what lies between (`Progress`). `OrderInv`: jobs are begun in their order
and few are in progress together, which is the pool's promise. `OvertakenInv`
carries that to the callbacks: of the jobs that were earlier than the one a callback
hears, fewer than there are threads are not done at that moment, and the set of those
that may still be heard only shrinks. In the refinement the start and the end of `stop`,
`Receive`, `Call` and `Finish` are steps of the service and all else stutters; that
`stop` may return is `NothingLeft`, that the next callback is the first that has not
heard the job is `NextCallback`.

**`LifecycleProofs`** proves all five invariants of the run, for any sets of
subscribers, Impls, threads, controllers and callbacks. They follow from one
inductive invariant (`GoodWhileKept`): `Good` holds as long as no rule is broken. It
says who owns what. `CallsOK`: the callers of `start`, `stop` and the destructor are
controllers, at most one per subscriber, and the step each is at fixes `running` and
`worker` of its Impl. `OnsOK`: whoever calls `on` has an Impl, and a destructor of the
same subscriber is one that has to wait for the caller. `ImplsOK`: an Impl has one
subscriber, and is stopped with a thread left only while a call is about to join it.
`WorkersOK` and `ThreadsOK`: a joinable `std::thread` and the Impl that the thread runs
on, or will when it reads `impl_`, name each other, except between the two halves of
line 332, where the call of `start` holds the thread. That the destructor frees an Impl
nobody uses follows: no thread is left that runs on it, hence no callback of it.

**`RequestReplyProofs`** proves `TypeOK`, `AtMostOnce`, `ResponseIsTrue`,
`FreshSettings` and the refinement of `RemoteCalls`. The properties relate a
response to the past of the processor; what carries the information between them is
the message on its way, so the inductive invariant says what each may contain:
`WireInv` (a request on its way is that of its call and has not been processed:
this is where "no retries" enters), `ReplyInv` (a reply tells what has been done),
`ResponseInv` (so does a response), `MadeInv` and `GrantInv` (what a granted call
has done or seen is in the past, not before `since`), `SinceInv`. `History` collects
what no step takes back: versions, requests, effects. The refinement maps `stage` to
`status` and the wire's codes to the client's; sending, losing and reconfiguring
stutter. The last three theorems assume known codes.

**`ClientConfigProofs`** proves the three invariants of the run, for any names, ports,
subscriptions and timeouts, either kind of host, and any width of `int`. The inductive invariant says that
the ports are those asked for by the entries that are no longer in `todo`
(`PortsInv`), that none of these was faulty and every exception has a reason in the
arguments (`Seen`), and that what is subscribed to has ports (`SubscribeInv`). It is
kept by an override because `name_map` and `to_string` are inverse to each other
(`NameOf`, `NamedBy`): an entry changes the port of one endpoint, and the order does
not matter. `GivesUp` rests on what the cast of `to_timeout_ms` and its lower bound
give for any `double` (`TimeoutMs`); out of the range of `int` they give any positive
number, and that is all the property says there.

**`HistoryProofs`** proves `AllOrNothing` for any set of items and any finite lists of
them. The inductive invariant relates what has been parsed to the items read so far
(`ReadInv`), says what may be left at each stage (`StageInv`) and why an exception was
thrown (`ThrownInv`). `BottomRight` and `InwaterRight` are the core: the parser of an
item throws if and only if something is wrong with that item. `BottomSays` and
`InwaterSays`: what it returns says, member by member, what the item says.

**`ConversionsProofs`** proves `ModesAsMeant` for every message, and `TimestampCounts`
for every date from 1970 on. For the modes there is a lemma for each enumeration
(`FovRead`, `SystemTypeRead` and so on): read through its table, a number becomes the
enumerator that has it. The processor's calendar adds up the lengths of the months;
`timegm` has a formula. `ClockInv` says that the days counted are those of the formula
for the first of the month, and is kept from month to month because the formula is: by
`Month` within a year, by `NextYear` and `LeapDays` over its end, where the
divisions by 4, 100 and 400 meet the rule for leap years. `StampInv`, `FovInv` and
`HeardInv` follow the stamp, the field of view in force and what was heard of it. An
arithmetic of unbounded integers is assumed: 64 bits hold the seconds of every `int` year.

## What is only model-checked, and what is not modelled

Every invariant that a run checks is also a theorem, and so are the refinements of
`RemoteCalls` and `Notifications`, and of `TaskExecutor` without its liveness. Only
model-checked: all liveness properties, the liveness half of `ImplementsExecutor`, and
`CtrlCEnds` of `BasicClient`, one temporal property (fairness and `ENABLED` are out of
the prover's reach).

Not modelled, and why:

- callbacks that throw: the exception leaves the receive thread or a pool thread and
  ends the process; nothing is left to say about it. An exception out of a `start`,
  `stop`, destructor or `on` called by a callback is in `Lifecycle`;
- a caller that goes on after it has broken a rule of `Lifecycle`: the calls under way
  are followed to their end, and no new one is made;
- measured values: they are copied, and the conversion of one `float` to another is
  no step. Doubles are compared and multiplied only in `ClientConfig`, on a grid of
  tenths of a millisecond, with the values that are no number or too large;
- a `Time` that lacks a field, and years before 1970: `convert_timestamp` is
  defined for the first, but no processor sends it;
- the branch of `convert_timestamp` for Windows;
- a `number_of_points` beyond 32 bits, which the JSON library converts without a check;
- the parameters of the history query, and the text of error messages;
- libzmq, protobuf, libcurl and the processor: external, modelled by how the library
  uses them. ZeroMQ's high-water mark and its reconnection show as messages that do
  not arrive. `SerializeToString` cannot fail for these messages, whose fields are
  all optional;
- the payloads: a message is a number, a value of a setting a model value;
- the tests and the build files: no state of the library; `nav_info.proto` and
  `nmea.proto`: no code of `src/` reads their messages.

## Plan

Every part of the library that has state or decides something is modelled, and every
invariant that is checked is proved. What is left, in the order in which it adds most:

1. The steps that the liveness properties rest on as action properties with proofs: a
   round of the loop in which `running` is found cleared ends it, a job that is begun
   gets nearer to its end with each of its steps.
2. The safety half of `CtrlCEnds`: when `main` has returned, the receive thread has
   exited.
3. `Subscriber` with `ThreadPool` itself in place of `TaskExecutor`. It would follow from
   the two refinements; the composition has not been written down.
