---------------------------- MODULE ClientConfig ----------------------------
(***************************************************************************)
(* Building a ClientConfig (src/config.cpp) and using it: build_config with *)
(* its checks, in the order of the code, the overrides in whatever order    *)
(* the unordered_map has them; then the sockets that run_loop connects      *)
(* (src/subscriber.cpp), where an exception ends the process, and the port  *)
(* and the timeout of request-reply and REST calls (src/requests.cpp).      *)
(* Of the host it is told only whether the transport takes it; build_config *)
(* passes it on.                                                            *)
(***************************************************************************)
EXTENDS Integers, Sequences

CONSTANTS
  Keys,           \* names that callers give, of endpoints and others
  Ports,          \* std::int32_t values that callers give as ports
  Subscriptions,  \* lists of messages that callers give
  Timeouts,       \* timeout_seconds, in tenths of a millisecond, or NaN
  NaN,            \* the double that is not a number
  MaxInt,         \* the greatest int
  None            \* no call has been made; no port

\* An endpoint is its enumeration and its value in it.  Callers can cast other
\* values to PubSubMessage.
PubSub(m) == <<"pubsub", m>>
Calls == {<<"reqrep", e>> : e \in 0..5} \cup {<<"rest", 0>>}
Endpoints == {PubSub(m) : m \in 0..3} \cup Calls

ASSUME ConfigAssumption ==
  /\ Ports \subseteq Int
  /\ Subscriptions \subseteq Seq(Nat)
  /\ None \notin Int /\ NaN \notin Int /\ Timeouts \subseteq Int \cup {NaN}
  /\ MaxInt \in Nat \ {0}

VARIABLES
  given,      \* the arguments of build_config
  at,         \* the argument it is looking at, then "built", "thrown"; or "terminated"
  culprit,    \* what the exception is about
  todo,       \* the keys that the loop over port_overrides has not reached
  ports,      \* the maps of ports, local and then of the ClientConfig
  subscribe,  \* the list of messages, likewise
  sockets,    \* the ports that run_loop has connected its sockets to
  call        \* the port and the timeout of the last call; no port if it threw

vars == <<given, at, culprit, todo, ports, subscribe, sockets, call>>

-----------------------------------------------------------------------------
(* Names and ports.                                                        *)

default_ports ==
  [e \in Endpoints |-> CASE e[1] = "pubsub" -> 61501 + e[2]
                         [] e[1] = "reqrep" -> 60501 + e[2]
                         [] e[1] = "rest" -> 3000]

\* The three maps from names: no two have a name in common.
name_map ==
  [HydrophoneData                |-> PubSub(0),
   TargetData                    |-> PubSub(1),
   ProcessorSettings             |-> PubSub(2),
   VesselInfo                    |-> PubSub(3),
   GetProcessorSettings          |-> <<"reqrep", 0>>,
   SetFieldOfView                |-> <<"reqrep", 1>>,
   SetBottomDetection            |-> <<"reqrep", 2>>,
   SetInWaterSquelch             |-> <<"reqrep", 3>>,
   SetSquelchlessInWaterDetector |-> <<"reqrep", 4>>,
   GetVesselInfo                 |-> <<"reqrep", 5>>,
   GetHistoryData                |-> <<"rest", 0>>]

to_string(e) ==
  IF e \notin Endpoints THEN "Unknown"
  ELSE [pubsub |-> <<"HydrophoneData", "TargetData", "ProcessorSettings", "VesselInfo">>,
        reqrep |-> <<"GetProcessorSettings", "SetFieldOfView", "SetBottomDetection",
                     "SetInWaterSquelch", "SetSquelchlessInWaterDetector", "GetVesselInfo">>,
        rest   |-> <<"GetHistoryData">>][e[1]][e[2] + 1]

-----------------------------------------------------------------------------
(* build_config.                                                           *)

Init ==
  /\ \E O \in SUBSET Keys :
       given \in [host : {"address", "malformed"}, subscribe : Subscriptions,
                  timeout_seconds : Timeouts, port_overrides : [O -> Ports]]
  /\ at = "timeout_seconds" /\ culprit = None
  /\ todo = DOMAIN given.port_overrides
  /\ ports = default_ports
  /\ subscribe = given.subscribe
  /\ sockets = <<>> /\ call = None

Throw(what) ==
  /\ at' = "thrown" /\ culprit' = what
  /\ UNCHANGED <<given, todo, ports, subscribe, sockets, call>>

\* timeout_seconds <= 0.0, which is false of NaN.
NotPositive(t) == t # NaN /\ t <= 0

CheckTimeout ==
  /\ at = "timeout_seconds"
  /\ \/ NotPositive(given.timeout_seconds) /\ Throw("timeout_seconds")
     \/ /\ ~NotPositive(given.timeout_seconds)
        /\ at' = "port_overrides"
        /\ UNCHANGED <<given, culprit, todo, ports, subscribe, sockets, call>>

\* A faulty variant: the port is not checked.
OverrideUnchecked(key) ==
  /\ at = "port_overrides" /\ key \in todo /\ key \in DOMAIN name_map
  /\ todo' = todo \ {key}
  /\ ports' = [ports EXCEPT ![name_map[key]] = given.port_overrides[key]]
  /\ UNCHANGED <<given, at, culprit, subscribe, sockets, call>>

\* One entry of port_overrides, whichever comes next in the unordered_map.
Override(key) ==
  /\ at = "port_overrides" /\ key \in todo
  /\ LET port == given.port_overrides[key] IN
       \/ (port <= 0 \/ key \notin DOMAIN name_map) /\ Throw(key)
       \/ /\ port > 0 /\ key \in DOMAIN name_map
          /\ todo' = todo \ {key}
          /\ ports' = [ports EXCEPT ![name_map[key]] = port]
          /\ UNCHANGED <<given, at, culprit, subscribe, sockets, call>>

\* A faulty variant: the messages are not looked up.
CheckNoSubscribe ==
  /\ at = "port_overrides" /\ todo = {}
  /\ at' = "built"
  /\ subscribe' = IF subscribe = <<>> THEN <<0, 1, 2, 3>> ELSE subscribe
  /\ UNCHANGED <<given, culprit, todo, ports, sockets, call>>

\* An empty list stands for all messages.
CheckSubscribe ==
  /\ at = "port_overrides" /\ todo = {}
  /\ \/ /\ \A i \in DOMAIN subscribe : PubSub(subscribe[i]) \in DOMAIN ports
        /\ at' = "built"
        /\ subscribe' = IF subscribe = <<>> THEN <<0, 1, 2, 3>> ELSE subscribe
        /\ UNCHANGED <<given, culprit, todo, ports, sockets, call>>
     \/ \E i \in DOMAIN subscribe :
          PubSub(subscribe[i]) \notin DOMAIN ports /\ Throw("subscribe")

-----------------------------------------------------------------------------
(* The uses of the ClientConfig.                                           *)

MaxPort == 65535

\* Where the transport connects to, None for an exception.  build_config lets a port
\* through that is too large; libraries refuse it or take its last 16 bits.
Reaches(host, port) ==
  IF host = "malformed" THEN {None}
  ELSE IF port <= MaxPort THEN {port}
  ELSE {None} \cup ({port % (MaxPort + 1)} \ {0})

\* run_loop connects a socket for each message.  pubsub_address throws for one that
\* has no port and connect for an address that it refuses, out of the function of
\* the receive thread.
Connect ==
  /\ at = "built" /\ Len(sockets) < Len(subscribe)
  /\ LET e == PubSub(subscribe[Len(sockets) + 1]) IN
       \/ e \notin DOMAIN ports /\ at' = "terminated" /\ UNCHANGED sockets
       \/ /\ e \in DOMAIN ports
          /\ \E port \in Reaches(given.host, ports[e]) :
               \/ port = None /\ at' = "terminated" /\ UNCHANGED sockets
               \/ port # None /\ sockets' = Append(sockets, port) /\ UNCHANGED at
  /\ UNCHANGED <<given, culprit, todo, ports, subscribe, call>>

\* static_cast<int>(timeout_seconds * 1000.0): undefined out of the range of int.
InRange(t) == t # NaN /\ t \div 10 <= MaxInt
Casts(t) == IF InRange(t) THEN {t \div 10} ELSE (-MaxInt - 1)..MaxInt

\* A faulty variant: less than a millisecond is not raised to one.
to_timeout_ms_raw(t) == Casts(t)

to_timeout_ms(t) == {IF ms > 0 THEN ms ELSE 1 : ms \in Casts(t)}

\* A call of a function of requests.hpp: where to, and for how long.
Request(e) ==
  /\ at = "built"
  /\ \E ms \in to_timeout_ms(given.timeout_seconds), port \in Reaches(given.host, ports[e]) :
       call' = [port |-> port, ms |-> ms]
  /\ UNCHANGED <<given, at, culprit, todo, ports, subscribe, sockets>>

Next ==
  \/ CheckTimeout
  \/ \E key \in Keys : Override(key)
  \/ CheckSubscribe
  \/ Connect
  \/ \E e \in Calls : Request(e)

Spec == Init /\ [][Next]_vars

-----------------------------------------------------------------------------
\* The port of an endpoint, by the name that to_string gives it.
Asked(e) ==
  IF to_string(e) \in DOMAIN given.port_overrides
  THEN given.port_overrides[to_string(e)] ELSE default_ports[e]

Names == {to_string(e) : e \in Endpoints}
FaultyKeys ==
  {key \in DOMAIN given.port_overrides :
     given.port_overrides[key] <= 0 \/ key \notin Names}

\* Neither what build_config builds nor whether it does depends on the order of
\* the unordered_map: it throws if and only if an argument is faulty, about one
\* that is, and the endpoint that an override names gets its port, no other one.
\* Only which of several faulty overrides is named is open.
OrderIsImmaterial ==
  /\ at = "thrown" =>
       \/ culprit = "timeout_seconds" /\ NotPositive(given.timeout_seconds)
       \/ ~NotPositive(given.timeout_seconds) /\ culprit \in FaultyKeys
       \/ /\ culprit = "subscribe" /\ FaultyKeys = {}
          /\ \E i \in DOMAIN given.subscribe : given.subscribe[i] \notin 0..3
  /\ at \in {"built", "terminated"} =>
       /\ ~NotPositive(given.timeout_seconds) /\ FaultyKeys = {}
       /\ \A i \in DOMAIN given.subscribe : given.subscribe[i] \in 0..3
       /\ \A e \in Endpoints : ports[e] = Asked(e)

\* What build_config lets through makes run_loop throw in the receive thread, which ends
\* the process, only for an address that the transport refuses: a malformed host, or a
\* port above 65535, of which build_config checks only that it is positive.  The message
\* itself always has a port; there is at least one socket, and each whose port exists
\* is connected to the port that was asked for its message.
OnlyBadAddressesFail ==
  /\ at = "terminated" =>
       LET m == subscribe[Len(sockets) + 1] IN
       m \in 0..3 /\ (given.host = "malformed" \/ Asked(PubSub(m)) > MaxPort)
  /\ at \in {"built", "terminated"} =>
       /\ subscribe # <<>>
       /\ \A i \in DOMAIN sockets :
            LET port == Asked(PubSub(subscribe[i])) IN port <= MaxPort => sockets[i] = port

\* No call is given a timeout that waits for ever (below 0) or not at all (0),
\* also where the conversion is undefined; where it is defined, the timeout is
\* the one configured, in whole milliseconds and at least one.
CallsGiveUp ==
  call # None =>
    /\ call.ms >= 1
    /\ InRange(given.timeout_seconds) =>
         call.ms * 10 <= given.timeout_seconds \/ call.ms = 1
    /\ InRange(given.timeout_seconds) => given.timeout_seconds < (call.ms + 1) * 10

=============================================================================
