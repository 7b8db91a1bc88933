------------------------- MODULE ClientConfigProofs -------------------------
(***************************************************************************)
(* Proofs about ClientConfig, for any names, ports, subscriptions and       *)
(* timeouts, and any width of int: what build_config builds or refuses does *)
(* not depend on the order of the overrides, what it builds connects, and   *)
(* the calls made with it give up.                                          *)
(***************************************************************************)
EXTENDS ClientConfig, TLAPS

Overrides == given.port_overrides

\* The port that e has when the entries of todo are still to come.
PortSoFar(e) ==
  IF to_string(e) \in DOMAIN Overrides \ todo THEN Overrides[to_string(e)] ELSE default_ports[e]

\* The reasons that build_config has for an exception.
Refused ==
  \/ culprit = "timeout_seconds" /\ NotPositive(given.timeout_seconds)
  \/ ~NotPositive(given.timeout_seconds) /\ culprit \in FaultyKeys
  \/ /\ culprit = "subscribe" /\ FaultyKeys = {}
     /\ \E i \in DOMAIN given.subscribe : given.subscribe[i] \notin 0..3

TypeOK ==
  /\ given.timeout_seconds \in Timeouts
  /\ given.subscribe \in Seq(Nat)
  /\ \A key \in DOMAIN Overrides : Overrides[key] \in Int
  /\ todo \subseteq DOMAIN Overrides
  /\ at \in {"timeout_seconds", "port_overrides", "built", "thrown", "terminated"}
  /\ sockets \in Seq(Int)

\* Where build_config is, and what it has looked at by then.
Seen ==
  /\ at # "timeout_seconds" /\ at # "thrown" => ~NotPositive(given.timeout_seconds)
  /\ \A key \in DOMAIN Overrides \ todo : key \notin FaultyKeys
  /\ at \in {"built", "terminated"} =>
       /\ todo = {}
       /\ \A i \in DOMAIN given.subscribe : given.subscribe[i] \in 0..3
  /\ at = "thrown" => Refused

\* The overrides that have been applied, and no others, show in the ports.
PortsInv == ports = [e \in Endpoints |-> PortSoFar(e)]

\* What is subscribed to has ports, and the sockets are connected to them as far as the
\* transport takes them; it has refused the next one if the process has ended.
SubscribeInv ==
  /\ at \in {"timeout_seconds", "port_overrides"} => subscribe = given.subscribe /\ sockets = <<>>
  /\ at \in {"built", "terminated"} =>
       /\ subscribe \in Seq(0..3) /\ subscribe # <<>>
       /\ Len(sockets) <= Len(subscribe)
       /\ \A i \in DOMAIN sockets :
            sockets[i] \in Reaches(given.host, ports[PubSub(subscribe[i])]) \ {None}
  /\ at = "terminated" =>
       /\ Len(sockets) < Len(subscribe)
       /\ None \in Reaches(given.host, ports[PubSub(subscribe[Len(sockets) + 1])])

Inv == TypeOK /\ Seen /\ PortsInv /\ SubscribeInv

-----------------------------------------------------------------------------
(* Names.                                                                  *)

\* The endpoints, one by one.
LEMMA EndpointCases ==
  ASSUME NEW e \in Endpoints
  PROVE  \/ e \in {PubSub(0), PubSub(1), PubSub(2), PubSub(3)}
         \/ e \in {<<"reqrep", 0>>, <<"reqrep", 1>>, <<"reqrep", 2>>, <<"reqrep", 3>>,
                   <<"reqrep", 4>>, <<"reqrep", 5>>, <<"rest", 0>>}
  BY DEF Endpoints, PubSub, Calls

\* Each endpoint is found by the name that to_string gives it.
LEMMA NameOf ==
  ASSUME NEW e \in Endpoints
  PROVE  to_string(e) \in DOMAIN name_map /\ name_map[to_string(e)] = e
  <1>1. CASE e = PubSub(0) BY <1>1 DEF to_string, name_map, PubSub
  <1>2. CASE e = PubSub(1) BY <1>2 DEF to_string, name_map, PubSub
  <1>3. CASE e = PubSub(2) BY <1>3 DEF to_string, name_map, PubSub
  <1>4. CASE e = PubSub(3) BY <1>4 DEF to_string, name_map, PubSub
  <1>5. CASE e = <<"reqrep", 0>> BY <1>5 DEF to_string, name_map
  <1>6. CASE e = <<"reqrep", 1>> BY <1>6 DEF to_string, name_map
  <1>7. CASE e = <<"reqrep", 2>> BY <1>7 DEF to_string, name_map
  <1>8. CASE e = <<"reqrep", 3>> BY <1>8 DEF to_string, name_map
  <1>9. CASE e = <<"reqrep", 4>> BY <1>9 DEF to_string, name_map
  <1>10. CASE e = <<"reqrep", 5>> BY <1>10 DEF to_string, name_map
  <1>11. CASE e = <<"rest", 0>> BY <1>11 DEF to_string, name_map
  <1> QED BY <1>1, <1>2, <1>3, <1>4, <1>5, <1>6, <1>7, <1>8, <1>9, <1>10, <1>11, EndpointCases

\* Each name of the maps is that of the endpoint it stands for.
LEMMA NamedBy ==
  ASSUME NEW key \in DOMAIN name_map
  PROVE  name_map[key] \in Endpoints /\ to_string(name_map[key]) = key
  <1>1. key \in {"HydrophoneData", "TargetData", "ProcessorSettings", "VesselInfo"}
          => name_map[key] \in Endpoints /\ to_string(name_map[key]) = key
    BY DEF name_map, to_string, Endpoints, PubSub, Calls
  <1>2. key \in {"GetProcessorSettings", "SetFieldOfView", "SetBottomDetection"}
          => name_map[key] \in Endpoints /\ to_string(name_map[key]) = key
    BY DEF name_map, to_string, Endpoints, PubSub, Calls
  <1>3. key \in {"SetInWaterSquelch", "SetSquelchlessInWaterDetector"}
          => name_map[key] \in Endpoints /\ to_string(name_map[key]) = key
    BY DEF name_map, to_string, Endpoints, PubSub, Calls
  <1>4. key \in {"GetVesselInfo", "GetHistoryData"}
          => name_map[key] \in Endpoints /\ to_string(name_map[key]) = key
    BY DEF name_map, to_string, Endpoints, PubSub, Calls
  <1> QED BY <1>1, <1>2, <1>3, <1>4 DEF name_map

\* The names of the maps are those of the endpoints.
LEMMA NamesAre == DOMAIN name_map = Names
  BY NameOf, NamedBy DEF Names

\* An entry is faulty if and only if the loop throws for it.
LEMMA FaultyIs ==
  ASSUME NEW key \in DOMAIN Overrides
  PROVE  key \in FaultyKeys <=> Overrides[key] <= 0 \/ key \notin DOMAIN name_map
  BY NamesAre DEF FaultyKeys, Overrides

\* The messages that have a port.
LEMMA PubSubPorts ==
  ASSUME NEW n \in Nat
  PROVE  PubSub(n) \in Endpoints <=> n \in 0..3
  BY DEF PubSub, Endpoints, Calls

-----------------------------------------------------------------------------
(* The invariant.                                                          *)

\* It holds at first.
LEMMA InvInit == Init => Inv
  <1> SUFFICES ASSUME Init PROVE Inv OBVIOUS
  <1>1. PICK O \in SUBSET Keys :
          given \in [host : {"address", "malformed"}, subscribe : Subscriptions,
                     timeout_seconds : Timeouts, port_overrides : [O -> Ports]]
    BY DEF Init
  <1>2. TypeOK
    <2>1. given.timeout_seconds \in Timeouts /\ given.subscribe \in Seq(Nat)
      BY <1>1, ConfigAssumption
    <2>2. \A key \in DOMAIN Overrides : Overrides[key] \in Int
      BY <1>1, ConfigAssumption DEF Overrides
    <2>3. todo \subseteq DOMAIN Overrides /\ at = "timeout_seconds" /\ sockets = <<>>
      BY DEF Init, Overrides
    <2> QED BY <2>1, <2>2, <2>3 DEF TypeOK
  <1>3. Seen
    BY DEF Seen, Init, Overrides
  <1>4. PortsInv
    <2>1. \A e \in Endpoints : PortSoFar(e) = default_ports[e]
      BY DEF PortSoFar, Init, Overrides
    <2>2. ports = [e \in Endpoints |-> default_ports[e]]
      <3> DEFINE Port(e) == CASE e[1] = "pubsub" -> 61501 + e[2]
                              [] e[1] = "reqrep" -> 60501 + e[2]
                              [] e[1] = "rest" -> 3000
      <3>1. default_ports = [e \in Endpoints |-> Port(e)]
        BY DEF default_ports
      <3> HIDE DEF Port
      <3> QED BY <3>1 DEF Init
    <2> QED BY <2>1, <2>2 DEF PortsInv
  <1>5. SubscribeInv
    BY DEF SubscribeInv, Init
  <1> QED BY <1>2, <1>3, <1>4, <1>5 DEF Inv

\* What is said of the arguments stays as they do.
LEMMA GivenStays ==
  ASSUME given' = given
  PROVE  Overrides' = Overrides /\ FaultyKeys' = FaultyKeys
  BY DEF Overrides, FaultyKeys, Names

\* An exception is thrown for a reason.
LEMMA ThrowKeeps ==
  ASSUME Inv, NEW what, Throw(what), Refused'
  PROVE  Inv'
  <1>1. TypeOK'
    BY DEF Inv, TypeOK, Throw, Overrides
  <1>2. Seen'
    BY GivenStays DEF Inv, Seen, Throw
  <1>3. PortsInv'
    BY DEF Inv, PortsInv, PortSoFar, Throw, Overrides
  <1>4. SubscribeInv'
    BY DEF Inv, SubscribeInv, Throw
  <1> QED BY <1>1, <1>2, <1>3, <1>4 DEF Inv

\* The timeout is checked first.
LEMMA CheckTimeoutKeeps ==
  ASSUME Inv, CheckTimeout
  PROVE  Inv'
  <1>1. CASE NotPositive(given.timeout_seconds) /\ Throw("timeout_seconds")
    <2>1. Refused'
      BY <1>1 DEF Refused, Throw, NotPositive
    <2> QED BY <1>1, <2>1, ThrowKeeps
  <1>2. CASE /\ ~NotPositive(given.timeout_seconds)
             /\ at' = "port_overrides"
             /\ UNCHANGED <<given, culprit, todo, ports, subscribe, sockets, call>>
    <2>1. TypeOK'
      BY <1>2 DEF Inv, TypeOK, Overrides
    <2>2. Seen'
      BY <1>2, GivenStays DEF Inv, Seen, NotPositive
    <2>3. PortsInv'
      BY <1>2 DEF Inv, PortsInv, PortSoFar, Overrides
    <2>4. SubscribeInv'
      BY <1>2 DEF Inv, SubscribeInv, CheckTimeout
    <2> QED BY <2>1, <2>2, <2>3, <2>4 DEF Inv
  <1> QED BY <1>1, <1>2 DEF CheckTimeout

\* An override is refused, or changes the port of the endpoint that it names.
LEMMA OverrideKeeps ==
  ASSUME Inv, NEW key \in Keys, Override(key)
  PROVE  Inv'
  <1>0. at = "port_overrides" /\ key \in todo /\ key \in DOMAIN Overrides /\ Overrides[key] \in Int
    BY DEF Inv, TypeOK, Override
  <1>1. CASE (Overrides[key] <= 0 \/ key \notin DOMAIN name_map) /\ Throw(key)
    <2>1. key \in FaultyKeys
      BY <1>0, <1>1, FaultyIs
    <2>2. ~NotPositive(given.timeout_seconds)
      BY <1>0 DEF Inv, Seen
    <2>3. Refused'
      BY <1>1, <2>1, <2>2, GivenStays DEF Refused, Throw, NotPositive
    <2> QED BY <1>1, <2>3, ThrowKeeps
  <1>2. CASE /\ Overrides[key] > 0 /\ key \in DOMAIN name_map
             /\ todo' = todo \ {key}
             /\ ports' = [ports EXCEPT ![name_map[key]] = Overrides[key]]
             /\ UNCHANGED <<given, at, culprit, subscribe, sockets, call>>
    <2>0. Overrides' = Overrides /\ FaultyKeys' = FaultyKeys
      BY <1>2, GivenStays
    <2>1. TypeOK'
      BY <1>2, <2>0 DEF Inv, TypeOK
    <2>2. key \notin FaultyKeys
      BY <1>0, <1>2, FaultyIs
    <2>3. Seen'
      BY <1>0, <1>2, <2>0, <2>2 DEF Inv, Seen
    <2>4. \A e \in Endpoints :
            PortSoFar(e)' = IF e = name_map[key] THEN Overrides[key] ELSE PortSoFar(e)
      <3> SUFFICES ASSUME NEW e \in Endpoints
                   PROVE  PortSoFar(e)' = IF e = name_map[key] THEN Overrides[key] ELSE PortSoFar(e)
        OBVIOUS
      <3>1. to_string(e) = key <=> e = name_map[key]
        BY <1>2, NameOf, NamedBy
      <3>2. to_string(e) \in DOMAIN Overrides \ todo'
              <=> to_string(e) = key \/ to_string(e) \in DOMAIN Overrides \ todo
        BY <1>0, <1>2
      <3>3. PortSoFar(e)' = IF to_string(e) \in DOMAIN Overrides \ todo'
                            THEN Overrides[to_string(e)] ELSE default_ports[e]
        BY <2>0 DEF PortSoFar
      <3> QED BY <3>1, <3>2, <3>3 DEF PortSoFar
    <2>5. PortsInv'
      BY <1>2, <2>4 DEF Inv, PortsInv
    <2>6. SubscribeInv'
      BY <1>0, <1>2 DEF Inv, SubscribeInv
    <2> QED BY <2>1, <2>3, <2>5, <2>6 DEF Inv
  <1> QED BY <1>1, <1>2 DEF Override, Overrides

\* With every override applied, each endpoint has the port asked for.
LEMMA AskedPorts ==
  ASSUME PortsInv, todo = {}
  PROVE  \A e \in Endpoints : ports[e] = Asked(e)
  BY DEF PortsInv, PortSoFar, Asked, Overrides

\* What is subscribed to is looked up, or is everything.
LEMMA CheckSubscribeKeeps ==
  ASSUME Inv, CheckSubscribe
  PROVE  Inv'
  <1>0. /\ at = "port_overrides" /\ todo = {} /\ DOMAIN ports = Endpoints
        /\ subscribe = given.subscribe /\ sockets = <<>> /\ given.subscribe \in Seq(Nat)
    BY DEF Inv, CheckSubscribe, SubscribeInv, TypeOK, PortsInv
  <1>1. CASE /\ \A i \in DOMAIN subscribe : PubSub(subscribe[i]) \in DOMAIN ports
             /\ at' = "built"
             /\ subscribe' = IF subscribe = <<>> THEN <<0, 1, 2, 3>> ELSE subscribe
             /\ UNCHANGED <<given, culprit, todo, ports, sockets, call>>
    <2>1. TypeOK'
      BY <1>1 DEF Inv, TypeOK, Overrides
    <2>0. \A i \in DOMAIN given.subscribe : given.subscribe[i] \in 0..3
      BY <1>0, <1>1, PubSubPorts
    <2>2. Seen'
      BY <1>0, <1>1, <2>0, GivenStays DEF Inv, Seen, NotPositive
    <2>3. PortsInv'
      BY <1>1 DEF Inv, PortsInv, PortSoFar, Overrides
    <2>4. subscribe # <<>> => subscribe \in Seq(0..3)
      BY <1>0, <2>0
    <2>5. <<0, 1, 2, 3>> \in Seq(0..3)
      OBVIOUS
    <2>6. subscribe' \in Seq(0..3) /\ subscribe' # <<>>
      BY <1>1, <2>4, <2>5
    <2>7. SubscribeInv'
      BY <1>0, <1>1, <2>6 DEF SubscribeInv
    <2> QED BY <2>1, <2>2, <2>3, <2>7 DEF Inv
  <1>2. ASSUME NEW i \in DOMAIN subscribe,
               PubSub(subscribe[i]) \notin DOMAIN ports, Throw("subscribe")
        PROVE  Inv'
    <2>1. given.subscribe[i] \notin 0..3
      BY <1>0, <1>2, PubSubPorts
    <2>2. FaultyKeys = {}
      BY <1>0 DEF Inv, Seen, FaultyKeys, Overrides
    <2>3. Refused'
      BY <1>0, <1>2, <2>1, <2>2, GivenStays DEF Refused, Throw
    <2> QED BY <1>2, <2>3, ThrowKeeps
  <1> QED BY <1>1, <1>2 DEF CheckSubscribe

\* What the transport makes of a port.
LEMMA ReachesInt ==
  ASSUME NEW host, NEW port \in Int, NEW p \in Reaches(host, port)
  PROVE  p = None \/ p \in Int
  BY DEF Reaches, MaxPort

\* The next socket is connected, or its address is refused: it has a port.
LEMMA ConnectKeeps ==
  ASSUME Inv, Connect
  PROVE  Inv'
  <1> DEFINE m == subscribe[Len(sockets) + 1]
  <1>0. /\ at = "built" /\ Len(sockets) < Len(subscribe)
        /\ subscribe \in Seq(0..3) /\ subscribe # <<>>
        /\ sockets \in Seq(Int) /\ DOMAIN ports = Endpoints
        /\ UNCHANGED <<given, culprit, todo, ports, subscribe, call>>
    BY DEF Inv, Connect, SubscribeInv, TypeOK, PortsInv
  <1>1. m \in 0..3
    BY <1>0
  <1>2. PubSub(m) \in DOMAIN ports
    BY <1>0, <1>1, PubSubPorts
  <1>3. PICK port \in Reaches(given.host, ports[PubSub(m)]) :
          \/ port = None /\ at' = "terminated" /\ UNCHANGED sockets
          \/ port # None /\ sockets' = Append(sockets, port) /\ UNCHANGED at
    BY <1>2 DEF Connect
  <1>4. port = None \/ port \in Int
    <2>1. default_ports[PubSub(m)] \in Int
      BY <1>1 DEF default_ports, PubSub, Endpoints
    <2>2. ports[PubSub(m)] \in Int
      BY <1>0, <1>2, <2>1 DEF Inv, TypeOK, PortsInv, PortSoFar
    <2> QED BY <1>3, <2>2, ReachesInt
  <1>5. TypeOK'
    <2>1. sockets' \in Seq(Int)
      <3>1. CASE port = None
        BY <1>0, <1>3, <3>1
      <3>2. CASE port # None
        <4>1. port \in Int
          BY <1>4, <3>2
        <4>2. sockets' = Append(sockets, port) \/ sockets' = sockets
          BY <1>3
        <4> QED BY <1>0, <4>1, <4>2
      <3> QED BY <3>1, <3>2
    <2>2. at' \in {"built", "terminated"}
      BY <1>0, <1>3
    <2> QED BY <1>0, <2>1, <2>2 DEF Inv, TypeOK, Overrides
  <1>6. Seen'
    BY <1>0, <1>3, GivenStays DEF Inv, Seen, NotPositive
  <1>7. PortsInv'
    BY <1>0 DEF Inv, PortsInv, PortSoFar, Overrides
  <1>8. CASE port = None /\ at' = "terminated" /\ UNCHANGED sockets
    <2>1. SubscribeInv'
      BY <1>0, <1>3, <1>8 DEF Inv, SubscribeInv, Reaches
    <2> QED BY <1>5, <1>6, <1>7, <2>1 DEF Inv
  <1>9. CASE port # None /\ sockets' = Append(sockets, port) /\ UNCHANGED at
    <2>1. port \in Int
      BY <1>4, <1>9
    <2>2. ASSUME NEW i \in DOMAIN sockets'
          PROVE  sockets'[i] \in Reaches(given.host, ports[PubSub(subscribe[i])]) \ {None}
      <3>1. CASE i \in DOMAIN sockets
        <4>1. sockets'[i] = sockets[i]
          BY <1>0, <1>9, <2>1, <3>1
        <4> QED BY <1>0, <3>1, <4>1 DEF Inv, SubscribeInv
      <3>2. CASE i = Len(sockets) + 1
        <4>1. sockets'[i] = port
          BY <1>0, <1>9, <2>1, <3>2
        <4> QED BY <1>3, <1>9, <3>2, <4>1
      <3> QED BY <1>0, <1>9, <2>1, <3>1, <3>2
    <2>3. Len(sockets') <= Len(subscribe)
      BY <1>0, <1>9, <2>1
    <2>4. SubscribeInv'
      BY <1>0, <1>9, <2>2, <2>3 DEF SubscribeInv, Reaches
    <2> QED BY <1>5, <1>6, <1>7, <2>4 DEF Inv
  <1> QED BY <1>3, <1>8, <1>9

\* A call changes nothing of it, and neither does a step of nothing.
LEMMA OthersKeep ==
  ASSUME Inv, UNCHANGED <<given, at, culprit, todo, ports, subscribe, sockets>>
  PROVE  Inv'
  <1>1. TypeOK'
    BY DEF Inv, TypeOK, Overrides
  <1>2. Seen'
    BY GivenStays DEF Inv, Seen, Refused, NotPositive
  <1>3. PortsInv'
    BY DEF Inv, PortsInv, PortSoFar, Overrides
  <1>4. SubscribeInv'
    BY DEF Inv, SubscribeInv
  <1> QED BY <1>1, <1>2, <1>3, <1>4 DEF Inv

\* Every step keeps the invariant.
LEMMA InvNext == Inv /\ [Next]_vars => Inv'
  <1> SUFFICES ASSUME Inv, [Next]_vars PROVE Inv' OBVIOUS
  <1>1. CASE CheckTimeout BY <1>1, CheckTimeoutKeeps
  <1>2. ASSUME NEW key \in Keys, Override(key) PROVE Inv'
    BY <1>2, OverrideKeeps
  <1>3. CASE CheckSubscribe BY <1>3, CheckSubscribeKeeps
  <1>4. CASE Connect BY <1>4, ConnectKeeps
  <1>5. ASSUME NEW e \in Calls, Request(e) PROVE Inv'
    BY <1>5, OthersKeep DEF Request
  <1>6. CASE UNCHANGED vars BY <1>6, OthersKeep DEF vars
  <1> QED BY <1>1, <1>2, <1>3, <1>4, <1>5, <1>6 DEF Next

\* What build_config has looked at is in order, the ports are those asked for so far,
\* and the subscriptions have ports.
THEOREM InOrder == Spec => []Inv
  BY InvInit, InvNext, PTL DEF Spec

-----------------------------------------------------------------------------
(* The properties.                                                         *)

\* Whatever the order of the overrides, build_config builds what was asked for or
\* throws for a fault of its arguments.
THEOREM AnyOrder == Spec => []OrderIsImmaterial
  <1>1. ASSUME Inv PROVE OrderIsImmaterial
    <2>1. at = "thrown" => Refused
      BY <1>1 DEF Inv, Seen
    <2>2. at \in {"built", "terminated"} => ~NotPositive(given.timeout_seconds) /\ todo = {}
      BY <1>1 DEF Inv, Seen
    <2>3. todo = {} => FaultyKeys = {}
      BY <1>1 DEF Inv, Seen, FaultyKeys, Overrides
    <2>4. todo = {} => \A e \in Endpoints : ports[e] = Asked(e)
      BY <1>1, AskedPorts DEF Inv
    <2>5. at \in {"built", "terminated"} =>
            \A i \in DOMAIN given.subscribe : given.subscribe[i] \in 0..3
      BY <1>1 DEF Inv, Seen
    <2> QED BY <2>1, <2>2, <2>3, <2>4, <2>5 DEF OrderIsImmaterial, Refused
  <1> QED BY <1>1, InOrder, PTL

\* With what build_config lets through, the receive thread ends the process only for a
\* malformed host or a port above 65535; every other socket is connected to the port
\* that was asked for.
THEOREM TopicsConnect == Spec => []OnlyBadAddressesFail
  <1>1. ASSUME Inv PROVE OnlyBadAddressesFail
    <2> SUFFICES ASSUME at \in {"built", "terminated"} PROVE OnlyBadAddressesFail
      BY DEF OnlyBadAddressesFail
    <2>1. /\ subscribe \in Seq(0..3) /\ subscribe # <<>> /\ sockets \in Seq(Int)
          /\ Len(sockets) <= Len(subscribe) /\ todo = {}
      BY <1>1 DEF Inv, SubscribeInv, TypeOK, Seen
    <2>2. ASSUME NEW m \in 0..3
          PROVE  PubSub(m) \in Endpoints /\ ports[PubSub(m)] = Asked(PubSub(m))
      BY <1>1, <2>1, <2>2, PubSubPorts, AskedPorts DEF Inv
    <2>3. ASSUME at = "terminated"
          PROVE  LET m == subscribe[Len(sockets) + 1] IN
                 m \in 0..3 /\ (given.host = "malformed" \/ Asked(PubSub(m)) > MaxPort)
      <3>1. PICK m : m = subscribe[Len(sockets) + 1]
        OBVIOUS
      <3>2. Len(sockets) < Len(subscribe) /\ None \in Reaches(given.host, ports[PubSub(m)])
        BY <1>1, <2>3, <3>1 DEF Inv, SubscribeInv
      <3>3. m \in 0..3
        BY <2>1, <3>1, <3>2
      <3>4. PICK port : port = ports[PubSub(m)]
        OBVIOUS
      <3>5. port \in Int
        <4>1. default_ports[PubSub(m)] \in Int
          BY <3>3 DEF default_ports, PubSub, Endpoints
        <4> QED BY <1>1, <2>2, <3>3, <3>4, <4>1 DEF Inv, TypeOK, PortsInv, PortSoFar
      <3>6. given.host = "malformed" \/ port > MaxPort
        BY <3>2, <3>4, <3>5, ConfigAssumption DEF Reaches, MaxPort
      <3> QED BY <2>2, <3>1, <3>3, <3>4, <3>6
    <2>4. ASSUME NEW i \in DOMAIN sockets, Asked(PubSub(subscribe[i])) <= MaxPort
          PROVE  sockets[i] = Asked(PubSub(subscribe[i]))
      <3>1. sockets[i] \in Reaches(given.host, ports[PubSub(subscribe[i])]) \ {None}
        BY <1>1 DEF Inv, SubscribeInv
      <3>2. subscribe[i] \in 0..3
        BY <2>1
      <3>3. sockets[i] \in Reaches(given.host, Asked(PubSub(subscribe[i]))) \ {None}
        BY <2>2, <3>1, <3>2
      <3> QED BY <2>4, <3>3 DEF Reaches
    <2> QED BY <2>1, <2>3, <2>4 DEF OnlyBadAddressesFail
  <1> QED BY <1>1, InOrder, PTL

\* The timeout of a call, for every double and every width of int.
LEMMA TimeoutMs ==
  ASSUME NEW t \in Timeouts, NEW ms \in to_timeout_ms(t)
  PROVE  /\ ms >= 1
         /\ InRange(t) => ms * 10 <= t \/ ms = 1
         /\ InRange(t) => t < (ms + 1) * 10
  <1>1. PICK x \in Casts(t) : ms = IF x > 0 THEN x ELSE 1
    BY DEF to_timeout_ms
  <1>2. CASE InRange(t)
    <2>1. t \in Int /\ x = t \div 10
      BY <1>1, <1>2, ConfigAssumption DEF Casts, InRange
    <2>2. (t \div 10) * 10 <= t /\ t < (t \div 10 + 1) * 10 /\ t \div 10 \in Int
      BY <2>1
    <2> QED BY <1>1, <2>1, <2>2
  <1>3. CASE ~InRange(t)
    <2>1. x \in Int
      BY <1>1, <1>3, ConfigAssumption DEF Casts
    <2> QED BY <1>1, <1>3, <2>1
  <1> QED BY <1>2, <1>3

\* No call made with what build_config builds waits for ever, or not at all.
THEOREM GivesUp == Spec => []CallsGiveUp
  <1>1. Init => CallsGiveUp
    BY DEF Init, CallsGiveUp
  <1>2. ASSUME Inv, CallsGiveUp, [Next]_vars PROVE CallsGiveUp'
    <2>1. CASE UNCHANGED <<given, call>>
      BY <1>2, <2>1 DEF CallsGiveUp, InRange
    <2>2. ASSUME NEW e \in Calls, Request(e) PROVE CallsGiveUp'
      <3>1. PICK ms \in to_timeout_ms(given.timeout_seconds),
                 port \in Reaches(given.host, ports[e]) :
              call' = [port |-> port, ms |-> ms]
        BY <2>2 DEF Request
      <3>2. given' = given /\ call'.ms = ms /\ given.timeout_seconds \in Timeouts
        BY <1>2, <2>2, <3>1 DEF Request, Inv, TypeOK
      <3>3. /\ ms >= 1
            /\ InRange(given.timeout_seconds) =>
                 ms * 10 <= given.timeout_seconds \/ ms = 1
            /\ InRange(given.timeout_seconds) => given.timeout_seconds < (ms + 1) * 10
        BY <3>2, TimeoutMs
      <3> QED BY <3>2, <3>3 DEF CallsGiveUp, InRange
    <2>3. CheckTimeout \/ CheckSubscribe \/ Connect \/ (\E key \in Keys : Override(key))
            \/ UNCHANGED vars => UNCHANGED <<given, call>>
      BY DEF CheckTimeout, CheckSubscribe, Connect, Override, Throw, vars
    <2> QED BY <1>2, <2>1, <2>2, <2>3 DEF Next
  <1> QED BY <1>1, <1>2, InOrder, PTL DEF Spec

=============================================================================
