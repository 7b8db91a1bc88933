---------------------------- MODULE RequestReply ----------------------------
(***************************************************************************)
(* The request-reply calls of src/requests.cpp: the endpoint functions,     *)
(* their _async forms, and send_request, which makes a context and a REQ    *)
(* socket for each call, sends, waits for the reply and gives up when       *)
(* timeout_seconds have passed.  Calls run concurrently, each on a thread   *)
(* of the application or on one of std::async.                              *)
(*                                                                         *)
(* The processor and the transport are external: messages are lost at any   *)
(* time, on the way there or back, by a crash or a closed socket; a         *)
(* processor may answer at any time, after the caller has given up too.     *)
(***************************************************************************)
EXTENDS Sonar, FiniteSets

CONSTANTS
  Async,        \* the calls that are made with an _async form
  Endpoint,     \* bound: the endpoints that are called; elsewhere, only the
                \* settings that these set are changed
  ServerCode,   \* the codes, as on the wire, that processors answer with
  MaxVersions   \* bound: how many versions of its settings a processor has
                \* when they are still changed elsewhere

\* kNewer is a code that is not in this client's schema; "absent" is none.
WireCode ==
  {"kSuccess", "kUnknownError", "kOperationUnavailable", "kParameterOutOfRange",
   "kParameterMissing", "kInvalidRequest", "kNewer", "absent"}

ASSUME AsyncAssumption == Async \subseteq Call

ASSUME BoundAssumption ==
  /\ Endpoint \subseteq ReqRepEndpoint
  /\ ServerCode \subseteq WireCode
  /\ MaxVersions \in Nat

VARIABLES
  config,    \* the host in the ClientConfig of the application
  past,      \* the versions of each processor's settings
  stage,     \* each call: see Stages
  request,   \* what each call asks for, of the host configured when it was made
  since,     \* history: how many versions that host had then
  wire,      \* the requests on their way, or waiting at a processor
  replies,   \* the replies on their way
  effect,    \* history: what the processor has done of each call
  response   \* what each call has returned

network == <<wire, replies>>
clientVars == <<config, stage, request, since, response>>
vars == <<clientVars, network, past, effect>>

\* The last four are the outcomes: a response, or one of the exceptions.
Stages ==
  {"idle", "called", "waiting", "returned", "send_failed", "timed_out", "unparsable"}
Unsent == {"idle", "called", "send_failed"}
Thrown == {"send_failed", "timed_out", "unparsable"}

Unknown == [code |-> "none", settings |-> Default]
NoRequest == [host |-> "none", endpoint |-> "none", value |-> "none"]

Init ==
  /\ config \in Host
  /\ past = First
  /\ stage = [c \in Call |-> "idle"]
  /\ request = [c \in Call |-> NoRequest]
  /\ since = [c \in Call |-> 0]
  /\ wire = {} /\ replies = {}
  /\ effect = [c \in Call |-> Unknown]
  /\ response = [c \in Call |-> Unknown]

-----------------------------------------------------------------------------
(* The client.                                                             *)

\* An _async form copies the configuration, the others refer to it.
Invoke(c, e, v) ==
  /\ stage[c] = "idle"
  /\ stage' = [stage EXCEPT ![c] = "called"]
  /\ request' = [request EXCEPT ![c] = [host |-> config, endpoint |-> e, value |-> v]]
  /\ since' = [since EXCEPT ![c] = Len(past[config])]
  /\ UNCHANGED <<config, response, network, past, effect>>

\* The application does not change a configuration that a call refers to.
Reconfigure(h) ==
  /\ \A c \in Call \ Async : stage[c] \notin {"called", "waiting"}
  /\ config' = h
  /\ UNCHANGED <<stage, request, since, response, network, past, effect>>

\* The host that endpoint_address reads.  A faulty variant: an _async form that
\* captures the configuration by reference.
HostByReference(c) == config
HostOf(c) == request[c].host

\* The endpoint whose port endpoint_address reads.  A faulty variant: one of the
\* set functions was copied from another.
EndpointCopied(c) ==
  IF request[c].endpoint = "SetBottomDetection" THEN "SetFieldOfView"
                                                ELSE request[c].endpoint
EndpointOf(c) == request[c].endpoint

\* What the socket of call c sends.
Packed(c) ==
  [call |-> c, host |-> HostOf(c), endpoint |-> EndpointOf(c), value |-> request[c].value]

\* connect, serialize and send.
Send(c) ==
  /\ stage[c] = "called"
  /\ stage' = [stage EXCEPT ![c] = "waiting"]
  /\ wire' = wire \cup {Packed(c)}
  /\ UNCHANGED <<config, request, since, response, replies, past, effect>>

\* A faulty variant: send gives up when it has handed the message over.
SendFailsLate(c) ==
  /\ stage[c] = "called"
  /\ stage' = [stage EXCEPT ![c] = "send_failed"]
  /\ wire' = wire \cup {Packed(c)}
  /\ UNCHANGED <<config, request, since, response, replies, past, effect>>

\* send gives up: nothing has left.
SendFails(c) ==
  /\ stage[c] = "called"
  /\ stage' = [stage EXCEPT ![c] = "send_failed"]
  /\ UNCHANGED <<config, request, since, response, network, past, effect>>

\* The replies that the socket of call c can receive.  A faulty variant: the
\* calls share a socket.
RepliesToAnyone(c) == replies
RepliesTo(c) == {r \in replies : r.call = c}

\* What ParseFromArray and code() make of the code: a closed enum has no value
\* for a code that is unknown, and one that is not set reads as its first.
Parsed(code) == IF code \in {"kNewer", "absent"} THEN "kSuccess" ELSE code

\* convert_result_code.
ConvertResultCode(code) ==
  CASE code = "kSuccess" -> "Success"
    [] code = "kOperationUnavailable" -> "OperationUnavailable"
    [] code = "kParameterOutOfRange" -> "ParameterOutOfRange"
    [] code = "kParameterMissing" -> "ParameterMissing"
    [] code = "kInvalidRequest" -> "InvalidRequest"
    [] OTHER -> "UnknownError"

\* A message that is not set reads as its defaults.
ConvertProcessorSettings(settings) ==
  IF settings = {} THEN Default ELSE CHOOSE s \in settings : TRUE

\* The reply comes, and it is one that ParseFromArray rejects, or a response is
\* made of it.
Receive(c) ==
  /\ stage[c] = "waiting"
  /\ \E r \in RepliesTo(c) :
       /\ replies' = replies \ {r}
       /\ \/ /\ stage' = [stage EXCEPT ![c] = "unparsable"]
             /\ UNCHANGED response
          \/ /\ stage' = [stage EXCEPT ![c] = "returned"]
             /\ response' = [response EXCEPT ![c] =
                  [code |-> ConvertResultCode(Parsed(r.code)),
                   settings |-> ConvertProcessorSettings(r.settings)]]
  /\ UNCHANGED <<config, request, since, wire, past, effect>>

\* Faulty variants: no rcvtimeo; and a second attempt.
NeverTimesOut(c) == FALSE
TimesOutAndResends(c) ==
  /\ stage[c] = "waiting"
  /\ wire' = wire \cup {Packed(c)}
  /\ UNCHANGED <<clientVars, replies, past, effect>>

\* recv gives up and the socket is closed.  The request may still arrive.
TimesOut(c) ==
  /\ stage[c] = "waiting"
  /\ stage' = [stage EXCEPT ![c] = "timed_out"]
  /\ UNCHANGED <<config, request, since, response, network, past, effect>>

-----------------------------------------------------------------------------
(* The processors and the transport.                                       *)

\* The processor grants a request or refuses it, and answers.
Process(m) ==
  /\ m \in wire
  /\ wire' = wire \ {m}
  /\ \E code \in ServerCode :
       LET granted == code = "kSuccess"
           told == IF granted THEN Told(past[m.host], m) ELSE {}
       IN  /\ past' = IF granted THEN [past EXCEPT ![m.host] = Granted(@, m.call, m)]
                                 ELSE past
           /\ effect' = [effect EXCEPT ![m.call] =
                [code |-> code, settings |-> ConvertProcessorSettings(told)]]
           /\ replies' = replies \cup
                {[call |-> m.call, code |-> code, settings |-> told]}
  /\ UNCHANGED clientVars

Elsewhere(h, f, v) ==
  /\ Len(past[h]) < MaxVersions
  /\ past' = [past EXCEPT ![h] =
       Append(@, [by |-> Nobody, settings |-> [Current(@) EXCEPT ![f] = v]])]
  /\ UNCHANGED <<clientVars, network, effect>>

LoseRequest(m) ==
  /\ m \in wire
  /\ wire' = wire \ {m}
  /\ UNCHANGED <<clientVars, replies, past, effect>>

LoseReply(r) ==
  /\ r \in replies
  /\ replies' = replies \ {r}
  /\ UNCHANGED <<clientVars, wire, past, effect>>

-----------------------------------------------------------------------------

SendRequest(c) == Send(c) \/ SendFails(c) \/ Receive(c) \/ TimesOut(c)

Done == \A c \in Call : stage[c] \in Thrown \cup {"returned"}

\* Every call has been made and has ended.
Finished == Done /\ UNCHANGED vars

Next ==
  \/ \E c \in Call :
       \/ SendRequest(c)
       \/ \E e \in Endpoint : \E v \in Argument(e) : Invoke(c, e, v)
  \/ \E h \in Host : Reconfigure(h)
  \/ \E h \in Host, e \in Endpoint \cap SetEndpoint, v \in Value :
       Elsewhere(h, SettingOf[e], v)
  \/ \E m \in wire : Process(m) \/ LoseRequest(m)
  \/ \E r \in replies : LoseReply(r)
  \/ Finished

SafeSpec == Init /\ [][Next]_vars

\* A call's thread runs, and timers expire.  Nothing is assumed of a processor.
Fairness ==
  \A c \in Call : WF_vars(Send(c) \/ SendFails(c)) /\ WF_vars(TimesOut(c))

Spec == SafeSpec /\ Fairness

-----------------------------------------------------------------------------
(* Properties.                                                             *)

\* The types.  A call has a response exactly when it has returned one, and its
\* code is one that ResultCode names.  Of a call that has not sent a request, or
\* could not, there is no message, and nothing has come of it.
TypeOK ==
  /\ config \in Host
  /\ past \in [Host -> Seq(Version)] /\ \A h \in Host : past[h] # <<>>
  /\ stage \in [Call -> Stages]
  /\ request \in [Call -> Request \cup {NoRequest}]
  /\ \A c \in Call : request[c] = NoRequest <=> stage[c] = "idle"
  /\ since \in [Call -> Nat]
  /\ wire \subseteq [call : Call, host : Host, endpoint : ReqRepEndpoint,
                    value : Value \cup {"none"}]
  /\ replies \subseteq [call : Call, code : ServerCode,
                       settings : {{}} \cup {{s} : s \in Settings}]
  /\ effect \in [Call -> {Unknown} \cup [code : ServerCode, settings : Settings]]
  /\ response \in [Call -> {Unknown} \cup [code : ResultCode, settings : Settings]]
  /\ \A c \in Call : response[c] # Unknown <=> stage[c] = "returned"
  /\ \A c \in Call : stage[c] \in Unsent =>
       effect[c] = Unknown /\ \A m \in wire \cup replies : m.call # c

\* The versions of a processor's settings that call c has made.
MadeBy(c, h) == {k \in DOMAIN past[h] : past[h][k].by = c}

\* Whatever is lost and however often calls time out, no call changes settings
\* twice, or those of a processor that it was not made for: there are no
\* retries, and a configuration that changes meanwhile is not looked at.
AtMostOnce ==
  \A c \in Call, h \in Host :
    /\ Cardinality(MadeBy(c, h)) <= 1
    /\ MadeBy(c, h) # {} => stage[c] # "idle" /\ request[c].host = h

\* A set call that returns Success has changed its setting, to its value, after
\* it was called; one that returns another code has not changed any and never
\* will.  (Both fail for processors that answer with codes of a newer schema.)
ResponseIsTrue ==
  \A c \in Call :
    stage[c] = "returned" /\ request[c].endpoint \in SetEndpoint =>
      LET q == request[c]
          setting == SettingOf[q.endpoint]
          made == {k \in MadeBy(c, q.host) :
                     /\ k > since[c]
                     /\ past[q.host][k].settings =
                          [past[q.host][k - 1].settings EXCEPT ![setting] = q.value]}
      IN  IF response[c].code = "Success" THEN made # {} ELSE MadeBy(c, q.host) = {}

\* The settings that get_processor_settings returns with Success were those of
\* the processor at some time since the call was made: they are never those of
\* an earlier call's reply, however late that comes.
FreshSettings ==
  \A c \in Call :
    /\ stage[c] = "returned" /\ response[c].code = "Success"
    /\ request[c].endpoint = "GetProcessorSettings"
    => \E k \in DOMAIN past[request[c].host] :
         /\ k >= since[c]
         /\ past[request[c].host][k].settings = response[c].settings

\* A code that the client does not know is reported as UnknownError.
UnknownCodeIsError ==
  \A c \in Call :
    stage[c] = "returned" /\ effect[c].code = "kNewer" => response[c].code = "UnknownError"

\* Every call returns or throws, although no processor need ever answer.
EveryCallEnds ==
  \A c \in Call : stage[c] = "called" ~> stage[c] \in Thrown \cup {"returned"}

\* How a call, and what has come of it, look from outside.
StatusOf(s) ==
  CASE s = "idle" -> "idle"
    [] s \in {"called", "waiting"} -> "pending"
    [] s = "returned" -> "returned"
    [] s \in Thrown -> "thrown"

OutcomeOf(x) ==
  IF x = Unknown THEN Unknown ELSE [x EXCEPT !.code = ConvertResultCode(@)]

Status == [c \in Call |-> StatusOf(stage[c])]
Outcome == [c \in Call |-> OutcomeOf(effect[c])]

Remote == INSTANCE RemoteCalls WITH status <- Status, effect <- Outcome

\* The calls are the ones that RemoteCalls promises.
ImplementsRemoteCalls == Remote!SafeSpec
=============================================================================
