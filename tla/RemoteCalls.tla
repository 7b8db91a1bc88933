---------------------------- MODULE RemoteCalls ----------------------------
(***************************************************************************)
(* What the calls of requests.hpp promise, whatever is lost or late.  A     *)
(* call takes effect at most once, at the processor that the configuration  *)
(* named when it was made, and not before it was made.  When it returns a   *)
(* response it has taken effect, and the response says how.  A call that    *)
(* throws may take effect before that, afterwards, or never.                *)
(*                                                                         *)
(* RequestReply.tla implements this specification.                          *)
(***************************************************************************)
EXTENDS Sonar

VARIABLES
  past,      \* the versions of each processor's settings
  status,    \* each call: "idle", "pending", "returned" or "thrown"
  request,   \* what each call asks for, and of whom
  effect,    \* what came of each call, Unknown until it has taken effect
  response   \* what each call has returned, Unknown until it has

remoteVars == <<past, status, request, effect, response>>

Unknown == [code |-> "none", settings |-> Default]
NoRequest == [host |-> "none", endpoint |-> "none", value |-> "none"]

Init ==
  /\ past = First
  /\ status = [c \in Call |-> "idle"]
  /\ request = [c \in Call |-> NoRequest]
  /\ effect = [c \in Call |-> Unknown]
  /\ response = [c \in Call |-> Unknown]

-----------------------------------------------------------------------------

Invoke(c, q) ==
  /\ status[c] = "idle"
  /\ status' = [status EXCEPT ![c] = "pending"]
  /\ request' = [request EXCEPT ![c] = q]
  /\ UNCHANGED <<past, effect, response>>

Grant(c) ==
  /\ status[c] # "idle" /\ effect[c] = Unknown
  /\ LET q == request[c] IN
       /\ past' = [past EXCEPT ![q.host] = Granted(@, c, q)]
       /\ effect' = [effect EXCEPT ![c] =
            [code |-> "Success",
             settings |-> IF q.endpoint = "GetProcessorSettings"
                            THEN Current(past[q.host]) ELSE Default]]
  /\ UNCHANGED <<status, request, response>>

Refuse(c, code) ==
  /\ status[c] # "idle" /\ effect[c] = Unknown
  /\ effect' = [effect EXCEPT ![c] = [code |-> code, settings |-> Default]]
  /\ UNCHANGED <<past, status, request, response>>

Return(c) ==
  /\ status[c] = "pending" /\ effect[c] # Unknown
  /\ status' = [status EXCEPT ![c] = "returned"]
  /\ response' = [response EXCEPT ![c] = effect[c]]
  /\ UNCHANGED <<past, request, effect>>

Throw(c) ==
  /\ status[c] = "pending"
  /\ status' = [status EXCEPT ![c] = "thrown"]
  /\ UNCHANGED <<past, request, effect, response>>

\* A setting changes at the processor, or by another of its clients.
Elsewhere(h, f, v) ==
  /\ past' = [past EXCEPT ![h] =
       Append(@, [by |-> Nobody, settings |-> [Current(@) EXCEPT ![f] = v]])]
  /\ UNCHANGED <<status, request, effect, response>>

Next ==
  \/ \E c \in Call :
       \/ \E q \in Request : Invoke(c, q)
       \/ Grant(c) \/ Return(c) \/ Throw(c)
       \/ \E code \in ResultCode \ {"Success"} : Refuse(c, code)
  \/ \E h \in Host, f \in Setting, v \in Value : Elsewhere(h, f, v)

SafeSpec == Init /\ [][Next]_remoteVars
=============================================================================
