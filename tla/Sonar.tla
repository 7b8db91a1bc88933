------------------------------- MODULE Sonar -------------------------------
(***************************************************************************)
(* The vocabulary of the request-reply services (config.hpp, types.hpp) and *)
(* what a processor does with a request (nav_api.proto): the endpoints, the *)
(* settings they read and change, the result codes.  The value of a setting *)
(* stands for a field of view, a squelch level or a flag.                   *)
(***************************************************************************)
EXTENDS Naturals, Sequences

CONSTANTS
  Call,     \* the calls that the client makes, each once
  Host,     \* the processors that a configuration can name
  Value,    \* the values of a setting
  Initial,  \* the settings each processor has at first
  Default   \* ProcessorSettings{}, which names no processor's settings

ReqRepEndpoint ==
  {"GetProcessorSettings", "SetFieldOfView", "SetBottomDetection",
   "SetInWaterSquelch", "SetSquelchlessInWaterDetector", "GetVesselInfo"}

\* The setting that each of the set endpoints changes.
SettingOf ==
  [SetFieldOfView |-> "fov",
   SetBottomDetection |-> "detect_bottom",
   SetInWaterSquelch |-> "inwater_squelch",
   SetSquelchlessInWaterDetector |-> "squelchless_inwater_detector"]

SetEndpoint == DOMAIN SettingOf

Setting ==
  {"fov", "detect_bottom", "inwater_squelch", "squelchless_inwater_detector"}

Settings == [Setting -> Value]

ASSUME SettingsAssumption == Default \in Settings /\ Initial \in [Host -> Settings]

\* What the endpoint's request carries: a new value, or nothing.
Argument(e) == IF e \in SetEndpoint THEN Value ELSE {"none"}

Request ==
  {q \in [host : Host, endpoint : ReqRepEndpoint, value : Value \cup {"none"}] :
     q.value \in Argument(q.endpoint)}

ResultCode ==
  {"Success", "UnknownError", "OperationUnavailable", "ParameterOutOfRange",
   "ParameterMissing", "InvalidRequest"}

\* The settings of a processor so far, oldest first, each with the call that
\* made them so.
Nobody == "nobody"
Version == [by : Call \cup {Nobody}, settings : Settings]

ASSUME NobodyAssumption == Nobody \notin Call

First == [h \in Host |-> <<[by |-> Nobody, settings |-> Initial[h]]>>]

Current(versions) == versions[Len(versions)].settings

\* What becomes of them when the processor grants call c the request q.
Granted(versions, c, q) ==
  IF q.endpoint \in SetEndpoint
    THEN Append(versions,
           [by |-> c,
            settings |-> [Current(versions) EXCEPT ![SettingOf[q.endpoint]] = q.value]])
    ELSE versions

\* The settings that a granted request is answered with, none or one.
Told(versions, q) ==
  IF q.endpoint = "GetProcessorSettings" THEN {Current(versions)} ELSE {}
=============================================================================
