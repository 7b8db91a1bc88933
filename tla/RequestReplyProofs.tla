------------------------- MODULE RequestReplyProofs -------------------------
(***************************************************************************)
(* Theorems about RequestReply, for any number of calls and processors,     *)
(* any endpoints, and any history of losses and delays.                     *)
(***************************************************************************)
EXTENDS RequestReply, FiniteSetTheorems, SequenceTheorems, TLAPS

\* The codes that this client's schema has.
KnownCode == WireCode \ {"kNewer", "absent"}

(***************************************************************************)
(* The inductive invariant.  The properties relate a response to what the   *)
(* processor has done; in between are the request and the reply, of which   *)
(* the invariant says what they carry and when they can be there.           *)
(***************************************************************************)

\* Once it has been made, a call knows how far the past of its host had come.
SinceInv ==
  \A c \in Call : stage[c] # "idle" =>
    request[c] \in Request /\ since[c] \in 1..Len(past[request[c].host])

\* A request that is on its way is that of its call, and has not been processed.
WireInv ==
  \A m \in wire : m = Packed(m.call) /\ effect[m.call] = Unknown

\* A reply that is on its way tells what the processor has done.
ReplyInv ==
  \A r \in replies :
    effect[r.call] = [code |-> r.code, settings |-> ConvertProcessorSettings(r.settings)]

\* A response is what the client makes of what the processor has done.
ResponseInv ==
  \A c \in Call : stage[c] = "returned" =>
    /\ effect[c] # Unknown
    /\ response[c] = [code |-> ConvertResultCode(Parsed(effect[c].code)),
                      settings |-> effect[c].settings]

\* The versions a call has made: it has made none unless it was granted, at most
\* one, at its own host.
MadeInv ==
  \A c \in Call, h \in Host :
    /\ \A j, k \in MadeBy(c, h) : j = k
    /\ MadeBy(c, h) # {} =>
         stage[c] # "idle" /\ request[c].host = h /\ effect[c].code = "kSuccess"

\* Version k of the settings of the host of call c is what the call asked for.
IsResult(c, k) ==
  LET q == request[c] IN
    /\ k > since[c] /\ past[q.host][k].by = c
    /\ past[q.host][k].settings =
         [past[q.host][k - 1].settings EXCEPT ![SettingOf[q.endpoint]] = q.value]

\* What a granted call has done or seen is in its host's past.
GrantInv ==
  \A c \in Call : effect[c].code = "kSuccess" =>
    LET q == request[c] IN
    /\ q.endpoint \in SetEndpoint => \E k \in DOMAIN past[q.host] : IsResult(c, k)
    /\ q.endpoint = "GetProcessorSettings" =>
         \E k \in DOMAIN past[q.host] :
           k >= since[c] /\ past[q.host][k].settings = effect[c].settings

IInv ==
  /\ TypeOK /\ SinceInv /\ WireInv /\ ReplyInv /\ ResponseInv /\ MadeInv /\ GrantInv
-----------------------------------------------------------------------------
(* Lemmas.                                                                 *)

\* What the client makes of the settings in a reply.
LEMMA SettingsRead ==
  /\ ConvertProcessorSettings({}) = Default
  /\ \A s \in Settings : ConvertProcessorSettings({s}) = s
<1>1. \A s \in Settings : (CHOOSE t \in {s} : TRUE) = s
  OBVIOUS
<1> QED BY <1>1 DEF ConvertProcessorSettings

\* Every code is given a name; the known ones keep apart Success and the errors.
LEMMA CodesRead ==
  /\ \A code \in WireCode : /\ ConvertResultCode(code) \in ResultCode
                            /\ ConvertResultCode(Parsed(code)) \in ResultCode
  /\ \A code \in KnownCode : Parsed(code) = code
  /\ \A code \in WireCode : ConvertResultCode(code) = "Success" <=> code = "kSuccess"
<1>1. \A code \in WireCode : ConvertResultCode(code) \in ResultCode
  BY DEF WireCode, ConvertResultCode, ResultCode
<1>2. \A code \in WireCode : Parsed(code) \in WireCode
  BY DEF WireCode, Parsed
<1>3. \A code \in KnownCode : Parsed(code) = code
  BY DEF KnownCode, Parsed
<1>4. \A code \in WireCode : ConvertResultCode(code) = "Success" <=> code = "kSuccess"
  BY DEF WireCode, ConvertResultCode
<1> QED BY <1>1, <1>2, <1>3, <1>4

\* What a set endpoint is, and what it changes.
LEMMA SetEndpoints ==
  /\ SetEndpoint = {"SetFieldOfView", "SetBottomDetection", "SetInWaterSquelch",
                    "SetSquelchlessInWaterDetector"}
  /\ \A e \in SetEndpoint : SettingOf[e] \in Setting
BY DEF SetEndpoint, SettingOf, Setting

\* The current settings are settings.
LEMMA CurrentType ==
  ASSUME NEW v \in Seq(Version), v # <<>>
  PROVE  /\ Current(v) \in Settings
         /\ Len(v) \in Nat \ {0} /\ DOMAIN v = 1..Len(v)
         /\ Current(v) = v[Len(v)].settings
<1>1. Len(v) \in Nat \ {0} /\ DOMAIN v = 1..Len(v)
  BY EmptySeq, LenProperties
<1>2. v[Len(v)] \in Version
  BY <1>1, ElementOfSeq
<1> QED BY <1>1, <1>2 DEF Current, Version

\* A version that is appended leaves the others as they were.
LEMMA Appended ==
  ASSUME NEW v \in Seq(Version), v # <<>>, NEW x \in Version
  PROVE  /\ Append(v, x) \in Seq(Version) /\ Append(v, x) # <<>>
         /\ Len(Append(v, x)) = Len(v) + 1
         /\ DOMAIN Append(v, x) = 1..(Len(v) + 1)
         /\ Append(v, x)[Len(v) + 1] = x
         /\ \A k \in DOMAIN v : k \in 1..Len(v) /\ Append(v, x)[k] = v[k]
<1>1. Len(v) \in Nat /\ DOMAIN v = 1..Len(v)
  BY LenProperties
<1>2. /\ Append(v, x) \in Seq(Version) /\ Append(v, x) # <<>>
      /\ Len(Append(v, x)) = Len(v) + 1
      /\ \A k \in 1..Len(v) : Append(v, x)[k] = v[k]
      /\ Append(v, x)[Len(v) + 1] = x
  BY AppendProperties
<1>3. DOMAIN Append(v, x) = 1..(Len(v) + 1)
  BY <1>2, LenProperties
<1> QED BY <1>1, <1>2, <1>3

\* The version of its settings that a processor makes when it grants a set request.
Made(v, c, q) ==
  [by |-> c, settings |-> [Current(v) EXCEPT ![SettingOf[q.endpoint]] = q.value]]

\* Granting a request makes that version, or none.
LEMMA GrantedVersion ==
  ASSUME NEW v \in Seq(Version), v # <<>>, NEW c \in Call, NEW q,
         q.endpoint \in ReqRepEndpoint, q.value \in Argument(q.endpoint)
  PROVE  IF q.endpoint \in SetEndpoint
           THEN Made(v, c, q) \in Version /\ Granted(v, c, q) = Append(v, Made(v, c, q))
           ELSE Granted(v, c, q) = v
<1>1. CASE q.endpoint \notin SetEndpoint
  BY <1>1 DEF Granted
<1>2. CASE q.endpoint \in SetEndpoint
  <2> DEFINE s == [Current(v) EXCEPT ![SettingOf[q.endpoint]] = q.value]
  <2>1. q.value \in Value
    BY <1>2 DEF Argument
  <2>2. Current(v) \in Settings
    BY CurrentType
  <2>3. s \in Settings
    BY <1>2, <2>1, <2>2, SetEndpoints DEF Settings
  <2>4. Made(v, c, q) \in Version
    BY <2>3 DEF Version, Made
  <2>5. Granted(v, c, q) = Append(v, Made(v, c, q))
    BY <1>2 DEF Granted, Made
  <2> QED BY <1>2, <2>4, <2>5
<1> QED BY <1>1, <1>2

\* What the invariant says of a request on its way.
LEMMA OnItsWay ==
  ASSUME IInv, NEW m \in wire
  PROVE  /\ m.call \in Call /\ m.host \in Host
         /\ m.endpoint \in ReqRepEndpoint /\ m.value \in Argument(m.endpoint)
         /\ m = Packed(m.call) /\ m.host = request[m.call].host
         /\ m.endpoint = request[m.call].endpoint /\ m.value = request[m.call].value
         /\ effect[m.call] = Unknown /\ stage[m.call] \notin Unsent
<1>1. m.call \in Call /\ m.host \in Host /\ m.endpoint \in ReqRepEndpoint
  BY DEF IInv, TypeOK
<1>2. m = Packed(m.call) /\ effect[m.call] = Unknown
  BY DEF IInv, WireInv
<1>3. /\ m.host = request[m.call].host /\ m.endpoint = request[m.call].endpoint
      /\ m.value = request[m.call].value
  BY <1>2 DEF Packed, HostOf, EndpointOf
<1>4. stage[m.call] \notin Unsent
  BY <1>1 DEF IInv, TypeOK
<1>5. request[m.call] \in Request
  BY <1>1, <1>4 DEF IInv, SinceInv, Unsent
<1> QED BY <1>1, <1>2, <1>3, <1>4, <1>5 DEF Request

\* The steps that make a request's message vanish, and nothing else.
LEMMA ProcessCases ==
  ASSUME IInv, NEW m \in wire, Process(m)
  PROVE  \E code \in ServerCode, s \in Settings, told \in {{}} \cup {{t} : t \in Settings} :
           /\ s = ConvertProcessorSettings(told)
           /\ effect' = [effect EXCEPT ![m.call] = [code |-> code, settings |-> s]]
           /\ replies' = replies \cup {[call |-> m.call, code |-> code, settings |-> told]}
           /\ wire' = wire \ {m} /\ UNCHANGED clientVars
           /\ \/ code # "kSuccess" /\ past' = past /\ s = Default
              \/ /\ code = "kSuccess"
                 /\ past' = [past EXCEPT ![m.host] = Granted(past[m.host], m.call, m)]
                 /\ m.endpoint = "GetProcessorSettings" => s = Current(past[m.host])
                 /\ m.endpoint # "GetProcessorSettings" => s = Default
<1>1. PICK code \in ServerCode :
        LET granted == code = "kSuccess"
            told == IF granted THEN Told(past[m.host], m) ELSE {}
        IN  /\ past' = IF granted THEN [past EXCEPT ![m.host] = Granted(@, m.call, m)]
                                  ELSE past
            /\ effect' = [effect EXCEPT ![m.call] =
                 [code |-> code, settings |-> ConvertProcessorSettings(told)]]
            /\ replies' = replies \cup
                 {[call |-> m.call, code |-> code, settings |-> told]}
  BY DEF Process
<1> DEFINE told == IF code = "kSuccess" THEN Told(past[m.host], m) ELSE {}
           s == ConvertProcessorSettings(told)
<1>2. past[m.host] \in Seq(Version) /\ past[m.host] # <<>>
  BY OnItsWay DEF IInv, TypeOK
<1>3. Current(past[m.host]) \in Settings
  BY <1>2, CurrentType
<1>4. \/ told = {}
      \/ /\ told = {Current(past[m.host])} /\ code = "kSuccess"
         /\ m.endpoint = "GetProcessorSettings"
  BY DEF Told
<1>5. /\ told \in {{}} \cup {{t} : t \in Settings} /\ s \in Settings
      /\ code # "kSuccess" => s = Default
      /\ m.endpoint # "GetProcessorSettings" => s = Default
  BY <1>3, <1>4, SettingsRead, SettingsAssumption
<1>6. code = "kSuccess" /\ m.endpoint = "GetProcessorSettings" => s = Current(past[m.host])
  BY <1>3, SettingsRead DEF Told
<1>7. /\ effect' = [effect EXCEPT ![m.call] = [code |-> code, settings |-> s]]
      /\ replies' = replies \cup {[call |-> m.call, code |-> code, settings |-> told]}
      /\ past' = IF code = "kSuccess"
                   THEN [past EXCEPT ![m.host] = Granted(past[m.host], m.call, m)]
                   ELSE past
  BY <1>1
<1>8. wire' = wire \ {m} /\ UNCHANGED clientVars
  BY DEF Process
<1> HIDE DEF told, s
<1>9. s = ConvertProcessorSettings(told)
  BY DEF s
<1> QED BY <1>5, <1>6, <1>7, <1>8, <1>9

\* The versions there are stay as they are; a step adds one to a past, or none.
Grown ==
  \A h \in Host :
    /\ Len(past[h]) \in Nat /\ Len(past'[h]) \in Nat /\ Len(past[h]) <= Len(past'[h])
    /\ DOMAIN past[h] = 1..Len(past[h]) /\ DOMAIN past'[h] = 1..Len(past'[h])
    /\ \A k \in DOMAIN past[h] : past'[h][k] = past[h][k]

\* How a step that processes request m, or no request, changes the pasts.
LEMMA PastStep ==
  ASSUME IInv, NEW h \in Host, NEW x \in Version,
         past' = [past EXCEPT ![h] = Append(past[h], x)]
  PROVE  Grown /\ past' \in [Host -> Seq(Version)] /\ \A g \in Host : past'[g] # <<>>
<1>1. past \in [Host -> Seq(Version)] /\ \A g \in Host : past[g] # <<>>
  BY DEF IInv, TypeOK
<1>2. /\ Append(past[h], x) \in Seq(Version) /\ Append(past[h], x) # <<>>
      /\ Len(Append(past[h], x)) = Len(past[h]) + 1
      /\ DOMAIN Append(past[h], x) = 1..(Len(past[h]) + 1)
      /\ \A k \in DOMAIN past[h] : k \in 1..Len(past[h]) /\ Append(past[h], x)[k] = past[h][k]
  BY <1>1, Appended
<1>3. \A g \in Host : Len(past[g]) \in Nat /\ DOMAIN past[g] = 1..Len(past[g])
  BY <1>1, LenProperties
<1>4. past'[h] = Append(past[h], x) /\ \A g \in Host \ {h} : past'[g] = past[g]
  BY <1>1
<1>5. past' \in [Host -> Seq(Version)] /\ \A g \in Host : past'[g] # <<>>
  BY <1>1, <1>2, <1>4
<1>6. ASSUME NEW g \in Host
      PROVE  /\ Len(past'[g]) \in Nat /\ Len(past[g]) <= Len(past'[g])
             /\ DOMAIN past'[g] = 1..Len(past'[g])
             /\ \A k \in DOMAIN past[g] : past'[g][k] = past[g][k]
  <2>1. CASE g = h
    BY <1>2, <1>3, <1>4, <2>1
  <2>2. CASE g # h
    BY <1>3, <1>4, <2>2
  <2> QED BY <2>1, <2>2
<1> QED BY <1>3, <1>5, <1>6 DEF Grown

\* A step that leaves the pasts alone.
LEMMA PastUnchanged ==
  ASSUME IInv, past' = past
  PROVE  Grown /\ past' \in [Host -> Seq(Version)] /\ \A g \in Host : past'[g] # <<>>
<1>1. past \in [Host -> Seq(Version)] /\ \A g \in Host : past[g] # <<>>
  BY DEF IInv, TypeOK
<1>2. \A g \in Host : Len(past[g]) \in Nat /\ DOMAIN past[g] = 1..Len(past[g])
  BY <1>1, LenProperties
<1> QED BY <1>1, <1>2 DEF Grown

\* Processing a request adds at most one version, to the past of its host.
LEMMA PastProcessed ==
  ASSUME IInv, NEW m \in wire,
         past' = [past EXCEPT ![m.host] = Granted(past[m.host], m.call, m)]
  PROVE  LET x == Made(past[m.host], m.call, m)
         IN  IF m.endpoint \in SetEndpoint
               THEN x \in Version /\ past' = [past EXCEPT ![m.host] = Append(past[m.host], x)]
               ELSE past' = past
<1>1. past \in [Host -> Seq(Version)] /\ \A g \in Host : past[g] # <<>>
  BY DEF IInv, TypeOK
<1>2. /\ m.call \in Call /\ m.host \in Host
      /\ m.endpoint \in ReqRepEndpoint /\ m.value \in Argument(m.endpoint)
  BY OnItsWay
<1>3. past[m.host] \in Seq(Version) /\ past[m.host] # <<>>
  BY <1>1, <1>2
<1>4. IF m.endpoint \in SetEndpoint
        THEN /\ Made(past[m.host], m.call, m) \in Version
             /\ Granted(past[m.host], m.call, m)
                  = Append(past[m.host], Made(past[m.host], m.call, m))
        ELSE Granted(past[m.host], m.call, m) = past[m.host]
  BY <1>2, <1>3, GrantedVersion
<1>5. [past EXCEPT ![m.host] = past[m.host]] = past
  BY <1>1, <1>2
<1> QED BY <1>4, <1>5

\* A version that changes elsewhere.
LEMMA PastElsewhere ==
  ASSUME IInv, NEW h \in Host, NEW e \in Endpoint \cap SetEndpoint, NEW v \in Value,
         Elsewhere(h, SettingOf[e], v)
  PROVE  \E x \in Version :
           x.by = Nobody /\ past' = [past EXCEPT ![h] = Append(past[h], x)]
<1> DEFINE s == [Current(past[h]) EXCEPT ![SettingOf[e]] = v]
           x == [by |-> Nobody, settings |-> s]
<1>1. Current(past[h]) \in Settings
  BY CurrentType DEF IInv, TypeOK
<1>2. s \in Settings
  BY <1>1, SetEndpoints DEF Settings
<1>3. past' = [past EXCEPT ![h] = Append(past[h], x)]
  BY DEF Elsewhere
<1> HIDE DEF s
<1>4. x \in Version /\ x.by = Nobody
  BY <1>2 DEF Version
<1> QED BY <1>3, <1>4

\* What no step changes: versions, and what a call asked for and what came of it.
LEMMA History ==
  ASSUME IInv, [Next]_vars
  PROVE  /\ Grown /\ past' \in [Host -> Seq(Version)] /\ \A h \in Host : past'[h] # <<>>
         /\ \A c \in Call : stage[c] # "idle" =>
              /\ stage'[c] # "idle"
              /\ request'[c] = request[c] /\ since'[c] = since[c]
         /\ \A c \in Call : effect[c] # Unknown => effect'[c] = effect[c]
<1> DEFINE PastOK == Grown /\ past' \in [Host -> Seq(Version)] /\ \A h \in Host : past'[h] # <<>>
           CallOK == \A c \in Call : stage[c] # "idle" =>
                       /\ stage'[c] # "idle"
                       /\ request'[c] = request[c] /\ since'[c] = since[c]
           EffectOK == \A c \in Call : effect[c] # Unknown => effect'[c] = effect[c]
<1>1. /\ stage \in [Call -> Stages] /\ request \in [Call -> Request \cup {NoRequest}]
      /\ since \in [Call -> Nat]
      /\ effect \in [Call -> {Unknown} \cup [code : ServerCode, settings : Settings]]
  BY DEF IInv, TypeOK
<1>2. ASSUME NEW c \in Call, SendRequest(c) PROVE PastOK /\ CallOK /\ EffectOK
  <2>1. past' = past /\ UNCHANGED <<request, since, effect>>
    BY <1>2 DEF SendRequest, Send, SendFails, Receive, TimesOut, network
  <2>2. CallOK
    BY <1>1, <1>2, <2>1 DEF SendRequest, Send, SendFails, Receive, TimesOut
  <2> QED BY <2>1, <2>2, PastUnchanged
<1>3. ASSUME NEW c \in Call, NEW e \in Endpoint, NEW v \in Argument(e), Invoke(c, e, v)
      PROVE  PastOK /\ CallOK /\ EffectOK
  <2>1. past' = past /\ effect' = effect
    BY <1>3 DEF Invoke
  <2>2. CallOK
    BY <1>1, <1>3 DEF Invoke
  <2> QED BY <2>1, <2>2, PastUnchanged
<1>4. ASSUME NEW m \in wire, Process(m) PROVE PastOK /\ CallOK /\ EffectOK
  <2>1. UNCHANGED clientVars /\ \E y : effect' = [effect EXCEPT ![m.call] = y]
    BY <1>4, ProcessCases
  <2>2. m.call \in Call /\ m.host \in Host /\ effect[m.call] = Unknown
    BY OnItsWay
  <2>3. CallOK /\ EffectOK
    BY <1>1, <2>1, <2>2 DEF clientVars
  <2>4. \/ past' = past
        \/ past' = [past EXCEPT ![m.host] = Granted(past[m.host], m.call, m)]
    BY <1>4, ProcessCases
  <2>5. \/ past' = past
        \/ \E x \in Version : past' = [past EXCEPT ![m.host] = Append(past[m.host], x)]
    BY <2>4, PastProcessed
  <2> HIDE DEF CallOK, EffectOK
  <2> QED BY <2>2, <2>3, <2>5, PastStep, PastUnchanged
<1>5. ASSUME NEW h \in Host, NEW e \in Endpoint \cap SetEndpoint, NEW v \in Value,
             Elsewhere(h, SettingOf[e], v)
      PROVE  PastOK /\ CallOK /\ EffectOK
  <2>1. UNCHANGED <<stage, request, since, effect>>
    BY <1>5 DEF Elsewhere, clientVars
  <2> QED BY <1>5, <2>1, PastElsewhere, PastStep
<1>6. ASSUME \/ \E h \in Host : Reconfigure(h)
             \/ \E m \in wire : LoseRequest(m)
             \/ \E r \in replies : LoseReply(r)
             \/ Finished \/ UNCHANGED vars
      PROVE  PastOK /\ CallOK /\ EffectOK
  <2>1. past' = past /\ UNCHANGED <<stage, request, since, effect>>
    BY <1>6 DEF Reconfigure, LoseRequest, LoseReply, Finished, vars, clientVars
  <2> QED BY <2>1, PastUnchanged
<1> HIDE DEF PastOK, CallOK, EffectOK
<1>7. PastOK /\ CallOK /\ EffectOK
  BY <1>2, <1>3, <1>4, <1>5, <1>6 DEF Next
<1> QED BY <1>7 DEF PastOK, CallOK, EffectOK

-----------------------------------------------------------------------------
(* The invariant is kept.                                                  *)

\* The first states satisfy the invariant: there are no messages and no effects.
LEMMA InitIInv == Init => IInv
<1> SUFFICES ASSUME Init PROVE IInv
  OBVIOUS
<1>1. \A h \in Host :
        /\ past[h] = <<[by |-> Nobody, settings |-> Initial[h]]>>
        /\ [by |-> Nobody, settings |-> Initial[h]] \in Version
  BY SettingsAssumption DEF Init, First, Version
<1>2. past \in [Host -> Seq(Version)] /\ \A h \in Host : past[h] # <<>>
  BY <1>1 DEF Init, First
<1>3. TypeOK
  BY <1>2 DEF TypeOK, Init, Stages, Unsent, Unknown, NoRequest
<1>4. \A c \in Call : effect[c].code # "kSuccess" /\ stage[c] = "idle"
  BY DEF Init, Unknown
<1>5. \A c \in Call, h \in Host : MadeBy(c, h) = {}
  <2> SUFFICES ASSUME NEW c \in Call, NEW h \in Host, NEW k \in DOMAIN past[h]
               PROVE  past[h][k].by # c
    BY DEF MadeBy
  <2> DEFINE x == [by |-> Nobody, settings |-> Initial[h]]
  <2>1. past[h] = <<x>> /\ x.by = Nobody
    BY <1>1
  <2> HIDE DEF x
  <2>2. past[h][k] = x
    BY <2>1
  <2> QED BY <2>1, <2>2, NobodyAssumption
<1>6. MadeInv
  BY <1>5 DEF MadeInv
<1> QED BY <1>3, <1>4, <1>6
        DEF IInv, Init, SinceInv, WireInv, ReplyInv, ResponseInv, GrantInv

\* The types are kept by a step of a call that moves stages forward, and changes
\* messages and responses to fit.
LEMMA TypeKept ==
  ASSUME TypeOK, past' \in [Host -> Seq(Version)], \A h \in Host : past'[h] # <<>>,
         UNCHANGED <<config, request, since, effect>>,
         stage' \in [Call -> Stages],
         \A c \in Call : stage'[c] = "idle" <=> stage[c] = "idle",
         \A c \in Call : stage'[c] \in Unsent =>
           stage[c] \in Unsent /\ \A m \in wire' \ wire : m.call # c,
         wire' \subseteq [call : Call, host : Host, endpoint : ReqRepEndpoint,
                         value : Value \cup {"none"}],
         replies' \subseteq replies,
         response' \in [Call -> {Unknown} \cup [code : ResultCode, settings : Settings]],
         \A c \in Call : response'[c] # Unknown <=> stage'[c] = "returned"
  PROVE  TypeOK'
<1>1. /\ config' \in Host /\ since' \in [Call -> Nat]
      /\ request' \in [Call -> Request \cup {NoRequest}]
      /\ effect' \in [Call -> {Unknown} \cup [code : ServerCode, settings : Settings]]
  BY DEF TypeOK
<1>2. \A c \in Call : request'[c] = NoRequest <=> stage'[c] = "idle"
  BY DEF TypeOK
<1>3. replies' \subseteq [call : Call, code : ServerCode,
                         settings : {{}} \cup {{s} : s \in Settings}]
  BY DEF TypeOK
<1>4. \A c \in Call : stage'[c] \in Unsent =>
        effect'[c] = Unknown /\ \A m \in wire' \cup replies' : m.call # c
  BY DEF TypeOK
<1> QED BY <1>1, <1>2, <1>3, <1>4 DEF TypeOK

\* How a call's stage moves.
LEMMA StageMoves ==
  ASSUME stage \in [Call -> Stages], NEW c \in Call, NEW s \in Stages \ {"idle"},
         stage[c] # "idle", stage' = [stage EXCEPT ![c] = s],
         s \in Unsent => stage[c] \in Unsent
  PROVE  /\ stage' \in [Call -> Stages]
         /\ \A d \in Call : /\ stage'[d] = IF d = c THEN s ELSE stage[d]
                            /\ stage'[d] = "idle" <=> stage[d] = "idle"
                            /\ stage'[d] \in Unsent => stage[d] \in Unsent
OBVIOUS

\* A response is what its type says.
LEMMA ResponseType ==
  ASSUME IInv, NEW r \in replies
  PROVE  /\ [code |-> ConvertResultCode(Parsed(r.code)),
             settings |-> ConvertProcessorSettings(r.settings)]
              \in [code : ResultCode, settings : Settings]
         /\ [code |-> ConvertResultCode(Parsed(r.code)),
             settings |-> ConvertProcessorSettings(r.settings)] # Unknown
<1>1. r.code \in WireCode /\ r.settings \in {{}} \cup {{s} : s \in Settings}
  <2>1. r \in [call : Call, code : ServerCode, settings : {{}} \cup {{s} : s \in Settings}]
    BY DEF IInv, TypeOK
  <2> QED BY <2>1, BoundAssumption
<1>2. ConvertResultCode(Parsed(r.code)) \in ResultCode
  BY <1>1, CodesRead
<1>3. ConvertProcessorSettings(r.settings) \in Settings
  BY <1>1, SettingsRead, SettingsAssumption
<1>4. "none" \notin ResultCode
  BY DEF ResultCode
<1> QED BY <1>2, <1>3, <1>4 DEF Unknown

\* The steps of send_request keep the types.
LEMMA TypeSendRequest ==
  ASSUME IInv, [Next]_vars, NEW c \in Call, SendRequest(c)
  PROVE  TypeOK'
<1>0. past' \in [Host -> Seq(Version)] /\ \A h \in Host : past'[h] # <<>>
  BY History
<1>1. TypeOK
  BY DEF IInv
<1>2. /\ stage \in [Call -> Stages]
      /\ wire \subseteq [call : Call, host : Host, endpoint : ReqRepEndpoint,
                        value : Value \cup {"none"}]
      /\ response \in [Call -> {Unknown} \cup [code : ResultCode, settings : Settings]]
      /\ \A d \in Call : response[d] # Unknown <=> stage[d] = "returned"
  BY <1>1 DEF TypeOK
<1>3. UNCHANGED <<config, request, since, effect>>
  BY DEF SendRequest, Send, SendFails, Receive, TimesOut, network
<1>4. ASSUME NEW s \in Stages \ {"idle"}, stage[c] # "idle",
             stage' = [stage EXCEPT ![c] = s], s \in Unsent => stage[c] \in Unsent
      PROVE  /\ stage' \in [Call -> Stages]
             /\ \A d \in Call : /\ stage'[d] = IF d = c THEN s ELSE stage[d]
                                /\ stage'[d] = "idle" <=> stage[d] = "idle"
                                /\ stage'[d] \in Unsent => stage[d] \in Unsent
  BY <1>2, <1>4, StageMoves
<1>5. CASE Send(c)
  <2>1. /\ stage[c] = "called" /\ stage' = [stage EXCEPT ![c] = "waiting"]
        /\ wire' = wire \cup {Packed(c)} /\ UNCHANGED <<response, replies>>
    BY <1>5 DEF Send
  <2>2. /\ stage' \in [Call -> Stages]
        /\ \A d \in Call : /\ stage'[d] = IF d = c THEN "waiting" ELSE stage[d]
                           /\ stage'[d] = "idle" <=> stage[d] = "idle"
                           /\ stage'[d] \in Unsent => stage[d] \in Unsent
    BY <1>4, <2>1 DEF Stages, Unsent
  <2>3. request[c] \in Request
    BY <2>1 DEF IInv, SinceInv
  <2>4. Packed(c) \in [call : Call, host : Host, endpoint : ReqRepEndpoint,
                      value : Value \cup {"none"}] /\ Packed(c).call = c
    BY <2>3 DEF Packed, HostOf, EndpointOf, Request
  <2> HIDE DEF Packed
  <2>5. \A d \in Call : stage'[d] \in Unsent => \A m \in wire' \ wire : m.call # d
    BY <2>1, <2>2, <2>4 DEF Unsent
  <2>6. \A d \in Call : response'[d] # Unknown <=> stage'[d] = "returned"
    BY <1>2, <2>1, <2>2
  <2> QED BY <1>0, <1>1, <1>2, <1>3, <2>1, <2>2, <2>4, <2>5, <2>6, TypeKept
<1>6. ASSUME NEW s \in Thrown, stage' = [stage EXCEPT ![c] = s],
             stage[c] \in {"called", "waiting"}, s = "send_failed" => stage[c] = "called",
             wire' = wire, replies' \subseteq replies, response' = response
      PROVE  TypeOK'
  <2>1. /\ s \in Stages \ {"idle"} /\ s # "returned" /\ stage[c] \notin {"idle", "returned"}
        /\ s \in Unsent => stage[c] \in Unsent
    BY <1>6 DEF Thrown, Stages, Unsent
  <2>2. /\ stage' \in [Call -> Stages]
        /\ \A d \in Call : /\ stage'[d] = IF d = c THEN s ELSE stage[d]
                           /\ stage'[d] = "idle" <=> stage[d] = "idle"
                           /\ stage'[d] \in Unsent => stage[d] \in Unsent
    BY <1>4, <1>6, <2>1
  <2>3. \A d \in Call : response'[d] # Unknown <=> stage'[d] = "returned"
    BY <1>2, <1>6, <2>1, <2>2
  <2> QED BY <1>0, <1>1, <1>2, <1>3, <1>6, <2>2, <2>3, TypeKept
<1>7. CASE SendFails(c) \/ TimesOut(c)
  BY <1>6, <1>7 DEF SendFails, TimesOut, Thrown, network
<1>8. CASE Receive(c)
  <2>1. PICK r \in RepliesTo(c) :
          /\ replies' = replies \ {r}
          /\ \/ /\ stage' = [stage EXCEPT ![c] = "unparsable"]
                /\ UNCHANGED response
             \/ /\ stage' = [stage EXCEPT ![c] = "returned"]
                /\ response' = [response EXCEPT ![c] =
                     [code |-> ConvertResultCode(Parsed(r.code)),
                      settings |-> ConvertProcessorSettings(r.settings)]]
    BY <1>8 DEF Receive
  <2>2. wire' = wire /\ stage[c] = "waiting" /\ replies' \subseteq replies
    BY <1>8, <2>1 DEF Receive
  <2>3. CASE stage' = [stage EXCEPT ![c] = "unparsable"] /\ UNCHANGED response
    BY <1>6, <2>2, <2>3 DEF Thrown
  <2>4. CASE /\ stage' = [stage EXCEPT ![c] = "returned"]
             /\ response' = [response EXCEPT ![c] =
                  [code |-> ConvertResultCode(Parsed(r.code)),
                   settings |-> ConvertProcessorSettings(r.settings)]]
    <3> DEFINE x == [code |-> ConvertResultCode(Parsed(r.code)),
                     settings |-> ConvertProcessorSettings(r.settings)]
    <3>1. x \in [code : ResultCode, settings : Settings] /\ x # Unknown
      BY ResponseType DEF RepliesTo
    <3>2. response' = [response EXCEPT ![c] = x]
      BY <2>4
    <3> HIDE DEF x
    <3>3. /\ response' \in [Call -> {Unknown} \cup [code : ResultCode, settings : Settings]]
          /\ \A d \in Call : response'[d] = IF d = c THEN x ELSE response[d]
      BY <1>2, <3>1, <3>2
    <3>4. /\ stage' \in [Call -> Stages]
          /\ \A d \in Call : /\ stage'[d] = IF d = c THEN "returned" ELSE stage[d]
                             /\ stage'[d] = "idle" <=> stage[d] = "idle"
                             /\ stage'[d] \in Unsent => stage[d] \in Unsent
      BY <1>4, <2>2, <2>4 DEF Stages, Unsent
    <3>5. \A d \in Call : response'[d] # Unknown <=> stage'[d] = "returned"
      BY <1>2, <3>1, <3>3, <3>4
    <3> QED BY <1>0, <1>1, <1>2, <1>3, <2>2, <3>3, <3>4, <3>5, TypeKept
  <2> QED BY <2>1, <2>3, <2>4
<1> QED BY <1>5, <1>7, <1>8 DEF SendRequest

\* The step of a processor keeps the types.
LEMMA TypeProcess ==
  ASSUME IInv, [Next]_vars, NEW m \in wire, Process(m)
  PROVE  TypeOK'
<1>0. past' \in [Host -> Seq(Version)] /\ \A h \in Host : past'[h] # <<>>
  BY History
<1>1. TypeOK
  BY DEF IInv
<1>2. PICK code \in ServerCode, s \in Settings, told \in {{}} \cup {{t} : t \in Settings} :
        /\ effect' = [effect EXCEPT ![m.call] = [code |-> code, settings |-> s]]
        /\ replies' = replies \cup {[call |-> m.call, code |-> code, settings |-> told]}
        /\ wire' = wire \ {m} /\ UNCHANGED clientVars
  BY ProcessCases
<1>3. m.call \in Call /\ stage[m.call] \notin Unsent
  BY OnItsWay
<1>4. /\ effect' \in [Call -> {Unknown} \cup [code : ServerCode, settings : Settings]]
      /\ replies' \subseteq [call : Call, code : ServerCode,
                            settings : {{}} \cup {{t} : t \in Settings}]
  <2> DEFINE x == [code |-> code, settings |-> s]
             r == [call |-> m.call, code |-> code, settings |-> told]
  <2>1. x \in [code : ServerCode, settings : Settings]
    OBVIOUS
  <2>2. r \in [call : Call, code : ServerCode, settings : {{}} \cup {{t} : t \in Settings}]
    BY <1>3
  <2>3. effect' = [effect EXCEPT ![m.call] = x] /\ replies' = replies \cup {r}
    BY <1>2
  <2> HIDE DEF x, r
  <2>4. effect' \in [Call -> {Unknown} \cup [code : ServerCode, settings : Settings]]
    BY <1>1, <2>1, <2>3 DEF TypeOK
  <2>5. replies' \subseteq [call : Call, code : ServerCode,
                           settings : {{}} \cup {{t} : t \in Settings}]
    BY <1>1, <2>2, <2>3 DEF TypeOK
  <2> QED BY <2>4, <2>5
<1>5. ASSUME NEW c \in Call, stage[c] \in Unsent
      PROVE  effect'[c] = Unknown /\ \A n \in wire' \cup replies' : n.call # c
  BY <1>1, <1>2, <1>3, <1>5 DEF TypeOK
<1> QED BY <1>0, <1>1, <1>2, <1>4, <1>5 DEF TypeOK, clientVars

\* Every step keeps the types.
LEMMA TypeNext == IInv /\ [Next]_vars => TypeOK'
<1> SUFFICES ASSUME IInv, [Next]_vars PROVE TypeOK'
  OBVIOUS
<1>0. past' \in [Host -> Seq(Version)] /\ \A h \in Host : past'[h] # <<>>
  BY History
<1>1. TypeOK
  BY DEF IInv
<1>2. ASSUME NEW c \in Call, NEW e \in Endpoint, NEW v \in Argument(e), Invoke(c, e, v)
      PROVE  TypeOK'
  <2> DEFINE q == [host |-> config, endpoint |-> e, value |-> v]
  <2>1. q \in Request /\ q # NoRequest
    BY <1>1, BoundAssumption DEF TypeOK, Request, Argument, NoRequest, ReqRepEndpoint
  <2>2. Len(past[config]) \in Nat
    BY <1>1, LenProperties DEF TypeOK
  <2> HIDE DEF q
  <2>3. request' = [request EXCEPT ![c] = q]
    BY <1>2 DEF Invoke, q
  <2>4. /\ stage[c] = "idle" /\ stage' = [stage EXCEPT ![c] = "called"]
        /\ since' = [since EXCEPT ![c] = Len(past[config])]
        /\ UNCHANGED <<config, response, network, past, effect>>
    BY <1>2 DEF Invoke
  <2>5. /\ stage' \in [Call -> Stages] /\ since' \in [Call -> Nat]
        /\ request' \in [Call -> Request \cup {NoRequest}]
    BY <1>1, <2>1, <2>2, <2>3, <2>4 DEF TypeOK, Stages
  <2>6. \A d \in Call : /\ request'[d] = NoRequest <=> stage'[d] = "idle"
                        /\ stage'[d] = "returned" <=> stage[d] = "returned"
                        /\ stage'[d] \in Unsent => stage[d] \in Unsent
    BY <1>1, <2>1, <2>3, <2>4 DEF TypeOK, Unsent
  <2> QED BY <1>0, <1>1, <2>4, <2>5, <2>6 DEF TypeOK, network
<1>3. ASSUME NEW h \in Host, Reconfigure(h) PROVE TypeOK'
  BY <1>0, <1>1, <1>3 DEF Reconfigure, TypeOK, network
<1>4. ASSUME NEW h \in Host, NEW f \in Setting, NEW v \in Value, Elsewhere(h, f, v)
      PROVE  TypeOK'
  BY <1>0, <1>1, <1>4 DEF Elsewhere, TypeOK, network, clientVars
<1>5. ASSUME NEW m \in wire, LoseRequest(m) PROVE TypeOK'
  BY <1>0, <1>1, <1>5 DEF LoseRequest, TypeOK, clientVars
<1>6. ASSUME NEW r \in replies, LoseReply(r) PROVE TypeOK'
  BY <1>0, <1>1, <1>6 DEF LoseReply, TypeOK, clientVars
<1>7. ASSUME Finished \/ UNCHANGED vars PROVE TypeOK'
  BY <1>1, <1>7 DEF Finished, TypeOK, vars, clientVars, network
<1> QED BY <1>2, <1>3, <1>4, <1>5, <1>6, <1>7, TypeSendRequest, TypeProcess, SetEndpoints DEF Next

\* A call stops being idle when it is invoked, and only then.
LEMMA Invoked ==
  ASSUME IInv, [Next]_vars, NEW c \in Call, stage[c] = "idle", stage'[c] # "idle"
  PROVE  \E e \in Endpoint : \E v \in Argument(e) : Invoke(c, e, v)
<1>1. stage \in [Call -> Stages]
  BY DEF IInv, TypeOK
<1>2. ASSUME NEW d \in Call, SendRequest(d) PROVE FALSE
  BY <1>1, <1>2 DEF SendRequest, Send, SendFails, Receive, TimesOut
<1>3. ASSUME NEW d \in Call, NEW e \in Endpoint, NEW v \in Argument(e), Invoke(d, e, v)
      PROVE  d = c
  BY <1>1, <1>3 DEF Invoke
<1>4. ASSUME \/ \E h \in Host : Reconfigure(h)
             \/ \E h \in Host, f \in Setting, v \in Value : Elsewhere(h, f, v)
             \/ \E m \in wire : Process(m) \/ LoseRequest(m)
             \/ \E r \in replies : LoseReply(r)
             \/ Finished \/ UNCHANGED vars
      PROVE  FALSE
  BY <1>4 DEF Reconfigure, Elsewhere, Process, LoseRequest, LoseReply, Finished, vars, clientVars
<1> QED BY <1>2, <1>3, <1>4, SetEndpoints DEF Next

\* What has come of a call changes when its request is processed, and only then.
LEMMA Processed ==
  ASSUME IInv, [Next]_vars, NEW c \in Call, effect'[c] # effect[c]
  PROVE  \E m \in wire : Process(m) /\ m.call = c
<1>1. effect \in [Call -> {Unknown} \cup [code : ServerCode, settings : Settings]]
  BY DEF IInv, TypeOK
<1>2. ASSUME NEW d \in Call, SendRequest(d) PROVE FALSE
  BY <1>2 DEF SendRequest, Send, SendFails, Receive, TimesOut
<1>3. ASSUME NEW d \in Call, NEW e \in Endpoint, NEW v \in Argument(e), Invoke(d, e, v)
      PROVE  FALSE
  BY <1>3 DEF Invoke
<1>4. ASSUME NEW m \in wire, Process(m) PROVE m.call = c
  <2>1. \E y : effect' = [effect EXCEPT ![m.call] = y]
    BY <1>4, ProcessCases
  <2> QED BY <1>1, <2>1
<1>5. ASSUME \/ \E h \in Host : Reconfigure(h)
             \/ \E h \in Host, f \in Setting, v \in Value : Elsewhere(h, f, v)
             \/ \E m \in wire : LoseRequest(m)
             \/ \E r \in replies : LoseReply(r)
             \/ Finished \/ UNCHANGED vars
      PROVE  FALSE
  BY <1>5 DEF Reconfigure, Elsewhere, LoseRequest, LoseReply, Finished, vars
<1> QED BY <1>2, <1>3, <1>4, <1>5, SetEndpoints DEF Next

\* A past changes when a request is granted or settings change elsewhere.
LEMMA PastCases ==
  ASSUME IInv, [Next]_vars
  PROVE  \/ past' = past
         \/ \E m \in wire : Process(m)
         \/ \E h \in Host, x \in Version :
              x.by = Nobody /\ past' = [past EXCEPT ![h] = Append(past[h], x)]
<1>1. ASSUME NEW d \in Call, SendRequest(d) PROVE past' = past
  BY <1>1 DEF SendRequest, Send, SendFails, Receive, TimesOut, network
<1>2. ASSUME NEW d \in Call, NEW e \in Endpoint, NEW v \in Argument(e), Invoke(d, e, v)
      PROVE  past' = past
  BY <1>2 DEF Invoke
<1>3. ASSUME \/ \E h \in Host : Reconfigure(h)
             \/ \E m \in wire : LoseRequest(m)
             \/ \E r \in replies : LoseReply(r)
             \/ Finished \/ UNCHANGED vars
      PROVE  past' = past
  BY <1>3 DEF Reconfigure, LoseRequest, LoseReply, Finished, vars
<1> QED BY <1>1, <1>2, <1>3, PastElsewhere DEF Next

\* Once a call has been made, how far the past had come is behind it.
LEMMA SinceNext == IInv /\ [Next]_vars => SinceInv'
<1> SUFFICES ASSUME IInv, [Next]_vars, NEW c \in Call, stage'[c] # "idle"
             PROVE  request'[c] \in Request /\ since'[c] \in 1..Len(past'[request'[c].host])
  BY DEF SinceInv
<1>1. CASE stage[c] # "idle"
  <2>1. request[c] \in Request /\ since[c] \in 1..Len(past[request[c].host])
    BY <1>1 DEF IInv, SinceInv
  <2>2. request'[c] = request[c] /\ since'[c] = since[c] /\ Grown
    BY <1>1, History
  <2>3. request[c].host \in Host
    BY <2>1 DEF Request
  <2> QED BY <2>1, <2>2, <2>3 DEF Grown
<1>2. CASE stage[c] = "idle"
  <2>1. PICK e \in Endpoint : \E v \in Argument(e) : Invoke(c, e, v)
    BY <1>2, Invoked
  <2>2. PICK v \in Argument(e) : Invoke(c, e, v)
    BY <2>1
  <2>3. config \in Host /\ past[config] \in Seq(Version) /\ past[config] # <<>>
    BY DEF IInv, TypeOK
  <2>4. Len(past[config]) \in Nat \ {0}
    BY <2>3, CurrentType
  <2>5. /\ request'[c] = [host |-> config, endpoint |-> e, value |-> v]
        /\ since'[c] = Len(past[config]) /\ past' = past
    BY <2>2 DEF Invoke, IInv, TypeOK
  <2>6. [host |-> config, endpoint |-> e, value |-> v] \in Request
    BY <2>3, BoundAssumption DEF Request, Argument
  <2> QED BY <2>4, <2>5, <2>6
<1> QED BY <1>1, <1>2

\* A request on its way stays what its call asked for; processing takes it away.
LEMMA WireNext == IInv /\ [Next]_vars => WireInv'
<1> SUFFICES ASSUME IInv, [Next]_vars, NEW m \in wire'
             PROVE  (m = Packed(m.call))' /\ effect'[m.call] = Unknown
  BY DEF WireInv
<1>1. CASE m \in wire
  <2>1. m.call \in Call /\ m = Packed(m.call) /\ effect[m.call] = Unknown /\ stage[m.call] # "idle"
    BY <1>1, OnItsWay DEF Unsent
  <2>2. request'[m.call] = request[m.call]
    BY <2>1, History
  <2>3. (m = Packed(m.call))'
    BY <2>1, <2>2 DEF Packed, HostOf, EndpointOf
  <2>4. ASSUME effect'[m.call] # Unknown PROVE FALSE
    <3>1. PICK n \in wire : Process(n) /\ n.call = m.call
      BY <2>1, <2>4, Processed
    <3>2. n = m
      BY <2>1, <3>1, OnItsWay
    <3> QED BY <3>1, <3>2 DEF Process
  <2> QED BY <2>3, <2>4
<1>2. CASE m \notin wire
  <2>1. ASSUME NEW c \in Call, Send(c), m = Packed(c)
        PROVE  (m = Packed(m.call))' /\ effect'[m.call] = Unknown
    <3>1. m.call = c /\ UNCHANGED <<request, effect>>
      BY <2>1 DEF Packed, Send
    <3>2. effect[c] = Unknown
      BY <2>1 DEF Send, IInv, TypeOK, Unsent
    <3> QED BY <2>1, <3>1, <3>2 DEF Packed, HostOf, EndpointOf
  <2>2. ASSUME NEW c \in Call, SendRequest(c) PROVE Send(c) /\ m = Packed(c)
    BY <1>2, <2>2 DEF SendRequest, Send, SendFails, Receive, TimesOut, network
  <2>3. ASSUME NEW c \in Call, NEW e \in Endpoint, NEW v \in Argument(e), Invoke(c, e, v)
        PROVE  FALSE
    BY <1>2, <2>3 DEF Invoke, network
  <2>4. ASSUME \/ \E h \in Host : Reconfigure(h)
               \/ \E h \in Host, f \in Setting, v \in Value : Elsewhere(h, f, v)
               \/ \E n \in wire : Process(n) \/ LoseRequest(n)
               \/ \E r \in replies : LoseReply(r)
               \/ Finished \/ UNCHANGED vars
        PROVE  FALSE
    BY <1>2, <2>4
       DEF Reconfigure, Elsewhere, Process, LoseRequest, LoseReply, Finished, vars, network
  <2> QED BY <2>1, <2>2, <2>3, <2>4, SetEndpoints DEF Next
<1> QED BY <1>1, <1>2

\* Neither code nor settings of an effect are those of none.
LEMMA NotUnknown ==
  \A code \in WireCode : \A x : [code |-> code, settings |-> x] # Unknown
BY DEF WireCode, Unknown

\* A reply tells what has been done, when it is sent and ever after.
LEMMA ReplyNext == IInv /\ [Next]_vars => ReplyInv'
<1> SUFFICES ASSUME IInv, [Next]_vars, NEW r \in replies'
             PROVE  effect'[r.call] =
                      [code |-> r.code, settings |-> ConvertProcessorSettings(r.settings)]
  BY DEF ReplyInv
<1>1. CASE r \in replies
  <2>1. r.call \in Call /\ r.code \in WireCode
    BY <1>1, BoundAssumption DEF IInv, TypeOK
  <2>2. effect[r.call] = [code |-> r.code, settings |-> ConvertProcessorSettings(r.settings)]
    BY <1>1 DEF IInv, ReplyInv
  <2>3. effect[r.call] # Unknown
    BY <2>1, <2>2, NotUnknown
  <2> QED BY <2>1, <2>2, <2>3, History
<1>2. CASE r \notin replies
  <2>1. ASSUME NEW m \in wire, Process(m)
        PROVE  effect'[r.call] =
                 [code |-> r.code, settings |-> ConvertProcessorSettings(r.settings)]
    <3>1. PICK code \in ServerCode, s \in Settings, told \in {{}} \cup {{t} : t \in Settings} :
            /\ s = ConvertProcessorSettings(told)
            /\ effect' = [effect EXCEPT ![m.call] = [code |-> code, settings |-> s]]
            /\ replies' = replies \cup {[call |-> m.call, code |-> code, settings |-> told]}
      BY <2>1, ProcessCases
    <3>2. r.call = m.call /\ r.code = code /\ r.settings = told
      BY <1>2, <3>1
    <3>3. effect'[m.call] = [code |-> code, settings |-> s]
      BY <3>1, OnItsWay DEF IInv, TypeOK
    <3> QED BY <3>1, <3>2, <3>3
  <2>2. ASSUME NEW c \in Call, SendRequest(c) PROVE FALSE
    BY <1>2, <2>2 DEF SendRequest, Send, SendFails, Receive, TimesOut, network
  <2>3. ASSUME NEW c \in Call, NEW e \in Endpoint, NEW v \in Argument(e), Invoke(c, e, v)
        PROVE  FALSE
    BY <1>2, <2>3 DEF Invoke, network
  <2>4. ASSUME \/ \E h \in Host : Reconfigure(h)
               \/ \E h \in Host, f \in Setting, v \in Value : Elsewhere(h, f, v)
               \/ \E m \in wire : LoseRequest(m)
               \/ \E q \in replies : LoseReply(q)
               \/ Finished \/ UNCHANGED vars
        PROVE  FALSE
    BY <1>2, <2>4 DEF Reconfigure, Elsewhere, LoseRequest, LoseReply, Finished, vars, network
  <2> QED BY <2>1, <2>2, <2>3, <2>4, SetEndpoints DEF Next
<1> QED BY <1>1, <1>2

\* A call returns when it receives a reply, and only then.
LEMMA Returned ==
  ASSUME IInv, [Next]_vars, NEW c \in Call
  PROVE  /\ response'[c] # response[c] \/ (stage'[c] = "returned" /\ stage[c] # "returned")
              => Receive(c) /\ stage[c] = "waiting"
         /\ stage[c] = "returned" => stage'[c] = "returned"
<1>1. /\ stage \in [Call -> Stages]
      /\ response \in [Call -> {Unknown} \cup [code : ResultCode, settings : Settings]]
  BY DEF IInv, TypeOK
<1> DEFINE Goal == /\ response'[c] # response[c] \/ (stage'[c] = "returned" /\ stage[c] # "returned")
                        => Receive(c) /\ stage[c] = "waiting"
                   /\ stage[c] = "returned" => stage'[c] = "returned"
<1>2. ASSUME NEW d \in Call, Send(d) \/ SendFails(d) \/ TimesOut(d) PROVE Goal
  BY <1>1, <1>2 DEF Send, SendFails, TimesOut
<1>3. ASSUME NEW d \in Call, Receive(d) PROVE Goal
  <2>1. CASE d = c
    BY <1>3, <2>1 DEF Receive
  <2>2. CASE d # c
    <3>1. stage'[c] = stage[c] /\ response'[c] = response[c]
      BY <1>1, <1>3, <2>2 DEF Receive
    <3> QED BY <3>1
  <2> QED BY <2>1, <2>2
<1>4. ASSUME NEW d \in Call, NEW e \in Endpoint, NEW v \in Argument(e), Invoke(d, e, v)
      PROVE  Goal
  BY <1>1, <1>4 DEF Invoke
<1>5. ASSUME \/ \E h \in Host : Reconfigure(h)
             \/ \E h \in Host, f \in Setting, v \in Value : Elsewhere(h, f, v)
             \/ \E m \in wire : Process(m) \/ LoseRequest(m)
             \/ \E r \in replies : LoseReply(r)
             \/ Finished \/ UNCHANGED vars
      PROVE  Goal
  BY <1>5 DEF Reconfigure, Elsewhere, Process, LoseRequest, LoseReply, Finished, vars, clientVars
<1> HIDE DEF Goal
<1>6. Goal
  BY <1>2, <1>3, <1>4, <1>5, SetEndpoints DEF Next, SendRequest
<1> QED BY <1>6 DEF Goal

\* A response is read from the reply of its own call.
LEMMA Received ==
  ASSUME IInv, NEW c \in Call, Receive(c), stage'[c] = "returned"
  PROVE  /\ effect[c] # Unknown
         /\ response' = [response EXCEPT ![c] =
              [code |-> ConvertResultCode(Parsed(effect[c].code)),
               settings |-> effect[c].settings]]
<1>1. stage[c] = "waiting" /\ stage \in [Call -> Stages]
  BY DEF Receive, IInv, TypeOK
<1>2. PICK r \in RepliesTo(c) :
        \/ stage' = [stage EXCEPT ![c] = "unparsable"]
        \/ /\ stage' = [stage EXCEPT ![c] = "returned"]
           /\ response' = [response EXCEPT ![c] =
                [code |-> ConvertResultCode(Parsed(r.code)),
                 settings |-> ConvertProcessorSettings(r.settings)]]
  BY DEF Receive
<1>3. r \in replies /\ r.call = c /\ r.code \in WireCode
  BY BoundAssumption DEF RepliesTo, IInv, TypeOK
<1>4. effect[c] = [code |-> r.code, settings |-> ConvertProcessorSettings(r.settings)]
  BY <1>3 DEF IInv, ReplyInv
<1>5. response' = [response EXCEPT ![c] =
        [code |-> ConvertResultCode(Parsed(r.code)),
         settings |-> ConvertProcessorSettings(r.settings)]]
  BY <1>1, <1>2
<1> QED BY <1>3, <1>4, <1>5, NotUnknown

\* A response stays what the processor has done.
LEMMA ResponseNext == IInv /\ [Next]_vars => ResponseInv'
<1> SUFFICES ASSUME IInv, [Next]_vars, NEW c \in Call, stage'[c] = "returned"
             PROVE  /\ effect'[c] # Unknown
                    /\ response'[c] = [code |-> ConvertResultCode(Parsed(effect'[c].code)),
                                       settings |-> effect'[c].settings]
  BY DEF ResponseInv
<1>1. CASE stage[c] = "returned"
  <2>1. effect[c] # Unknown /\ effect'[c] = effect[c]
    BY <1>1, History DEF IInv, ResponseInv
  <2>2. response'[c] = response[c]
    BY <1>1, Returned
  <2> QED BY <1>1, <2>1, <2>2 DEF IInv, ResponseInv
<1>2. CASE stage[c] # "returned"
  <2>1. Receive(c)
    BY <1>2, Returned
  <2>2. effect'[c] = effect[c]
    BY <2>1 DEF Receive
  <2>3. response \in [Call -> {Unknown} \cup [code : ResultCode, settings : Settings]]
    BY DEF IInv, TypeOK
  <2> QED BY <2>1, <2>2, <2>3, Received
<1> QED BY <1>1, <1>2

\* The versions in v that call c has made.
By(c, v) == {k \in DOMAIN v : v[k].by = c}

\* A version that is appended is its maker's, and nobody else's.
LEMMA ByAppended ==
  ASSUME NEW v \in Seq(Version), v # <<>>, NEW x \in Version, NEW c
  PROVE  /\ x.by = c => By(c, Append(v, x)) = By(c, v) \cup {Len(v) + 1}
         /\ x.by # c => By(c, Append(v, x)) = By(c, v)
<1>1. Len(v) \in Nat /\ DOMAIN v = 1..Len(v)
  BY LenProperties
<1>2. /\ DOMAIN Append(v, x) = 1..(Len(v) + 1)
      /\ Append(v, x)[Len(v) + 1] = x
      /\ \A k \in DOMAIN v : Append(v, x)[k] = v[k]
  BY Appended
<1> DEFINE w == Append(v, x)  n == Len(v)
<1> HIDE DEF w, n
<1>3. /\ n \in Nat /\ DOMAIN v = 1..n /\ DOMAIN w = 1..(n + 1) /\ w[n + 1] = x
      /\ \A k \in 1..n : w[k] = v[k]
  BY <1>1, <1>2 DEF w, n
<1>4. \A k : k \in By(c, w) <=> k \in By(c, v) \/ (k = n + 1 /\ x.by = c)
  BY <1>3 DEF By
<1>5. /\ x.by = c => By(c, w) = By(c, v) \cup {n + 1}
      /\ x.by # c => By(c, w) = By(c, v)
  BY <1>4
<1> QED BY <1>5 DEF w, n

\* A call makes a version only when it is granted, which happens once.
LEMMA MadeNext == IInv /\ [Next]_vars => MadeInv'
<1> SUFFICES ASSUME IInv, [Next]_vars, NEW c \in Call, NEW h \in Host
             PROVE  /\ \A j, k \in By(c, past'[h]) : j = k
                    /\ By(c, past'[h]) # {} =>
                         /\ stage'[c] # "idle" /\ request'[c].host = h
                         /\ effect'[c].code = "kSuccess"
  BY DEF MadeInv, MadeBy, By
<1>1. /\ \A j, k \in By(c, past[h]) : j = k
      /\ By(c, past[h]) # {} =>
           stage[c] # "idle" /\ request[c].host = h /\ effect[c].code = "kSuccess"
  BY DEF IInv, MadeInv, MadeBy, By
<1>2. By(c, past[h]) # {} =>
        stage'[c] # "idle" /\ request'[c].host = h /\ effect'[c].code = "kSuccess"
  BY <1>1, History DEF Unknown
<1>3. CASE By(c, past'[h]) = By(c, past[h])
  BY <1>1, <1>2, <1>3
<1>4. CASE past' = past
  BY <1>3, <1>4
<1>5. ASSUME NEW g \in Host, NEW x \in Version, x.by = Nobody,
             past' = [past EXCEPT ![g] = Append(past[g], x)]
      PROVE  By(c, past'[h]) = By(c, past[h])
  <2>1. past \in [Host -> Seq(Version)] /\ past[g] # <<>>
    BY DEF IInv, TypeOK
  <2>2. past'[g] = Append(past[g], x) /\ (h # g => past'[h] = past[h])
    BY <1>5, <2>1
  <2>3. By(c, Append(past[g], x)) = By(c, past[g])
    BY <1>5, <2>1, ByAppended, NobodyAssumption
  <2> QED BY <2>2, <2>3
<1>6. ASSUME NEW m \in wire, Process(m), By(c, past'[h]) # By(c, past[h])
      PROVE  /\ \A j, k \in By(c, past'[h]) : j = k
             /\ stage'[c] # "idle" /\ request'[c].host = h /\ effect'[c].code = "kSuccess"
  <2>1. PICK code \in ServerCode, s \in Settings :
          /\ effect' = [effect EXCEPT ![m.call] = [code |-> code, settings |-> s]]
          /\ UNCHANGED clientVars
          /\ \/ code # "kSuccess" /\ past' = past
             \/ /\ code = "kSuccess"
                /\ past' = [past EXCEPT ![m.host] = Granted(past[m.host], m.call, m)]
    BY <1>6, ProcessCases
  <2>2. past' # past
    BY <1>6
  <2>3. /\ m.call \in Call /\ m.host \in Host /\ m.host = request[m.call].host
        /\ effect[m.call] = Unknown /\ stage[m.call] # "idle"
    BY OnItsWay DEF Unsent
  <2> DEFINE x == Made(past[m.host], m.call, m)
  <2>4. /\ m.endpoint \in SetEndpoint /\ x \in Version
        /\ past' = [past EXCEPT ![m.host] = Append(past[m.host], x)]
    BY <2>1, <2>2, PastProcessed
  <2>5. x.by = m.call
    BY DEF Made
  <2> HIDE DEF x
  <2>6. /\ h = m.host /\ c = m.call
        /\ By(c, past'[h]) = By(c, past[h]) \cup {Len(past[h]) + 1}
    <3>1. past \in [Host -> Seq(Version)] /\ past[h] # <<>>
      BY DEF IInv, TypeOK
    <3>2. h = m.host
      BY <1>6, <2>4, <3>1
    <3>3. past'[h] = Append(past[h], x)
      BY <2>4, <3>1, <3>2
    <3>4. x \in Version
      BY <2>4
    <3>5. /\ x.by = c => By(c, Append(past[h], x)) = By(c, past[h]) \cup {Len(past[h]) + 1}
          /\ x.by # c => By(c, Append(past[h], x)) = By(c, past[h])
      BY <3>1, <3>4, ByAppended
    <3> QED BY <1>6, <2>5, <3>2, <3>3, <3>5
  <2>7. effect[c].code # "kSuccess"
    BY <2>3, <2>6 DEF Unknown
  <2>8. By(c, past[h]) = {}
    BY <1>1, <2>7
  <2>9. effect'[c].code = "kSuccess"
    BY <2>1, <2>2, <2>3, <2>6 DEF IInv, TypeOK
  <2>10. stage'[c] # "idle" /\ request'[c].host = h
    BY <2>1, <2>3, <2>6 DEF clientVars
  <2> QED BY <2>6, <2>8, <2>9, <2>10
<1> QED BY <1>3, <1>4, <1>5, <1>6, PastCases

\* What a granted call has done is in the past, and stays there.
LEMMA GrantStays ==
  ASSUME IInv, [Next]_vars, NEW c \in Call, effect[c].code = "kSuccess"
  PROVE  LET q == request[c] IN
         /\ request'[c] = q /\ effect'[c] = effect[c]
         /\ q.endpoint \in SetEndpoint =>
              \E k \in DOMAIN past'[q.host] :
                /\ k > since'[c] /\ past'[q.host][k].by = c
                /\ past'[q.host][k].settings =
                     [past'[q.host][k - 1].settings EXCEPT ![SettingOf[q.endpoint]] = q.value]
         /\ q.endpoint = "GetProcessorSettings" =>
              \E k \in DOMAIN past'[q.host] :
                k >= since'[c] /\ past'[q.host][k].settings = effect[c].settings
<1> DEFINE q == request[c]
<1>1. effect[c] # Unknown /\ stage[c] # "idle"
  BY DEF Unknown, IInv, TypeOK, Unsent
<1>2. /\ request'[c] = q /\ since'[c] = since[c] /\ effect'[c] = effect[c] /\ Grown
  BY <1>1, History
<1>3. q \in Request /\ q.host \in Host /\ since[c] \in 1..Len(past[q.host])
  BY <1>1 DEF IInv, SinceInv, Request
<1>4. /\ Len(past[q.host]) \in Nat /\ Len(past'[q.host]) \in Nat
      /\ Len(past[q.host]) <= Len(past'[q.host])
      /\ DOMAIN past[q.host] = 1..Len(past[q.host])
      /\ DOMAIN past'[q.host] = 1..Len(past'[q.host])
      /\ \A k \in DOMAIN past[q.host] : past'[q.host][k] = past[q.host][k]
  BY <1>2, <1>3 DEF Grown
<1>5. ASSUME q.endpoint \in SetEndpoint
      PROVE  \E k \in DOMAIN past'[q.host] :
               /\ k > since'[c] /\ past'[q.host][k].by = c
               /\ past'[q.host][k].settings =
                    [past'[q.host][k - 1].settings EXCEPT ![SettingOf[q.endpoint]] = q.value]
  <2>1. PICK k \in DOMAIN past[q.host] : IsResult(c, k)
    BY <1>5 DEF IInv, GrantInv
  <2>2. /\ k > since[c] /\ past[q.host][k].by = c
        /\ past[q.host][k].settings =
             [past[q.host][k - 1].settings EXCEPT ![SettingOf[q.endpoint]] = q.value]
    BY <2>1 DEF IsResult
  <2>3. k \in DOMAIN past'[q.host] /\ k - 1 \in DOMAIN past[q.host]
    BY <1>3, <1>4, <2>2
  <2>4. past'[q.host][k] = past[q.host][k] /\ past'[q.host][k - 1] = past[q.host][k - 1]
    BY <1>4, <2>3
  <2> QED BY <1>2, <2>2, <2>3, <2>4
<1>6. ASSUME q.endpoint = "GetProcessorSettings"
      PROVE  \E k \in DOMAIN past'[q.host] :
               k >= since'[c] /\ past'[q.host][k].settings = effect[c].settings
  <2>1. PICK k \in DOMAIN past[q.host] :
          k >= since[c] /\ past[q.host][k].settings = effect[c].settings
    BY <1>6 DEF IInv, GrantInv
  <2>2. k \in DOMAIN past'[q.host] /\ past'[q.host][k] = past[q.host][k]
    BY <1>4
  <2> QED BY <1>2, <2>1, <2>2
<1> QED BY <1>2, <1>5, <1>6

\* When a call is granted its version is appended, or the last one is told.
LEMMA GrantMakes ==
  ASSUME IInv, NEW m \in wire, Process(m), effect'[m.call].code = "kSuccess"
  PROVE  LET c == m.call  q == request[c] IN
         /\ request'[c] = q
         /\ q.endpoint \in SetEndpoint =>
              \E k \in DOMAIN past'[q.host] :
                /\ k > since'[c] /\ past'[q.host][k].by = c
                /\ past'[q.host][k].settings =
                     [past'[q.host][k - 1].settings EXCEPT ![SettingOf[q.endpoint]] = q.value]
         /\ q.endpoint = "GetProcessorSettings" =>
              \E k \in DOMAIN past'[q.host] :
                k >= since'[c] /\ past'[q.host][k].settings = effect'[c].settings
<1> DEFINE c == m.call  q == request[c]  v == past[m.host]
<1>1. PICK code \in ServerCode, s \in Settings :
        /\ effect' = [effect EXCEPT ![c] = [code |-> code, settings |-> s]]
        /\ UNCHANGED clientVars
        /\ \/ code # "kSuccess"
           \/ /\ past' = [past EXCEPT ![m.host] = Granted(past[m.host], m.call, m)]
              /\ m.endpoint = "GetProcessorSettings" => s = Current(v)
  BY ProcessCases
<1>2. /\ c \in Call /\ m.host \in Host /\ m.host = q.host /\ m.endpoint = q.endpoint
      /\ m.value = q.value /\ stage[c] # "idle"
  BY OnItsWay DEF Unsent
<1>3. effect'[c] = [code |-> code, settings |-> s] /\ code = "kSuccess"
  BY <1>1, <1>2 DEF IInv, TypeOK
<1>4. request'[c] = q /\ since'[c] = since[c] /\ since[c] \in 1..Len(v)
  BY <1>1, <1>2 DEF clientVars, IInv, SinceInv
<1>5. past \in [Host -> Seq(Version)] /\ v \in Seq(Version) /\ v # <<>>
  BY <1>2 DEF IInv, TypeOK
<1>6. Len(v) \in Nat \ {0} /\ DOMAIN v = 1..Len(v) /\ Current(v) = v[Len(v)].settings
  BY <1>5, CurrentType
<1>7. ASSUME q.endpoint \in SetEndpoint
      PROVE  \E k \in DOMAIN past'[q.host] :
               /\ k > since'[c] /\ past'[q.host][k].by = c
               /\ past'[q.host][k].settings =
                    [past'[q.host][k - 1].settings EXCEPT ![SettingOf[q.endpoint]] = q.value]
  <2> DEFINE x == Made(v, c, m)
  <2>1. x \in Version /\ past' = [past EXCEPT ![m.host] = Append(v, x)]
    BY <1>1, <1>2, <1>3, <1>7, PastProcessed
  <2>2. x.by = c /\ x.settings = [Current(v) EXCEPT ![SettingOf[q.endpoint]] = q.value]
    BY <1>2 DEF Made
  <2> HIDE DEF x
  <2>3. past'[q.host] = Append(v, x)
    BY <1>2, <1>5, <2>1
  <2>4. /\ DOMAIN past'[q.host] = 1..(Len(v) + 1) /\ past'[q.host][Len(v) + 1] = x
        /\ past'[q.host][Len(v)] = v[Len(v)]
    BY <1>5, <1>6, <2>1, <2>3, Appended
  <2>5. /\ Len(v) + 1 \in DOMAIN past'[q.host] /\ (Len(v) + 1) - 1 = Len(v)
        /\ Len(v) + 1 > since'[c]
    BY <1>4, <1>6, <2>4
  <2>6. /\ past'[q.host][Len(v) + 1].by = c
        /\ past'[q.host][Len(v) + 1].settings =
             [past'[q.host][(Len(v) + 1) - 1].settings EXCEPT
                ![SettingOf[q.endpoint]] = q.value]
    BY <1>6, <2>2, <2>4, <2>5
  <2> HIDE DEF v, q, c
  <2> QED BY <2>5, <2>6
<1>8. ASSUME q.endpoint = "GetProcessorSettings"
      PROVE  \E k \in DOMAIN past'[q.host] :
               k >= since'[c] /\ past'[q.host][k].settings = effect'[c].settings
  <2>1. m.endpoint \notin SetEndpoint
    BY <1>2, <1>8, SetEndpoints
  <2>2. past' = past
    BY <1>1, <1>3, <2>1, PastProcessed
  <2>3. effect'[c].settings = v[Len(v)].settings
    BY <1>1, <1>2, <1>3, <1>6, <1>8
  <2>4. Len(v) \in DOMAIN past'[q.host] /\ Len(v) >= since'[c]
    BY <1>2, <1>4, <1>6, <2>2
  <2> QED BY <1>2, <2>2, <2>3, <2>4
<1> QED BY <1>4, <1>7, <1>8

\* What a granted call has done or seen is in its host's past, from then on.
LEMMA GrantNext == IInv /\ [Next]_vars => GrantInv'
<1> SUFFICES ASSUME IInv, [Next]_vars, NEW c \in Call, effect'[c].code = "kSuccess"
             PROVE  LET q == request'[c] IN
                    /\ q.endpoint \in SetEndpoint =>
                         \E k \in DOMAIN past'[q.host] :
                           /\ k > since'[c] /\ past'[q.host][k].by = c
                           /\ past'[q.host][k].settings =
                                [past'[q.host][k - 1].settings EXCEPT
                                   ![SettingOf[q.endpoint]] = q.value]
                    /\ q.endpoint = "GetProcessorSettings" =>
                         \E k \in DOMAIN past'[q.host] :
                           k >= since'[c] /\ past'[q.host][k].settings = effect'[c].settings
  BY DEF GrantInv, IsResult
<1>1. CASE effect[c].code = "kSuccess"
  BY <1>1, GrantStays
<1>2. CASE effect[c].code # "kSuccess"
  <2>1. PICK m \in wire : Process(m) /\ m.call = c
    BY <1>2, Processed
  <2>2. effect'[m.call].code = "kSuccess"
    BY <2>1
  <2>3. LET q == request[m.call] IN
        /\ request'[m.call] = q
        /\ q.endpoint \in SetEndpoint =>
             \E k \in DOMAIN past'[q.host] :
               /\ k > since'[m.call] /\ past'[q.host][k].by = m.call
               /\ past'[q.host][k].settings =
                    [past'[q.host][k - 1].settings EXCEPT ![SettingOf[q.endpoint]] = q.value]
        /\ q.endpoint = "GetProcessorSettings" =>
             \E k \in DOMAIN past'[q.host] :
               k >= since'[m.call] /\ past'[q.host][k].settings = effect'[m.call].settings
    BY <2>1, <2>2, GrantMakes
  <2> QED BY <2>1, <2>3
<1> QED BY <1>1, <1>2

-----------------------------------------------------------------------------
(* The theorems.                                                           *)

\* The invariant is inductive.
THEOREM Invariance == SafeSpec => []IInv
<1>1. IInv /\ [Next]_vars => IInv'
  BY TypeNext, SinceNext, WireNext, ReplyNext, ResponseNext, MadeNext, GrantNext DEF IInv
<1> QED BY <1>1, InitIInv, PTL DEF SafeSpec

\* The types, and which outcomes go with which messages and effects, for every
\* set of calls, hosts, values and codes.
THEOREM TypeCorrect == SafeSpec => []TypeOK
<1>1. IInv => TypeOK
  BY DEF IInv
<1> QED BY <1>1, Invariance, PTL

\* No call changes settings twice or at another processor than its own, however
\* many calls there are, whatever is lost and whatever processors answer.
THEOREM AtMostOnceCorrect == SafeSpec => []AtMostOnce
<1>1. IInv => AtMostOnce
  <2> SUFFICES ASSUME IInv, NEW c \in Call, NEW h \in Host
               PROVE  /\ Cardinality(MadeBy(c, h)) <= 1
                      /\ MadeBy(c, h) # {} => stage[c] # "idle" /\ request[c].host = h
    BY DEF AtMostOnce
  <2>1. /\ \A j, k \in MadeBy(c, h) : j = k
        /\ MadeBy(c, h) # {} => stage[c] # "idle" /\ request[c].host = h
    BY DEF IInv, MadeInv
  <2>2. CASE MadeBy(c, h) = {}
    BY <2>1, <2>2, FS_EmptySet
  <2>3. CASE MadeBy(c, h) # {}
    <3>1. PICK k \in MadeBy(c, h) : MadeBy(c, h) = {k}
      BY <2>1, <2>3
    <3>2. Cardinality({k}) = 1
      BY FS_Singleton
    <3> QED BY <2>1, <3>1, <3>2
  <2> QED BY <2>2, <2>3
<1> QED BY <1>1, Invariance, PTL

\* Which responses report success, when processors answer with known codes.
LEMMA SuccessRead ==
  ASSUME IInv, ServerCode \subseteq KnownCode, NEW c \in Call, stage[c] = "returned"
  PROVE  /\ response[c].settings = effect[c].settings
         /\ response[c].code = "Success" <=> effect[c].code = "kSuccess"
<1>1. effect[c].code \in KnownCode
  BY DEF IInv, TypeOK, ResponseInv
<1>2. /\ response[c].code = ConvertResultCode(Parsed(effect[c].code))
      /\ response[c].settings = effect[c].settings
  <2>1. response[c] = [code |-> ConvertResultCode(Parsed(effect[c].code)),
                       settings |-> effect[c].settings]
    BY DEF IInv, ResponseInv
  <2> QED BY <2>1
<1>3. response[c].code = ConvertResultCode(effect[c].code) /\ effect[c].code \in WireCode
  BY <1>1, <1>2, CodesRead DEF KnownCode
<1> QED BY <1>2, <1>3, CodesRead

\* A response to a set call says whether it has been done, if the processors
\* answer only with codes that the client's schema has.
THEOREM ResponsesAreTrue ==
  ASSUME ServerCode \subseteq KnownCode
  PROVE  SafeSpec => []ResponseIsTrue
<1>1. IInv => ResponseIsTrue
  <2> SUFFICES ASSUME IInv, NEW c \in Call, stage[c] = "returned",
                      request[c].endpoint \in SetEndpoint
               PROVE  LET q == request[c]
                          made == {k \in MadeBy(c, q.host) :
                                     /\ k > since[c]
                                     /\ past[q.host][k].settings =
                                          [past[q.host][k - 1].settings EXCEPT
                                             ![SettingOf[q.endpoint]] = q.value]}
                      IN  IF response[c].code = "Success"
                            THEN made # {} ELSE MadeBy(c, q.host) = {}
    BY DEF ResponseIsTrue
  <2>1. response[c].code = "Success" <=> effect[c].code = "kSuccess"
    BY SuccessRead
  <2>2. CASE effect[c].code = "kSuccess"
    <3>1. PICK k \in DOMAIN past[request[c].host] : IsResult(c, k)
      BY <2>2 DEF IInv, GrantInv
    <3> QED BY <2>1, <2>2, <3>1 DEF IsResult, MadeBy
  <2>3. CASE effect[c].code # "kSuccess"
    <3>1. request[c] \in Request
      BY DEF IInv, SinceInv
    <3>2. request[c].host \in Host
      BY <3>1 DEF Request
    <3> QED BY <2>1, <2>3, <3>2 DEF IInv, MadeInv
  <2> QED BY <2>2, <2>3
<1> QED BY <1>1, Invariance, PTL

\* Settings that are returned with Success were the processor's since the call,
\* if the processors answer only with codes that the client's schema has.
THEOREM SettingsAreFresh ==
  ASSUME ServerCode \subseteq KnownCode
  PROVE  SafeSpec => []FreshSettings
<1>1. IInv => FreshSettings
  <2> SUFFICES ASSUME IInv, NEW c \in Call, stage[c] = "returned",
                      response[c].code = "Success",
                      request[c].endpoint = "GetProcessorSettings"
               PROVE  \E k \in DOMAIN past[request[c].host] :
                        /\ k >= since[c]
                        /\ past[request[c].host][k].settings = response[c].settings
    BY DEF FreshSettings
  <2>1. response[c].settings = effect[c].settings /\ effect[c].code = "kSuccess"
    BY SuccessRead
  <2> QED BY <2>1 DEF IInv, GrantInv
<1> QED BY <1>1, Invariance, PTL

-----------------------------------------------------------------------------
(* RequestReply implements RemoteCalls: its states, seen through Status and *)
(* Outcome, are those of RemoteCalls, and so are its steps, or they stutter. *)

\* Both speak of processors and requests in the words of Sonar.
LEMMA SameVocabulary ==
  /\ Remote!First = First /\ Remote!Request = Request /\ Remote!Setting = Setting
  /\ Remote!ResultCode = ResultCode /\ Remote!Nobody = Nobody
  /\ \A v : Remote!Current(v) = Current(v)
  /\ \A v, c, q : Remote!Granted(v, c, q) = Granted(v, c, q)
<1>1. /\ Remote!Nobody = Nobody /\ Remote!Setting = Setting /\ Remote!ResultCode = ResultCode
      /\ Remote!SettingOf = SettingOf /\ Remote!ReqRepEndpoint = ReqRepEndpoint
      /\ \A v : Remote!Current(v) = Current(v)
  BY DEF Nobody, Remote!Nobody, Setting, Remote!Setting, ResultCode, Remote!ResultCode,
         SettingOf, Remote!SettingOf, ReqRepEndpoint, Remote!ReqRepEndpoint,
         Current, Remote!Current
<1>2. Remote!SetEndpoint = SetEndpoint
  BY <1>1 DEF SetEndpoint, Remote!SetEndpoint
<1>3. Remote!First = First
  BY <1>1 DEF First, Remote!First
<1>4. \A e : Remote!Argument(e) = Argument(e)
  BY <1>2 DEF Argument, Remote!Argument
<1>5. Remote!Request = Request
  BY <1>1, <1>4 DEF Request, Remote!Request
<1>6. \A v, c, q : Remote!Granted(v, c, q) = Granted(v, c, q)
  BY <1>1, <1>2 DEF Granted, Remote!Granted
<1> QED BY <1>1, <1>3, <1>5, <1>6

\* The status when a step moves one call, or none.
LEMMA StatusMoves ==
  ASSUME IInv, NEW c \in Call, NEW s, stage' = [stage EXCEPT ![c] = s]
  PROVE  Status' = [Status EXCEPT ![c] = StatusOf(s)]
<1>1. stage \in [Call -> Stages]
  BY DEF IInv, TypeOK
<1>2. \A d \in Call : stage'[d] = IF d = c THEN s ELSE stage[d]
  BY <1>1
<1>3. Status' = [d \in Call |-> StatusOf(stage'[d])]
  BY DEF Status
<1>4. \A d \in Call : StatusOf(stage'[d]) = IF d = c THEN StatusOf(s) ELSE StatusOf(stage[d])
  BY <1>2
<1> HIDE DEF Status
<1>5. Status = [d \in Call |-> StatusOf(stage[d])]
  BY DEF Status
<1> QED BY <1>3, <1>4, <1>5

\* What a stage looks like.
LEMMA StatusRead ==
  /\ StatusOf("idle") = "idle" /\ StatusOf("returned") = "returned"
  /\ StatusOf("called") = "pending" /\ StatusOf("waiting") = "pending"
  /\ \A s \in Thrown : StatusOf(s) = "thrown"
  /\ \A s \in Stages : StatusOf(s) = "idle" <=> s = "idle"
BY DEF StatusOf, Thrown, Stages

\* What an effect looks like.
LEMMA OutcomeRead ==
  ASSUME ServerCode \subseteq KnownCode, NEW code \in ServerCode, NEW s \in Settings
  PROVE  /\ OutcomeOf([code |-> code, settings |-> s])
              = [code |-> ConvertResultCode(code), settings |-> s]
         /\ OutcomeOf([code |-> code, settings |-> s]) # Unknown
         /\ Parsed(code) = code
         /\ ConvertResultCode(code) \in ResultCode
         /\ ConvertResultCode(code) = "Success" <=> code = "kSuccess"
<1>1. code \in KnownCode /\ code \in WireCode
  BY DEF KnownCode
<1>2. /\ ConvertResultCode(code) \in ResultCode /\ Parsed(code) = code
      /\ ConvertResultCode(code) = "Success" <=> code = "kSuccess"
  BY <1>1, CodesRead
<1>3. ConvertResultCode(code) # "none"
  BY <1>2 DEF ResultCode
<1>4. [code |-> code, settings |-> s] # Unknown
  BY <1>1, NotUnknown
<1>5. OutcomeOf([code |-> code, settings |-> s])
        = [code |-> ConvertResultCode(code), settings |-> s]
  BY <1>4 DEF OutcomeOf
<1> QED BY <1>2, <1>3, <1>5 DEF Unknown

\* The first states are those of RemoteCalls.
LEMMA InitMaps == Init => Remote!Init
<1> SUFFICES ASSUME Init PROVE Remote!Init
  OBVIOUS
<1>1. Status = [c \in Call |-> "idle"]
  BY StatusRead DEF Init, Status
<1>2. Outcome = [c \in Call |-> Unknown]
  BY DEF Init, Outcome, OutcomeOf
<1> QED BY <1>1, <1>2, SameVocabulary
        DEF Init, Remote!Init, Unknown, Remote!Unknown, NoRequest, Remote!NoRequest

\* The steps of send_request stutter, return or throw.
LEMMA SendRequestMaps ==
  ASSUME IInv, ServerCode \subseteq KnownCode, NEW c \in Call, SendRequest(c)
  PROVE  [Remote!Next]_(Remote!remoteVars)
<1>1. stage \in [Call -> Stages] /\ Status[c] = StatusOf(stage[c])
  BY DEF IInv, TypeOK, Status
<1>2. Outcome' = Outcome /\ UNCHANGED <<past, request>>
  BY DEF SendRequest, Send, SendFails, Receive, TimesOut, network, Outcome
<1>3. CASE Send(c)
  <2>1. stage[c] = "called" /\ stage' = [stage EXCEPT ![c] = "waiting"] /\ response' = response
    BY <1>3 DEF Send
  <2>2. Status' = [Status EXCEPT ![c] = StatusOf("waiting")]
    BY <2>1, StatusMoves
  <2>3. Status' = Status
    BY <1>1, <2>1, <2>2, StatusRead DEF Status
  <2> QED BY <1>2, <2>1, <2>3 DEF Remote!remoteVars
<1>4. ASSUME NEW s \in Thrown, stage' = [stage EXCEPT ![c] = s],
             stage[c] \in {"called", "waiting"}, response' = response
      PROVE  Remote!Next
  <2>0. Status' = [Status EXCEPT ![c] = StatusOf(s)]
    BY <1>4, StatusMoves
  <2>1. Status' = [Status EXCEPT ![c] = "thrown"] /\ Status[c] = "pending"
    BY <1>1, <1>4, <2>0, StatusRead
  <2>2. Remote!Throw(c)
    BY <1>2, <1>4, <2>1 DEF Remote!Throw
  <2> QED BY <2>2 DEF Remote!Next
<1>5. CASE SendFails(c) \/ TimesOut(c)
  BY <1>4, <1>5 DEF SendFails, TimesOut, Thrown
<1>6. CASE Receive(c)
  <2>1. /\ stage[c] = "waiting"
        /\ \/ stage' = [stage EXCEPT ![c] = "unparsable"] /\ response' = response
           \/ stage' = [stage EXCEPT ![c] = "returned"]
    BY <1>6 DEF Receive
  <2>2. CASE stage' = [stage EXCEPT ![c] = "returned"]
    <3>1. stage'[c] = "returned"
      BY <1>1, <2>2
    <3>2. /\ effect[c] # Unknown
          /\ response' = [response EXCEPT ![c] =
               [code |-> ConvertResultCode(Parsed(effect[c].code)),
                settings |-> effect[c].settings]]
      BY <1>6, <3>1, Received
    <3>3. PICK code \in ServerCode, s \in Settings :
            effect[c] = [code |-> code, settings |-> s]
      BY <3>2 DEF IInv, TypeOK
    <3>4. Outcome[c] = OutcomeOf(effect[c])
      BY DEF Outcome
    <3>5. /\ Outcome[c] = [code |-> ConvertResultCode(code), settings |-> s]
          /\ Outcome[c] # Unknown /\ Parsed(code) = code
      BY <3>3, <3>4, OutcomeRead
    <3>6. response' = [response EXCEPT ![c] = Outcome[c]]
      BY <3>2, <3>3, <3>5
    <3>0. Status' = [Status EXCEPT ![c] = StatusOf("returned")]
      BY <2>2, StatusMoves
    <3>7. Status' = [Status EXCEPT ![c] = "returned"] /\ Status[c] = "pending"
      BY <1>1, <2>1, <3>0, StatusRead
    <3>8. Remote!Return(c)
      BY <1>2, <3>5, <3>6, <3>7 DEF Remote!Return, Remote!Unknown, Unknown
    <3> QED BY <3>8 DEF Remote!Next
  <2> QED BY <1>4, <2>1, <2>2 DEF Thrown
<1> QED BY <1>3, <1>5, <1>6 DEF SendRequest

\* A processor's step grants or refuses.
LEMMA ProcessMaps ==
  ASSUME IInv, ServerCode \subseteq KnownCode, NEW m \in wire, Process(m)
  PROVE  Remote!Next
<1> DEFINE c == m.call
<1>1. PICK code \in ServerCode, s \in Settings :
        /\ effect' = [effect EXCEPT ![m.call] = [code |-> code, settings |-> s]]
        /\ UNCHANGED clientVars
        /\ \/ code # "kSuccess" /\ past' = past /\ s = Default
           \/ /\ code = "kSuccess"
              /\ past' = [past EXCEPT ![m.host] = Granted(past[m.host], m.call, m)]
              /\ m.endpoint = "GetProcessorSettings" => s = Current(past[m.host])
              /\ m.endpoint # "GetProcessorSettings" => s = Default
  BY ProcessCases
<1>2. /\ c \in Call /\ m.host \in Host /\ m.host = request[c].host
      /\ m.endpoint = request[c].endpoint /\ m.value = request[c].value
      /\ effect[c] = Unknown /\ stage[c] \in Stages /\ stage[c] # "idle"
  BY OnItsWay DEF Unsent, IInv, TypeOK
<1>3. Status[c] # "idle" /\ Outcome[c] = Unknown
  BY <1>2, StatusRead DEF Status, Outcome, OutcomeOf
<1>4. Status' = Status /\ UNCHANGED <<request, response>>
  BY <1>1 DEF clientVars, Status
<1>5. /\ OutcomeOf([code |-> code, settings |-> s])
           = [code |-> ConvertResultCode(code), settings |-> s]
      /\ ConvertResultCode(code) \in ResultCode
      /\ ConvertResultCode(code) = "Success" <=> code = "kSuccess"
  BY OutcomeRead
<1>6. Outcome' = [Outcome EXCEPT ![c] = [code |-> ConvertResultCode(code), settings |-> s]]
  <2> DEFINE x == [code |-> code, settings |-> s]
  <2>1. effect \in [Call -> {Unknown} \cup [code : ServerCode, settings : Settings]]
    BY DEF IInv, TypeOK
  <2>2. effect' = [effect EXCEPT ![c] = x]
    BY <1>1
  <2> HIDE DEF x
  <2>3. \A d \in Call : effect'[d] = IF d = c THEN x ELSE effect[d]
    BY <2>1, <2>2
  <2>4. /\ Outcome' = [d \in Call |-> OutcomeOf(effect'[d])]
        /\ Outcome = [d \in Call |-> OutcomeOf(effect[d])]
    BY DEF Outcome
  <2>5. \A d \in Call : OutcomeOf(effect'[d]) = IF d = c THEN OutcomeOf(x) ELSE OutcomeOf(effect[d])
    BY <2>3
  <2>6. Outcome' = [Outcome EXCEPT ![c] = OutcomeOf(x)]
    BY <2>4, <2>5
  <2> QED BY <1>5, <2>6 DEF x
<1>7. CASE code # "kSuccess"
  <2>1. past' = past /\ s = Default
    BY <1>1, <1>7
  <2>2. Remote!Refuse(c, ConvertResultCode(code))
    BY <1>3, <1>4, <1>6, <2>1 DEF Remote!Refuse, Remote!Unknown, Unknown
  <2> QED BY <1>2, <1>5, <1>7, <2>2, SameVocabulary DEF Remote!Next
<1>8. CASE code = "kSuccess"
  <2>1. Granted(past[m.host], m.call, m) = Granted(past[request[c].host], c, request[c])
    BY <1>2 DEF Granted
  <2>2. past' = [past EXCEPT ![request[c].host] = Granted(past[request[c].host], c, request[c])]
    BY <1>1, <1>2, <1>8, <2>1
  <2>3. s = IF request[c].endpoint = "GetProcessorSettings"
              THEN Current(past[request[c].host]) ELSE Default
    BY <1>1, <1>2, <1>8
  <2>4. Outcome' = [Outcome EXCEPT ![c] = [code |-> "Success", settings |-> s]]
    BY <1>5, <1>6, <1>8
  <2>5. Remote!Grant(c)
    BY <1>3, <1>4, <2>2, <2>3, <2>4, SameVocabulary DEF Remote!Grant, Remote!Unknown, Unknown
  <2> QED BY <1>2, <2>5 DEF Remote!Next
<1> QED BY <1>7, <1>8

\* Every step is one of RemoteCalls, or stutters.
LEMMA NextMaps ==
  ASSUME IInv, ServerCode \subseteq KnownCode, [Next]_vars
  PROVE  [Remote!Next]_(Remote!remoteVars)
<1>1. ASSUME NEW c \in Call, NEW e \in Endpoint, NEW v \in Argument(e), Invoke(c, e, v)
      PROVE  Remote!Next
  <2> DEFINE q == [host |-> config, endpoint |-> e, value |-> v]
  <2>1. q \in Request
    BY BoundAssumption DEF Request, Argument, IInv, TypeOK
  <2>2. /\ stage[c] = "idle" /\ stage' = [stage EXCEPT ![c] = "called"]
        /\ request' = [request EXCEPT ![c] = q]
        /\ past' = past /\ effect' = effect /\ response' = response
    BY <1>1 DEF Invoke
  <2> HIDE DEF q
  <2>0. Status' = [Status EXCEPT ![c] = StatusOf("called")]
    BY <2>2, StatusMoves
  <2>3. Status' = [Status EXCEPT ![c] = "pending"] /\ Status[c] = "idle"
    BY <2>0, <2>2, StatusRead DEF Status
  <2>4. Outcome' = Outcome
    BY <2>2 DEF Outcome
  <2>5. Remote!Invoke(c, q)
    BY <2>2, <2>3, <2>4 DEF Remote!Invoke
  <2> QED BY <2>1, <2>5, SameVocabulary DEF Remote!Next
<1>2. ASSUME NEW h \in Host, NEW e \in Endpoint \cap SetEndpoint, NEW v \in Value,
             Elsewhere(h, SettingOf[e], v)
      PROVE  Remote!Next
  <2>1. UNCHANGED <<Status, request, Outcome, response>>
    BY <1>2 DEF Elsewhere, clientVars, Status, Outcome
  <2>2. Remote!Elsewhere(h, SettingOf[e], v)
    BY <1>2, <2>1, SameVocabulary DEF Elsewhere, Remote!Elsewhere
  <2> QED BY <2>2, SetEndpoints, SameVocabulary DEF Remote!Next
<1>3. ASSUME \/ \E h \in Host : Reconfigure(h)
             \/ \E m \in wire : LoseRequest(m)
             \/ \E r \in replies : LoseReply(r)
             \/ Finished \/ UNCHANGED vars
      PROVE  UNCHANGED Remote!remoteVars
  <2>1. UNCHANGED <<past, stage, request, effect, response>>
    BY <1>3 DEF Reconfigure, LoseRequest, LoseReply, Finished, vars, clientVars
  <2> QED BY <2>1 DEF Remote!remoteVars, Status, Outcome
<1> QED BY <1>1, <1>2, <1>3, SendRequestMaps, ProcessMaps DEF Next

\* The calls are those of RemoteCalls, for every number of calls, processors and
\* versions, if the processors answer only with codes that the schema has.
THEOREM Implementation ==
  ASSUME ServerCode \subseteq KnownCode
  PROVE  SafeSpec => ImplementsRemoteCalls
<1>1. IInv /\ [Next]_vars => [Remote!Next]_(Remote!remoteVars)
  BY NextMaps
<1> QED BY <1>1, InitMaps, Invariance, PTL DEF SafeSpec, ImplementsRemoteCalls, Remote!SafeSpec
=============================================================================
