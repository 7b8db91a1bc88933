--------------------------- MODULE MCConversions ---------------------------
EXTENDS Conversions

\* Every result code and system type, the deprecated one and one that this client does
\* not know among them, and none.
Results == {[kind |-> "RequestResult", fields |-> [code |-> c]] : c \in 0..6}
SystemTypes == {[kind |-> "ProcessorSettings", fields |-> [system_type |-> s]] : s \in 0..4}

Series ==
  {<<>>, [type |-> 3, order |-> 2, data |-> "bytes"]}
    \cup {[type |-> t, order |-> t % 2] : t \in 0..12}
Hydrophones ==
  {[kind |-> "HydrophoneData", fields |-> [num_hor_phones |-> 2, raw_timeseries |-> s]] : s \in Series}
    \cup {[kind |-> "HydrophoneData", fields |-> [num_ver_phones |-> 2]]}

Bin0 == [depth |-> 1, strength |-> 2, confidence |-> 3]
Targets ==
  {[kind |-> "TargetData", fields |-> f] :
     f \in {[heading |-> [heading |-> 0]], [position |-> [lat |-> 1], bottom |-> <<Bin0>>],
            [groups |-> <<<<>>, [bins |-> <<Bin0, <<>>>>]>>],
            [grid_description |-> [mode |-> 1, max_range |-> 9]]}}

Others == {[kind |-> "VesselInfo", fields |-> [draft |-> 4]],
           [kind |-> "RequestResult", fields |-> [result_detail |-> "none"]],
           [kind |-> "ProcessorSettings", fields |-> [detect_bottom |-> 1]]}

MCContents == Results \cup SystemTypes \cup Hydrophones \cup Targets \cup Others

\* The first and the last instant of a month, and a day that only February lacks.
MCInstants ==
  {[day |-> 1, hour |-> 0, minute |-> 0, second |-> 0, millisecond |-> 0],
   [day |-> 29, hour |-> 12, minute |-> 30, second |-> 30, millisecond |-> 1],
   [day |-> 31, hour |-> 23, minute |-> 59, second |-> 59, millisecond |-> 999]}

\* The enumerators, and a value that is none, which the tests cast.
MCAppFov == DOMAIN FieldOfView \cup {"999"}
=============================================================================
