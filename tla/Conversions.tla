---------------------------- MODULE Conversions ----------------------------
(***************************************************************************)
(* The conversions between the wire and the types of the library            *)
(* (src/conversions.cpp), and what they are between: a processor whose clock *)
(* counts the months from 1970 and whose field of view is set by this client *)
(* or elsewhere, and an application that is handed what it sends.            *)
(*                                                                         *)
(* A message on the wire is the function of the fields that it carries.  An  *)
(* enumeration is a number on the wire, and a name on either side of the     *)
(* conversion; measured values stay as they are.  Of the two branches of     *)
(* convert_timestamp this is the one with timegm.                            *)
(***************************************************************************)
EXTENDS Integers, Sequences

CONSTANTS
  Contents,    \* messages, without their time and without a field of view
  Instants,    \* times that messages carry: the day, the last of the month if that
               \* is shorter, and the time of day
  AppFov,      \* what the application sets: names of FieldOfView, others for a cast
  MaxMonths,   \* how long the processor runs
  None         \* std::nullopt

Kinds == {"RequestResult", "HydrophoneData", "TargetData", "ProcessorSettings", "VesselInfo"}

Instant ==
  [day : 1..31, hour : Int, minute : Int, second : Int, millisecond : Int]

ASSUME ConversionsAssumption ==
  /\ \A c \in Contents : c.kind \in Kinds /\ "time" \notin DOMAIN c.fields
  /\ Instants \subseteq Instant
  /\ MaxMonths \in Nat
  /\ None \notin Instants \cup [day : Int, of : Instants] /\ None \notin AppFov

VARIABLES
  months, days,  \* of the processor's clock: since 1970, days before this month
  fov,           \* the processor's field of view, as the number on the wire
  meant,         \* the field of view that the application set, None if another did
  sent,          \* the message under way, None if there is none
  at,            \* the days since 1970 and the time of day that it was stamped with
  heard          \* what the application was handed last

vars == <<months, days, fov, meant, sent, at, heard>>

-----------------------------------------------------------------------------
(* The enumerations: their names and numbers, in types.hpp and on the wire. *)

FieldOfView ==
  [k120d100m |-> 5, k120d200m |-> 6, k90d500m |-> 7, k60d1000m |-> 8,
   k90d100m |-> 9, k90d200m |-> 10, k90d350m |-> 11, kStandby |-> 12]
SystemType == [kFS500 |-> 1, kFS1000 |-> 2, kFS350 |-> 3]
ArrayDataType ==
  [kByte |-> 0, kInt16 |-> 1, kUInt16 |-> 2, kInt32 |-> 3, kUInt32 |-> 4, kInt64 |-> 5,
   kUInt64 |-> 6, kFloat32 |-> 7, kFloat64 |-> 8, kComplex64 |-> 9, kComplex128 |-> 10,
   kBool |-> 11]
ArrayDataOrder == [kRowMajor |-> 0, kColumnMajor |-> 1]
ResultCode ==
  [Success |-> 0, UnknownError |-> 1, OperationUnavailable |-> 2,
   ParameterOutOfRange |-> 3, ParameterMissing |-> 4, InvalidRequest |-> 5]

Schema ==
  [fov |->
     [k120d100m |-> 5, k120d200m |-> 6, k90d500m |-> 7, k60d1000m |-> 8,
      k90d100m |-> 9, k90d200m |-> 10, k90d350m |-> 11, kStandby |-> 12,
      OBSELETE_k90d110m |-> 0, OBSELETE_k90d220m |-> 1, OBSELETE_k90d330m |-> 2,
      OBSELETE_k60d440m |-> 3, OBSELETE_kAlt |-> 4],
   system_type |-> [kFS500 |-> 1, kFS1000 |-> 2, kFS350 |-> 3, OBSELETE_kFS3DT |-> 0],
   type |->
     [BYTE |-> 0, INT16 |-> 1, UINT16 |-> 2, INT32 |-> 3, UINT32 |-> 4, INT64 |-> 5,
      UINT64 |-> 6, FLOAT32 |-> 7, FLOAT64 |-> 8, COMPLEX64 |-> 9, COMPLEX128 |-> 10,
      BOOL |-> 11],
   order |-> [ROW_MAJOR |-> 0, COLUMN_MAJOR |-> 1],
   code |->
     [kSuccess |-> 0, kUnknownError |-> 1, kOperationUnavailable |-> 2,
      kParameterOutOfRange |-> 3, kParameterMissing |-> 4, kInvalidRequest |-> 5],
   mode |-> [kFixed |-> 0, OBSELETE_kAlternating |-> 1]]

\* What a getter returns for an enumeration that is not set.
Default ==
  [fov |-> "k90d500m", system_type |-> "kFS500", type |-> "BYTE", order |-> "ROW_MAJOR",
   code |-> "kSuccess", mode |-> "kFixed"]

\* The parser leaves an enumeration unset whose number the schema does not have.
Numbers(enum) == {enum[name] : name \in DOMAIN enum}
Carries(m, f) == f \in DOMAIN m /\ (f \in DOMAIN Schema => m[f] \in Numbers(Schema[f]))
Enum(m, f) ==
  IF Carries(m, f) THEN CHOOSE name \in DOMAIN Schema[f] : Schema[f][name] = m[f]
  ELSE Default[f]
Values(m, fields) == [f \in fields |-> IF f \in DOMAIN m THEN m[f] ELSE 0]
Text(m, f) == IF f \in DOMAIN m THEN m[f] ELSE ""
List(m, f) == IF f \in DOMAIN m THEN m[f] ELSE <<>>

\* A switch: its cases and its default.
Switch(name, cases, default) == IF name \in DOMAIN cases THEN cases[name] ELSE default

convert_result_code(code) ==
  Switch(code,
    [kSuccess |-> "Success", kUnknownError |-> "UnknownError",
     kOperationUnavailable |-> "OperationUnavailable",
     kParameterOutOfRange |-> "ParameterOutOfRange",
     kParameterMissing |-> "ParameterMissing", kInvalidRequest |-> "InvalidRequest"],
    "UnknownError")

convert_system_type(t) ==
  Switch(t, [kFS500 |-> "kFS500", kFS1000 |-> "kFS1000", kFS350 |-> "kFS350"], "kFS500")

\* A faulty variant: the modes of the Argos-350 were not added to the table.
convert_fov_argos500(v) ==
  Switch(v,
    [k120d100m |-> "k120d100m", k120d200m |-> "k120d200m", k90d500m |-> "k90d500m",
     k60d1000m |-> "k60d1000m", kStandby |-> "kStandby"],
    "k90d500m")

\* From the wire, and to it.
convert_fov(v) ==
  Switch(v,
    [k120d100m |-> "k120d100m", k120d200m |-> "k120d200m", k90d500m |-> "k90d500m",
     k60d1000m |-> "k60d1000m", k90d100m |-> "k90d100m", k90d200m |-> "k90d200m",
     k90d350m |-> "k90d350m", kStandby |-> "kStandby"],
    "k90d500m")
convert_fov_to_proto(v) ==
  Switch(v,
    [k120d100m |-> "k120d100m", k120d200m |-> "k120d200m", k90d500m |-> "k90d500m",
     k60d1000m |-> "k60d1000m", k90d100m |-> "k90d100m", k90d200m |-> "k90d200m",
     k90d350m |-> "k90d350m", kStandby |-> "kStandby"],
    "k90d500m")

convert_array_type(type) ==
  Switch(type,
    [BYTE |-> "kByte", INT16 |-> "kInt16", UINT16 |-> "kUInt16", INT32 |-> "kInt32",
     UINT32 |-> "kUInt32", INT64 |-> "kInt64", UINT64 |-> "kUInt64",
     FLOAT32 |-> "kFloat32", FLOAT64 |-> "kFloat64", COMPLEX64 |-> "kComplex64",
     COMPLEX128 |-> "kComplex128", BOOL |-> "kBool"],
    "kByte")

convert_array_order(order) ==
  Switch(order, [ROW_MAJOR |-> "kRowMajor", COLUMN_MAJOR |-> "kColumnMajor"], "kRowMajor")

-----------------------------------------------------------------------------
(* Time.                                                                   *)

IsLeap(year) == year % 4 = 0 /\ (year % 100 # 0 \/ year % 400 = 0)
Before == <<0, 31, 59, 90, 120, 151, 181, 212, 243, 273, 304, 334>>

\* The C library's seconds since 1970 of a struct tm: the months are those since
\* January and the years those since 1900, and months outside of 0..11 carry.
timegm(tm) ==
  LET y == tm.year + tm.mon \div 12
      m == tm.mon % 12
      yday == Before[m + 1] + tm.mday - 1 + IF IsLeap(y + 1900) /\ m > 1 THEN 1 ELSE 0
      day == 365 * (y - 70) + (y - 69) \div 4 - (y - 1) \div 100 + (y + 299) \div 400 + yday
  IN  ((day * 24 + tm.hour) * 60 + tm.min) * 60 + tm.sec

\* A faulty variant: the month is not counted from 0.
convert_timestamp_month(t) ==
  [seconds |-> timegm([year |-> t.year - 1900, mon |-> t.month, mday |-> t.day,
                       hour |-> t.hour, min |-> t.minute, sec |-> t.second]),
   thousandths |-> t.millisecond]

\* The double seconds_since_epoch, as seconds and thousandths.
convert_timestamp(t) ==
  [seconds |-> timegm([year |-> t.year - 1900, mon |-> t.month - 1, mday |-> t.day,
                       hour |-> t.hour, min |-> t.minute, sec |-> t.second]),
   thousandths |-> t.millisecond]

\* if (has_time()) time = convert_timestamp(time()).
Time(m) ==
  IF "time" \in DOMAIN m THEN convert_timestamp(m.time)
  ELSE [seconds |-> 0, thousandths |-> 0]

-----------------------------------------------------------------------------
(* The messages.                                                           *)

convert_result(r) ==
  [time |-> Time(r), code |-> convert_result_code(Enum(r, "code")),
   detail |-> Text(r, "result_detail")]

convert_bin(b) ==
  Values(b, {"hor_index", "ver_index", "range_index", "cross_range", "down_range",
              "depth", "strength"})
Bins(list) == [i \in DOMAIN list |-> convert_bin(list[i])]

\* The mode is cast and not looked up: it stays a number.
convert_grid_description(g) ==
  [mode |-> IF Carries(g, "mode") THEN Schema.mode[Enum(g, "mode")] ELSE 0,
   hor_angles |-> List(g, "hor_angles"), ver_angles |-> List(g, "ver_angles"),
   max_range |-> Values(g, {"max_range"}).max_range]

Timeseries(h) == IF "raw_timeseries" \in DOMAIN h THEN h.raw_timeseries ELSE <<>>

convert_hydrophone_data(h) ==
  LET ts == Timeseries(h) IN
  [time |-> Time(h), serial |-> Text(h, "serial"), transmit_id |-> Text(h, "transmit_id"),
   phones |-> Values(h, {"num_hor_phones", "num_ver_phones"}),
   dims |-> List(ts, "dims"),
   type |-> IF Carries(ts, "type") THEN convert_array_type(Enum(ts, "type")) ELSE "kByte",
   order |-> IF Carries(ts, "order") THEN convert_array_order(Enum(ts, "order"))
             ELSE "kRowMajor",
   raw_timeseries |-> Text(ts, "data")]

convert_target_data(t) ==
  [time |-> Time(t), serial |-> Text(t, "serial"),
   heading |-> IF "heading" \in DOMAIN t THEN Values(t.heading, {"heading"}) ELSE None,
   position |-> IF "position" \in DOMAIN t THEN Values(t.position, {"lat", "lon"}) ELSE None,
   bottom |-> Bins(List(t, "bottom")),
   groups |-> [i \in DOMAIN List(t, "groups") |-> Bins(List(t.groups[i], "bins"))],
   grid_description |-> IF "grid_description" \in DOMAIN t
                        THEN convert_grid_description(t.grid_description) ELSE None,
   limits |-> Values(t, {"max_depth", "max_range_index"})]

convert_processor_settings(s) ==
  [time |-> Time(s),
   squelch |-> Values(s, {"min_inwater_squelch", "max_inwater_squelch", "inwater_squelch"}),
   flags |-> Values(s, {"squelchless_inwater_detector", "detect_bottom"}),
   system_type |-> convert_system_type(Enum(s, "system_type")),
   fov |-> convert_fov(Enum(s, "fov"))]

convert_vessel_info(v) == Values(v, {"draft", "keel_offset"})

Convert(kind, m) ==
  CASE kind = "RequestResult"     -> convert_result(m)
    [] kind = "HydrophoneData"    -> convert_hydrophone_data(m)
    [] kind = "TargetData"        -> convert_target_data(m)
    [] kind = "ProcessorSettings" -> convert_processor_settings(m)
    [] kind = "VesselInfo"        -> convert_vessel_info(m)

-----------------------------------------------------------------------------
(* The processor and the application.                                      *)

Init ==
  /\ months = 0 /\ days = 0
  /\ fov = Schema.fov.k90d500m /\ meant = None
  /\ sent = None /\ at = None /\ heard = None

Year == 1970 + months \div 12
Length ==
  <<31, IF IsLeap(Year) THEN 29 ELSE 28, 31, 30, 31, 30, 31, 31, 30, 31, 30, 31>>[(months % 12) + 1]

NextMonth ==
  /\ sent = None /\ months < MaxMonths
  /\ months' = months + 1 /\ days' = days + Length
  /\ UNCHANGED <<fov, meant, sent, at, heard>>

\* set_field_of_view, granted: the processor takes the number that it is sent.
SetFieldOfView(v) ==
  /\ sent = None
  /\ fov' = Schema.fov[convert_fov_to_proto(v)] /\ meant' = v
  /\ UNCHANGED <<months, days, sent, at, heard>>

\* A processor may be older or newer than the client's schema.
Elsewhere ==
  /\ sent = None
  /\ fov' \in 0..13 /\ meant' = None
  /\ UNCHANGED <<months, days, sent, at, heard>>

Day(i) == IF i.day < Length THEN i.day ELSE Length

Stamp(i) ==
  [year |-> Year, month |-> (months % 12) + 1, day |-> Day(i),
   hour |-> i.hour, minute |-> i.minute, second |-> i.second, millisecond |-> i.millisecond]

With(m, f, v) == [g \in DOMAIN m \cup {f} |-> IF g = f THEN v ELSE m[g]]

Send(c, i) ==
  LET m == IF c.kind = "ProcessorSettings" THEN With(c.fields, "fov", fov) ELSE c.fields IN
  /\ sent = None
  /\ sent' = [kind |-> c.kind, message |-> IF i = None THEN m ELSE With(m, "time", Stamp(i))]
  /\ at' = IF i = None THEN None
           ELSE [day |-> days + Day(i) - 1, of |-> i]
  /\ heard' = None
  /\ UNCHANGED <<months, days, fov, meant>>

Hear ==
  /\ sent # None /\ heard = None
  /\ heard' = Convert(sent.kind, sent.message)
  /\ UNCHANGED <<months, days, fov, meant, sent, at>>

Done ==
  /\ heard # None
  /\ sent' = None /\ at' = None /\ heard' = None
  /\ UNCHANGED <<months, days, fov, meant>>

Next ==
  \/ NextMonth
  \/ \E v \in AppFov : SetFieldOfView(v)
  \/ Elsewhere
  \/ \E c \in Contents, i \in Instants \cup {None} :
       (c.kind = "VesselInfo" => i = None) /\ Send(c, i)
  \/ Hear
  \/ Done

Spec == Init /\ [][Next]_vars

-----------------------------------------------------------------------------
\* The timestamp that an application is handed is the processor's clock, counted
\* month by month from 1970: leap years, the ends of months and the milliseconds
\* included; it is 0 for a message that carries none.
TimestampCounts ==
  heard # None /\ sent.kind # "VesselInfo" =>
    heard.time =
      IF at = None THEN [seconds |-> 0, thousandths |-> 0]
      ELSE [seconds |-> at.day * 86400 + at.of.hour * 3600 + at.of.minute * 60 + at.of.second,
            thousandths |-> at.of.millisecond]

\* Every enumeration that an application is handed is the enumerator of types.hpp that
\* has the number that was sent, which takes a right row of the right switch.  A number
\* that has none, deprecated, newer than the client or not sent, reads as the default:
\* k90d500m, kFS500, kByte, kRowMajor, and for a result code Success.  A field of view
\* that the application has set is the one that it hears until another is set.
ModesAsMeant ==
  LET Reads(m, f, enum, name, default) ==
        IF f \in DOMAIN m /\ m[f] \in Numbers(enum)
        THEN name \in DOMAIN enum /\ enum[name] = m[f]
        ELSE name = default
  IN
  heard # None =>
    /\ sent.kind = "ProcessorSettings" =>
         /\ Reads(sent.message, "fov", FieldOfView, heard.fov, "k90d500m")
         /\ Reads(sent.message, "system_type", SystemType, heard.system_type, "kFS500")
         /\ meant # None =>
              heard.fov = IF meant \in DOMAIN FieldOfView THEN meant ELSE "k90d500m"
    /\ sent.kind = "HydrophoneData" =>
         /\ Reads(Timeseries(sent.message), "type", ArrayDataType, heard.type, "kByte")
         /\ Reads(Timeseries(sent.message), "order", ArrayDataOrder, heard.order, "kRowMajor")
    /\ sent.kind = "RequestResult" =>
         Reads(sent.message, "code", ResultCode, heard.code, "Success")

=============================================================================
