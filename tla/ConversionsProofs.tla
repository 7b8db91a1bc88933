-------------------------- MODULE ConversionsProofs --------------------------
(***************************************************************************)
(* Theorems about Conversions, for any messages, times of day and values     *)
(* that the application casts, and for a clock that runs as long as one      *)
(* likes: timegm's formula for the days since 1970 is the count of the days  *)
(* of the months.                                                           *)
(***************************************************************************)
EXTENDS Conversions, TLAPS

(***************************************************************************)
(* The inductive invariant.                                                *)
(***************************************************************************)

\* The days from 1970 to a day of a year, by timegm's formula: the year is counted
\* from 1900, the month and the day of the month from 0.
Calendar(year, month, day) ==
  365 * (year - 70) + (year - 69) \div 4 - (year - 1) \div 100 + (year + 299) \div 400
    + Before[month + 1] + day + IF IsLeap(year + 1900) /\ month > 1 THEN 1 ELSE 0

\* Counting months comes to what the formula says.
ClockInv ==
  /\ months \in Nat
  /\ days = Calendar(70 + months \div 12, months % 12, 0)

\* A message carries the time that it was stamped with, or none.
StampInv ==
  sent # None =>
    IF at = None THEN "time" \notin DOMAIN sent.message
    ELSE /\ "time" \in DOMAIN sent.message
         /\ convert_timestamp(sent.message.time) =
              [seconds |-> at.day * 86400 + at.of.hour * 3600 + at.of.minute * 60 + at.of.second,
               thousandths |-> at.of.millisecond]

\* The processor has the field of view that the application set, and sends it.
FovInv ==
  /\ meant # None =>
       fov = Schema.fov[IF meant \in DOMAIN FieldOfView THEN meant ELSE "k90d500m"]
  /\ sent # None /\ sent.kind = "ProcessorSettings" =>
       "fov" \in DOMAIN sent.message /\ sent.message.fov = fov

\* What is heard is what was sent.
HeardInv ==
  /\ sent # None => sent.kind \in Kinds
  /\ heard # None => sent # None /\ heard = Convert(sent.kind, sent.message)

CInv == ClockInv /\ StampInv /\ FovInv /\ HeardInv

-----------------------------------------------------------------------------
(* The calendar.                                                           *)

\* The days of a month, by its number from 0.
Days(year, month) ==
  <<31, IF IsLeap(year) THEN 29 ELSE 28, 31, 30, 31, 30, 31, 31, 30, 31, 30, 31>>[month + 1]

\* A month later within a year.
LEMMA SameYear ==
  ASSUME NEW y \in Nat, NEW m \in 0..10
  PROVE  Calendar(y, m + 1, 0) = Calendar(y, m, 0) + Days(y + 1900, m)
<1>1. Before[m + 2] + (IF IsLeap(y + 1900) /\ m + 1 > 1 THEN 1 ELSE 0)
        = Before[m + 1] + (IF IsLeap(y + 1900) /\ m > 1 THEN 1 ELSE 0) + Days(y + 1900, m)
  <2>1. m \in {0, 1, 2, 3, 4, 5, 6, 7, 8, 9, 10}
    OBVIOUS
  <2>2. IsLeap(y + 1900) \in BOOLEAN
    BY DEF IsLeap
  <2> QED BY <2>1, <2>2 DEF Before, Days
<1>2. Before[m + 1] \in Int /\ Before[m + 2] \in Int /\ Days(y + 1900, m) \in Int
  <2>1. m \in {0, 1, 2, 3, 4, 5, 6, 7, 8, 9, 10}
    OBVIOUS
  <2> QED BY <2>1 DEF Before, Days
<1>3. \A leap, b1, b2, l1, l2, d \in Int :
        b2 + l2 = b1 + l1 + d => leap + b2 + 0 + l2 = leap + b1 + 0 + l1 + d
  OBVIOUS
<1>4. 365 * (y - 70) + (y - 69) \div 4 - (y - 1) \div 100 + (y + 299) \div 400 \in Int
  OBVIOUS
<1> QED BY <1>1, <1>2, <1>3, <1>4 DEF Calendar

\* The leap days of the formula are those of the calendar.
LEMMA LeapDays ==
  ASSUME NEW y \in Nat
  PROVE  ((y - 68) \div 4 - (y - 69) \div 4) - (y \div 100 - (y - 1) \div 100)
           + ((y + 300) \div 400 - (y + 299) \div 400)
         = IF IsLeap(y + 1900) THEN 1 ELSE 0
BY DEF IsLeap

\* From December to January.
LEMMA NextYear ==
  ASSUME NEW y \in Nat
  PROVE  Calendar(y + 1, 0, 0) = Calendar(y, 11, 0) + Days(y + 1900, 11)
<1>1. Days(y + 1900, 11) = 31
  BY DEF Days
<1>2. Before[1] = 0 /\ Before[12] = 334
  BY DEF Before
<1>3. IsLeap(y + 1900) \in BOOLEAN
  BY DEF IsLeap
<1> QED BY <1>1, <1>2, <1>3, LeapDays DEF Calendar

\* What timegm makes of a month that needs no carrying.
LEMMA TimegmCounts ==
  \A tm \in [year : Nat, mon : 0..11, mday : Int, hour : Int, min : Int, sec : Int] :
    timegm(tm) = Calendar(tm.year, tm.mon, tm.mday - 1) * 86400
                   + tm.hour * 3600 + tm.min * 60 + tm.sec
<1> TAKE tm \in [year : Nat, mon : 0..11, mday : Int, hour : Int, min : Int, sec : Int]
<1>0. PICK y \in Nat, m \in 0..11, d \in Int, h \in Int, mi \in Int, s \in Int :
        /\ tm.year = y /\ tm.mon = m /\ tm.mday = d
        /\ tm.hour = h /\ tm.min = mi /\ tm.sec = s
  OBVIOUS
<1>1. m \div 12 = 0 /\ m % 12 = m
  OBVIOUS
<1>2. Before[m + 1] \in Int
  <2>1. m \in {0, 1, 2, 3, 4, 5, 6, 7, 8, 9, 10, 11}
    OBVIOUS
  <2> QED BY <2>1 DEF Before
<1>3. timegm(tm) = ((Calendar(y, m, d - 1) * 24 + h) * 60 + mi) * 60 + s
  BY <1>0, <1>1, <1>2 DEF timegm, Calendar
<1>4. Calendar(y, m, d - 1) \in Int
  BY <1>2 DEF Calendar
<1> QED BY <1>0, <1>3, <1>4

\* The number of the month and of the year, and the length of the month.
LEMMA Month ==
  ASSUME months \in Nat
  PROVE  /\ months \div 12 \in Nat /\ months % 12 \in 0..11
         /\ Year = (70 + months \div 12) + 1900
         /\ Length = Days(70 + months \div 12 + 1900, months % 12) /\ Length \in Nat
<1>1. months \div 12 \in Nat /\ months % 12 \in 0..11
  OBVIOUS
<1>2. Year = (70 + months \div 12) + 1900
  BY <1>1 DEF Year
<1>3. months % 12 \in {0, 1, 2, 3, 4, 5, 6, 7, 8, 9, 10, 11}
  BY <1>1
<1>4. Length = Days(70 + months \div 12 + 1900, months % 12)
  BY <1>1, <1>2 DEF Length, Days
<1>5. Length \in Nat
  BY <1>3 DEF Length
<1> QED BY <1>1, <1>2, <1>4, <1>5

-----------------------------------------------------------------------------
(* The invariant is kept.                                                  *)

\* The clock goes on by the length of the month.
LEMMA ClockNext == ClockInv /\ [Next]_vars => ClockInv'
<1> SUFFICES ASSUME ClockInv, [Next]_vars PROVE ClockInv'
  OBVIOUS
<1>1. CASE NextMonth
  <2> DEFINE y == 70 + months \div 12
             m == months % 12
  <2>1. months' = months + 1 /\ days' = days + Length /\ months \in Nat
    BY <1>1 DEF NextMonth, ClockInv
  <2>2. y \in Nat /\ m \in 0..11 /\ Length = Days(y + 1900, m) /\ days = Calendar(y, m, 0)
    BY <2>1, Month DEF ClockInv
  <2>3. CASE m \in 0..10
    <3>1. 70 + (months + 1) \div 12 = y /\ (months + 1) % 12 = m + 1
      BY <2>1, <2>3
    <3> HIDE DEF y, m
    <3>2. Calendar(y, m + 1, 0) = Calendar(y, m, 0) + Days(y + 1900, m)
      BY <2>2, <2>3, SameYear
    <3> QED BY <2>1, <2>2, <3>1, <3>2 DEF ClockInv
  <2>4. CASE m = 11
    <3>1. 70 + (months + 1) \div 12 = y + 1 /\ (months + 1) % 12 = 0
      BY <2>1, <2>4
    <3> HIDE DEF y, m
    <3>2. Calendar(y + 1, 0, 0) = Calendar(y, 11, 0) + Days(y + 1900, 11)
      BY <2>2, NextYear
    <3> QED BY <2>1, <2>2, <2>4, <3>1, <3>2 DEF ClockInv
  <2> QED BY <2>2, <2>3, <2>4
<1>2. CASE UNCHANGED <<months, days>>
  BY <1>2 DEF ClockInv
<1> QED BY <1>1, <1>2 DEF Next, SetFieldOfView, Elsewhere, Send, Hear, Done, vars

\* A stamp converts back to the day and the time of day it was made from.
LEMMA Stamped ==
  ASSUME ClockInv, NEW i \in Instants
  PROVE  convert_timestamp(Stamp(i)) =
           [seconds |-> (days + (Day(i) - 1)) * 86400
                          + i.hour * 3600 + i.minute * 60 + i.second,
            thousandths |-> i.millisecond]
<1>1. PICK y \in Nat, m \in 0..11 : y = 70 + months \div 12 /\ m = months % 12
  BY Month DEF ClockInv
<1>2. Year - 1900 = y /\ Length \in Nat /\ days = Calendar(y, m, 0) /\ (m + 1) - 1 = m
  BY <1>1, Month DEF ClockInv
<1>3. PICK d \in Int : d = Day(i)
  BY <1>2, ConversionsAssumption DEF Day, Instant
<1>4. PICK h \in Int, mi \in Int, s \in Int : h = i.hour /\ mi = i.minute /\ s = i.second
  BY ConversionsAssumption DEF Instant
<1>5. convert_timestamp(Stamp(i)) =
        [seconds |-> timegm([year |-> Year - 1900, mon |-> (m + 1) - 1, mday |-> d,
                             hour |-> h, min |-> mi, sec |-> s]),
         thousandths |-> i.millisecond]
  BY <1>1, <1>3, <1>4 DEF convert_timestamp, Stamp
<1>6. timegm([year |-> y, mon |-> m, mday |-> d, hour |-> h, min |-> mi, sec |-> s])
        = Calendar(y, m, d - 1) * 86400 + h * 3600 + mi * 60 + s
  <2> DEFINE tm == [year |-> y, mon |-> m, mday |-> d, hour |-> h, min |-> mi, sec |-> s]
  <2>1. tm \in [year : Nat, mon : 0..11, mday : Int, hour : Int, min : Int, sec : Int]
    OBVIOUS
  <2>2. /\ tm.year = y /\ tm.mon = m /\ tm.mday = d
        /\ tm.hour = h /\ tm.min = mi /\ tm.sec = s
    OBVIOUS
  <2> HIDE DEF tm
  <2>3. timegm(tm) = Calendar(y, m, d - 1) * 86400 + h * 3600 + mi * 60 + s
    BY <2>1, <2>2, TimegmCounts
  <2> QED BY <2>3 DEF tm
<1>7. Calendar(y, m, d - 1) = days + (Day(i) - 1)
  <2>1. Before[m + 1] \in Int
    <3>1. m \in {0, 1, 2, 3, 4, 5, 6, 7, 8, 9, 10, 11}
      OBVIOUS
    <3> QED BY <3>1 DEF Before
  <2>2. Calendar(y, m, d - 1) = Calendar(y, m, 0) + (d - 1)
    BY <2>1 DEF Calendar
  <2> QED BY <1>2, <1>3, <2>2
<1> QED BY <1>2, <1>4, <1>5, <1>6, <1>7

\* A message is stamped when it is sent.
LEMMA StampNext == ClockInv /\ StampInv /\ [Next]_vars => StampInv'
<1> SUFFICES ASSUME ClockInv, StampInv, [Next]_vars PROVE StampInv'
  OBVIOUS
<1>1. CASE UNCHANGED <<sent, at>>
  BY <1>1 DEF StampInv
<1>2. CASE Done
  BY <1>2 DEF Done, StampInv
<1>3. ASSUME NEW c \in Contents, NEW i \in Instants \cup {None}, Send(c, i) PROVE StampInv'
  <2> DEFINE m == IF c.kind = "ProcessorSettings" THEN With(c.fields, "fov", fov) ELSE c.fields
  <2>1. "time" \notin DOMAIN m
    BY ConversionsAssumption DEF With
  <2>2. CASE i = None
    BY <1>3, <2>1, <2>2 DEF Send, StampInv
  <2>3. CASE i # None
    <3> DEFINE day == days + (Day(i) - 1)
    <3>1. i \in Instants
      BY <2>3
    <3>2. /\ sent'.message = With(m, "time", Stamp(i)) /\ at' = [day |-> day, of |-> i]
      BY <1>3, <2>3 DEF Send
    <3>3. "time" \in DOMAIN sent'.message /\ sent'.message.time = Stamp(i)
      BY <3>2 DEF With
    <3>4. at' # None
      <4>1. days \in Int /\ Length \in Int
        <5>1. Length \in Nat /\ months \div 12 \in Nat /\ months % 12 \in 0..11
          BY Month DEF ClockInv
        <5>2. Before[(months % 12) + 1] \in Int
          <6>1. months % 12 \in {0, 1, 2, 3, 4, 5, 6, 7, 8, 9, 10, 11}
            BY <5>1
          <6> QED BY <6>1 DEF Before
        <5> QED BY <5>1, <5>2 DEF ClockInv, Calendar
      <4>2. day \in Int
        BY <3>1, <4>1, ConversionsAssumption DEF Day, Instant
      <4> HIDE DEF day
      <4> QED BY <3>1, <3>2, <4>2, ConversionsAssumption
    <3>5. at'.day = day /\ at'.of = i
      BY <3>2
    <3> HIDE DEF m
    <3> QED BY <3>1, <3>3, <3>4, <3>5, Stamped DEF StampInv
  <2> QED BY <2>2, <2>3
<1> QED BY <1>1, <1>2, <1>3 DEF Next, NextMonth, SetFieldOfView, Elsewhere, Hear, vars

\* The field of view is set, or sent, or somebody else's.
LEMMA FovNext == FovInv /\ [Next]_vars => FovInv'
<1> SUFFICES ASSUME FovInv, [Next]_vars PROVE FovInv'
  OBVIOUS
<1>1. CASE UNCHANGED <<fov, meant, sent>>
  BY <1>1 DEF FovInv
<1>2. ASSUME NEW v \in AppFov, SetFieldOfView(v) PROVE FovInv'
  <2>1. convert_fov_to_proto(v) = IF v \in DOMAIN FieldOfView THEN v ELSE "k90d500m"
    BY DEF convert_fov_to_proto, Switch, FieldOfView
  <2> QED BY <1>2, <2>1 DEF SetFieldOfView, FovInv
<1>3. CASE Elsewhere
  BY <1>3 DEF Elsewhere, FovInv
<1>4. CASE Done
  BY <1>4 DEF Done, FovInv
<1>5. ASSUME NEW c \in Contents, NEW i \in Instants \cup {None}, Send(c, i) PROVE FovInv'
  <2>1. UNCHANGED <<fov, meant>> /\ sent'.kind = c.kind
    BY <1>5 DEF Send
  <2>2. ASSUME c.kind = "ProcessorSettings"
        PROVE  "fov" \in DOMAIN sent'.message /\ sent'.message.fov = fov
    <3> DEFINE m == With(c.fields, "fov", fov)
    <3>1. "fov" \in DOMAIN m /\ m.fov = fov
      BY DEF With
    <3>2. sent'.message = IF i = None THEN m ELSE With(m, "time", Stamp(i))
      BY <1>5, <2>2 DEF Send
    <3> HIDE DEF m
    <3>3. "fov" \in DOMAIN With(m, "time", Stamp(i)) /\ With(m, "time", Stamp(i)).fov = fov
      BY <3>1 DEF With
    <3> QED BY <3>1, <3>2, <3>3
  <2> QED BY <2>1, <2>2 DEF FovInv
<1> QED BY <1>1, <1>2, <1>3, <1>4, <1>5 DEF Next, NextMonth, Hear, vars

\* What is handed to the application is the message under way.
LEMMA HeardNext == HeardInv /\ [Next]_vars => HeardInv'
<1> SUFFICES ASSUME HeardInv, [Next]_vars PROVE HeardInv'
  OBVIOUS
<1>1. CASE UNCHANGED <<sent, heard>>
  BY <1>1 DEF HeardInv
<1>2. CASE Hear
  BY <1>2 DEF Hear, HeardInv
<1>3. CASE Done
  BY <1>3 DEF Done, HeardInv
<1>4. ASSUME NEW c \in Contents, NEW i \in Instants \cup {None}, Send(c, i) PROVE HeardInv'
  <2>1. sent'.kind = c.kind /\ heard' = None
    BY <1>4 DEF Send
  <2> QED BY <2>1, ConversionsAssumption DEF HeardInv
<1> QED BY <1>1, <1>2, <1>3, <1>4 DEF Next, NextMonth, SetFieldOfView, Elsewhere, vars

-----------------------------------------------------------------------------

\* The invariant is inductive.
THEOREM ConversionsInvariance == Spec => []CInv
<1>1. Init => CInv
  <2> SUFFICES ASSUME Init PROVE CInv
    OBVIOUS
  <2>1. Calendar(70 + 0 \div 12, 0 % 12, 0) = 0
    BY DEF Calendar, Before, IsLeap
  <2>2. ClockInv
    BY <2>1 DEF Init, ClockInv
  <2>3. StampInv /\ HeardInv
    BY DEF Init, StampInv, HeardInv
  <2>4. FovInv
    BY DEF Init, FovInv
  <2> QED BY <2>2, <2>3, <2>4 DEF CInv
<1>2. CInv /\ [Next]_vars => CInv'
  BY ClockNext, StampNext, FovNext, HeardNext DEF CInv
<1> QED BY <1>1, <1>2, PTL DEF Spec

\* The timestamp that an application is handed counts the days of the months and the
\* time of day, in any year from 1970 on.
THEOREM TimestampsCount == Spec => []TimestampCounts
<1>1. CInv => TimestampCounts
  <2> SUFFICES ASSUME CInv, heard # None, sent.kind # "VesselInfo"
               PROVE  heard.time =
                        IF at = None THEN [seconds |-> 0, thousandths |-> 0]
                        ELSE [seconds |-> at.day * 86400 + at.of.hour * 3600
                                            + at.of.minute * 60 + at.of.second,
                              thousandths |-> at.of.millisecond]
    BY DEF TimestampCounts
  <2>1. sent # None /\ sent.kind \in Kinds /\ heard = Convert(sent.kind, sent.message)
    BY DEF CInv, HeardInv
  <2>2. heard.time = Time(sent.message)
    <3>1. CASE sent.kind = "RequestResult"
      BY <2>1, <3>1 DEF Convert, convert_result
    <3>2. CASE sent.kind = "HydrophoneData"
      BY <2>1, <3>2 DEF Convert, convert_hydrophone_data
    <3>3. CASE sent.kind = "TargetData"
      BY <2>1, <3>3 DEF Convert, convert_target_data
    <3>4. CASE sent.kind = "ProcessorSettings"
      BY <2>1, <3>4 DEF Convert, convert_processor_settings
    <3> QED BY <2>1, <3>1, <3>2, <3>3, <3>4 DEF Kinds
  <2> QED BY <2>1, <2>2 DEF Time, CInv, StampInv
<1> QED BY <1>1, ConversionsInvariance, PTL

-----------------------------------------------------------------------------
(* The tables: what the getter and the switch make of a field of a message. *)

\* A number is read as the name that is handed to the application.
Reads(m, f, enum, name, default) ==
  IF f \in DOMAIN m /\ m[f] \in Numbers(enum)
  THEN name \in DOMAIN enum /\ enum[name] = m[f]
  ELSE name = default

\* The number that a name stands for on the wire, and the name that is read for it.
LEMMA EnumNames ==
  ASSUME NEW m, NEW f \in DOMAIN Schema
  PROVE  /\ Carries(m, f) =>
              Enum(m, f) \in DOMAIN Schema[f] /\ Schema[f][Enum(m, f)] = m[f]
         /\ ~Carries(m, f) => Enum(m, f) = Default[f]
         /\ Carries(m, f) <=> f \in DOMAIN m /\ m[f] \in Numbers(Schema[f])
BY DEF Carries, Enum, Numbers

\* A table that is right row by row, in its default and for the value of the getter
\* reads every number right.
LEMMA TableRead ==
  ASSUME NEW m, NEW f \in DOMAIN Schema, NEW enum, NEW table, NEW default,
         table[Default[f]] = default,
         Numbers(enum) \subseteq Numbers(Schema[f]),
         \A name \in DOMAIN Schema[f] :
           IF Schema[f][name] \in Numbers(enum)
           THEN table[name] \in DOMAIN enum /\ enum[table[name]] = Schema[f][name]
           ELSE table[name] = default
  PROVE  Reads(m, f, enum, table[Enum(m, f)], default)
<1>1. CASE Carries(m, f)
  BY <1>1, EnumNames DEF Reads
<1>2. CASE ~Carries(m, f)
  BY <1>2, EnumNames DEF Reads
<1> QED BY <1>1, <1>2

\* The field of view.
LEMMA FovRead ==
  ASSUME NEW m
  PROVE  Reads(m, "fov", FieldOfView, convert_fov(Enum(m, "fov")), "k90d500m")
<1> DEFINE table == [name \in DOMAIN Schema["fov"] |-> convert_fov(name)]
<1>1. "fov" \in DOMAIN Schema /\ Default["fov"] \in DOMAIN Schema["fov"]
  BY DEF Schema, Default
<1>2. table[Default["fov"]] = "k90d500m"
  BY DEF Schema, Default, convert_fov, Switch
<1>3. Numbers(FieldOfView) \subseteq Numbers(Schema["fov"])
  BY DEF Schema, FieldOfView, Numbers
<1>4. \A name \in DOMAIN Schema["fov"] :
        IF Schema["fov"][name] \in Numbers(FieldOfView)
        THEN table[name] \in DOMAIN FieldOfView /\ FieldOfView[table[name]] = Schema["fov"][name]
        ELSE table[name] = "k90d500m"
  BY DEF Schema, FieldOfView, Numbers, convert_fov, Switch
<1>5. Enum(m, "fov") \in DOMAIN Schema["fov"]
  BY <1>1, EnumNames DEF Enum, Carries
<1>6. table[Enum(m, "fov")] = convert_fov(Enum(m, "fov"))
  BY <1>5
<1> HIDE DEF table
<1>7. Reads(m, "fov", FieldOfView, table[Enum(m, "fov")], "k90d500m")
  BY <1>1, <1>2, <1>3, <1>4, TableRead
<1> QED BY <1>6, <1>7

\* The type of the sonar.
LEMMA SystemTypeRead ==
  ASSUME NEW m
  PROVE  Reads(m, "system_type", SystemType, convert_system_type(Enum(m, "system_type")), "kFS500")
<1> DEFINE table == [name \in DOMAIN Schema["system_type"] |-> convert_system_type(name)]
<1>1. "system_type" \in DOMAIN Schema /\ Default["system_type"] \in DOMAIN Schema["system_type"]
  BY DEF Schema, Default
<1>2. table[Default["system_type"]] = "kFS500"
  BY DEF Schema, Default, convert_system_type, Switch
<1>3. Numbers(SystemType) \subseteq Numbers(Schema["system_type"])
  BY DEF Schema, SystemType, Numbers
<1>4. \A name \in DOMAIN Schema["system_type"] :
        IF Schema["system_type"][name] \in Numbers(SystemType)
        THEN table[name] \in DOMAIN SystemType /\ SystemType[table[name]] = Schema["system_type"][name]
        ELSE table[name] = "kFS500"
  BY DEF Schema, SystemType, Numbers, convert_system_type, Switch
<1>5. Enum(m, "system_type") \in DOMAIN Schema["system_type"]
  BY <1>1, EnumNames DEF Enum, Carries
<1>6. table[Enum(m, "system_type")] = convert_system_type(Enum(m, "system_type"))
  BY <1>5
<1> HIDE DEF table
<1>7. Reads(m, "system_type", SystemType, table[Enum(m, "system_type")], "kFS500")
  BY <1>1, <1>2, <1>3, <1>4, TableRead
<1> QED BY <1>6, <1>7

\* The type of the elements of an array.
LEMMA ArrayTypeRead ==
  ASSUME NEW m
  PROVE  Reads(m, "type", ArrayDataType, convert_array_type(Enum(m, "type")), "kByte")
<1> DEFINE table == [name \in DOMAIN Schema["type"] |-> convert_array_type(name)]
<1>1. "type" \in DOMAIN Schema /\ Default["type"] \in DOMAIN Schema["type"]
  BY DEF Schema, Default
<1>2. table[Default["type"]] = "kByte"
  BY DEF Schema, Default, convert_array_type, Switch
<1>3. Numbers(ArrayDataType) \subseteq Numbers(Schema["type"])
  BY DEF Schema, ArrayDataType, Numbers
<1>4. \A name \in DOMAIN Schema["type"] :
        IF Schema["type"][name] \in Numbers(ArrayDataType)
        THEN table[name] \in DOMAIN ArrayDataType /\ ArrayDataType[table[name]] = Schema["type"][name]
        ELSE table[name] = "kByte"
  BY DEF Schema, ArrayDataType, Numbers, convert_array_type, Switch
<1>5. Enum(m, "type") \in DOMAIN Schema["type"]
  BY <1>1, EnumNames DEF Enum, Carries
<1>6. table[Enum(m, "type")] = convert_array_type(Enum(m, "type"))
  BY <1>5
<1> HIDE DEF table
<1>7. Reads(m, "type", ArrayDataType, table[Enum(m, "type")], "kByte")
  BY <1>1, <1>2, <1>3, <1>4, TableRead
<1> QED BY <1>6, <1>7

\* The order of an array.
LEMMA ArrayOrderRead ==
  ASSUME NEW m
  PROVE  Reads(m, "order", ArrayDataOrder, convert_array_order(Enum(m, "order")), "kRowMajor")
<1> DEFINE table == [name \in DOMAIN Schema["order"] |-> convert_array_order(name)]
<1>1. "order" \in DOMAIN Schema /\ Default["order"] \in DOMAIN Schema["order"]
  BY DEF Schema, Default
<1>2. table[Default["order"]] = "kRowMajor"
  BY DEF Schema, Default, convert_array_order, Switch
<1>3. Numbers(ArrayDataOrder) \subseteq Numbers(Schema["order"])
  BY DEF Schema, ArrayDataOrder, Numbers
<1>4. \A name \in DOMAIN Schema["order"] :
        IF Schema["order"][name] \in Numbers(ArrayDataOrder)
        THEN table[name] \in DOMAIN ArrayDataOrder /\ ArrayDataOrder[table[name]] = Schema["order"][name]
        ELSE table[name] = "kRowMajor"
  BY DEF Schema, ArrayDataOrder, Numbers, convert_array_order, Switch
<1>5. Enum(m, "order") \in DOMAIN Schema["order"]
  BY <1>1, EnumNames DEF Enum, Carries
<1>6. table[Enum(m, "order")] = convert_array_order(Enum(m, "order"))
  BY <1>5
<1> HIDE DEF table
<1>7. Reads(m, "order", ArrayDataOrder, table[Enum(m, "order")], "kRowMajor")
  BY <1>1, <1>2, <1>3, <1>4, TableRead
<1> QED BY <1>6, <1>7

\* The result code.
LEMMA ResultCodeRead ==
  ASSUME NEW m
  PROVE  Reads(m, "code", ResultCode, convert_result_code(Enum(m, "code")), "Success")
<1> DEFINE table == [name \in DOMAIN Schema["code"] |-> convert_result_code(name)]
<1>1. "code" \in DOMAIN Schema /\ Default["code"] \in DOMAIN Schema["code"]
  BY DEF Schema, Default
<1>2. table[Default["code"]] = "Success"
  BY DEF Schema, Default, convert_result_code, Switch
<1>3. Numbers(ResultCode) \subseteq Numbers(Schema["code"])
  BY DEF Schema, ResultCode, Numbers
<1>4. \A name \in DOMAIN Schema["code"] :
        IF Schema["code"][name] \in Numbers(ResultCode)
        THEN table[name] \in DOMAIN ResultCode /\ ResultCode[table[name]] = Schema["code"][name]
        ELSE table[name] = "Success"
  BY DEF Schema, ResultCode, Numbers, convert_result_code, Switch
<1>5. Enum(m, "code") \in DOMAIN Schema["code"]
  BY <1>1, EnumNames DEF Enum, Carries
<1>6. table[Enum(m, "code")] = convert_result_code(Enum(m, "code"))
  BY <1>5
<1> HIDE DEF table
<1>7. Reads(m, "code", ResultCode, table[Enum(m, "code")], "Success")
  BY <1>1, <1>2, <1>3, <1>4, TableRead
<1> QED BY <1>6, <1>7

\* Every enumeration that an application is handed is the enumerator that has the number
\* that was sent, or the default for a number that has none; the field of view comes
\* back as the application set it.
THEOREM ModesArrive == Spec => []ModesAsMeant
<1>1. CInv => ModesAsMeant
  <2> SUFFICES ASSUME CInv, heard # None
               PROVE  /\ sent.kind = "ProcessorSettings" =>
                           /\ Reads(sent.message, "fov", FieldOfView, heard.fov, "k90d500m")
                           /\ Reads(sent.message, "system_type", SystemType,
                                    heard.system_type, "kFS500")
                           /\ meant # None =>
                                heard.fov = IF meant \in DOMAIN FieldOfView THEN meant
                                            ELSE "k90d500m"
                      /\ sent.kind = "HydrophoneData" =>
                           /\ Reads(Timeseries(sent.message), "type", ArrayDataType,
                                    heard.type, "kByte")
                           /\ Reads(Timeseries(sent.message), "order", ArrayDataOrder,
                                    heard.order, "kRowMajor")
                      /\ sent.kind = "RequestResult" =>
                           Reads(sent.message, "code", ResultCode, heard.code, "Success")
    BY DEF ModesAsMeant, Reads
  <2>1. sent # None /\ sent.kind \in Kinds /\ heard = Convert(sent.kind, sent.message)
    BY DEF CInv, HeardInv
  <2>2. ASSUME sent.kind = "ProcessorSettings"
        PROVE  /\ Reads(sent.message, "fov", FieldOfView, heard.fov, "k90d500m")
               /\ Reads(sent.message, "system_type", SystemType, heard.system_type, "kFS500")
               /\ meant # None =>
                    heard.fov = IF meant \in DOMAIN FieldOfView THEN meant ELSE "k90d500m"
    <3>1. /\ heard.fov = convert_fov(Enum(sent.message, "fov"))
          /\ heard.system_type = convert_system_type(Enum(sent.message, "system_type"))
      BY <2>1, <2>2 DEF Convert, convert_processor_settings
    <3>2. /\ Reads(sent.message, "fov", FieldOfView, heard.fov, "k90d500m")
          /\ Reads(sent.message, "system_type", SystemType, heard.system_type, "kFS500")
      BY <3>1, FovRead, SystemTypeRead
    <3>3. ASSUME meant # None
          PROVE  heard.fov = IF meant \in DOMAIN FieldOfView THEN meant ELSE "k90d500m"
      <4> DEFINE was == IF meant \in DOMAIN FieldOfView THEN meant ELSE "k90d500m"
      <4>1. "fov" \in DOMAIN sent.message /\ sent.message["fov"] = Schema.fov[was]
        BY <2>1, <2>2, <3>3 DEF CInv, FovInv
      <4>2. was \in DOMAIN FieldOfView
        BY DEF FieldOfView
      <4> HIDE DEF was
      <4>3. Schema.fov[was] = FieldOfView[was] /\ FieldOfView[was] \in Numbers(FieldOfView)
        BY <4>2 DEF Schema, FieldOfView, Numbers
      <4>4. heard.fov \in DOMAIN FieldOfView /\ FieldOfView[heard.fov] = FieldOfView[was]
        BY <3>2, <4>1, <4>3 DEF Reads
      <4>5. heard.fov = was
        BY <4>2, <4>4 DEF FieldOfView
      <4> QED BY <4>5 DEF was
    <3> QED BY <3>2, <3>3
  <2>3. ASSUME sent.kind = "HydrophoneData"
        PROVE  /\ Reads(Timeseries(sent.message), "type", ArrayDataType, heard.type, "kByte")
               /\ Reads(Timeseries(sent.message), "order", ArrayDataOrder,
                        heard.order, "kRowMajor")
    <3> DEFINE ts == Timeseries(sent.message)
    <3>1. /\ heard.type = IF Carries(ts, "type") THEN convert_array_type(Enum(ts, "type"))
                          ELSE "kByte"
          /\ heard.order = IF Carries(ts, "order") THEN convert_array_order(Enum(ts, "order"))
                           ELSE "kRowMajor"
      BY <2>1, <2>3 DEF Convert, convert_hydrophone_data
    <3> HIDE DEF ts
    <3>2. convert_array_type(Default["type"]) = "kByte"
      BY DEF Default, convert_array_type, Switch
    <3>3. convert_array_order(Default["order"]) = "kRowMajor"
      BY DEF Default, convert_array_order, Switch
    <3>4. heard.type = convert_array_type(Enum(ts, "type"))
      BY <3>1, <3>2 DEF Enum
    <3>5. heard.order = convert_array_order(Enum(ts, "order"))
      BY <3>1, <3>3 DEF Enum
    <3> QED BY <3>4, <3>5, ArrayTypeRead, ArrayOrderRead DEF ts
  <2>4. ASSUME sent.kind = "RequestResult"
        PROVE  Reads(sent.message, "code", ResultCode, heard.code, "Success")
    <3>1. heard.code = convert_result_code(Enum(sent.message, "code"))
      BY <2>1, <2>4 DEF Convert, convert_result
    <3> QED BY <3>1, ResultCodeRead
  <2> QED BY <2>2, <2>3, <2>4
<1> QED BY <1>1, ConversionsInvariance, PTL
=============================================================================
