----------------------------- MODULE MCHistory -----------------------------
EXTENDS History, TLC

Number(tenths) == [kind |-> "number", is |-> tenths]
Flag(b) == [kind |-> "bool", is |-> b]
Null == [kind |-> "null", is |-> 0]

\* An item with all members, of which no two have the same value.
Full ==
  [timestamp_utc |-> Number(17), latitude_degrees |-> Number(-20),
   longitude_degrees |-> Number(30), grid_interval_meters |-> Number(40),
   target_strength_db |-> Number(-53), is_tide_corrected |-> Flag(1),
   uploaded_to_cloud |-> Flag(0), number_of_points |-> Number(67),
   depth_meters |-> Number(70), deepest_depth_meters |-> Number(80),
   shallowest_depth_meters |-> Number(90)]

\* One with another value of each.
Other ==
  [name \in DOMAIN Full |-> IF Full[name].kind = "bool" THEN Flag(1 - Full[name].is)
                            ELSE Number(Full[name].is + 100)]
Without(names) == [n \in DOMAIN Full \ names |-> Full[n]]

\* Items that are good for both lists, for one of them, with one depth or none, and
\* the ways in which one can be wrong.
MCItems ==
  {Full, Other, Without({"depth_meters"} \cup Depths), <<>>, Without({"deepest_depth_meters"}),
   Without({"uploaded_to_cloud"}), [Full EXCEPT !.shallowest_depth_meters = Null],
   [Full EXCEPT !.depth_meters = Null], [Full EXCEPT !.number_of_points = Flag(1)],
   [Full EXCEPT !.is_tide_corrected = Number(10)],
   [Full EXCEPT !.latitude_degrees = [kind |-> "text", is |-> 0]]}
=============================================================================
