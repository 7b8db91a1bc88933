------------------------------ MODULE History ------------------------------
(***************************************************************************)
(* A call of get_history_data (src/requests.cpp): the answer to its GET, or *)
(* none, and the two loops that read the detections, one item at a time.    *)
(* The port and the timeout of the call are in ClientConfig.                *)
(*                                                                         *)
(* A JSON value is its kind, "number", "bool", "null" or "text", and what it *)
(* is: of a number its tenths, of a bool 0 or 1.  An item is the function    *)
(* from its members to their values.  An item that is no object has no       *)
(* members: at() throws for it as for a member that is missing.              *)
(***************************************************************************)
EXTENDS Integers, Sequences

CONSTANTS
  Items,     \* the items that lists have
  MaxItems,  \* the length of a list
  Absent     \* no list: contains() is false of the payload; no depth: std::nullopt

ASSUME HistoryAssumption ==
  /\ MaxItems \in Nat /\ Absent \notin Int
  /\ \A item \in Items : \A name \in DOMAIN item :
       item[name] \in [kind : {"number", "bool", "null", "text"}, is : Int]

Lists == {Absent} \cup UNION {[1..n -> Items] : n \in 0..MaxItems}
Payloads == [gridded_bottom_detections : Lists, gridded_inwater_detections : Lists]

VARIABLES
  response,  \* the payload, without lists if there is none
  got,       \* what the GET gave: "nothing" yet, an "error", a "status" other than
             \* 200, "text" that is not JSON, or a "payload"
  at,        \* "get", "bottom", "inwater", "returned" or "thrown"
  bottom,    \* data.gridded_bottom_detections
  inwater    \* data.gridded_inwater_detections

vars == <<response, got, at, bottom, inwater>>

Init ==
  /\ response = [gridded_bottom_detections |-> Absent, gridded_inwater_detections |-> Absent]
  /\ got = "nothing" /\ at = "get"
  /\ bottom = <<>> /\ inwater = <<>>

-----------------------------------------------------------------------------
(* One item.                                                               *)

Detection ==
  [timestamp_utc |-> "double", latitude_degrees |-> "double", longitude_degrees |-> "double",
   grid_interval_meters |-> "double", target_strength_db |-> "double",
   is_tide_corrected |-> "bool", uploaded_to_cloud |-> "bool", number_of_points |-> "int"]

Depths == {"deepest_depth_meters", "shallowest_depth_meters"}

\* The kinds that nlohmann::json converts with get<type>().
Gets(type) ==
  CASE type = "double" -> {"number"}
    [] type = "bool"   -> {"bool"}
    [] type = "int"    -> {"number", "bool"}

\* at(name).get<type>() returns, and what.  The type int drops the fraction.
Has(item, name, type) == name \in DOMAIN item /\ item[name].kind \in Gets(type)
Whole(tenths) == IF tenths >= 0 THEN tenths \div 10 ELSE -((-tenths) \div 10)
Double(value) == value.is
Bool(value) == value.is
Int32(value) == IF value.kind = "bool" THEN value.is ELSE Whole(value.is)

Common(item) == \A name \in DOMAIN Detection : Has(item, name, Detection[name])

\* Each of the two is parsed, or throws, and its result.
BottomParses(item) == Common(item) /\ Has(item, "depth_meters", "double")
parse_gridded_bottom_detection(item) ==
  [timestamp_utc        |-> Double(item.timestamp_utc),
   latitude_degrees     |-> Double(item.latitude_degrees),
   longitude_degrees    |-> Double(item.longitude_degrees),
   grid_interval_meters |-> Double(item.grid_interval_meters),
   target_strength_db   |-> Double(item.target_strength_db),
   is_tide_corrected    |-> Bool(item.is_tide_corrected),
   uploaded_to_cloud    |-> Bool(item.uploaded_to_cloud),
   number_of_points     |-> Int32(item.number_of_points),
   depth_meters         |-> Double(item.depth_meters)]

\* contains() is true of a depth that is null, and get<double>() throws for it.
InwaterParses(item) ==
  Common(item) /\ \A name \in Depths : name \in DOMAIN item => Has(item, name, "double")

\* A faulty variant: both depths are read from the member of the first.
DepthCopied(item, name) ==
  IF "deepest_depth_meters" \in DOMAIN item THEN Double(item.deepest_depth_meters) ELSE Absent
Depth(item, name) == IF name \in DOMAIN item THEN Double(item[name]) ELSE Absent

parse_gridded_inwater_detection(item) ==
  [timestamp_utc        |-> Double(item.timestamp_utc),
   latitude_degrees     |-> Double(item.latitude_degrees),
   longitude_degrees    |-> Double(item.longitude_degrees),
   grid_interval_meters |-> Double(item.grid_interval_meters),
   target_strength_db   |-> Double(item.target_strength_db),
   is_tide_corrected    |-> Bool(item.is_tide_corrected),
   uploaded_to_cloud    |-> Bool(item.uploaded_to_cloud),
   number_of_points     |-> Int32(item.number_of_points),
   deepest_depth_meters    |-> Depth(item, "deepest_depth_meters"),
   shallowest_depth_meters |-> Depth(item, "shallowest_depth_meters")]

-----------------------------------------------------------------------------
(* The call.                                                               *)

\* cpr::Get, its error and its status, and json::parse.
Get ==
  /\ at = "get"
  /\ \/ /\ got' \in {"error", "status", "text"}
        /\ at' = "thrown" /\ UNCHANGED response
     \/ /\ got' = "payload" /\ response' \in Payloads
        /\ at' = "bottom"
  /\ UNCHANGED <<bottom, inwater>>

Listed(name) == IF response[name] = Absent THEN <<>> ELSE response[name]
Bottom == Listed("gridded_bottom_detections")
Inwater == Listed("gridded_inwater_detections")

ParseBottom ==
  /\ at = "bottom" /\ Len(bottom) < Len(Bottom)
  /\ LET item == Bottom[Len(bottom) + 1] IN
       \/ /\ BottomParses(item)
          /\ bottom' = Append(bottom, parse_gridded_bottom_detection(item))
          /\ UNCHANGED at
       \/ ~BottomParses(item) /\ at' = "thrown" /\ UNCHANGED bottom
  /\ UNCHANGED <<response, got, inwater>>

BottomParsed ==
  /\ at = "bottom" /\ Len(bottom) = Len(Bottom)
  /\ at' = "inwater"
  /\ UNCHANGED <<response, got, bottom, inwater>>

ParseInwater ==
  /\ at = "inwater" /\ Len(inwater) < Len(Inwater)
  /\ LET item == Inwater[Len(inwater) + 1] IN
       \/ /\ InwaterParses(item)
          /\ inwater' = Append(inwater, parse_gridded_inwater_detection(item))
          /\ UNCHANGED at
       \/ ~InwaterParses(item) /\ at' = "thrown" /\ UNCHANGED inwater
  /\ UNCHANGED <<response, got, bottom>>

Return ==
  /\ at = "inwater" /\ Len(inwater) = Len(Inwater)
  /\ at' = "returned"
  /\ UNCHANGED <<response, got, bottom, inwater>>

Next == Get \/ ParseBottom \/ BottomParsed \/ ParseInwater \/ Return

Spec == Init /\ [][Next]_vars

-----------------------------------------------------------------------------
Bools == {"is_tide_corrected", "uploaded_to_cloud"}

\* What is wrong with an item: a member is missing or of another kind.
Wrong(item, required, optional) ==
  \/ \E name \in required : name \notin DOMAIN item
  \/ \E name \in (required \cup optional) \cap DOMAIN item :
       \/ item[name].kind \in {"null", "text"}
       \/ item[name].kind = "bool" /\ name \notin Bools \cup {"number_of_points"}
       \/ item[name].kind = "number" /\ name \in Bools

WrongBottom(item) == Wrong(item, DOMAIN Detection \cup {"depth_meters"}, {})
WrongInwater(item) == Wrong(item, DOMAIN Detection, Depths)

\* A detection says what the item says, member by member; a count is whole.
Says(detection, item, names) ==
  \A name \in names :
    detection[name] = IF name = "number_of_points" /\ item[name].kind = "number"
                      THEN Whole(item[name].is) ELSE item[name].is

\* All or nothing: a call that returns gives the detections of the answer and no
\* others, each in its place and with the values of its item, a depth exactly where
\* one was sent; a call throws only if there is no payload or something is wrong with
\* an item of it, and returns only if nothing is, the last item included.
AllOrNothing ==
  /\ at = "returned" =>
       /\ Len(bottom) = Len(Bottom) /\ Len(inwater) = Len(Inwater)
       /\ \A i \in DOMAIN bottom :
            /\ ~WrongBottom(Bottom[i])
            /\ Says(bottom[i], Bottom[i], DOMAIN Detection \cup {"depth_meters"})
       /\ \A i \in DOMAIN inwater :
            /\ ~WrongInwater(Inwater[i])
            /\ Says(inwater[i], Inwater[i], DOMAIN Detection \cup (Depths \cap DOMAIN Inwater[i]))
            /\ \A name \in Depths \ DOMAIN Inwater[i] : inwater[i][name] = Absent
  /\ at = "thrown" =>
       \/ got \in {"error", "status", "text"}
       \/ \E i \in DOMAIN Bottom : WrongBottom(Bottom[i])
       \/ \E i \in DOMAIN Inwater : WrongInwater(Inwater[i])

=============================================================================
