---------------------------- MODULE HistoryProofs ----------------------------
(***************************************************************************)
(* A theorem about History, for lists of any items and of any length.       *)
(***************************************************************************)
EXTENDS History, SequenceTheorems, TLAPS

(***************************************************************************)
(* The inductive invariant: what has been read of each list so far, which   *)
(* list is being read, and why a call has thrown.                           *)
(***************************************************************************)

BottomDetections ==
  {parse_gridded_bottom_detection(item) : item \in {i \in Items : BottomParses(i)}}
InwaterDetections ==
  {parse_gridded_inwater_detection(item) : item \in {i \in Items : InwaterParses(i)}}

TypeInv ==
  /\ response \in Payloads
  /\ at \in {"get", "bottom", "inwater", "returned", "thrown"}
  /\ bottom \in Seq(BottomDetections) /\ inwater \in Seq(InwaterDetections)

\* The detections so far are the first items of the lists, none of them wrong.
ReadInv ==
  /\ Len(bottom) <= Len(Bottom) /\ Len(inwater) <= Len(Inwater)
  /\ \A i \in 1..Len(bottom) :
       /\ BottomParses(Bottom[i])
       /\ bottom[i] = parse_gridded_bottom_detection(Bottom[i])
  /\ \A i \in 1..Len(inwater) :
       /\ InwaterParses(Inwater[i])
       /\ inwater[i] = parse_gridded_inwater_detection(Inwater[i])

\* No list is read before there is an answer, and each is read to its end.
StageInv ==
  /\ at = "get" => bottom = <<>> /\ inwater = <<>>
  /\ at \in {"inwater", "returned"} => Len(bottom) = Len(Bottom)
  /\ at = "returned" => Len(inwater) = Len(Inwater)

\* A call throws for a reason.
ThrownInv ==
  at = "thrown" =>
    \/ got \in {"error", "status", "text"}
    \/ \E i \in DOMAIN Bottom : ~BottomParses(Bottom[i])
    \/ \E i \in DOMAIN Inwater : ~InwaterParses(Inwater[i])

HInv == TypeInv /\ ReadInv /\ StageInv /\ ThrownInv

-----------------------------------------------------------------------------
(* The items.                                                              *)

Kinds == {"number", "bool", "null", "text"}

\* at(name).get<type>() returns for a member of a kind that the type is made of.
LEMMA HasDouble ==
  ASSUME NEW item, NEW name PROVE Has(item, name, "double") <=>
                                    name \in DOMAIN item /\ item[name].kind = "number"
BY DEF Has, Gets

\* The members that every detection has are all there and of the right kinds, or
\* the item is wrong.
LEMMA CommonRight ==
  ASSUME NEW item \in Items
  PROVE  Common(item) <=>
           \A name \in DOMAIN Detection :
             /\ name \in DOMAIN item
             /\ item[name].kind \notin {"null", "text"}
             /\ item[name].kind = "bool"
                  => name \in {"is_tide_corrected", "uploaded_to_cloud", "number_of_points"}
             /\ item[name].kind = "number" => name \notin {"is_tide_corrected", "uploaded_to_cloud"}
<1>1. ASSUME NEW name \in DOMAIN Detection
      PROVE  Has(item, name, Detection[name]) <=>
               /\ name \in DOMAIN item
               /\ item[name].kind \notin {"null", "text"}
               /\ item[name].kind = "bool"
                    => name \in {"is_tide_corrected", "uploaded_to_cloud", "number_of_points"}
               /\ item[name].kind = "number" => name \notin {"is_tide_corrected", "uploaded_to_cloud"}
  <2>1. CASE name \notin DOMAIN item
    BY <2>1 DEF Has
  <2>2. CASE name \in DOMAIN item
    <3>1. item[name].kind \in Kinds
      BY <2>2, HistoryAssumption DEF Kinds
    <3>2. CASE name \in {"is_tide_corrected", "uploaded_to_cloud"}
      <4>1. Detection[name] = "bool"
        BY <3>2 DEF Detection
      <4> QED BY <2>2, <3>1, <3>2, <4>1 DEF Has, Gets, Kinds
    <3>3. CASE name = "number_of_points"
      <4>1. Detection[name] = "int"
        BY <3>3 DEF Detection
      <4> QED BY <2>2, <3>1, <3>3, <4>1 DEF Has, Gets, Kinds
    <3>4. CASE name \notin {"is_tide_corrected", "uploaded_to_cloud", "number_of_points"}
      <4>1. Detection[name] = "double"
        BY <3>4 DEF Detection
      <4> QED BY <2>2, <3>1, <3>4, <4>1 DEF Has, Gets, Kinds
    <3> QED BY <3>2, <3>3, <3>4
  <2> QED BY <2>1, <2>2
<1> QED BY <1>1 DEF Common

\* The depths are no members that every detection has.
LEMMA DepthNames ==
  \A name \in DOMAIN Detection : name # "depth_meters" /\ name \notin Depths
BY DEF Detection, Depths

\* A bottom detection is parsed if nothing is wrong with it.
LEMMA BottomRight == \A item \in Items : BottomParses(item) <=> ~WrongBottom(item)
<1> SUFFICES ASSUME NEW item \in Items PROVE BottomParses(item) <=> ~WrongBottom(item)
  OBVIOUS
<1>1. Has(item, "depth_meters", "double") <=>
        "depth_meters" \in DOMAIN item /\ item["depth_meters"].kind = "number"
  BY HasDouble
<1>2. "depth_meters" \in DOMAIN item => item["depth_meters"].kind \in Kinds
  BY HistoryAssumption DEF Kinds
<1>3. ~WrongBottom(item) <=>
        \A name \in DOMAIN Detection \cup {"depth_meters"} :
          /\ name \in DOMAIN item
          /\ item[name].kind \notin {"null", "text"}
          /\ item[name].kind = "bool"
               => name \in {"is_tide_corrected", "uploaded_to_cloud", "number_of_points"}
          /\ item[name].kind = "number" => name \notin {"is_tide_corrected", "uploaded_to_cloud"}
  BY DEF WrongBottom, Wrong, Bools
<1> QED BY <1>1, <1>2, <1>3, CommonRight DEF BottomParses, Kinds

\* So is an in-water detection, whose depths may be missing.
LEMMA InwaterRight == \A item \in Items : InwaterParses(item) <=> ~WrongInwater(item)
<1> SUFFICES ASSUME NEW item \in Items PROVE InwaterParses(item) <=> ~WrongInwater(item)
  OBVIOUS
<1> DEFINE Right(name) ==
      /\ item[name].kind \notin {"null", "text"}
      /\ item[name].kind = "bool"
           => name \in {"is_tide_corrected", "uploaded_to_cloud", "number_of_points"}
      /\ item[name].kind = "number" => name \notin {"is_tide_corrected", "uploaded_to_cloud"}
<1>1. ASSUME NEW name \in Depths, name \in DOMAIN item
      PROVE  Has(item, name, "double") <=> Right(name)
  <2>1. Has(item, name, "double") <=> item[name].kind = "number"
    BY <1>1, HasDouble
  <2>2. item[name].kind \in Kinds
    BY <1>1, HistoryAssumption DEF Kinds
  <2>3. name \notin {"is_tide_corrected", "uploaded_to_cloud", "number_of_points"}
    BY DEF Depths
  <2> QED BY <2>1, <2>2, <2>3 DEF Kinds
<1>2. ~WrongInwater(item) <=>
        /\ \A name \in DOMAIN Detection : name \in DOMAIN item /\ Right(name)
        /\ \A name \in Depths : name \in DOMAIN item => Right(name)
  BY DEF WrongInwater, Wrong, Bools
<1>3. Common(item) <=> \A name \in DOMAIN Detection : name \in DOMAIN item /\ Right(name)
  BY CommonRight
<1> HIDE DEF Right
<1> QED BY <1>1, <1>2, <1>3 DEF InwaterParses

\* What the parsers read is what the item says.
LEMMA BottomSays ==
  \A item \in Items : BottomParses(item) =>
    Says(parse_gridded_bottom_detection(item), item, DOMAIN Detection \cup {"depth_meters"})
<1> SUFFICES ASSUME NEW item \in Items, BottomParses(item),
                    NEW name \in DOMAIN Detection \cup {"depth_meters"}
             PROVE  parse_gridded_bottom_detection(item)[name] =
                      IF name = "number_of_points" /\ item[name].kind = "number"
                      THEN Whole(item[name].is) ELSE item[name].is
  BY DEF Says
<1>1. CASE name = "number_of_points"
  <2>1. Has(item, name, "int")
    BY <1>1 DEF BottomParses, Common, Detection
  <2>2. item[name].kind \in {"number", "bool"}
    BY <2>1 DEF Has, Gets
  <2>3. parse_gridded_bottom_detection(item)[name] = Int32(item[name])
    BY <1>1 DEF parse_gridded_bottom_detection
  <2> QED BY <1>1, <2>2, <2>3 DEF Int32
<1>2. CASE name # "number_of_points"
  BY <1>2 DEF Detection, parse_gridded_bottom_detection, Double, Bool
<1> QED BY <1>1, <1>2

LEMMA InwaterSays ==
  \A item \in Items : InwaterParses(item) =>
    /\ Says(parse_gridded_inwater_detection(item), item,
            DOMAIN Detection \cup (Depths \cap DOMAIN item))
    /\ \A name \in Depths \ DOMAIN item : parse_gridded_inwater_detection(item)[name] = Absent
<1> SUFFICES ASSUME NEW item \in Items, InwaterParses(item)
             PROVE  /\ Says(parse_gridded_inwater_detection(item), item,
                            DOMAIN Detection \cup (Depths \cap DOMAIN item))
                    /\ \A name \in Depths \ DOMAIN item :
                         parse_gridded_inwater_detection(item)[name] = Absent
  OBVIOUS
<1>1. ASSUME NEW name \in DOMAIN Detection \cup (Depths \cap DOMAIN item)
      PROVE  parse_gridded_inwater_detection(item)[name] =
               IF name = "number_of_points" /\ item[name].kind = "number"
               THEN Whole(item[name].is) ELSE item[name].is
  <2>1. CASE name = "number_of_points"
    <3>1. Has(item, name, "int")
      BY <2>1 DEF InwaterParses, Common, Detection
    <3>2. item[name].kind \in {"number", "bool"}
      BY <3>1 DEF Has, Gets
    <3>3. parse_gridded_inwater_detection(item)[name] = Int32(item[name])
      BY <2>1 DEF parse_gridded_inwater_detection
    <3> QED BY <2>1, <3>2, <3>3 DEF Int32
  <2>2. CASE name # "number_of_points"
    BY <1>1, <2>2 DEF Detection, Depths, Depth, parse_gridded_inwater_detection, Double, Bool
  <2> QED BY <2>1, <2>2
<1>2. ASSUME NEW name \in Depths \ DOMAIN item
      PROVE  parse_gridded_inwater_detection(item)[name] = Absent
  BY <1>2 DEF Depths, Depth, parse_gridded_inwater_detection
<1> QED BY <1>1, <1>2 DEF Says

-----------------------------------------------------------------------------
(* The invariant is kept.                                                  *)

\* What a payload lists.
LEMMA Listing ==
  ASSUME response \in Payloads
  PROVE  /\ Bottom \in Seq(Items) /\ Len(Bottom) \in Nat /\ DOMAIN Bottom = 1..Len(Bottom)
         /\ Inwater \in Seq(Items) /\ Len(Inwater) \in Nat /\ DOMAIN Inwater = 1..Len(Inwater)
<1>1. \A list \in Lists : list # Absent => list \in Seq(Items)
  BY HistoryAssumption DEF Lists
<1>2. /\ response["gridded_bottom_detections"] \in Lists
      /\ response["gridded_inwater_detections"] \in Lists
  BY DEF Payloads
<1>3. Bottom \in Seq(Items) /\ Inwater \in Seq(Items)
  BY <1>1, <1>2, EmptySeq DEF Bottom, Inwater, Listed
<1> QED BY <1>3, LenProperties

\* Every step keeps the invariant.
LEMMA HInvNext == HInv /\ [Next]_vars => HInv'
<1> SUFFICES ASSUME HInv, [Next]_vars PROVE HInv'
  OBVIOUS
<1>0. /\ response \in Payloads
      /\ bottom \in Seq(BottomDetections) /\ Len(bottom) \in Nat
      /\ inwater \in Seq(InwaterDetections) /\ Len(inwater) \in Nat
  BY LenProperties DEF HInv, TypeInv
<1>1. /\ Bottom \in Seq(Items) /\ Len(Bottom) \in Nat /\ DOMAIN Bottom = 1..Len(Bottom)
      /\ Inwater \in Seq(Items) /\ Len(Inwater) \in Nat /\ DOMAIN Inwater = 1..Len(Inwater)
  BY <1>0, Listing
<1>s. ASSUME UNCHANGED response PROVE Bottom' = Bottom /\ Inwater' = Inwater
  BY <1>s DEF Bottom, Inwater, Listed
<1>2. CASE Get
  <2>1. bottom = <<>> /\ inwater = <<>> /\ UNCHANGED <<bottom, inwater>>
    BY <1>2 DEF Get, HInv, StageInv
  <2>2. response' \in Payloads
    BY <1>0, <1>2 DEF Get
  <2>3. at' \in {"bottom", "thrown"} /\ (at' = "thrown" => got' \in {"error", "status", "text"})
    BY <1>2 DEF Get
  <2>4. Len(Bottom') \in Nat /\ Len(Inwater') \in Nat
    <3>1. \A list \in Lists : list # Absent => list \in Seq(Items)
      BY HistoryAssumption DEF Lists
    <3>2. /\ response'["gridded_bottom_detections"] \in Lists
          /\ response'["gridded_inwater_detections"] \in Lists
      BY <2>2 DEF Payloads
    <3>3. Bottom' \in Seq(Items) /\ Inwater' \in Seq(Items)
      BY <3>1, <3>2, EmptySeq DEF Bottom, Inwater, Listed
    <3> QED BY <3>3, LenProperties
  <2>5. Len(<<>>) = 0
    BY EmptySeq
  <2>6. TypeInv' /\ StageInv' /\ ThrownInv'
    BY <1>0, <2>1, <2>2, <2>3 DEF TypeInv, StageInv, ThrownInv
  <2>7. ReadInv'
    BY <2>1, <2>4, <2>5 DEF ReadInv
  <2> QED BY <2>6, <2>7 DEF HInv
<1>3. CASE ParseBottom
  <2> DEFINE item == Bottom[Len(bottom) + 1]
  <2>1. /\ UNCHANGED <<response, got, inwater>> /\ at = "bottom"
        /\ Len(bottom) + 1 \in 1..Len(Bottom) /\ item \in Items
    <3>1. Len(bottom) + 1 \in 1..Len(Bottom)
      BY <1>0, <1>1, <1>3 DEF ParseBottom
    <3> QED BY <1>1, <1>3, <3>1, ElementOfSeq DEF ParseBottom
  <2>2. Bottom' = Bottom /\ Inwater' = Inwater
    BY <1>s, <2>1
  <2>3. CASE /\ BottomParses(item)
             /\ bottom' = Append(bottom, parse_gridded_bottom_detection(item))
             /\ UNCHANGED at
    <3>1. parse_gridded_bottom_detection(item) \in BottomDetections
      BY <2>1, <2>3 DEF BottomDetections
    <3>2. /\ bottom' \in Seq(BottomDetections) /\ Len(bottom') = Len(bottom) + 1
          /\ bottom'[Len(bottom) + 1] = parse_gridded_bottom_detection(item)
          /\ \A i \in 1..Len(bottom) : bottom'[i] = bottom[i]
      BY <1>0, <2>3, <3>1, AppendProperties
    <3>3. \A i \in 1..Len(bottom') :
            /\ BottomParses(Bottom[i])
            /\ bottom'[i] = parse_gridded_bottom_detection(Bottom[i])
      BY <1>0, <2>3, <3>2 DEF HInv, ReadInv
    <3>4. TypeInv' /\ StageInv' /\ ThrownInv'
      BY <2>1, <2>3, <3>2 DEF HInv, TypeInv, StageInv, ThrownInv
    <3>5. ReadInv'
      BY <1>0, <1>1, <2>1, <2>2, <3>2, <3>3 DEF HInv, ReadInv
    <3> QED BY <3>4, <3>5 DEF HInv
  <2>4. CASE ~BottomParses(item) /\ at' = "thrown" /\ UNCHANGED bottom
    <3>1. \E i \in DOMAIN Bottom : ~BottomParses(Bottom[i])
      BY <1>1, <2>1, <2>4
    <3> QED
      BY <2>1, <2>2, <2>4, <3>1 DEF HInv, TypeInv, ReadInv, StageInv, ThrownInv
  <2> QED BY <1>3, <2>3, <2>4 DEF ParseBottom
<1>4. CASE BottomParsed
  BY <1>4, <1>s DEF BottomParsed, HInv, TypeInv, ReadInv, StageInv, ThrownInv
<1>5. CASE ParseInwater
  <2> DEFINE item == Inwater[Len(inwater) + 1]
  <2>1. /\ UNCHANGED <<response, got, bottom>> /\ at = "inwater"
        /\ Len(inwater) + 1 \in 1..Len(Inwater) /\ item \in Items
    <3>1. Len(inwater) + 1 \in 1..Len(Inwater)
      BY <1>0, <1>1, <1>5 DEF ParseInwater
    <3> QED BY <1>1, <1>5, <3>1, ElementOfSeq DEF ParseInwater
  <2>2. Bottom' = Bottom /\ Inwater' = Inwater
    BY <1>s, <2>1
  <2>3. CASE /\ InwaterParses(item)
             /\ inwater' = Append(inwater, parse_gridded_inwater_detection(item))
             /\ UNCHANGED at
    <3>1. parse_gridded_inwater_detection(item) \in InwaterDetections
      BY <2>1, <2>3 DEF InwaterDetections
    <3>2. /\ inwater' \in Seq(InwaterDetections) /\ Len(inwater') = Len(inwater) + 1
          /\ inwater'[Len(inwater) + 1] = parse_gridded_inwater_detection(item)
          /\ \A i \in 1..Len(inwater) : inwater'[i] = inwater[i]
      BY <1>0, <2>3, <3>1, AppendProperties
    <3>3. \A i \in 1..Len(inwater') :
            /\ InwaterParses(Inwater[i])
            /\ inwater'[i] = parse_gridded_inwater_detection(Inwater[i])
      BY <1>0, <2>3, <3>2 DEF HInv, ReadInv
    <3>4. TypeInv' /\ StageInv' /\ ThrownInv'
      BY <2>1, <2>2, <2>3, <3>2 DEF HInv, TypeInv, StageInv, ThrownInv
    <3>5. ReadInv'
      BY <1>0, <1>1, <2>1, <2>2, <3>2, <3>3 DEF HInv, ReadInv
    <3> QED BY <3>4, <3>5 DEF HInv
  <2>4. CASE ~InwaterParses(item) /\ at' = "thrown" /\ UNCHANGED inwater
    <3>1. \E i \in DOMAIN Inwater : ~InwaterParses(Inwater[i])
      BY <1>1, <2>1, <2>4
    <3> QED
      BY <2>1, <2>2, <2>4, <3>1 DEF HInv, TypeInv, ReadInv, StageInv, ThrownInv
  <2> QED BY <1>5, <2>3, <2>4 DEF ParseInwater
<1>6. CASE Return
  BY <1>6, <1>s DEF Return, HInv, TypeInv, ReadInv, StageInv, ThrownInv
<1>7. CASE UNCHANGED vars
  BY <1>7, <1>s DEF vars, HInv, TypeInv, ReadInv, StageInv, ThrownInv
<1> QED BY <1>2, <1>3, <1>4, <1>5, <1>6, <1>7 DEF Next

-----------------------------------------------------------------------------

\* The invariant is inductive.
THEOREM HistoryInvariance == Spec => []HInv
<1>1. Init => HInv
  <2> SUFFICES ASSUME Init PROVE HInv
    OBVIOUS
  <2>1. response \in Payloads
    BY DEF Init, Payloads, Lists
  <2>2. Len(Bottom) \in Nat /\ Len(Inwater) \in Nat /\ Len(<<>>) = 0
    BY <2>1, Listing, EmptySeq
  <2>3. TypeInv
    BY <2>1, EmptySeq DEF Init, TypeInv
  <2>4. ReadInv /\ StageInv /\ ThrownInv
    BY <2>2 DEF Init, ReadInv, StageInv, ThrownInv
  <2> QED BY <2>3, <2>4 DEF HInv
<1> QED BY <1>1, HInvNext, PTL DEF Spec

\* get_history_data returns every detection of the answer in its place, with the values
\* of its item and the depths that were sent, or throws, and it throws only for an
\* answer that has something wrong.
THEOREM ReturnsAllOrThrows == Spec => []AllOrNothing
<1>1. HInv => AllOrNothing
  <2> SUFFICES ASSUME HInv PROVE AllOrNothing
    OBVIOUS
  <2>1. /\ Bottom \in Seq(Items) /\ DOMAIN Bottom = 1..Len(Bottom)
        /\ Inwater \in Seq(Items) /\ DOMAIN Inwater = 1..Len(Inwater)
    BY Listing DEF HInv, TypeInv
  <2>2. /\ \A i \in DOMAIN Bottom : BottomParses(Bottom[i]) <=> ~WrongBottom(Bottom[i])
        /\ \A i \in DOMAIN Inwater : InwaterParses(Inwater[i]) <=> ~WrongInwater(Inwater[i])
    BY <2>1, ElementOfSeq, BottomRight, InwaterRight
  <2>3. DOMAIN bottom = 1..Len(bottom) /\ DOMAIN inwater = 1..Len(inwater)
    BY LenProperties DEF HInv, TypeInv
  <2>4. CASE at = "returned"
    <3>1. Len(bottom) = Len(Bottom) /\ Len(inwater) = Len(Inwater)
      BY <2>4 DEF HInv, StageInv
    <3>2. ASSUME NEW i \in DOMAIN bottom
          PROVE  /\ ~WrongBottom(Bottom[i])
                 /\ Says(bottom[i], Bottom[i], DOMAIN Detection \cup {"depth_meters"})
      <4>1. /\ BottomParses(Bottom[i]) /\ Bottom[i] \in Items /\ i \in DOMAIN Bottom
            /\ bottom[i] = parse_gridded_bottom_detection(Bottom[i])
        BY <2>1, <2>3, <3>1, ElementOfSeq DEF HInv, ReadInv
      <4> QED BY <2>2, <4>1, BottomSays
    <3>3. ASSUME NEW i \in DOMAIN inwater
          PROVE  /\ ~WrongInwater(Inwater[i])
                 /\ Says(inwater[i], Inwater[i],
                         DOMAIN Detection \cup (Depths \cap DOMAIN Inwater[i]))
                 /\ \A name \in Depths \ DOMAIN Inwater[i] : inwater[i][name] = Absent
      <4>1. /\ InwaterParses(Inwater[i]) /\ Inwater[i] \in Items /\ i \in DOMAIN Inwater
            /\ inwater[i] = parse_gridded_inwater_detection(Inwater[i])
        BY <2>1, <2>3, <3>1, ElementOfSeq DEF HInv, ReadInv
      <4> QED BY <2>2, <4>1, InwaterSays
    <3> QED BY <2>4, <3>1, <3>2, <3>3 DEF AllOrNothing
  <2>5. CASE at = "thrown"
    BY <2>2, <2>5 DEF HInv, ThrownInv, AllOrNothing
  <2> QED BY <2>4, <2>5 DEF AllOrNothing
<1> QED BY <1>1, HistoryInvariance, PTL
=============================================================================
