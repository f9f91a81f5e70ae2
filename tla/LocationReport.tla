--------------------------- MODULE LocationReport ---------------------------
(***************************************************************************)
(* The body of a location report (0x0200, 0x0201): the 28 bytes that every *)
(* report has, and the additional items after them, each                   *)
(*                                                                         *)
(*     id(1) | length(1) | value                                           *)
(*                                                                         *)
(* server/src/protocol/location.js.  Items are bytes here, for a value may *)
(* look like an item; of the 28 bytes, what the decoder computes with:     *)
(* the status bits, the lock status in the highest of them, the absolute   *)
(* coordinates and the time.                                               *)
(***************************************************************************)
EXTENDS Bytes, SequencesExt

Abs(n) == IF n < 0 THEN -n ELSE n

\* encodeLocationBasic: bit 1 (positioned), bits 2 and 3 (south, west), bit 18
\* (GPS used) and the lock status of bits 24-31.
EncodeLocationBasic(fix, tz) ==
  [bits |-> {1, 18} \cup (IF fix.lat < 0 THEN {2} ELSE {})
                    \cup (IF fix.lon < 0 THEN {3} ELSE {}),
   lockStatus |-> fix.lockStatus, lat |-> Abs(fix.lat), lon |-> Abs(fix.lon),
   time |-> EncodeBcdTime(fix.instant, tz)]

NoStatus == 0

\* 0x00 to 0x0F in the highest byte are no lock status.
DecodeStatusFlags(bits, lockStatus) ==
  [positioned |-> 1 \in bits, southLatitude |-> 2 \in bits,
   westLongitude |-> 3 \in bits,
   lockStatus |-> IF lockStatus >= 16 THEN lockStatus ELSE NoStatus]

DecodeLocationBasic(b, tz) ==
  LET status == DecodeStatusFlags(b.bits, b.lockStatus)
  IN  [positioned |-> status.positioned,
       lat |-> (IF status.southLatitude THEN -1 ELSE 1) * b.lat,
       lon |-> (IF status.westLongitude THEN -1 ELSE 1) * b.lon,
       lockStatus |-> status.lockStatus,
       time |-> DecodeBcdTime(b.time, tz)]

-----------------------------------------------------------------------------
\* A list of elements, each a header that ends with the length of its value.
Encoded(elements) ==
  FlattenSeq([i \in DOMAIN elements |->
                elements[i].id \o <<Len(elements[i].value) % 256>>
                \o elements[i].value])

\* The walks of decodeAdditionalItems and decodeParamList: the elements that are
\* complete, and whether the list ends where the last of them does.
\* Mutant: an element that ends with the list is taken for a truncated one.
Beyond_Early(end, buf) == end >= Len(buf)
Beyond(end, buf) == end > Len(buf)

Walk(buf, head) ==
  LET from[i \in 0..Len(buf)] ==   \* i bytes are behind
        IF i = Len(buf) THEN [whole |-> << >>, error |-> FALSE]
        ELSE IF Beyond(i + head, buf) THEN [whole |-> << >>, error |-> TRUE]
        ELSE LET end == i + head + buf[i + head]
             IN  IF Beyond(end, buf) THEN [whole |-> << >>, error |-> TRUE]
                 ELSE [whole |-> << [id |-> SubSeq(buf, i + 1, i + head - 1),
                                     value |-> SubSeq(buf, i + head + 1, end)] >>
                                 \o from[end].whole,
                       error |-> from[end].error]
  IN  from[0]

-----------------------------------------------------------------------------
\* decodeAdditionalItem: the name of an item whose length is right.
\* Lengths of the items of one length.
FixedLength ==
  [id \in {1, 2, 3, 4, 18, 19, 37, 42, 43, 48, 49, 86, 225, 231, 232, 233, 234} |->
     CASE id \in {48, 49, 233}      -> 1
       [] id \in {2, 3, 4, 42, 86}  -> 2
       [] id \in {231, 232}         -> 3
       [] id \in {1, 37, 43}        -> 4
       [] id \in {18, 234}          -> 6
       [] id \in {19, 225}          -> 7]
AnyLength  == {17, 226, 227, 230}
EvenLength == {81, 88}
LBS10B     == 93

HasDecoded(id, value) ==
  \/ id \in DOMAIN FixedLength /\ Len(value) = FixedLength[id]
  \/ id \in AnyLength
  \/ id \in EvenLength /\ Len(value) % 2 = 0
  \/ id = LBS10B /\ value # << >>

\* Stations of an lbs_10b item; none when the count does not fit the length.
Stations(value) ==
  IF Len(value) = 1 + 10 * value[1] THEN SubSeq(value, 2, Len(value)) ELSE << >>

\* The field of the summary that an item fills, and with what.
FieldOf ==
  [id \in {1, 48, 49, 93, 225, 226, 227, 230, 231, 232} |->
     CASE id \in {93, 225} -> "lbs"             [] id = 48  -> "signalStrength"
       [] id = 49          -> "satellites"      [] id = 226 -> "imei"
       [] id = 227         -> "firmwareVersion" [] id = 230 -> "iccid"
       [] id = 1           -> "mileageKm"       [] id = 231 -> "e7Alarms"
       [] id = 232         -> "switches"]
SummaryFields ==
  {"batteryPercent", "batteryMv"} \cup {FieldOf[id] : id \in DOMAIN FieldOf}

NotReported == << >>
Nothing == [field \in SummaryFields |-> NotReported]

\* Of the battery items 0xE9 gives the percentage and 0x56 a coarser one with
\* the voltage.
Battery(s, value) ==
  [s EXCEPT !.batteryPercent = IF @ = NotReported THEN <<10 * value[1]>> ELSE @,
            !.batteryMv = <<50 * value[2]>>]

SummariseItem(s, id, value) ==
  IF ~HasDecoded(id, value) THEN s
  ELSE CASE id = 233 -> [s EXCEPT !.batteryPercent = value]
         [] id = 86  -> Battery(s, value)
         [] id = LBS10B -> [s EXCEPT !.lbs = <<"10B">> \o Stations(value)]
         [] id = 225 -> [s EXCEPT !.lbs = <<"7B">> \o value]
         [] id \in DOMAIN FieldOf \ {LBS10B, 225} -> [s EXCEPT ![FieldOf[id]] = value]
         [] OTHER -> s

SummariseExtras(items) ==
  LET after[i \in 0..Len(items)] ==
        IF i = 0 THEN Nothing
        ELSE SummariseItem(after[i - 1], items[i].id[1], items[i].value)
  IN  after[Len(items)]

\* decodeAdditionalItems and summariseExtras; an item that is cut off is listed
\* too, as truncated and without a decoded value.
DecodeAdditionalItems(buf) ==
  LET w == Walk(buf, 2)
  IN  [whole |-> w.whole, error |-> w.error, extras |-> SummariseExtras(w.whole)]

=============================================================================
