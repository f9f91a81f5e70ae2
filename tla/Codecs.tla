------------------------------- MODULE Codecs -------------------------------
(***************************************************************************)
(* The protocol library of server/src/protocol from end to end: bytes to   *)
(* frames (Framing), and the body of a frame to what it says               *)
(* (MessageBodies).  A behaviour exercises one of the two: the stream of a *)
(* connection, or one message that is built by an encoder, possibly cut    *)
(* short by its sender, and decoded.                                       *)
(***************************************************************************)
EXTENDS Framing, MessageBodies

CONSTANTS
  Items,        \* additional items that a report may have
  Params,       \* terminal parameters
  MaxElements,  \* bound: items or parameters of a message
  Fixes,        \* positions, with the instant and the lock status
  Offsets       \* time zones of terminals, in minutes

Elements == [id : Seq(Byte), value : Seq(Byte)]

\* An item has an id of one byte, a parameter one of four; lengths and counts fit
\* into theirs, and the year of a terminal's time into two digits.
ASSUME CodecsAssumption ==
  /\ Items \subseteq Elements /\ Params \subseteq Elements /\ MaxElements \in 0..255
  /\ \A e \in Items : Len(e.id) = 1 /\ Len(e.value) < 256
  /\ \A e \in Params : Len(e.id) = 4 /\ Len(e.value) < 256
  /\ Fixes \subseteq [lat : Int, lon : Int, lockStatus : Byte, instant : Int]
  /\ Fixes # {} /\ Offsets \subseteq Int
  /\ \A fix \in Fixes, tz \in Offsets \cup {0} :
       0 <= fix.instant + tz /\ fix.instant + tz < 1440 * DaysBeforeYear(100)

VARIABLES
  message,  \* the message built, and what it was built from, or << >>
  reading   \* what decodeBody makes of it, or << >>

codecVars == <<message, reading>>

Lists(elements) == UNION {[1..n -> elements] : n \in 0..MaxElements}

Cut(bytes, n) == SubSeq(bytes, 1, n)

CodecsInit == FramingInit /\ message = << >> /\ reading = << >>

\* Nothing has been sent on the connection.
Fresh == message = << >> /\ sent = << >> /\ noises = 0

\* encodeLocationReport of a position, with items of which the last may be cut.
Report(fix, tz, items, additional, length) ==
  message' = [id |-> "LOCATION_REPORT", fix |-> fix, tz |-> tz, of |-> items,
              body |-> [basic |-> EncodeLocationBasic(fix, tz),
                        additional |-> additional, length |-> length]]

BuildReport ==
  /\ Fresh
  /\ \/ \E fix \in Fixes, tz \in Offsets : Report(fix, tz, << >>, << >>, 28)
     \/ \E items \in Lists(Items) :
          LET additional == Encoded(items)
          IN  \E n \in 27..(28 + Len(additional)) :
                Report(CHOOSE fix \in Fixes : TRUE, 0, items, additional, n)
  /\ UNCHANGED <<reading, framingVars>>

BuildParameters ==
  /\ Fresh
  /\ \E items \in Lists(Params) :
       \E form \in {[id |-> "SET_PARAMS", body |-> EncodeSetParams(items)],
                    [id |-> "QUERY_PARAMS_RESPONSE",
                     body |-> EncodeQueryParamsResponse(258, items)]} :
         \E n \in 0..Len(form.body) :
           message' = [id |-> form.id, of |-> items, body |-> Cut(form.body, n)]
  /\ UNCHANGED <<reading, framingVars>>

BuildPassthrough ==
  /\ Fresh
  /\ \E op \in Ops, data \in DataLengths, extra \in ExtraLengths :
       \E f \in FramesOf(op, data, extra) :
         message' = [id |-> "PASSTHROUGH", body |-> f]
  /\ UNCHANGED <<reading, framingVars>>

Read ==
  /\ message # << >> /\ reading = << >>
  /\ reading' = DecodeBody(message)
  /\ UNCHANGED <<message, framingVars>>

Stream == message = << >> /\ FramingNext /\ UNCHANGED codecVars

CodecsNext ==
  BuildReport \/ BuildParameters \/ BuildPassthrough \/ Read \/ Stream

CodecsSpec == CodecsInit /\ [][CodecsNext]_<<framingVars, codecVars>>

-----------------------------------------------------------------------------
(***************************************************************************)
(* Properties                                                              *)
(***************************************************************************)

IsRead(id) == reading # << >> /\ message.id = id

\* A frame of documented lengths.
KnownData(f)  == f.data \in ToSet(KNOWN_DATA_LENGTHS(f.op))
KnownExtra(f) == f.extra \in ToSet(Extras(f.op))

\* A former reply of 25 bytes with 38 more reads as one of 35 with 28 more.
Ambiguous(f) == f.op = "operation_reply" /\ f.data = 25 /\ f.extra = 38

\* Documented lengths of other data add up to those of the frame.
Coincides(f) ==
  \E d \in ToSet(KNOWN_DATA_LENGTHS(f.op)), e \in ToSet(Extras(f.op)) :
    d # f.data /\ d + e = f.data + f.extra

\* Where a field of a layout was written.
Start(layout, i) ==
  LET start[k \in 1..Len(layout)] ==
        IF k = 1 THEN 0 ELSE start[k - 1] + layout[k - 1][2]
  IN  start[i]

\* decodeBusinessFrame: whatever bytes its fields hold, a frame of documented
\* lengths yields the data it was built from, with every field where its encoder
\* put it, and is evidence for the LEN mode of its sender alone; except for the
\* one pair of lengths that coincides.
DataRecovered ==
  IsRead("PASSTHROUGH") =>
    LET f == message.body
        layout == Layout(f.op, f.data)
    IN  KnownData(f) /\ KnownExtra(f) /\ ~Ambiguous(f) =>
          /\ reading.ok /\ reading.data = f.data
          /\ reading.gps <=> f.extra >= 28
          /\ Cardinality(reading.modes) = 1
          /\ \A i \in DOMAIN layout : layout[i][1] # "op" =>
               reading.payload[layout[i][1]]
                 = <<Start(layout, i), Start(layout, i) + layout[i][2]>>

\* A frame whose data is cut at another place than it was built with is decoded
\* with a warning, unless documented lengths add up to the same.
NoSilentMisread ==
  /\ IsRead("PASSTHROUGH") /\ reading.ok
  /\ reading.data # message.body.data /\ ~Coincides(message.body)
  => reading.warned

\* The elements of a list that are complete in its first n bytes.
Complete(elements, n) ==
  LET fitting == {k \in 0..Len(elements) : Len(Encoded(Cut(elements, k))) <= n}
  IN  Cut(elements, CHOOSE k \in fitting : \A j \in fitting : j <= k)

\* decodeAdditionalItems and decodeParamList: what a list is decoded to are the
\* elements its sender put in it, as far as they were sent, whatever bytes they
\* hold; an element that was cut is reported, and so is a parameter that is
\* missing altogether.
ElementsRecovered ==
  /\ IsRead("LOCATION_REPORT") /\ reading.ok =>
       LET n == message.body.length - 28
           complete == Complete(message.of, n)
       IN  /\ reading.whole = complete
           /\ reading.error <=> n # Len(Encoded(complete))
  /\ (IsRead("SET_PARAMS") \/ IsRead("QUERY_PARAMS_RESPONSE")) /\ reading.ok =>
       LET head == IF message.id = "SET_PARAMS" THEN 1 ELSE 3
       IN  /\ reading.whole = Complete(message.of, Len(message.body) - head)
           /\ reading.error <=> reading.whole # message.of

\* summariseExtras: the order of the items of a report does not matter, although
\* 0xE9 and 0x56 both tell the battery.  (0xE1 and 0x5D both tell the base
\* stations, and there the last one counts.)
SummaryOrderFree ==
  IsRead("LOCATION_REPORT") /\ reading.ok
  /\ Cardinality({it.id : it \in ToSet(reading.whole)}) = Len(reading.whole) =>
    \A p \in Bijection(DOMAIN reading.whole, DOMAIN reading.whole) :
      LET other == SummariseExtras([i \in DOMAIN p |-> reading.whole[p[i]]])
      IN  \A field \in SummaryFields \ {"lbs"} : other[field] = reading.extras[field]

\* decodeLocationBasic: in every hemisphere and time zone, and at every turn of
\* a month or year, a report says where and when the terminal was, and a lock
\* status if it has one.
FixRecovered ==
  IsRead("LOCATION_REPORT") /\ reading.ok =>
    LET fix == message.fix
        b   == reading.basic
    IN  /\ b.positioned /\ b.lat = fix.lat /\ b.lon = fix.lon
        /\ fix.lockStatus >= 16 => b.lockStatus = fix.lockStatus
        /\ fix.lockStatus = 0 => b.lockStatus = NoStatus
        /\ b.time.valid /\ b.time.instant = fix.instant

=============================================================================
