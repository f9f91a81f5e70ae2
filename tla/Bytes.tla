------------------------------- MODULE Bytes -------------------------------
(***************************************************************************)
(* The times of the protocol: decodeBcdTime and encodeBcdTime of           *)
(* server/src/protocol/bytes.js.  An instant is a number of minutes since  *)
(* 2000-01-01T00:00Z; a time on the wire is the five two-digit numbers     *)
(* YY MM DD hh mm of a terminal's local time (the seconds, which no offset *)
(* changes, are left out).                                                 *)
(***************************************************************************)
EXTENDS Integers, Sequences

\* The calendar of Date, for the years a two-digit year stands for.
DaysBeforeYear(y) == 365 * y + (y + 3) \div 4

MonthLength(y, m) ==
  CASE m = 2 -> IF y % 4 = 0 THEN 29 ELSE 28
    [] m \in {4, 6, 9, 11} -> 30
    [] OTHER -> 31

DaysBeforeMonth(y, m) ==
  LET before[k \in 1..12] == IF k = 1 THEN 0 ELSE before[k - 1] + MonthLength(y, k - 1)
  IN  before[m]

\* Date.UTC: a day beyond the end of its month is one of the next.
DateUTC(y, mo, d, h, mi) ==
  1440 * (DaysBeforeYear(y) + DaysBeforeMonth(y, mo) + d - 1) + 60 * h + mi

\* getUTCFullYear - 2000, getUTCMonth + 1 and getUTCDate.
YearOf(day) ==
  CHOOSE y \in 0..100 : DaysBeforeYear(y) <= day /\ day < DaysBeforeYear(y + 1)
MonthOf(day) ==
  CHOOSE m \in 1..12 :
    LET d == day - DaysBeforeYear(YearOf(day)) - DaysBeforeMonth(YearOf(day), m)
    IN  0 <= d /\ d < MonthLength(YearOf(day), m)
DayOf(day) ==
  day - DaysBeforeYear(YearOf(day)) - DaysBeforeMonth(YearOf(day), MonthOf(day)) + 1

EncodeBcdTime(instant, tzOffsetMinutes) ==
  LET local == instant + tzOffsetMinutes
      day   == local \div 1440
  IN  <<YearOf(day) % 100, MonthOf(day), DayOf(day),
        (local % 1440) \div 60, local % 60>>

\* Mutant: the offset is added where it is to be taken away.
InstantOf_Added(b, tzOffsetMinutes) ==
  DateUTC(b[1], b[2], b[3], b[4], b[5]) + tzOffsetMinutes
InstantOf(b, tzOffsetMinutes) ==
  DateUTC(b[1], b[2], b[3], b[4], b[5]) - tzOffsetMinutes

DecodeBcdTime(b, tzOffsetMinutes) ==
  IF \/ b = <<0, 0, 0, 0, 0>>
     \/ b[2] \notin 1..12 \/ b[3] \notin 1..31 \/ b[4] > 23 \/ b[5] > 59
  THEN [valid |-> FALSE]
  ELSE [valid |-> TRUE, instant |-> InstantOf(b, tzOffsetMinutes)]

=============================================================================
