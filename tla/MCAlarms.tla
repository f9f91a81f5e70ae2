------------------------------ MODULE MCAlarms ------------------------------
(* Small instances of Alarms. *)
EXTENDS Alarms, TLC

CONSTANTS cut, low

Plain == [kind |-> "location", flags |-> {}, e7 |-> Absent, lock |-> Absent,
          voltage |-> Absent, event |-> Absent, clears |-> FALSE, block |-> Absent]

\* Locations with and without a lock status, an alarm upload, the reply to a
\* clear_alarm and one to another command, and both with a GPS block, whose lock
\* status the payload contradicts.
SomeReports ==
  {[Plain EXCEPT !.flags = f, !.lock = l] : f \in SUBSET {low},
                                            l \in {Absent, {}, {cut}}}
  \cup {[Plain EXCEPT !.e7 = {cut, low}, !.kind = "query"],
        [Plain EXCEPT !.e7 = {low}]}
  \cup {[Plain EXCEPT !.kind = "upload", !.flags = Absent, !.lock = {cut},
                      !.voltage = v, !.event = e] :
          v \in SUBSET {low}, e \in {cut, Absent}}
  \cup {[Plain EXCEPT !.kind = "reply", !.flags = Absent, !.lock = l,
                      !.voltage = {}, !.clears = c] :
          l \in {{}, {cut}}, c \in BOOLEAN}
  \cup {[Plain EXCEPT !.kind = k, !.flags = {low}, !.lock = {}, !.voltage = {},
                      !.block = b] :
          k \in {"upload", "reply"}, b \in {Absent, {cut}}}
=============================================================================
