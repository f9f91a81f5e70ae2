----------------------------- MODULE MCSessions -----------------------------
(* Small instances of Sessions. *)
EXTENDS Sessions, TLC

CONSTANTS d1, d2

\* Both connections are an unknown device's, and one statement may fail; or
\* both carry the terminal IDs of two devices; or the store is the in-memory
\* one.
OneDevice   == [s \in Sessions |-> {d1}]
BothDevices == [s \in Sessions |-> {d1, d2}]
Postgres ==
  {[ids |-> OneDevice, known |-> {}, instant |-> FALSE, failures |-> 1],
   [ids |-> BothDevices, known |-> {d1}, instant |-> FALSE, failures |-> 0]}
InMemory ==
  {[ids |-> i, known |-> {d1}, instant |-> TRUE, failures |-> 0]
     : i \in {OneDevice, BothDevices}}
AllSetups == Postgres \cup InMemory
=============================================================================
