---------------------------- MODULE MCDashboard ----------------------------
(* Small instances of Dashboard. *)
EXTENDS Dashboard

CONSTANTS d1, d2, l1, l2

New == [lock_id |-> None, key_format |-> "rf10", current_key |-> None]

\* A device with or without a key, and one that has just been seen.
Rows ==
  {[d \in Devices |-> IF d = d1 THEN [New EXCEPT !.lock_id = l1, !.current_key = k]
                      ELSE New] : k \in {None, "rf10"}}

\* A save as it is, with another LockID, with none, with a key of either format.
SomeEdits ==
  {<< >>, [lock_id |-> l2], [lock_id |-> None], [current_key |-> "rf10"],
   [current_key |-> "ascii6", key_format |-> "ascii6"]}

\* Requests with a LockID, with a key and its format, with the wrong format, with
\* a format or a key alone.
Bodies ==
  {Body(l2, None, None), Body(None, "ascii6", "ascii6"), Body(None, "ascii6", "rf10"),
   Body(None, "ascii6", None), Body(None, None, "rf10")}

\* As it is stored, with a key of another format, with a key alone.
SomeSeals == {<<None, None>>, <<"ascii6", "ascii6">>, <<"ascii6", None>>}
=============================================================================
