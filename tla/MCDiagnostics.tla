--------------------------- MODULE MCDiagnostics ---------------------------
(* Small instances of Diagnostics. *)
EXTENDS Diagnostics, TLC

CONSTANTS r1, r2

\* Two requests answered by the same message, which a time sync is too.
SyncText == r1 :> "time_sync" @@ r2 :> "text"
=============================================================================
