----------------------------- MODULE MCStartup -----------------------------
(* Small instances of Startup. *)
EXTENDS Startup, TLC

CONSTANTS p1, p2, p3, c1

\* An older build with one migration less beside the newer ones.
Mixed == (p1 :> NumMigrations - 1) @@ (p2 :> NumMigrations) @@ (p3 :> NumMigrations)
\* The other migrations change data and could run twice.
First == {1}

\* Bound: while a command is about, the third process is down.  Without one
\* nothing is bounded.
Scope ==
  \/ \A c \in Commands : status[c] = "none" /\ \A p \in Servers : Awaited(p, c) = {}
  \/ at[p3] = "down"
=============================================================================
