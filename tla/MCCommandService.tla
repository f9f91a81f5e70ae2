-------------------------- MODULE MCCommandService --------------------------
(* Small instances of CommandService. *)
EXTENDS CommandService, FiniteSets, TLC

CONSTANTS c1, c2, s1, s2

OneSeal  == c1 :> "seal"
SealAndUnseal == c1 :> "seal" @@ c2 :> "unseal"
\* Two seals, so that one's reply could be taken for the other's.
TwoSeals == c1 :> "seal" @@ c2 :> "seal"

Symmetry == Permutations(Sessions)

\* Bound: the seal alone with two disturbances (a fault, a day, a refusal or
\* failure of the lock, a keypad operation or another connection); or the seal
\* and then the unseal with at most one thing that may lead a reply astray, over
\* one connection unless that is a restart, and then they are called while no
\* timer and no frame is being processed.
Astray ==
  used.retransmit + used.restart + used.day
  + Cardinality({c \in Commands : lock[c] = "failed"})
Others ==
  used.keypad + used.disconnect + used.failure
  + Cardinality({c \in Commands : lock[c] = "refused"})
Replaced == Cardinality({s \in Sessions : link[s] # "new"} \ {current})
Calm == /\ \A c \in Commands : timer[c] \in {"off", "armed"}
        /\ \A s \in Sessions : handler[s].at = "idle"
Scope ==
  IF pc[c2] = "idle" THEN Astray + Others + Replaced <= 2
  ELSE /\ pc[c1] # "idle" /\ Astray <= 1 /\ Others = 0 /\ Replaced <= used.restart
       /\ Astray > 0 /\ (\E c \in Commands : pc[c] \in Executing) => Calm
=============================================================================
