----------------------------- MODULE MCSealKey -----------------------------
(* Small instances of SealKey. *)
EXTENDS SealKey, TLC

CONSTANTS k1, k2, a, b

\* Keys are interchangeable, and so are calls.
Symmetry == Permutations(Keys) \cup Permutations(Commands)
=============================================================================
