------------------------- MODULE EventCalendarSyncMC -------------------------
(* Small instances of EventCalendarSync. *)
EXTENDS EventCalendarSync, TLC

CONSTANTS e1, e2, m1, m2, w1, w2

Symmetry == Permutations(Workers) \cup Permutations(Contents)
=============================================================================
