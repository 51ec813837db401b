-------------------------- MODULE SpcGroupDeliveryMC --------------------------
(* Small instances of SpcGroupDelivery. *)
EXTENDS SpcGroupDelivery, TLC

CONSTANTS d1, d2, t1, t2, t3

(* The tabs of d1 are t1 and t2; a second device has one tab. *)
MCDeviceOf == [t \in Tabs |-> IF t = t3 THEN d2 ELSE d1]

Symmetry == Permutations({t1, t2})
===============================================================================
