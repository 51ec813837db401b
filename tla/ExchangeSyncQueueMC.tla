------------------------ MODULE ExchangeSyncQueueMC ------------------------
(***************************************************************************)
(* Small instances of ExchangeSyncQueue: a contact c in a group g, with    *)
(* one queue key for the contact, one for the group and one for the        *)
(* membership, whose rows reconcile the group.  Reconciling the contact    *)
(* rewrites the groups it is in.                                           *)
(***************************************************************************)
EXTENDS ExchangeSyncQueue, TLC

CONSTANTS c, g, kc, kg, km

MCEntityOf == [k \in Keys |-> IF k = kc THEN c ELSE g]
MCPeers    == [e \in Entities |-> IF e = c THEN {g} ELSE {}]

Symmetry == Permutations(Runs)
=============================================================================
