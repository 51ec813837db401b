------------------------- MODULE SpcMobileDeliveryMC -------------------------
(* A small instance of SpcMobileDelivery. *)
EXTENDS SpcMobileDelivery, TLC

CONSTANTS e1, e2, p1, p2

Symmetry == Permutations(Tasks)

(* A bound: a run is not followed further once every enquiry is gone and no *)
(* request has one at hand; only the mode could still change.              *)
Followed == \E e \in Enquiries : \/ del[e].status # "gone"
                                \/ \E t \in Tasks : cur[t] = e
===============================================================================
