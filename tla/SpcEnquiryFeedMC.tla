--------------------------- MODULE SpcEnquiryFeedMC ---------------------------
(* A small instance of SpcEnquiryFeed. *)
EXTENDS SpcEnquiryFeed, TLC

CONSTANTS r1, r2, r3

Symmetry == Permutations(Requests)
===============================================================================
