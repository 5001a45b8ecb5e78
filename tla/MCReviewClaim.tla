---------------------------- MODULE MCReviewClaim ----------------------------
(* TLC instance of ReviewClaim. *)
EXTENDS ReviewClaim

CONSTANTS r1, r2, t1, t2
=============================================================================
