---------------------------- MODULE MCSupervision ----------------------------
(* TLC instance of Supervision. *)
EXTENDS Supervision, TLC

CONSTANTS p1, p2, p3, p4, p5

=============================================================================
