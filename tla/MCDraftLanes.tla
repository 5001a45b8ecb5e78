----------------------------- MODULE MCDraftLanes -----------------------------
(* A small instance of DraftLanes for TLC. *)
EXTENDS DraftLanes

CONSTANTS t1, t2, l1, l2

\* A draft process that writes to a path it no longer holds can make a task be
\* drafted without end, so a run stops at the first such write.
UntilALateWrite == late = {}
=============================================================================
