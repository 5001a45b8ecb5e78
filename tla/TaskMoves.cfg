\* Everybody moves the task, one process is killed in the middle of a move.
SPECIFICATION Spec
CONSTANTS
  Hands = TRUE
  Drains = TRUE
  MaxKills = 1
INVARIANTS TypeOK  OneFile 
\* A task that is archived or applied, or that a kill left in staging, rests.
CHECK_DEADLOCK FALSE
