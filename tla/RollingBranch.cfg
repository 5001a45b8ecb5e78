\* Two tasks, two changes at origin by others, two faults.
SPECIFICATION Spec
CONSTANTS
  Tasks = {t1, t2}
  MaxMoves = 2
  MaxFaults = 2
INVARIANTS TypeOK DoneIsAtOrigin
  
\* Every task is applied.
CHECK_DEADLOCK FALSE
