\* A pool project: the gate is asked once for both sweeps.
SPECIFICATION Spec
CONSTANTS
  Separate = FALSE
  Settle = 2
  MaxIdle = 3
  Grace = 1
  MaxHeads = 2
  MaxVerdicts = 2
  MaxMoves = 1
  MaxFaults = 1
INVARIANT TypeOK
  
