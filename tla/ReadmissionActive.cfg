\* The active project: each sweep asks the gate that both share.
SPECIFICATION Spec
CONSTANTS
  Separate = TRUE
  Settle = 2
  MaxIdle = 3
  Grace = 1
  MaxHeads = 1
  MaxVerdicts = 1
  MaxMoves = 0
  MaxFaults = 0
PROPERTY VerdictsAreTakenUp
