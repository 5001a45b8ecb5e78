\* A task to draft and one of a dead branch, with a kill, a preemption and a pause.
SPECIFICATION FairSpec
CONSTANTS
  t1 = t1
  t2 = t2
  l1 = l1
  l2 = l2
  Tasks = {t1, t2}
  Lanes = {l1, l2}
  DeadBranch = {t2}
  RetryLimit = 2
  InfraLimit = 1
  MaxKills = 1
  MaxPreempts = 1
  MaxPauses = 1
  NoTask = NoTask
CONSTRAINT UntilALateWrite
INVARIANTS TypeOK OneFile OneDrafter FailureBudget
PROPERTY Served
