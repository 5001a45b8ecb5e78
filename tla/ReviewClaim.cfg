\* Two daemons, one of which may die, one item, the counters at work.
SPECIFICATION FairSpec
CONSTANTS
  r1 = r1
  r2 = r2
  t1 = t1
  t2 = t2
  Reviewers = {r1, r2}
  Mortal = {r1}
  Tasks = {t1}
  NoTask = NoTask
  NoClaim = NoClaim
  Unstamped = Unstamped
  FailLimit = 2
  RoundLimit = 1
  MayAge = TRUE
INVARIANTS TypeOK ClaimExcludes FiledOnce IdleHoldsNothing
 
