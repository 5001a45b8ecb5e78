\* Two daemons that stay alive, claims younger than three hours.
SPECIFICATION Spec
CONSTANTS
  r1 = r1
  r2 = r2
  t1 = t1
  t2 = t2
  Reviewers = {r1, r2}
  Mortal = {}
  Tasks = {t1}
  NoTask = NoTask
  NoClaim = NoClaim
  Unstamped = Unstamped
  FailLimit = 1
  RoundLimit = 0
  MayAge = FALSE
INVARIANT NoDoubleReview
