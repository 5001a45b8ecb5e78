\* One hang and nothing else.
SPECIFICATION FairSpec
CONSTANTS
  p1 = p1
  p2 = p2
  p3 = p3
  p4 = p4
  p5 = p5
  Pids = {p1, p2, p3}
  NoPid = NoPid
  MaxLaunches = 0
  MaxCrashes = 0
  MaxHangs = 1
PROPERTY ZombieReplaced
