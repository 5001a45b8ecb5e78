\* Crashes of the daemon and its replacements, a hang, a launch by hand.
SPECIFICATION FairSpec
CONSTANTS
  p1 = p1
  p2 = p2
  p3 = p3
  p4 = p4
  p5 = p5
  Pids = {p1, p2, p3, p4, p5}
  NoPid = NoPid
  MaxLaunches = 1
  MaxCrashes = 2
  MaxHangs = 1
INVARIANTS TypeOK DuplicatesNeedALaunch RestartsKeepPidfile
PROPERTY DeadReplaced
