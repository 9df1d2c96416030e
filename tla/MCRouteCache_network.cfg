SPECIFICATION FairSpec
CONSTANTS
  p1 = p1  p2 = p2  r1 = r1  r2 = r2
  NHosts = 1
  N = 2
  Pasters = {}
  Refreshers = {r1, r2}
  Nets <- HomeAndAway
  TieWindow = 75
  TTL = 1
  MaxTime = 0
  MaxChanges = 2
INVARIANTS TypeOK StaleOnlyIfOvertaken
PROPERTY MeasuredAfterChange
CHECK_DEADLOCK FALSE
