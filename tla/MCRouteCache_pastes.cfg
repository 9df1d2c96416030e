SPECIFICATION Spec
CONSTANTS
  p1 = p1  p2 = p2  r1 = r1  r2 = r2
  NHosts = 1
  N = 2
  Pasters = {p1, p2}
  Refreshers = {}
  Nets <- HomeAndOffline
  TieWindow = 75
  TTL = 2
  MaxTime = 2
  MaxChanges = 0
SYMMETRY PasterSymmetry
INVARIANTS EmptyMeansInvalidated RetryFreshUnlessOvertaken
PROPERTY HitNotExpired
