SPECIFICATION Spec
CONSTANTS
  c1 = c1  c2 = c2  p1 = p1  p2 = p2
  a = a  b = b  s = s  r1 = r1  r2 = r2
  None = None
  Conns = {c1, c2}
  Panes = {p1}
  Machines = {a}
  Defaults = {None}
  Strangers = {}
  Routes = {r1, r2}
  RecentCap = 1
  MaxTime = 1
  MaxEvents = 1
SYMMETRY ConnSymmetry
INVARIANTS TypeOK AnsweredPathHoldsImage
