SPECIFICATION PanesSpec
CONSTANTS
  c1 = c1  c2 = c2  p1 = p1  p2 = p2
  a = a  b = b  s = s  r1 = r1  r2 = r2
  None = None
  Conns = {c1}
  Panes = {p1, p2}
  Machines = {a, b}
  Defaults = {a, None}
  Strangers = {s}
  Routes = {r1}
  RecentCap = 1
  MaxTime = 0
  MaxEvents = 1
CONSTRAINT FirstUpload
INVARIANT PasteGoesToItsPane
PROPERTY EveryPasteAnswered
