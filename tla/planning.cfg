CONSTANTS
  p1 = p1
  p2 = p2
  p3 = p3
  m1 = m1
  f1 = f1
  t1 = t1
  t2 = t2
  u1 = u1
  w1 = w1
  w2 = w2
  None = None
  Projects = {p1, p2, p3}
  Milestones = {m1}
  Phases = {f1}
  Tasks = {t1, t2}
  Users = {u1}
  Workers = {w1, w2}
  MaxPins = 1
  Scopes <- Parts
  MaxFeed <- Feeds
SPECIFICATION Spec
CHECK_DEADLOCK FALSE
SYMMETRY Symmetry
INVARIANTS
  LogWithinFeed
  ArchivedIsDated
  PinsOvershoot
