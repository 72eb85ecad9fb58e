CONSTANTS
  t1 = t1
  t2 = t2
  t3 = t3
  n1 = n1
  n2 = n2
  w1 = w1
  w2 = w2
  None = None
  Keep = Keep
  Tasks = {t1, t2}
  Notes = {n1}
  Workers = {w1, w2}
  Operations = {"patch", "create", "note", "relate"}
  Actors = {"agent", "human"}
  Goals = {"ready", "in_progress", "needs_review", "done", "cancelled"}
  LifeGoals = {"in_progress", "needs_review", "done"}
  GraphGoals = {"ready", "cancelled"}
  MaxHops = 50
SPECIFICATION Spec
CONSTRAINT Parts
SYMMETRY Symmetry
INVARIANTS
  ClosedByHuman
PROPERTIES
  EdgesLeaveLinks
