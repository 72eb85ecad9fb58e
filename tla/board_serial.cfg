CONSTANTS
  t1 = t1
  t2 = t2
  t3 = t3
  n1 = n1
  n2 = n2
  w1 = w1
  w2 = w2
  None = None
  Keep = Keep
  Tasks = {t1, t2, t3}
  Notes = {n1, n2}
  Workers = {w1}
  Operations = {"patch", "block", "create", "relate", "unrelate", "note", "supersede", "revert", "complete", "archive", "reopen"}
  Actors = {"agent", "human"}
  Goals = {"backlog", "ready", "in_progress", "needs_review", "blocked", "done", "cancelled"}
  LifeGoals = {"backlog", "ready", "in_progress", "needs_review", "blocked", "done", "cancelled"}
  GraphGoals = {"ready", "cancelled"}
  MaxHops = 50
SPECIFICATION Spec
CONSTRAINT Parts
SYMMETRY Symmetry
INVARIANTS
  NothingLeftOpen
  Acyclic
PROPERTIES
  WorkflowSpec
  ClosingUnblocks
