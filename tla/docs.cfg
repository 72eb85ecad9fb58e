CONSTANTS
  d1 = d1
  d2 = d2
  p1 = p1
  s1 = s1
  x1 = x1
  x2 = x2
  amiss = amiss
  Absent = Absent
  Live = {d1}
  Progress = {p1}
  Archived = {s1}
  Curated = {d1}
  Bodies = {x1, x2, amiss}
  Misfiled = {amiss}
  Flavors = {"repo", "scaffold"}
  MaxSlips = 2
SPECIFICATION IndexSpec
CHECK_DEADLOCK FALSE
PROPERTIES
  QuietBuildIsFresh
  CatchesUp
