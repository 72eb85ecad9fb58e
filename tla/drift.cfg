CONSTANTS
  a1 = a1
  t1 = t1
  x1 = x1
  r1 = r1
  r2 = r2
  Agents = {a1}
  Tasks = {t1}
  Answers = {x1}
  Requests = {r1, r2}
  PivotLimit = 1
  HashCap = 2
  PassGrace = 0
  OnboardGrace = 0
  Windows = {0, 1}
  OverlapWindow = 1
  MaxClock = 2
  MaxReads = 2
  MaxEscalations = 1
  LastOnboard = 0
  None = None
  Short = Short
  Board = Board
  Setup = Setup
  Contract = Contract
SPECIFICATION Spec
CHECK_DEADLOCK FALSE
CONSTRAINT Overlaps
VIEW GateView
SYMMETRY Symmetry
INVARIANTS
  TypeOK
  WriteNeedsFreshPass
PROPERTY
  PauseSpec
