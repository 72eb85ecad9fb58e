CONSTANTS
  u1 = u1
  u2 = u2
  a1 = a1
  m1 = m1
  m2 = m2
  m3 = m3
  t1 = t1
  t2 = t2
  w1 = w1
  w2 = w2
  None = None
  Users = {u1, u2}
  Agents = {a1}
  Rows = {m1, m2}
  Tokens = {t1, t2}
  Workers = {w1}
SPECIFICATION Spec
SYMMETRY Symmetry
INVARIANTS
  TypeOK
  DeadTokensStayDead
  AgentsHaveStanding
  ViewersOnlyRead
  AuthorityRemains
  ListsAgree
