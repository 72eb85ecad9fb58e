CONSTANTS
  r1 = r1
  r2 = r2
  s1 = s1
  i1 = i1
  i2 = i2
  e1 = e1
  e2 = e2
  e3 = e3
  None = None
  Torn = Torn
  Requests = {r1, r2}
  Shells = {s1}
  Ips = {i1, i2}
  Emails = {e1, e2, e3}
  MaxSecrets = 5
SPECIFICATION Spec
SYMMETRY Symmetric
INVARIANTS
  SuperAdminsOvershoot
  ParkIsUsable
