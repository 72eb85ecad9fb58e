CONSTANTS
  r1 = r1
  c1 = c1
  c2 = c2
  weak = weak
  env = env
  typo = typo
  Requests = {r1}
  Pairs = {c1, c2, weak}
  Unloadable = {weak}
  Hosts = {env, typo}
  DefaultHost = env
  BadHosts = {typo}
  MaxClock = 1
SPECIFICATION Spec
VIEW SerialView
INVARIANTS
  PairMatches
  RefusedSwapRestores
  RefusalRestoresConf
  OkIsLive
