SPECIFICATION MCSpec
CONSTANTS
  s1 = s1
  s2 = s2
  m1 = m1
  m2 = m2
  e1 = e1
  e2 = e2
  g1 = g1
  g2 = g2
  MASTER = MASTER
  AGENT_EOA = AGENT_EOA
  Services = {s1, s2}
  Safes = {m1, m2}
  Eoas = {e1, e2}
  Multisigs = {g1, g2}
  Proxies = {p1, p2}
  App = app
  OwnersOf <- MCOwnersOf
  MultisigOf <- MCMultisigOf
  OperatorsOf <- MCOperatorsOf
  Plans <- MCPlans
  Founded = {}
  Foreign = {p2}
  MaxDays = 2
  None = None
  Tracked = {e1}
  Roles = {MASTER, AGENT_EOA}
  NoRole = None
  MaxLen = 3
  MaxForks = 1
  MaxFailures = 1
  MaxLapses = 1
  LastBlock = 2
  MaxSafeForks = 1
INVARIANTS TablesFollowChain IndexIsTable
PROPERTY ImplementsTable
CHECK_DEADLOCK FALSE
