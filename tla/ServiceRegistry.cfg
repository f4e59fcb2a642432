SPECIFICATION MCSpec
CONSTANTS
  Safes = {m1}
  Orphans = {}
  MaxLogs = 2
  MaxLen = 2
  MaxForks = 1
  MaxFailures = 1
  m1 = m1
  m2 = m2
  Services = {s1, s2}
  Agents = {a1, a2}
  Operators = {o1, o2}
  Multisigs = {g1, g2}
  Configs = {f1, f2}
  Senders = {d1, d2}
  Identities = {i1, i2}
  Texts = {x1}
  Ecosystem = Ecosystem
  ServiceRegistry = ServiceRegistry
  Olas = Olas
  NoValue = NoValue
  c1 = c1
  u1 = u1
  Owners = {w1, w2}
  Hashes = {h1, h2}
  AgentIds = {41, 25}
  TargetAgent = 41
  Instances = {e1}
  NoOne = NoOne
  NotFound = NotFound
  NoRow = NoRow
  NoAgent = NoAgent
  Day = 2
  MaxTime = 2
  MaxEvents = 6
  Keys = {Ecosystem, ServiceRegistry}
SYMMETRY ActivitySymmetry
INVARIANTS EachExecutionOnce KnownCoversRows DailyTablesAgree RowsAsSubgraph RegistriesMirrored
PROPERTIES ImplementsTemplates BlocksImplementTemplates
CHECK_DEADLOCK FALSE
