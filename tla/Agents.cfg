SPECIFICATION MCSpec
CONSTANTS
  m1 = m1
  m2 = m2
  m3 = m3
  o1 = o1
  o2 = o2
  e = e
  c = c
  Parts = {"registry", "tokens", "ether", "v2", "cl", "balancer", "sturdy", "snapshots", "velo snapshots", "balancer snapshots", "sturdy snapshots", "weth", "dollars"}
  Ids = {1, 3}
  ExcludedIds = {}
  Operators = {o1}
  Multisigs = {m1, m2}
  Home <- MCHome
  Outsiders = {}
  Contracts = {}
  Tokens = {"USDC"}
  Amounts = {1}
  Moves <- MCMoves
  AgentIds = {40}
  Prices = {1}
  MaxTime = 5
  MaxLogs = 2
  MaxHeld = 1
  Venues = {"v2"}
  Nfts = {"n1"}
  Slippages <- MCSlippages
  BucketLength = 1
  AssociationWindow = 4
  DayLength = 2
  PollEvery = 1
  SmaDays = 2
INVARIANTS FundsFollowChain PositionsMatchHolding AnswersAreWorth
PROPERTY SnapshotsTell
CHECK_DEADLOCK FALSE
