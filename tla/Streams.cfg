SPECIFICATION MCSpec
CONSTANTS
  m1 = m1
  o1 = o1
  o2 = o2
  burn = burn
  NoneF = NoneF
  FeeMechs = {m1, o1}
  BurnAddress = burn
  FeeChains <- Chains
  FeeAmounts = {0, 3}
  FeePrices = {1, 3}
  NvmRatio = 2
  MaxFeeEvents = 4
  FeeDays = 2
  Squids = {"babydegen short", "babydegen steady", "liquidity", "mech-fees"}
  ServiceIds <- MCServiceIds
  Safe <- MCSafe
  Operators = {o1, o2}
  StreamBlocks <- MCStreamBlocks
  MaxHeight = 4
  MaxReorgs = 1
  MaxRestarts = 1
  MaxBatch = 2
  NoOperator = NoOperator
  NoEndpoint = NoEndpoint
INVARIANTS LogsAsGraphNode PoolExact FeesAgree
PROPERTY KeepUp
CHECK_DEADLOCK FALSE
