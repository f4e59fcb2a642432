SPECIFICATION MCSpec
CONSTANTS
  Holders = {a, b}
  ZERO = ZERO
  Amounts = {0, 1, 2}
  MaxSupply = 2
  MaxLogs = 3
  MaxForks = 1
  p1 = p1
  p2 = p2
  s1 = s1
  s2 = s2
  Stakers = {s1, s2}
  Deployments <- MCDeployments
  None = None
  Reward = 2
  MaxEpoch = 2
  MaxStakes = 2
  StakingDays = 3
  Squids = {"tokenomics", "staking"}
SYMMETRY Symmetry
INVARIANTS BalancesMirrorToken HolderCountExact NeverThrows StakesAndHistoryAddUp AgreesWithSubgraph
CHECK_DEADLOCK FALSE
