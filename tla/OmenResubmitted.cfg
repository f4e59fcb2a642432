SPECIFICATION MCSpec
CONSTANTS
  c1 = c1
  c2 = c2
  c3 = c3
  s1 = s1
  i1 = i1
  g1 = g1
  a1 = a1
  a2 = a2
  k1 = k1
  k2 = k2
  Indexers = {"omen"}
  Services = {s1}
  Instances = {i1}
  Multisigs = {g1, g2}
  Wallets = {w1}
  Markets <- MCMarkets
  Older = {}
  Unreadable = {c3}
  LegacyOf <- MCLegacyOf
  Fills <- MCFills
  Plans <- MCPlans
  MaxDays = 2
  None = None
  NoRow = NoRow
INVARIANT SettlementReversed
CHECK_DEADLOCK FALSE
