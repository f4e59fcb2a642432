SPECIFICATION MCSpec
CONSTANTS
  s1 = s1
  s2 = s2
  m1 = m1
  m2 = m2
  m3 = m3
  m4 = m4
  safe = safe
  eoa = eoa
  r1 = r1
  Instances = {"main"}
  Services = {s1, s2}
  Accounts = {safe, eoa}
  Agents = {7}
  Mechs = {m1, m2, m3}
  ServiceOf <- ThreeMechs
  Strangers = {m3}
  Unlisted = {}
  Registered = {s1, s2}
  Hashes = {1}
  Karma <- KarmaChanges
  NoMultisig = NoMultisig
  Founded = {m1, m2}
  Multisigs <- OneMultisig
  Ids = {r1}
  Rates = {1}
  Prices = {1}
  Calls = {"request"}
  MaxCalls = 2
  NoRow = NoRow
  NoService = NoService
  NoRate = NoRate
  NoFee = NoFee
  Reverted = Reverted
INVARIANT ForeignersHaveNoService
CHECK_DEADLOCK FALSE
