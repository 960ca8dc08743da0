SPECIFICATION MCSpec
CONSTANTS
  k1 = k1
  k2 = k2
  k3 = k3
  c1 = c1
  c2 = c2
  NoMint = NoMint
  Key = {k1, k2, k3}
  Config = {c1, c2}
  Mint = {1, 2}
  RewardMint = {7, 8}
  NUM_REWARDS = 2
  MAX_FEE_RATE = 2
  MAX_PROTOCOL_FEE_RATE = 1
  ConfigAuthorities <- MCAuthorities
  TickSpacings = {1, 8}
  FeeRates = {1, 3}
  ProtocolFeeRates = {0, 2}
  Emissions = {5}
  FeeAmounts = {4}
  MaxOps = 4
  None = None
  Person = {alice, bob, carol}
  Position = {p1, p2}
  MaxWorth = 1
  DelegatedAmounts = {1, 2}
  MaxTokenOps = 6
SYMMETRY Symmetry
CHECK_DEADLOCK FALSE
INVARIANTS
  OnePoolPerPair
  OneTokenPerPosition
  OnlyHolderActs
PROPERTIES
  OnlyRoleHoldersChange
  NothingReinitialized
  NewPoolTakesOwnDefaults
  ClosedByRightfulKey
