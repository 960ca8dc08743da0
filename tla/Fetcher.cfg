SPECIFICATION MCSpec
CONSTANTS
  pool = pool
  array = array
  c1 = c1
  c2 = c2
  Address <- MCAddress
  Pools = {pool}
  Calls = {c1, c2}
  Wanted <- MCWanted
  CHUNK = 2
  MaxVersion = 2
  MaxBegun = 3
  MaxWrites = 3
SYMMETRY Symmetry
CHECK_DEADLOCK FALSE
INVARIANTS
  NothingInvented
  FreshWhenRefreshed
  FailsOnlyWithRpc
PROPERTIES
  RefreshAllUpdatesWhatItAskedFor
