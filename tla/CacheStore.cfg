\* Every operation among others: two shards, two contracts, crashes, expiry, damage.
CONSTANTS
  k1 = k1
  k2 = k2
  k3 = k3
  shard = shard
  shard2 = shard2
  Procs = {p1, p2, p3}
  Keys = {k1, k2, k3}
  ShardOf <- TwoShards
  ContractOf <- TwoContracts
  Ops = {"get", "get_latest", "put", "invalidate", "clear"}
  MaxOps = 3
  Damage = {"garbage"}
  None = None
SPECIFICATION Spec
CHECK_DEADLOCK FALSE
SYMMETRY Symmetry
INVARIANTS TypeOK LatestNotOlder TempsOwned UndisturbedSucceeds
PROPERTY GetAnswers
