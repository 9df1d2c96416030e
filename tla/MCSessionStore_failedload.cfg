SPECIFICATION Spec
CONSTANTS
  k1 = k1  k2 = k2  legacy1 = legacy1
  m1 = m1  m2 = m2
  w1 = w1  w2 = w2
  Workers = {w1, w2}
  Spellings = {k1, k2}
  Keys = {k1, k2}
  Norm <- MCNorm
  Machines = {m1, m2}
  NoMachine = NoMachine
  NoWorker = NoWorker
  NoKey = NoKey
  Configs <- FixedConfig
  InitialDbs <- OnlyEmptyDb
  TTL = 0
  Zones = {0}
  Skew = 0
  RecentCap = 2
  LoadMayFail = TRUE
  MaxTime = 1
  MaxSerial = 2
INVARIANT Durable
