SPECIFICATION FairSpec
CONSTANTS
  k1 = k1  k2 = k2  legacy1 = legacy1
  m1 = m1  m2 = m2
  w1 = w1  w2 = w2
  Workers = {w1, w2}
  Spellings = {k1, k2, legacy1}
  Keys = {k1, k2}
  Norm <- MCNorm
  Machines = {m1, m2}
  NoMachine = NoMachine
  NoWorker = NoWorker
  NoKey = NoKey
  Configs <- FixedConfig
  InitialDbs <- OldDbs
  TTL = 2
  Zones = {0, 1}
  Skew = 1
  RecentCap = 1
  LoadMayFail = TRUE
  MaxTime = 2
  MaxSerial = 1
INVARIANT TypeOK
PROPERTIES LoadKeepsLatest EveryRequestEnds
