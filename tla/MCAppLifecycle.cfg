SPECIFICATION FairSpec
CONSTANTS
  a1 = a1  a2 = a2  d1 = d1  d2 = d2  d3 = d3
  None = None
  Stale = Stale
  Apps = {a1, a2}
  Daemons = {d1, d2}
  Hosts <- SameHosts
  GroupKill = TRUE
  MaxCommands = 2
  MaxEvents = 1
CHECK_DEADLOCK FALSE
INVARIANTS TypeOK OneChild ReadyMeansServing
PROPERTIES QuitStopsDaemon DaemonsEndWithApp StartServes
