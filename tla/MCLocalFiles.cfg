SPECIFICATION Spec
CONSTANTS
  p1 = p1
  p2 = p2
  box = box
  alias = alias
  n1 = n1
  n2 = n2
  Procs <- MCProcs
  Hosts = {box, alias}
  Values = {1, 2, 3, 4}
  NoValue = NoValue
  Cap = 2
  Drawn <- MCDrawn
  EmptyToken = EmptyToken
  NoToken = NoToken
  Machines = {box, n1, n2}
  Installs = {"brew", "user"}
  HotKeys = {"F12", "F13"}
  Unset = Unset
  Names = {n1, n2}
  NoName = NoName
  Aliases = 2
  Filters = {"f"}
  NoFilter = ""
  Matching <- MCMatching
  MaxGroups = 2
  N = 3
  TieWindow = 75
  Latencies <- MCLatencies
  Priorities = {10, 20}
  Workloads <- MCWorkloads
  MaxCrashes = 1
INVARIANTS TypeOK RegistryKept LogKept ConfigKept GroupsBuildable ShimsAuthorized NotMuchSlower PriorityDecides TestMeasuresBeforeFailing
