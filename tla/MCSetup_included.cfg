SPECIFICATION Spec
CONSTANTS
  a1 = a1  a2 = a2  s1 = s1  s2 = s2
  Aliases = {a1}
  AnyHost = AnyHost
  Routes <- OneRoute
  InitialFiles <- NamedElsewhere
  Sections <- NoSections
  Scripts = {s1}
  None = None
  Stale = Stale
  MaxKeys = 1
  MaxOthers = 0
  MaxBreaks = 0
  MaxSaves = 0
  MaxTorn = 0
  MaxCommands = 3
  MaxTroubles = 0
INVARIANT UninstallCleans
CHECK_DEADLOCK FALSE
