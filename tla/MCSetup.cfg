SPECIFICATION Spec
CONSTANTS
  a1 = a1  a2 = a2  s1 = s1  s2 = s2
  Aliases = {a1, a2}
  AnyHost = AnyHost
  Routes <- TwoRoutes
  InitialFiles <- NamedInFile
  Sections <- NewSections
  Scripts = {s1, s2}
  None = None
  Stale = Stale
  MaxKeys = 2
  MaxOthers = 1
  MaxBreaks = 1
  MaxSaves = 1
  MaxTorn = 1
  MaxCommands = 3
  MaxTroubles = 1
SYMMETRY ScriptSymmetry
INVARIANTS UserLinesKept Recoverable OursComeFirst LockOwned SetupWorks UninstallCleans
PROPERTY IdentityKept
CHECK_DEADLOCK FALSE
