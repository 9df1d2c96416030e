------------------------------- MODULE MCSetup -------------------------------
(* Small instances of Setup for TLC.                                       *)
EXTENDS Setup, TLC

CONSTANTS a1, a2, s1, s2

OneRoute == <<a1>>
TwoRoutes == <<a1, a2>>

\* Files that name the aliases, one with a LocalCommand of the user's own.
HostSection(a) == <<Mine("host", a), Mine("setting", a)>>
BothHosts == HostSection(a1) \o <<Mine("blank", AnyHost)>> \o HostSection(a2)
OwnCommand ==
  BothHosts \o <<Mine("host", AnyHost), Mine("localcommand", AnyHost)>>
NamedInFile == {BothHosts, OwnCommand}
\* A file that gets the aliases by an Include.
NamedElsewhere == {<<Mine("setting", AnyHost)>>}

\* The user adds a section for an alias, or a LocalCommand for all.
NewSections == {HostSection(a1), <<Mine("host", AnyHost), Mine("localcommand", AnyHost)>>}
NoSections == {}

ScriptSymmetry == Permutations(Scripts)
=============================================================================
