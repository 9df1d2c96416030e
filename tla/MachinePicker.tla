---------------------------- MODULE MachinePicker ----------------------------
(***************************************************************************)
(* The onboarding screens (TUIModel.Update): the user names a machine,     *)
(* picks the SSH aliases that reach it from a filtered list, and reviews   *)
(* the machines before the configuration is built from them.               *)
(*                                                                         *)
(* One action per key that changes the model; typing a text, letter by     *)
(* letter in the code, is one step to any text.  Messages and views are    *)
(* left out.                                                               *)
(***************************************************************************)
EXTENDS Integers, Sequences, FiniteSets

CONSTANTS
  Names,       \* machine names a user may type
  NoName,      \* nothing, or only blanks, typed
  Aliases,     \* number of SSH aliases, in alphabetical order
  Filters,     \* texts typed in the filter
  NoFilter,    \* the empty filter
  Matching,    \* aliases whose entry contains a filter, a function on Filters
  MaxGroups    \* bound on the number of machines added

VARIABLES
  screen,      \* step: "name", "select", "review"; "done" or "cancelled" at the end
  filterMode, filter,
  cursor,      \* position in the filtered list, counted from 0
  selected,    \* aliases that are ticked
  groups,      \* machines added so far
  input,       \* the machine name typed
  reopened     \* ghost: the user went back from the review

pickerVars == <<screen, filterMode, filter, cursor, selected, groups, input, reopened>>

Group == [name : Names \cup {NoName}, routes : SUBSET (1..Aliases)]

Shown(f) == IF f = NoFilter THEN 1..Aliases ELSE Matching[f]
\* The alias a is in row n of the list, counted from 0.
InRow(a, n) == Cardinality({b \in Shown(filter) : b < a}) = n

\* The cursor is on a row of the list if there is one: the key that ticks an
\* alias indexes the list with it.
PickerTypeOK ==
  /\ screen \in {"name", "select", "review", "done", "cancelled"}
  /\ filterMode \in BOOLEAN /\ filter \in Filters \cup {NoFilter}
  /\ cursor \in Nat
  /\ Shown(filter) # {} => cursor < Cardinality(Shown(filter))
  /\ selected \subseteq 1..Aliases
  /\ groups \in Seq(Group)
  /\ input \in Names \cup {NoName}
  /\ reopened \in BOOLEAN

PickerInit ==
  /\ screen = "name"
  /\ filterMode = FALSE /\ filter = NoFilter
  /\ cursor = 0 /\ selected = {}
  /\ groups = <<>> /\ input = NoName
  /\ reopened = FALSE

HasGroup(name) == \E i \in DOMAIN groups : groups[i].name = name

-----------------------------------------------------------------------------
(* The name screen                                                         *)

TypeName ==
  /\ screen = "name"
  /\ input' \in Names \cup {NoName}
  /\ UNCHANGED <<screen, filterMode, filter, cursor, selected, groups, reopened>>

\* Mutant: a name in use is accepted.
EnterAnyName ==
  /\ screen = "name" /\ input # NoName
  /\ screen' = "select"
  /\ UNCHANGED <<filterMode, filter, cursor, selected, groups, input, reopened>>

\* enter; an empty name or one in use is refused with a message.
EnterName ==
  /\ screen = "name" /\ input # NoName /\ ~HasGroup(input)
  /\ screen' = "select"
  /\ UNCHANGED <<filterMode, filter, cursor, selected, groups, input, reopened>>

\* esc, once there is a machine.
ReviewFromName ==
  /\ screen = "name" /\ groups # <<>>
  /\ screen' = "review"
  /\ UNCHANGED <<filterMode, filter, cursor, selected, groups, input, reopened>>

(* The list of aliases                                                     *)

OpenFilter ==
  /\ screen = "select" /\ ~filterMode
  /\ filterMode' = TRUE
  /\ UNCHANGED <<screen, filter, cursor, selected, groups, input, reopened>>

CloseFilter ==
  /\ filterMode
  /\ filterMode' = FALSE
  /\ UNCHANGED <<screen, filter, cursor, selected, groups, input, reopened>>

UnclampedTo(n) == cursor                                            \* mutant
\* Where rebuildFilter leaves the cursor.
ClampedTo(n) == IF cursor < n THEN cursor ELSE IF n = 0 THEN 0 ELSE n - 1

\* updateFilter with rebuildFilter.
TypeFilter ==
  /\ filterMode
  /\ filter' \in Filters \cup {NoFilter}
  /\ cursor' = ClampedTo(Cardinality(Shown(filter')))
  /\ UNCHANGED <<screen, filterMode, selected, groups, input, reopened>>

MoveCursor ==
  /\ screen = "select" /\ ~filterMode
  /\ cursor' \in {cursor - 1, cursor + 1} \cap 0..(Cardinality(Shown(filter)) - 1)
  /\ UNCHANGED <<screen, filterMode, filter, selected, groups, input, reopened>>

\* Space: tick or untick the alias under the cursor.
ToggleAlias ==
  /\ screen = "select" /\ ~filterMode
  /\ \E a \in Shown(filter) :
       /\ InRow(a, cursor)
       /\ selected' = IF a \in selected THEN selected \ {a} ELSE selected \cup {a}
  /\ UNCHANGED <<screen, filterMode, filter, cursor, groups, input, reopened>>

ResetSelection ==
  /\ screen = "select" /\ ~filterMode
  /\ selected' = {}
  /\ UNCHANGED <<screen, filterMode, filter, cursor, groups, input, reopened>>

\* enter: the machine is added with the aliases ticked, in alphabetical
\* order, also those the filter hides; none ticked is refused.
SaveMachine ==
  /\ screen = "select" /\ ~filterMode /\ selected # {}
  /\ Len(groups) < MaxGroups
  /\ groups' = Append(groups, [name |-> input, routes |-> selected])
  /\ selected' = {} /\ filter' = NoFilter
  /\ cursor' = ClampedTo(Aliases)
  /\ input' = NoName /\ screen' = "name"
  /\ UNCHANGED <<filterMode, reopened>>

ReviewFromSelect ==
  /\ screen = "select" /\ ~filterMode /\ groups # <<>>
  /\ screen' = "review"
  /\ UNCHANGED <<filterMode, filter, cursor, selected, groups, input, reopened>>

(* The review                                                              *)

\* esc, "add another machine" in the help: back to the list, for whatever
\* name is typed by now.
ReopenList ==
  /\ screen = "review"
  /\ screen' = "select" /\ reopened' = TRUE
  /\ UNCHANGED <<filterMode, filter, cursor, selected, groups, input>>

Accept ==
  /\ screen = "review"
  /\ screen' = "done"
  /\ UNCHANGED <<filterMode, filter, cursor, selected, groups, input, reopened>>

\* q or ctrl+c.
Cancel ==
  /\ screen \in {"name", "select", "review"} /\ ~filterMode
  /\ screen' = "cancelled"
  /\ UNCHANGED <<filterMode, filter, cursor, selected, groups, input, reopened>>

PickerNext ==
  \/ TypeName \/ EnterName \/ ReviewFromName
  \/ OpenFilter \/ CloseFilter \/ TypeFilter \/ MoveCursor
  \/ ToggleAlias \/ ResetSelection \/ SaveMachine \/ ReviewFromSelect
  \/ ReopenList \/ Accept \/ Cancel

\* BuildConfig succeeds: Config.Validate finds names, all different, and a
\* route for each machine.
Buildable(gs) ==
  /\ \A i \in DOMAIN gs : gs[i].name # NoName /\ gs[i].routes # {}
  /\ \A i, j \in DOMAIN gs : i # j => gs[i].name # gs[j].name

-----------------------------------------------------------------------------
(* Property                                                                *)

\* A configuration can be built from what the user accepts, and has a machine
\* in it, as the daemon requires; unless the user went back from the review,
\* where a machine may be added under an empty name or one in use.
GroupsBuildable ==
  screen = "done" => groups # <<>> /\ (Buildable(groups) \/ reopened)

-----------------------------------------------------------------------------
(* The inductive invariant behind GroupsBuildable (proved in LocalFilesProofs) *)

\* The name of the machine that routes are picked for is new.
PickerInv ==
  /\ groups \in Seq(Group) /\ input \in Names \cup {NoName}
  /\ selected \subseteq 1..Aliases /\ filter \in Filters \cup {NoFilter}
  /\ screen \in {"review", "done"} => groups # <<>>
  /\ ~reopened => /\ Buildable(groups)
                  /\ screen = "select" => input # NoName /\ ~HasGroup(input)

=============================================================================
