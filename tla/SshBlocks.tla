------------------------------ MODULE SshBlocks ------------------------------
(***************************************************************************)
(* The edits of the user's ~/.ssh/config (internal/sshsetup), as functions *)
(* from lines to lines.  A line is its meaning: a blank line, Host with    *)
(* one pattern, a LocalCommand, any other setting, or a marker of a block  *)
(* that Clipport manages.  A forward block of alias a is                   *)
(*   # clipport begin a, Host a, RemoteForward, # clipport end a           *)
(* and a session block the same with a LocalCommand that runs clipctl.     *)
(* "by" is a ghost: who wrote the line.  No line of either looks like one  *)
(* of the other but Host, which is the same text.                          *)
(***************************************************************************)
EXTENDS Naturals, Sequences, SequencesExt

CONSTANTS Aliases, AnyHost  \* the aliases of the routes; the pattern *

UserKinds == {"blank", "host", "setting", "localcommand"}
Kinds == UserKinds \cup {"forward", "begin", "end", "sessionbegin", "sessionend"}
Patterns == Aliases \cup {AnyHost}
UserLine == [kind : UserKinds, alias : Patterns, by : {"user"}]
Line == UserLine \cup [kind : Kinds, alias : Patterns, by : {"clipport"}]

Mine(kind, a) == [kind |-> kind, alias |-> a, by |-> "user"]
Managed(kind, a) == [kind |-> kind, alias |-> a, by |-> "clipport"]
Blank == Managed("blank", AnyHost)

ForwardBlock(a) ==
  <<Managed("begin", a), Managed("host", a), Managed("forward", a), Managed("end", a)>>
SessionBlock(a) ==
  <<Managed("sessionbegin", a), Managed("host", a), Managed("localcommand", a),
    Managed("sessionend", a)>>

IsClipportBegin(line) == line.kind \in {"begin", "sessionbegin"}
IsClipportEnd(line) == line.kind \in {"end", "sessionend"}
ClipportBegins == {line \in Line : IsClipportBegin(line)}
ClipportEnds == {line \in Line : IsClipportEnd(line)}

\* What an edit comes to: an error, nothing to change, or a text to write.
Failed == [out |-> "error", text |-> <<>>]
Same == [out |-> "same", text |-> <<>>]
Updated(text) == [out |-> "write", text |-> text]

-----------------------------------------------------------------------------
(* removeBlocks                                                            *)

\* Mutant: whatever line is before a block goes with it.
WithoutLastLine(lines) == IF lines # <<>> THEN Front(lines) ELSE lines
\* The blank line before a block goes with it.
WithoutLastBlank(lines) ==
  IF lines # <<>> /\ Last(lines).kind = "blank" THEN Front(lines) ELSE lines

\* Every block from a line of begins to the next line of ends.
ReadLine(st, line, begins, ends) ==
  CASE ~st.inBlock /\ line \in begins ->
         [kept |-> WithoutLastBlank(st.kept), removed |-> TRUE, inBlock |-> TRUE]
    [] st.inBlock /\ line \in ends -> [st EXCEPT !.inBlock = FALSE]
    [] st.inBlock /\ line \notin ends -> st
    [] ~st.inBlock /\ line \notin begins -> [st EXCEPT !.kept = Append(@, line)]
RemoveBlocks(text, begins, ends) ==
  LET read[n \in 0..Len(text)] ==
        IF n = 0 THEN [kept |-> <<>>, removed |-> FALSE, inBlock |-> FALSE]
        ELSE ReadLine(read[n - 1], text[n], begins, ends)
  IN read[Len(text)]

\* RemoveForward, RemoveAllClipportBlocks: ErrNoClipportBlocks is no failure
\* to their callers.
Removed(r) ==
  IF r.inBlock THEN Failed ELSE IF r.removed THEN Updated(r.kept) ELSE Same
WithoutForward(text, a) ==
  RemoveBlocks(text, {Managed("begin", a)}, {Managed("end", a)})
RemoveForward(text, a) == Removed(WithoutForward(text, a))
\* Mutant: only the forwards are removed.
RemoveForwardsOnly(text) ==
  Removed(RemoveBlocks(text, {line \in Line : line.kind = "begin"},
                             {line \in Line : line.kind = "end"}))
RemoveAllClipportBlocks(text) == Removed(RemoveBlocks(text, ClipportBegins, ClipportEnds))

-----------------------------------------------------------------------------
(* InstallForward                                                          *)

\* Mutant: the block always goes to the end.
InsertAtEnd(text, a, block) == IF text = <<>> THEN block ELSE Append(text, Blank) \o block
InsertBeforeHost(text, a, block) ==
  LET at == {i \in DOMAIN text : text[i].kind = "host" /\ text[i].alias = a}
      first == CHOOSE i \in at : \A j \in at : i <= j
  IN IF at # {} THEN SubSeq(text, 1, first - 1) \o block \o SubSeq(text, first, Len(text))
     ELSE IF text = <<>> THEN block ELSE Append(text, Blank) \o block

\* ErrForwardAlreadyInstalled is no failure to shimsetup.
InstallForward(text, a) ==
  LET r == WithoutForward(text, a)
      updated == InsertBeforeHost(r.kept, a, ForwardBlock(a))
  IN IF r.inBlock THEN Failed
     ELSE IF r.removed /\ updated = text THEN Same ELSE Updated(updated)

-----------------------------------------------------------------------------
(* InstallSessionHook                                                      *)

HookLine(st, line, a, block) ==
  CASE line.kind = "sessionbegin" /\ line.alias = a ->
         [out |-> st.out \o block, inside |-> TRUE, found |-> TRUE,
          err |-> st.err \/ st.inside \/ st.found]
    [] line.kind = "sessionend" /\ line.alias = a ->
         [st EXCEPT !.inside = FALSE, !.err = @ \/ ~st.inside]
    [] OTHER ->
         IF st.inside
         THEN [st EXCEPT !.err = @ \/ IsClipportBegin(line) \/ IsClipportEnd(line)]
         ELSE [st EXCEPT !.out = Append(@, line)]
HooksRead(text, a, block) ==
  LET read[n \in 0..Len(text)] ==
        IF n = 0 THEN [out |-> <<>>, inside |-> FALSE, found |-> FALSE, err |-> FALSE]
        ELSE HookLine(read[n - 1], text[n], a, block)
  IN read[Len(text)]
UpdateSessionBlock(text, a, block) ==
  LET r == HooksRead(text, a, block)
  IN IF r.err \/ r.inside THEN Failed
     ELSE Updated(IF r.found THEN r.out ELSE Append(r.out, Blank) \o block)

\* ssh -G: the LocalCommand that a connection to a runs is the first one in a
\* section that matches a.
Section(text, i) ==
  LET hosts == {j \in 1..i : text[j].kind = "host"}
  IN IF hosts = {} THEN AnyHost ELSE text[CHOOSE j \in hosts : \A k \in hosts : k <= j].alias
LocalCommands(text, a) ==
  {i \in DOMAIN text : text[i].kind = "localcommand" /\ Section(text, i) \in {a, AnyHost}}
RunsHook(text, a) ==
  \E i \in LocalCommands(text, a) :
    text[i] = Managed("localcommand", a) /\ \A j \in LocalCommands(text, a) : i <= j

\* Mutant: the hook is written whether ssh would run it or not.
InstallUnvalidated(text, a) ==
  LET r == UpdateSessionBlock(text, a, SessionBlock(a))
  IN IF r.out = "write" /\ r.text = text THEN Same ELSE r
InstallSessionHook(text, a) ==
  LET r == UpdateSessionBlock(text, a, SessionBlock(a))
  IN IF r.out = "error" \/ ~RunsHook(r.text, a) THEN Failed
     ELSE IF r.text = text THEN Same ELSE r

-----------------------------------------------------------------------------
\* The lines of the user that are not blank.
Owned(line) == line.by = "user" /\ line.kind # "blank"
UserLines(text) ==
  LET own[n \in 0..Len(text)] ==
        IF n = 0 THEN <<>>
        ELSE IF Owned(text[n]) THEN Append(own[n - 1], text[n]) ELSE own[n - 1]
  IN own[Len(text)]
=============================================================================
