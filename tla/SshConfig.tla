------------------------------ MODULE SshConfig ------------------------------
(***************************************************************************)
(* The file ~/.ssh/config, which the user edits and clipctl rewrites.  An  *)
(* edit of clipctl reads the file, computes the new text (SshBlocks), for  *)
(* a hook asks ssh -G about it, writes a backup of what it read, and       *)
(* writes the file; nothing locks the file meanwhile.  A write can fail    *)
(* half way (a full disk, a kill), as os.WriteFile truncates first.        *)
(***************************************************************************)
EXTENDS SshBlocks

CONSTANTS
  InitialFiles,  \* what the user has written before Clipport; never torn
  Sections,      \* what the user may append: whole Host sections
  MaxSaves,      \* bound on saves of the user
  MaxTorn        \* bound on writes that fail half way

ASSUME FilesAssumption == InitialFiles \subseteq Seq(UserLine)
ASSUME SectionsAssumption ==
  /\ Sections \subseteq Seq(UserLine)
  /\ \A section \in Sections : \A i \in DOMAIN section :
       section[i].kind = "localcommand" => \E h \in 1..i - 1 : section[h].kind = "host"

VARIABLES
  file,     \* the lines of the file
  backups,  \* the texts of the files .clipport-<time>.bak
  edit,     \* the edit in progress: stage, what it read, what it will write
  saves, torn,  \* how many there were
  mine,     \* ghost: the user's own lines, as the user last saved them
  raced,    \* ghost: an edit has replaced a text it had not read
  broken    \* ghost: a torn write has not been repaired by the user

fileVars == <<file, backups, edit, saves, torn, mine, raced, broken>>

NoEdit == [stage |-> "idle", read |-> <<>>, new |-> <<>>]

FileInit ==
  /\ file \in InitialFiles /\ backups = {} /\ edit = NoEdit
  /\ saves = 0 /\ torn = 0
  /\ mine = UserLines(file) /\ raced = FALSE /\ broken = FALSE

-----------------------------------------------------------------------------
(* clipctl                                                                 *)

\* os.ReadFile, and the text to write computed from it.
Read(result) ==
  /\ edit.stage = "idle"
  /\ edit' = IF result.out = "write"
             THEN [stage |-> "backup", read |-> file, new |-> result.text] ELSE edit
  /\ UNCHANGED <<file, backups, saves, torn, mine, raced, broken>>

\* Mutant: there is no backup.
NoBackup ==
  /\ edit.stage = "backup" /\ edit' = [edit EXCEPT !.stage = "write"]
  /\ UNCHANGED <<file, backups, saves, torn, mine, raced, broken>>

\* writeConfigWithBackup: the backup has the text that was read, ...
Backup ==
  /\ edit.stage = "backup"
  /\ backups' = backups \cup {edit.read}
  /\ edit' = [edit EXCEPT !.stage = "write"]
  /\ UNCHANGED <<file, saves, torn, mine, raced, broken>>

\* ... and the file the new one, whatever it holds by now.
Write ==
  /\ edit.stage = "write"
  /\ file' = edit.new /\ edit' = NoEdit
  /\ raced' = (raced \/ file # edit.read)
  /\ UNCHANGED <<backups, saves, torn, mine, broken>>

\* ssh -G or the backup fails, or clipctl is killed before it writes.
EditFails ==
  /\ edit.stage # "idle" /\ edit' = NoEdit
  /\ UNCHANGED <<file, backups, saves, torn, mine, raced, broken>>

WriteTorn ==
  /\ edit.stage = "write" /\ torn < MaxTorn
  /\ \E n \in 0..Len(edit.new) - 1 : file' = SubSeq(edit.new, 1, n)
  /\ torn' = torn + 1 /\ broken' = TRUE
  /\ edit' = NoEdit
  /\ raced' = (raced \/ file # edit.read)
  /\ UNCHANGED <<backups, saves, mine>>

-----------------------------------------------------------------------------
(* The user                                                                *)

\* The user appends a section, or writes the file anew without Clipport.
Save ==
  /\ saves < MaxSaves /\ saves' = saves + 1
  /\ \/ \E section \in Sections : file' = file \o section /\ UNCHANGED broken
     \/ file' \in InitialFiles /\ broken' = FALSE
  /\ mine' = UserLines(file')
  /\ UNCHANGED <<backups, edit, torn, raced>>

-----------------------------------------------------------------------------
(* Properties                                                              *)

\* Whatever sequence of edits there was, the user's own lines are in the file,
\* in their order (sshsetup_test.go:166, TestRemoveAllClipportBlocksPreserves-
\* UserConfig), unless a write was torn or raced with the user's editor.
UserLinesKept == ~broken /\ ~raced => UserLines(file) = mine

\* The user's own lines are never gone: the file or a backup has all of them,
\* even after a write that failed half way (sshsetup.go:191, writeConfigWithBackup).
Recoverable == ~raced => \E text \in backups \cup {file} : UserLines(text) = mine

\* The forward of an alias stands before any section that the user has for it,
\* as ssh uses the first value it finds (sshsetup_test.go:86,
\* TestInstallForwardPrecedesExistingHostBlock), and stands there once.
ForwardFirst ==
  \A i \in DOMAIN file : file[i].kind = "begin" =>
    \A j \in DOMAIN file :
      /\ file[j] = Mine("host", file[i].alias) => i < j
      /\ file[j] = file[i] => i = j
=============================================================================
