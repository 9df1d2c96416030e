------------------------------ MODULE LocalToken ------------------------------
(***************************************************************************)
(* The token file: the secret the daemon's HTTP endpoint asks for and that *)
(* setup installs on remote machines.  Whoever finds no file creates one;  *)
(* nobody holds a lock.                                                    *)
(***************************************************************************)
EXTENDS FileContents

CONSTANTS
  Procs,      \* processes that use the token
  Drawn,      \* the token each process would draw, a function on Procs
  EmptyToken, \* what TrimSpace makes of an empty file
  NoToken     \* none yet

Tokens == {Drawn[p] : p \in Procs}

VARIABLES
  tokenFile,   \* content of the token file
  creating,    \* how far each process is: "out", "absent", "opened"
  held,        \* the token LoadOrCreate returned to it
  collided     \* ghost: a creation was met by another process, or cut off

tokenVars == <<tokenFile, creating, held, collided>>

LocalTokenTypeOK ==
  /\ Holds(tokenFile, Tokens) /\ tokenFile # Torn
  /\ creating \in [Procs -> {"out", "absent", "opened"}]
  /\ held \in [Procs -> Tokens \cup {EmptyToken, NoToken}]
  /\ collided \in BOOLEAN

LocalTokenInit ==
  /\ tokenFile = Missing
  /\ creating = [p \in Procs |-> "out"]
  /\ held = [p \in Procs |-> NoToken]
  /\ collided = FALSE

BeingCreated == \E p \in Procs : creating[p] # "out"

\* LoadOrCreate finds the file, whatever is in it.
LoadToken(p) ==
  /\ creating[p] = "out" /\ tokenFile # Missing
  /\ held' = [held EXCEPT ![p] = IF IsWhole(tokenFile) THEN tokenFile.data ELSE EmptyToken]
  /\ collided' = (collided \/ BeingCreated)
  /\ UNCHANGED <<tokenFile, creating>>

\* Mutant: a token is drawn whether there is one or not.
DrawAnyway(p) ==
  /\ creating[p] = "out"
  /\ creating' = [creating EXCEPT ![p] = "absent"]
  /\ collided' = (collided \/ BeingCreated)
  /\ UNCHANGED <<tokenFile, held>>

\* It finds none, and draws a token.
NoTokenFile(p) ==
  /\ creating[p] = "out" /\ tokenFile = Missing
  /\ creating' = [creating EXCEPT ![p] = "absent"]
  /\ collided' = (collided \/ BeingCreated)
  /\ UNCHANGED <<tokenFile, held>>

\* os.WriteFile: open, write, close.  All tokens have the same length.
OpenToken(p) ==
  /\ creating[p] = "absent"
  /\ tokenFile' = Empty
  /\ creating' = [creating EXCEPT ![p] = "opened"]
  /\ UNCHANGED <<held, collided>>

WriteToken(p) ==
  /\ creating[p] = "opened"
  /\ tokenFile' = Whole(Drawn[p])
  /\ held' = [held EXCEPT ![p] = Drawn[p]]
  /\ creating' = [creating EXCEPT ![p] = "out"]
  /\ UNCHANGED collided

\* The disk is full: the file stays empty, and the process ends.
WriteTokenFails(p) ==
  /\ creating[p] = "opened"
  /\ creating' = [creating EXCEPT ![p] = "out"]
  /\ collided' = TRUE
  /\ UNCHANGED <<tokenFile, held>>

TokenCrash(S) ==
  /\ creating' = [p \in Procs |-> IF p \in S THEN "out" ELSE creating[p]]
  /\ held' = [p \in Procs |-> IF p \in S THEN NoToken ELSE held[p]]
  /\ collided' = (collided \/ \E p \in S : creating[p] = "opened")
  /\ UNCHANGED tokenFile

-----------------------------------------------------------------------------
(* The inductive invariant behind ShimsAuthorized (proved in LocalFilesProofs) *)

TokenShape ==
  /\ creating \in [Procs -> {"out", "absent", "opened"}]
  /\ held = [p \in Procs |-> held[p]]

\* One process at a time creates the token, and nobody has one before.
OneCreator ==
  /\ \A p, q \in Procs : creating[p] # "out" /\ creating[q] # "out" => p = q
  /\ tokenFile = Missing \/ (\E p \in Procs : creating[p] = "opened")
       \/ (tokenFile = Whole(tokenFile.data) /\ tokenFile.data \in Tokens)
  /\ \A p \in Procs : creating[p] = "absent" => tokenFile = Missing
  /\ \A p \in Procs : creating[p] = "opened" => tokenFile = Empty
  /\ \A p \in Procs : held[p] # NoToken => tokenFile = Whole(held[p])

TokenInv == TokenShape /\ (~collided => OneCreator)

=============================================================================
