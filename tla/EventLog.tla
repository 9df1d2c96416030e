------------------------------- MODULE EventLog -------------------------------
(***************************************************************************)
(* events.jsonl, the log of pastes.  A record appends one line (O_APPEND,  *)
(* one write), then trims: it reads the file back and, if it has more than *)
(* Cap lines, rewrites it in place with the last Cap of them.  Goroutines  *)
(* of the daemon record without a lock.                                    *)
(*                                                                         *)
(* An event is its number: the n-th line ever appended.  A line that was   *)
(* appended to the emptied file is overwritten by the rewrite, which is    *)
(* longer as long as fewer than Cap lines arrive meanwhile.                *)
(***************************************************************************)
EXTENDS Integers, Sequences, FiniteSets

CONSTANTS
  Procs,    \* goroutines that record events
  Cap       \* defaultMaxEvents

VARIABLES
  log,         \* the lines of events.jsonl
  recording,   \* how far each goroutine is: "out", "appended", "trim", "emptied"
  kept,        \* the lines it will write back
  appended,    \* ghost: number of lines appended so far
  killed,      \* ghost: number of records that were cut off before their end
  overrun      \* ghost: a line met a rewrite by another goroutine or a crash

logVars == <<log, recording, kept, appended, killed, overrun>>

EventLogTypeOK ==
  /\ log \in Seq(1..appended)
  /\ recording \in [Procs -> {"out", "appended", "trim", "emptied"}]
  /\ kept \in [Procs -> Seq(1..appended)]
  /\ appended \in Nat /\ killed \in Nat /\ overrun \in BOOLEAN

EventLogInit ==
  /\ log = <<>>
  /\ recording = [p \in Procs |-> "out"] /\ kept = [p \in Procs |-> <<>>]
  /\ appended = 0 /\ killed = 0 /\ overrun = FALSE

Trimming(p) == recording[p] \in {"trim", "emptied"}
Recording == {p \in Procs : recording[p] # "out"}

FirstLines(lines) == SubSeq(lines, 1, Cap)                          \* mutant
LastLines(lines) == SubSeq(lines, Len(lines) - Cap + 1, Len(lines))

AppendEvent(p) ==
  /\ recording[p] = "out"
  /\ log' = Append(log, appended + 1)
  /\ appended' = appended + 1
  /\ recording' = [recording EXCEPT ![p] = "appended"]
  /\ overrun' = (overrun \/ \E q \in Procs : Trimming(q))
  /\ UNCHANGED <<kept, killed>>

\* trim: os.ReadFile.
ReadBack(p) ==
  /\ recording[p] = "appended"
  /\ IF Len(log) <= Cap
     THEN recording' = [recording EXCEPT ![p] = "out"] /\ UNCHANGED kept
     ELSE /\ recording' = [recording EXCEPT ![p] = "trim"]
          /\ kept' = [kept EXCEPT ![p] = LastLines(log)]
  /\ UNCHANGED <<log, appended, killed, overrun>>

\* os.WriteFile opens and empties the file, then writes.
EmptyLog(p) ==
  /\ recording[p] = "trim"
  /\ log' = <<>>
  /\ recording' = [recording EXCEPT ![p] = "emptied"]
  /\ UNCHANGED <<kept, appended, killed, overrun>>

WriteKept(p) ==
  /\ recording[p] = "emptied"
  /\ log' = kept[p]
  /\ recording' = [recording EXCEPT ![p] = "out"]
  /\ kept' = [kept EXCEPT ![p] = <<>>]
  /\ UNCHANGED <<appended, killed, overrun>>

\* The daemon dies, with the goroutines S.
EventLogCrash(S) ==
  LET cut == S \cap Recording
  IN /\ recording' = [p \in Procs |-> IF p \in S THEN "out" ELSE recording[p]]
     /\ kept' = [p \in Procs |-> IF p \in S THEN <<>> ELSE kept[p]]
     /\ killed' = killed + Cardinality(cut)
     /\ overrun' = (overrun \/ \E p \in S : recording[p] = "emptied")
     /\ UNCHANGED <<log, appended>>

-----------------------------------------------------------------------------
(* Property                                                                *)

\* The log is the newest events in order, at least Cap of them if there were
\* as many, and no more than Cap and one for each record under way or cut off.
\* Only lines that meet a rewrite by another goroutine, or a crash in one,
\* are exempt, and while a rewrite is under way the file may be empty.
LogKept ==
  ~overrun =>
    /\ \/ \E p \in Procs : recording[p] = "emptied"
       \/ /\ \A i \in DOMAIN log : log[i] = appended - Len(log) + i
          /\ Len(log) >= (IF appended < Cap THEN appended ELSE Cap)
    /\ Len(log) <= Cap + killed + Cardinality(Recording)

-----------------------------------------------------------------------------
(* The inductive invariant behind LogKept (proved in LocalFilesProofs)       *)

EventLogShape ==
  /\ log \in Seq(Nat \ {0}) /\ appended \in Nat /\ killed \in Nat
  /\ recording \in [Procs -> {"out", "appended", "trim", "emptied"}]
  /\ kept \in [Procs -> Seq(Nat \ {0})]

\* The events of a list are the last ones appended.
Newest(lines) == \A n \in DOMAIN lines : lines[n] = appended - Len(lines) + n

\* Goroutines that trim at the same time write the same lines.
SameLines ==
  /\ Newest(log)
  /\ (\E p \in Procs : recording[p] = "emptied")
       \/ Len(log) >= (IF appended < Cap THEN appended ELSE Cap)
  /\ \A p \in Procs : Trimming(p) =>
       Newest(kept[p]) /\ Len(kept[p]) = Cap /\ appended > Cap

EventLogInv ==
  /\ EventLogShape
  /\ Len(log) <= Cap + killed + Cardinality(Recording)
  /\ \A p \in Procs : Trimming(p) => Len(kept[p]) <= Cap
  /\ ~overrun => SameLines

=============================================================================
