---------------------------- MODULE SessionBindings ----------------------------
(***************************************************************************)
(* What the daemon promises of the sessions bound to machines, without     *)
(* goroutines, locks, snapshots and rows: a registration that was          *)
(* confirmed is on disk, memory is never behind the disk, and both lose    *)
(* only what was dropped on purpose.  SessionStore implements it.          *)
(*                                                                         *)
(* A registration of a session is its number; 0 stands for none.           *)
(***************************************************************************)
EXTENDS Integers

CONSTANT Keys   \* sessions

VARIABLES
  running,    \* the daemon is up
  bound,      \* the registration of each session in memory
  saved,      \* and on disk
  promised,   \* the newest one that was confirmed
  dropped     \* those dropped on purpose

bindingsVars == <<running, bound, saved, promised, dropped>>

\* Registration n of the session k stands for the registration c or a newer
\* one, unless c, or a newer one, was dropped.
Stands(gone, n, c) == n >= c \/ \E d \in gone : d >= c

\* A table loses only what is dropped.
Keeps(new, old) == \A k \in Keys : new[k] = old[k] \/ (new[k] = 0 /\ old[k] \in dropped'[k])
DropsMore == \A k \in Keys : dropped[k] \subseteq dropped'[k]

Init ==
  /\ ~running
  /\ bound = [k \in Keys |-> 0] /\ saved = [k \in Keys |-> 0]
  /\ promised = [k \in Keys |-> 0]
  /\ dropped = [k \in Keys |-> {}]

\* A session is bound anew.
Bind(k) ==
  /\ running
  /\ \A n \in {bound[k], saved[k], promised[k]} : bound'[k] > n
  /\ \A j \in Keys : j # k => bound'[j] = bound[j]
  /\ UNCHANGED <<running, saved, promised, dropped>>

\* Bindings expire, or their machine is gone.
GiveUp ==
  /\ running
  /\ Keeps(bound', bound) /\ DropsMore
  /\ UNCHANGED <<running, saved, promised>>

\* A save leaves nothing older on disk than it found there or than was
\* promised, and nothing newer than memory.
Save ==
  /\ running
  /\ \A k \in Keys : /\ Stands(dropped[k], saved'[k], saved[k])
                     /\ Stands(dropped[k], saved'[k], promised[k])
                     /\ Stands(dropped[k], bound[k], saved'[k])
  /\ UNCHANGED <<running, bound, promised, dropped>>

\* A registration is confirmed once it is on disk.
Confirm(k) ==
  /\ running
  /\ promised'[k] > promised[k]
  /\ Stands(dropped[k], saved[k], promised'[k])
  /\ Stands(dropped[k], bound[k], promised'[k])
  /\ \A j \in Keys : j # k => promised'[j] = promised[j]
  /\ UNCHANGED <<running, bound, saved, dropped>>

\* The daemon stops or dies, and starts with what the disk holds.
Stop ==
  /\ running /\ ~running'
  /\ bound' = [k \in Keys |-> 0]
  /\ UNCHANGED <<saved, promised, dropped>>

Restart ==
  /\ ~running /\ running'
  /\ DropsMore /\ Keeps(saved', saved) /\ Keeps(bound', saved)
  /\ UNCHANGED promised

Next ==
  \/ \E k \in Keys : Bind(k) \/ Confirm(k)
  \/ GiveUp \/ Save \/ Stop \/ Restart

Spec == Init /\ [][Next]_bindingsVars

=============================================================================
