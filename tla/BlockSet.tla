------------------------------ MODULE BlockSet ------------------------------
(***************************************************************************)
(* What a BlockMap promises its users: a set of block numbers to which     *)
(* blocks are added and from which they are taken, and, on request, a      *)
(* range to fetch next.  There is no cursor here: a range starts at the    *)
(* first block that is missing, found by looking at the set.               *)
(***************************************************************************)
EXTENDS Integers

CONSTANT MaxRange    \* a range has at most this many blocks after its first

VARIABLES
  size,              \* number of blocks of the file
  held,              \* the blocks the cache has
  range              \* the last answer, [more, start, end]

vars == <<size, held, range>>

\* The first block that is missing, or size.
IsFirstMissing(i) ==
  /\ i \in 0..size
  /\ i = size \/ i \notin held
  /\ \A j \in 0..(i - 1) : j \in held

NothingAsked == [more |-> FALSE, start |-> 0, end |-> 0]

Init ==
  /\ size \in Nat
  /\ held \in SUBSET (0..(size - 1))
  /\ range = NothingAsked

Add(i) ==
  /\ held' = held \cup {i}
  /\ UNCHANGED <<size, range>>

Remove(i) ==
  /\ held' = held \ {i}
  /\ UNCHANGED <<size, range>>

\* A non-empty answer begins with the first missing block and stays inside
\* the file; an empty one is only given when nothing is missing.
Ask ==
  /\ range' \in [more : BOOLEAN, start : 0..size, end : 0..size]
  /\ IsFirstMissing(range'.start)
  /\ range'.more <=> range'.start < size
  /\ range'.more => range'.end < size
  /\ range'.end \in range'.start..(range'.start + MaxRange)
  /\ UNCHANGED <<size, held>>

Next ==
  \/ \E i \in 0..(size - 1) : Add(i) \/ Remove(i)
  \/ Ask

Spec == Init /\ [][Next]_vars

=============================================================================
