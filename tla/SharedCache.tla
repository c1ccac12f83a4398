---------------------------- MODULE SharedCache ----------------------------
(***************************************************************************)
(* What the block cache promises the threads that share it: a block that   *)
(* is missing is fetched by one of them at a time, never while it is       *)
(* there, and blocks leave the cache only while a block of another video   *)
(* is being fetched.  Locks, waiting and peers are not part of it.         *)
(***************************************************************************)
EXTENDS Naturals

CONSTANT Entry          \* the blocks: pairs of a video and a number

VARIABLES
  held,                 \* the blocks in the cache
  inflight              \* the blocks being fetched

TypeOK == held \subseteq Entry /\ inflight \subseteq Entry

Init == held \subseteq Entry /\ inflight = {}

Fetch(k) ==
  /\ k \notin held \cup inflight
  /\ inflight' = inflight \cup {k}
  /\ UNCHANGED held

Store(k) ==
  /\ k \in inflight
  /\ inflight' = inflight \ {k}
  /\ held' = held \cup {k}

\* To make room for a block of k's video.
Evict(k) ==
  /\ k \in inflight
  /\ held' \subseteq held
  /\ \A j \in held \ held' : j[1] # k[1]
  /\ UNCHANGED inflight

Next == \E k \in Entry : Fetch(k) \/ Store(k) \/ Evict(k)

Spec == Init /\ [][Next]_<<held, inflight>>

=============================================================================
