---------------------------- MODULE MCBlockCache ----------------------------
(***************************************************************************)
(* Instances of BlockCache for TLC: blocks of 100 bytes, video vidA of 150 *)
(* and video vidB of 250, which have 2 and 3 blocks.                       *)
(***************************************************************************)
EXTENDS BlockCache

CONSTANTS vidA, vidB

MCFileSize == [n \in Name |-> IF n = vidA THEN 150 ELSE 250]

NoOffset  == {0}
\* The second is inside every block but the last ones, which have 50 bytes.
AnyOffset == {0, 60}

\* What the tracker may say: nobody has anything, or a peer has the blocks of vidA.
NoPeers    == {{}}
PeerHasAll == {{<<vidA, 0>>, <<vidA, 1>>}}
SomePeers  == NoPeers \cup PeerHasAll

=============================================================================
