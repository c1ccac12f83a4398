----------------------------- MODULE FileBlocks -----------------------------
(***************************************************************************)
(* The life of the BlockMap of one File: built by a constructor, then      *)
(* changed by setBlock (a download finished) and unsetBlock (an eviction)  *)
(* and asked for ranges by nextBlockRange.                                 *)
(***************************************************************************)
EXTENDS BlockMap

CONSTANT Sizes          \* the numbers of blocks a file can have

ASSUME SizesAssumption == Sizes \subseteq Nat

VARIABLES
  blockInfo,            \* the map, File::blockInfo
  range                 \* what nextBlockRange last returned

vars == <<blockInfo, range>>

Init ==
  /\ \E n \in Sizes :
       \/ blockInfo = MapWithout(n)
       \/ blockInfo = MapWithAll(n)
       \/ \E S \in SUBSET (0..(n - 1)) : blockInfo = MapOf(n, S)
  /\ range = [more |-> FALSE, start |-> 0, end |-> 0]

setBlock(i) ==
  /\ ValidBlock(blockInfo, i)
  /\ blockInfo' = SetBlock(blockInfo, i)
  /\ UNCHANGED range

\* Also called with numbers past the end, which it ignores.
unsetBlock(i) ==
  /\ blockInfo' = UnsetBlock(blockInfo, i)
  /\ UNCHANGED range

nextBlockRange ==
  /\ range' = NextBlockRange(blockInfo)
  /\ UNCHANGED blockInfo

Next ==
  \/ \E i \in 0..blockInfo.numBlocks : setBlock(i) \/ unsetBlock(i)
  \/ nextBlockRange

Spec == Init /\ [][Next]_vars

-----------------------------------------------------------------------------
\* Type invariant: the map is one of the values a BlockMap object can have.
TypeOK ==
  /\ blockInfo \in BlockMaps
  /\ range \in [more : BOOLEAN, start : Nat, end : Nat]

\* The cursor of the map, kept up to date piecemeal by setBlock and
\* unsetBlock, is exactly the first block that is missing: every block before
\* it is there (handleCache unlinks those) and the block at it is not.
CursorAtFirstHole == CursorExact(blockInfo)

\* The map implements a plain set of blocks whose ranges are found by
\* searching the set: no answer depends on the history of the cursor.
Blocks == INSTANCE BlockSet WITH
            MaxRange <- RANGE_LEN,
            size     <- blockInfo.numBlocks,
            held     <- blockInfo.blocks,
            range    <- range

ImplementsBlockSet == Blocks!Spec

=============================================================================
