------------------------------ MODULE BlockMap ------------------------------
(***************************************************************************)
(* The class BlockMap of common.h: which blocks of one video file are in   *)
(* the cache, and a cursor, currentBlock, at the first block that is not.  *)
(*                                                                         *)
(* A map is a record.  The vector<bool> of the code is the set of the      *)
(* numbers whose entry is true.                                            *)
(*                                                                         *)
(* Here and in the other modules a "broken variant" is a definition with   *)
(* the mistake its comment names.  No specification uses it: it takes the  *)
(* place of the definition after it to see that a property notices.        *)
(***************************************************************************)
EXTENDS Integers

\* How far a range goes beyond its first block (#define RANGE_LEN).
RANGE_LEN == 5

\* The values a BlockMap object can have: every map of every length.
BlockMaps ==
  { b \in [numBlocks : Nat, currentBlock : Nat, blocks : SUBSET Nat] :
      /\ b.currentBlock <= b.numBlocks
      /\ \A i \in b.blocks : i < b.numBlocks }

\* The cursor is at the first block that is missing: every block before it is
\* there, and the block at it, if the file has one, is not.
CursorExact(b) ==
  /\ \A j \in 0..(b.currentBlock - 1) : j \in b.blocks
  /\ b.currentBlock < b.numBlocks => b.currentBlock \notin b.blocks

\* The loop "while (i < numBlocks && blocks[i]) i++", started at from.
FirstHole(numBlocks, blocks, from) ==
  CHOOSE i \in from..numBlocks :
    /\ i = numBlocks \/ i \notin blocks
    /\ \A j \in from..(i - 1) : j \in blocks

\* The three constructors that make a map of some length.
MapWithout(numBlocks) ==
  [numBlocks |-> numBlocks, currentBlock |-> 0, blocks |-> {}]

MapWithAll(numBlocks) ==
  [numBlocks |-> numBlocks, currentBlock |-> numBlocks,
   blocks |-> 0..(numBlocks - 1)]

MapOf(numBlocks, blocks) ==
  [numBlocks |-> numBlocks, currentBlock |-> FirstHole(numBlocks, blocks, 0),
   blocks |-> blocks]

\* Broken variant: the bound is inclusive.
ValidBlockInclusive(b, i) == i \in 0..b.numBlocks

\* The code aborts on a number that is not below numBlocks, in hasBlock and
\* in setBlock: a caller has to establish ValidBlock first.
ValidBlock(b, i) == i \in 0..(b.numBlocks - 1)

HasBlock(b, i) == i \in b.blocks

\* Only a set at the cursor moves the cursor, past every block already there.
SetBlock(b, i) ==
  LET held == b.blocks \cup {i}
  IN  [b EXCEPT !.blocks = held,
                !.currentBlock =
                   IF @ = i THEN FirstHole(b.numBlocks, held, @) ELSE @]

\* Broken variant: the cursor stays where it is.
UnsetBlockKeepCursor(b, i) ==
  IF i < b.numBlocks THEN [b EXCEPT !.blocks = @ \ {i}] ELSE b

\* Out of range is ignored here; below the cursor pulls the cursor back.
UnsetBlock(b, i) ==
  IF i < b.numBlocks
  THEN [b EXCEPT !.blocks = @ \ {i},
                 !.currentBlock = IF i < @ THEN i ELSE @]
  ELSE b

\* Broken variant: the range may reach the block after the last one.
RangeGrowthPastEnd(numBlocks, start) ==
  LET half == 1 + (numBlocks - start) \div 2
  IN  IF half < RANGE_LEN THEN half ELSE RANGE_LEN

\* How often the loop of nextBlockRange moves end: both end and i have moved
\* when "end + i < numBlocks" is tested again, so the i-th round asks for
\* start + 2 * i - 1 < numBlocks.
RangeGrowth(numBlocks, start) ==
  LET half == (numBlocks - start) \div 2
  IN  IF half < RANGE_LEN THEN half ELSE RANGE_LEN

\* What nextBlockRange returns, and the range it writes to its parameters.
NextBlockRange(b) ==
  LET start == b.currentBlock
      more  == start < b.numBlocks
  IN  [more  |-> more,
       start |-> start,
       end   |-> IF more THEN start + RangeGrowth(b.numBlocks, start)
                         ELSE start]

=============================================================================
