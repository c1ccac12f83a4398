-------------------------- MODULE FileBlocksProofs --------------------------
(***************************************************************************)
(* Proofs about FileBlocks: for files of every size, the type of the map   *)
(* and the place of its cursor, and that it implements BlockSet.           *)
(***************************************************************************)
EXTENDS FileBlocks, BlockMapLemmas

(* The inductive invariant.  TypeOK alone is inductive; CursorAtFirstHole  *)
(* needs it, since only a map with its cursor inside the file lets the     *)
(* loop of setBlock stop.                                                  *)
IInv == TypeOK /\ CursorAtFirstHole

LEMMA InitIInv == Init => IInv
<1> SUFFICES ASSUME Init PROVE IInv
  OBVIOUS
<1>1. PICK n \in Sizes : \/ blockInfo = MapWithout(n)
                         \/ blockInfo = MapWithAll(n)
                         \/ \E S \in SUBSET (0..(n - 1)) : blockInfo = MapOf(n, S)
  BY DEF Init
<1>2. n \in Nat
  BY SizesAssumption
<1>3. blockInfo \in BlockMaps /\ CursorExact(blockInfo)
  BY <1>1, <1>2, UniformMapsCorrect, MapOfCorrect
<1>4. range \in [more : BOOLEAN, start : Nat, end : Nat]
  BY DEF Init
<1>5. QED
  BY <1>3, <1>4 DEF IInv, TypeOK, CursorAtFirstHole

LEMMA NextIInv == IInv /\ [Next]_vars => IInv'
<1> SUFFICES ASSUME IInv, [Next]_vars PROVE IInv'
  OBVIOUS
<1> USE DEF IInv, TypeOK, CursorAtFirstHole
<1>1. ASSUME NEW i \in 0..blockInfo.numBlocks, setBlock(i)
      PROVE  IInv'
  BY <1>1, SetBlockCorrect DEF setBlock
<1>2. ASSUME NEW i \in 0..blockInfo.numBlocks, unsetBlock(i)
      PROVE  IInv'
  <2>1. i \in Nat
    BY DEF BlockMaps
  <2>2. QED
    BY <1>2, <2>1, UnsetBlockCorrect DEF unsetBlock
<1>3. CASE nextBlockRange
  <2>1. range' \in [more : BOOLEAN, start : Nat, end : Nat]
    BY <1>3, NextBlockRangeCorrect DEF nextBlockRange, BlockMaps
  <2>2. QED
    BY <1>3, <2>1 DEF nextBlockRange
<1>4. CASE UNCHANGED vars
  BY <1>4 DEF vars
<1>5. QED
  BY <1>1, <1>2, <1>3, <1>4 DEF Next

(* In every reachable state the map is well formed.                        *)
THEOREM TypeCorrect == Spec => []TypeOK
<1>1. IInv => TypeOK
  BY DEF IInv
<1>2. QED
  BY <1>1, InitIInv, NextIInv, PTL DEF Spec

(* In every reachable state currentBlock is the first block that is        *)
(* missing, whatever was set and unset before.                             *)
THEOREM CursorCorrect == Spec => []CursorAtFirstHole
<1>1. IInv => CursorAtFirstHole
  BY DEF IInv
<1>2. QED
  BY <1>1, InitIInv, NextIInv, PTL DEF Spec

-----------------------------------------------------------------------------
(* FileBlocks implements BlockSet.  An unsetBlock past the end is a stutter.*)

LEMMA InitBlocks == Init => Blocks!Init
<1> SUFFICES ASSUME Init PROVE Blocks!Init
  OBVIOUS
<1>1. blockInfo \in BlockMaps
  BY InitIInv DEF IInv, TypeOK
<1>2. /\ blockInfo.numBlocks \in Nat
      /\ blockInfo.blocks \in SUBSET (0..(blockInfo.numBlocks - 1))
  BY <1>1 DEF BlockMaps
<1>3. range = Blocks!NothingAsked
  BY DEF Init, Blocks!NothingAsked
<1>4. QED
  BY <1>2, <1>3 DEF Blocks!Init

LEMMA NextBlocks == IInv /\ [Next]_vars => [Blocks!Next]_Blocks!vars
<1> SUFFICES ASSUME IInv, [Next]_vars PROVE [Blocks!Next]_Blocks!vars
  OBVIOUS
<1>1. blockInfo \in BlockMaps /\ CursorExact(blockInfo)
  BY DEF IInv, TypeOK, CursorAtFirstHole
<1>2. /\ blockInfo.numBlocks \in Nat
      /\ blockInfo.currentBlock \in 0..blockInfo.numBlocks
      /\ blockInfo.blocks \in SUBSET (0..(blockInfo.numBlocks - 1))
  BY <1>1 DEF BlockMaps
<1>3. ASSUME NEW i \in 0..blockInfo.numBlocks, setBlock(i)
      PROVE  Blocks!Next
  <2>1. i \in 0..(blockInfo.numBlocks - 1)
    BY <1>3 DEF setBlock, ValidBlock
  <2>2. Blocks!Add(i)
    BY <1>1, <1>3, SetBlockCorrect DEF setBlock, Blocks!Add
  <2>3. QED
    BY <2>1, <2>2 DEF Blocks!Next
<1>4. ASSUME NEW i \in 0..blockInfo.numBlocks, unsetBlock(i)
      PROVE  [Blocks!Next]_Blocks!vars
  <2>1. i \in Nat
    BY <1>2
  <2>2. Blocks!Remove(i)
    BY <1>1, <1>4, <2>1, UnsetBlockCorrect DEF unsetBlock, Blocks!Remove
  <2>3. CASE i < blockInfo.numBlocks
    <3>1. i \in 0..(blockInfo.numBlocks - 1)
      BY <1>2, <2>3
    <3>2. QED
      BY <2>2, <3>1 DEF Blocks!Next
  <2>4. CASE ~(i < blockInfo.numBlocks)
    BY <1>4, <2>4 DEF unsetBlock, UnsetBlock, Blocks!vars
  <2>5. QED
    BY <2>3, <2>4
<1>5. CASE nextBlockRange
  <2>1. Blocks!IsFirstMissing(blockInfo.currentBlock)
    BY <1>1, <1>2 DEF CursorExact, Blocks!IsFirstMissing
  <2>2. Blocks!Ask
    BY <1>1, <1>5, <2>1, NextBlockRangeCorrect DEF nextBlockRange, Blocks!Ask
  <2>3. QED
    BY <2>2 DEF Blocks!Next
<1>6. CASE UNCHANGED vars
  BY <1>6 DEF vars, Blocks!vars
<1>7. QED
  BY <1>3, <1>4, <1>5, <1>6 DEF Next

(* For files of every size the map, its cursor included, behaves like a    *)
(* plain set of blocks that is searched anew for every range.              *)
THEOREM RefinesBlockSet == Spec => ImplementsBlockSet
  BY InitIInv, NextIInv, InitBlocks, NextBlocks, PTL
  DEF Spec, ImplementsBlockSet, Blocks!Spec

=============================================================================
