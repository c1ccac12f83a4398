--------------------------- MODULE BlockMapLemmas ---------------------------
(***************************************************************************)
(* What the operations of BlockMap return and preserve, proved for maps    *)
(* of every length, and what sums over finite sets do.  The proofs about   *)
(* the modules that keep BlockMaps cite these lemmas instead of expanding  *)
(* the operators.                                                          *)
(***************************************************************************)
EXTENDS BlockMap, Functions, FiniteSetTheorems, WellFoundedInduction, TLAPS

(* The library's relation < on Nat is well founded, so a set of numbers    *)
(* that is not empty has a least element.                                  *)
LEMMA LeastNumber ==
  ASSUME NEW S \in SUBSET Nat, S # {}
  PROVE  \E m \in S : \A k \in S : m <= k
<1> DEFINE R == OpToRel(<, Nat)
<1>1. IsWellFoundedOn(R, Nat)
  BY NatLessThanWellFounded
<1>2. \A j, k \in Nat : <<j, k>> \in R <=> j < k
  BY DEF OpToRel
<1> HIDE DEF R
<1>3. PICK m \in S : \A k \in S : ~(<<k, m>> \in R)
  BY <1>1, WFMin
<1>4. ASSUME NEW k \in S PROVE m <= k
  <2>1. k \in Nat /\ m \in Nat
    OBVIOUS
  <2>2. ~(k < m)
    BY <1>2, <1>3, <2>1
  <2>3. QED
    BY <2>1, <2>2
<1>5. QED
  BY <1>4

(* The loop that moves the cursor stops, at a block that is missing or at  *)
(* the end, and every block it passed is there.                            *)
LEMMA FirstHoleFound ==
  ASSUME NEW n \in Nat, NEW S, NEW from \in 0..n
  PROVE  /\ FirstHole(n, S, from) \in from..n
         /\ FirstHole(n, S, from) = n \/ FirstHole(n, S, from) \notin S
         /\ \A j \in from..(FirstHole(n, S, from) - 1) : j \in S
<1> DEFINE Stops(i) == /\ i = n \/ i \notin S
                       /\ \A j \in from..(i - 1) : j \in S
           Holes == {i \in from..n : i = n \/ i \notin S}
<1>1. Holes \in SUBSET Nat /\ n \in Holes
  OBVIOUS
<1>2. PICK m \in Holes : \A k \in Holes : m <= k
  BY <1>1, LeastNumber
<1>3. Stops(m)
  <2>1. ASSUME NEW j \in from..(m - 1) PROVE j \in S
    <3>1. j \in from..n /\ ~(m <= j)
      BY <1>2
    <3>2. QED
      BY <1>2, <3>1
  <2>2. QED
    BY <1>2, <2>1
<1>4. \E i \in from..n : Stops(i)
  BY <1>2, <1>3
<1>5. QED
  BY <1>4 DEF FirstHole

(* A constructor given the vector of blocks puts the cursor where it       *)
(* belongs, and so do the two that fill the map with one value.            *)
LEMMA MapOfCorrect ==
  ASSUME NEW n \in Nat, NEW S \in SUBSET (0..(n - 1))
  PROVE  /\ MapOf(n, S) \in BlockMaps
         /\ CursorExact(MapOf(n, S))
  BY FirstHoleFound DEF MapOf, BlockMaps, CursorExact

LEMMA UniformMapsCorrect ==
  ASSUME NEW n \in Nat
  PROVE  /\ MapWithout(n) \in BlockMaps /\ CursorExact(MapWithout(n))
         /\ MapWithAll(n) \in BlockMaps /\ CursorExact(MapWithAll(n))
  BY DEF MapWithout, MapWithAll, BlockMaps, CursorExact

(* setBlock adds the one block and keeps the cursor exact.                 *)
LEMMA SetBlockCorrect ==
  ASSUME NEW b \in BlockMaps, NEW i, ValidBlock(b, i)
  PROVE  /\ SetBlock(b, i) \in BlockMaps
         /\ SetBlock(b, i).numBlocks = b.numBlocks
         /\ SetBlock(b, i).blocks = b.blocks \cup {i}
         /\ CursorExact(b) => CursorExact(SetBlock(b, i))
<1> DEFINE held == b.blocks \cup {i}
           hole == FirstHole(b.numBlocks, held, b.currentBlock)
           c == SetBlock(b, i)
<1>1. /\ b.numBlocks \in Nat
      /\ b.currentBlock \in 0..b.numBlocks
      /\ b.blocks \in SUBSET (0..(b.numBlocks - 1))
      /\ i \in 0..(b.numBlocks - 1)
  BY DEF BlockMaps, ValidBlock
<1>2. /\ hole \in b.currentBlock..b.numBlocks
      /\ hole = b.numBlocks \/ hole \notin held
      /\ \A j \in b.currentBlock..(hole - 1) : j \in held
  BY <1>1, FirstHoleFound
<1> HIDE DEF hole
<1>3. c = [numBlocks |-> b.numBlocks,
           currentBlock |-> IF b.currentBlock = i THEN hole ELSE b.currentBlock,
           blocks |-> held]
  <2>1. b = [numBlocks |-> b.numBlocks, currentBlock |-> b.currentBlock,
             blocks |-> b.blocks]
    BY DEF BlockMaps
  <2>2. c = [b EXCEPT !.blocks = held,
                      !.currentBlock = IF b.currentBlock = i
                                       THEN hole ELSE b.currentBlock]
    BY DEF SetBlock, hole
  <2>3. QED
    BY <2>1, <2>2
<1>4. c \in BlockMaps
  BY <1>1, <1>2, <1>3 DEF BlockMaps
<1>5. ASSUME CursorExact(b) PROVE CursorExact(c)
  <2>1. ASSUME NEW j \in 0..(c.currentBlock - 1) PROVE j \in held
    <3>1. \A k \in 0..(b.currentBlock - 1) : k \in held
      BY <1>5 DEF CursorExact
    <3>2. QED
      BY <1>1, <1>2, <1>3, <2>1, <3>1
  <2>2. ASSUME c.currentBlock < c.numBlocks PROVE c.currentBlock \notin held
    BY <1>1, <1>2, <1>3, <1>5, <2>2 DEF CursorExact
  <2>3. QED
    BY <1>3, <2>1, <2>2 DEF CursorExact
<1>6. QED
  BY <1>3, <1>4, <1>5

(* unsetBlock takes the one block away and keeps the cursor exact.         *)
LEMMA UnsetBlockCorrect ==
  ASSUME NEW b \in BlockMaps, NEW i \in Nat
  PROVE  /\ UnsetBlock(b, i) \in BlockMaps
         /\ UnsetBlock(b, i).numBlocks = b.numBlocks
         /\ UnsetBlock(b, i).blocks = b.blocks \ {i}
         /\ CursorExact(b) => CursorExact(UnsetBlock(b, i))
<1> DEFINE c == UnsetBlock(b, i)
<1>1. /\ b.numBlocks \in Nat
      /\ b.currentBlock \in 0..b.numBlocks
      /\ b.blocks \in SUBSET (0..(b.numBlocks - 1))
      /\ b = [numBlocks |-> b.numBlocks, currentBlock |-> b.currentBlock,
              blocks |-> b.blocks]
  BY DEF BlockMaps
<1>2. CASE i < b.numBlocks
  <2>1. c = [numBlocks |-> b.numBlocks,
             currentBlock |-> IF i < b.currentBlock THEN i ELSE b.currentBlock,
             blocks |-> b.blocks \ {i}]
    BY <1>2 DEF UnsetBlock, BlockMaps
  <2>2. c \in BlockMaps
    BY <1>1, <2>1 DEF BlockMaps
  <2>3. CursorExact(b) => CursorExact(c)
    BY <1>1, <2>1 DEF CursorExact
  <2>4. QED
    BY <2>1, <2>2, <2>3
<1>3. CASE ~(i < b.numBlocks)
  BY <1>1, <1>3 DEF UnsetBlock
<1>4. QED
  BY <1>2, <1>3

(* A range begins at the cursor, ends inside the file and has at most      *)
(* RANGE_LEN blocks after the first.                                       *)
LEMMA NextBlockRangeCorrect ==
  ASSUME NEW b \in BlockMaps
  PROVE  /\ NextBlockRange(b) \in
              [more : BOOLEAN, start : 0..b.numBlocks, end : 0..b.numBlocks]
         /\ NextBlockRange(b).start = b.currentBlock
         /\ NextBlockRange(b).more <=> b.currentBlock < b.numBlocks
         /\ NextBlockRange(b).more => NextBlockRange(b).end < b.numBlocks
         /\ NextBlockRange(b).end \in b.currentBlock..(b.currentBlock + RANGE_LEN)
<1> DEFINE r == NextBlockRange(b)
           more == b.currentBlock < b.numBlocks
           growth == RangeGrowth(b.numBlocks, b.currentBlock)
<1>1. /\ b.numBlocks \in Nat
      /\ b.currentBlock \in 0..b.numBlocks
  BY DEF BlockMaps
<1>2. more =>
        /\ growth \in 0..RANGE_LEN
        /\ b.currentBlock + growth < b.numBlocks
  BY <1>1 DEF RangeGrowth, RANGE_LEN
<1> HIDE DEF growth
<1>3. r = [more  |-> more,
           start |-> b.currentBlock,
           end   |-> IF more THEN b.currentBlock + growth ELSE b.currentBlock]
  BY DEF NextBlockRange, growth
<1>0. more \in BOOLEAN
  OBVIOUS
<1> HIDE DEF r, more
<1>4. /\ r.more \in BOOLEAN
      /\ r.more = more
  BY <1>3, <1>0, Zenon
<1>5. /\ r.start = b.currentBlock
      /\ r.end \in b.currentBlock..(b.currentBlock + RANGE_LEN)
      /\ r.end \in 0..b.numBlocks
      /\ more => r.end < b.numBlocks
  BY <1>1, <1>2, <1>3 DEF RANGE_LEN, more
<1>6. r \in [more : BOOLEAN, start : 0..b.numBlocks, end : 0..b.numBlocks]
  BY <1>1, <1>3, <1>4, <1>5
<1>7. QED
  BY <1>4, <1>5, <1>6 DEF r, more

-----------------------------------------------------------------------------
(* Sums over finite sets, of which the accounts of the cache are made.  The *)
(* numbers are given as a function, so that the lemmas hold for any.       *)

(* Induction over the parts of a finite set, by the smallest counterexample.*)
LEMMA SetInduction ==
  ASSUME NEW S, IsFiniteSet(S), NEW Good \in SUBSET SUBSET S,
         {} \in Good,
         \A T \in SUBSET S : T # {} /\ (\A x \in T : T \ {x} \in Good) => T \in Good
  PROVE  Good = SUBSET S
<1> SUFFICES ASSUME NEW U \in SUBSET S, U \notin Good PROVE FALSE
  OBVIOUS
<1> DEFINE Bad == { T \in SUBSET S : T \notin Good }
           Sizes == { Cardinality(T) : T \in Bad }
<1>1. \A T \in SUBSET S : IsFiniteSet(T) /\ Cardinality(T) \in Nat
  BY FS_Subset, FS_CardinalityType
<1>2. Sizes \in SUBSET Nat /\ Sizes # {}
  BY <1>1
<1>3. PICK m \in Sizes : \A k \in Sizes : m <= k
  BY <1>2, LeastNumber
<1>4. PICK T \in Bad : Cardinality(T) = m
  BY <1>3
<1>5. PICK x \in T : T \ {x} \notin Good
  BY <1>4
<1>6. Cardinality(T \ {x}) = Cardinality(T) - 1
  BY <1>1, <1>4, FS_RemoveElement
<1>7. T \ {x} \in SUBSET S /\ T \in SUBSET S
  BY <1>4
<1>8. T \ {x} \in Bad
  BY <1>5, <1>7
<1>9. Cardinality(T \ {x}) \in Sizes
  BY <1>8
<1>10. m <= Cardinality(T \ {x})
  BY <1>3, <1>9
<1>11. m \in Nat /\ Cardinality(T \ {x}) = m - 1
  BY <1>1, <1>4, <1>6, <1>7
<1>12. QED
  BY <1>10, <1>11

(* An h that gives every part of S its sum, whichever element is taken     *)
(* first.                                                                  *)
Additive(h, f, S) ==
  /\ h \in [SUBSET S -> Int]
  /\ h[{}] = 0
  /\ \A T \in SUBSET S : \A x \in T : h[T] = f[x] + h[T \ {x}]

LEMMA AdditiveExists ==
  ASSUME NEW S, IsFiniteSet(S), NEW f, \A x \in S : f[x] \in Int
  PROVE  \E h : Additive(h, f, S)
<1> DEFINE Good == { T \in SUBSET S : \E h : Additive(h, f, T) }
<1>1. {} \in Good
  <2>1. Additive([T \in SUBSET {} |-> 0], f, {})
    BY DEF Additive
  <2>2. QED
    BY <2>1
<1>2. ASSUME NEW T \in SUBSET S, T # {}, \A x \in T : T \ {x} \in Good
      PROVE  T \in Good
  <2>1. PICK z \in T : TRUE
    BY <1>2
  <2> DEFINE R == T \ {z}
  <2>2. PICK h : Additive(h, f, R)
    BY <1>2, <2>1
  <2> DEFINE g == [U \in SUBSET T |-> IF z \in U THEN f[z] + h[U \ {z}] ELSE h[U]]
  <2>3. f[z] \in Int /\ h \in [SUBSET R -> Int]
    BY <2>1, <2>2 DEF Additive
  <2>4. \A U \in SUBSET T : (U \ {z}) \in SUBSET R /\ (z \notin U => U \in SUBSET R)
    OBVIOUS
  <2>5. g \in [SUBSET T -> Int]
    <3>1. ASSUME NEW U \in SUBSET T
          PROVE  (IF z \in U THEN f[z] + h[U \ {z}] ELSE h[U]) \in Int
      BY <2>3, <2>4
    <3>2. QED
      BY <3>1
  <2>6. g[{}] = 0
    BY <2>2 DEF Additive
  <2>7. ASSUME NEW U \in SUBSET T, NEW x \in U
        PROVE  g[U] = f[x] + g[U \ {x}]
    <3>0. U \ {x} \in SUBSET T
      OBVIOUS
    <3>1. CASE x = z
      BY <3>0, <3>1
    <3>2. CASE x # z /\ z \in U
      <4>1. h[U \ {z}] = f[x] + h[(U \ {z}) \ {x}]
        BY <2>2, <2>4, <3>2 DEF Additive
      <4>2. (U \ {z}) \ {x} = (U \ {x}) \ {z}
        OBVIOUS
      <4>3. h[U \ {z}] = f[x] + h[(U \ {x}) \ {z}]
        BY <4>1, <4>2
      <4>4. g[U] = f[z] + h[U \ {z}] /\ g[U \ {x}] = f[z] + h[(U \ {x}) \ {z}]
        BY <3>0, <3>2
      <4>5. f[z] \in Int /\ f[x] \in Int /\ h[(U \ {x}) \ {z}] \in Int
        BY <2>3, <2>4, <3>0
      <4> HIDE DEF g
      <4> DEFINE e == h[(U \ {x}) \ {z}]
      <4> HIDE DEF e
      <4>6. g[U] = f[z] + (f[x] + e) /\ g[U \ {x}] = f[z] + e
        BY <4>3, <4>4, Zenon DEF e
      <4>7. QED
        BY <4>5, <4>6 DEF e
    <3>3. CASE z \notin U
      <4>1. h[U] = f[x] + h[U \ {x}]
        BY <2>2, <2>4, <3>3 DEF Additive
      <4>2. QED
        BY <3>0, <3>3, <4>1
    <3>4. QED
      BY <3>1, <3>2, <3>3
  <2>8. Additive(g, f, T)
    BY <2>5, <2>6, <2>7 DEF Additive
  <2>9. QED
    BY <2>8
<1>3. Good = SUBSET S
  <2> HIDE DEF Good
  <2>1. Good \in SUBSET SUBSET S
    BY DEF Good
  <2>2. QED
    BY <1>1, <1>2, <2>1, SetInduction
<1>4. S \in Good
  BY <1>3
<1>5. QED
  BY <1>4

(* The sum of the library, which takes the elements in an order of its own.*)
LEMMA SumIsAdditive ==
  ASSUME NEW S, IsFiniteSet(S), NEW f, \A x \in S : f[x] \in Int,
         NEW h, Additive(h, f, S)
  PROVE  SumFunctionOnSet(f, S) = h[S]
<1> DEFINE Solves(it) ==
             it = [T \in SUBSET S |->
                     IF T = {} THEN 0
                     ELSE f[CHOOSE x \in T : TRUE] + it[T \ {CHOOSE x \in T : TRUE}]]
           iter == CHOOSE it : Solves(it)
<1>1. SumFunctionOnSet(f, S) = iter[S]
  BY DEF SumFunctionOnSet, FoldFunctionOnSet, MapThenFoldSet
<1>2. \A T \in SUBSET S : T # {} => (CHOOSE x \in T : TRUE) \in T
  OBVIOUS
<1>3. Solves(h)
  <2>1. ASSUME NEW T \in SUBSET S
        PROVE  h[T] = IF T = {} THEN 0
                      ELSE f[CHOOSE x \in T : TRUE] + h[T \ {CHOOSE x \in T : TRUE}]
    BY <1>2 DEF Additive
  <2>2. QED
    BY <2>1 DEF Additive
<1>4. Solves(iter)
  BY <1>3
<1> HIDE DEF iter
<1> DEFINE Good == { T \in SUBSET S : iter[T] = h[T] }
<1>5. \A T \in SUBSET S :
        iter[T] = IF T = {} THEN 0
                  ELSE f[CHOOSE x \in T : TRUE] + iter[T \ {CHOOSE x \in T : TRUE}]
  BY <1>4
<1>6. {} \in Good
  BY <1>5 DEF Additive
<1>7. ASSUME NEW T \in SUBSET S, T # {}, \A x \in T : T \ {x} \in Good
      PROVE  T \in Good
  <2>1. PICK x \in T : iter[T] = f[x] + iter[T \ {x}]
    BY <1>2, <1>5, <1>7
  <2>2. iter[T \ {x}] = h[T \ {x}] /\ h[T] = f[x] + h[T \ {x}]
    BY <1>7 DEF Additive
  <2>3. QED
    BY <2>1, <2>2
<1>8. Good = SUBSET S
  <2> HIDE DEF Good
  <2>1. Good \in SUBSET SUBSET S
    BY DEF Good
  <2>2. QED
    BY <1>6, <1>7, <2>1, SetInduction
<1>9. S \in Good
  BY <1>8
<1>10. QED
  BY <1>1, <1>9

LEMMA SumOfPart ==
  ASSUME NEW S, IsFiniteSet(S), NEW f, \A x \in S : f[x] \in Int,
         NEW h, Additive(h, f, S), NEW g, NEW T \in SUBSET S, \A x \in T : g[x] = f[x]
  PROVE  SumFunctionOnSet(g, T) = h[T]
<1> DEFINE k == [U \in SUBSET T |-> h[U]]
<1>1. IsFiniteSet(T) /\ \A x \in T : g[x] \in Int
  BY FS_Subset
<1>2. Additive(k, g, T)
  <2>1. k \in [SUBSET T -> Int] /\ k[{}] = 0
    BY DEF Additive
  <2>2. ASSUME NEW U \in SUBSET T, NEW x \in U PROVE k[U] = g[x] + k[U \ {x}]
    <3>1. h[U] = f[x] + h[U \ {x}] /\ U \ {x} \in SUBSET T
      BY DEF Additive
    <3>2. QED
      BY <3>1
  <2>3. QED
    BY <2>1, <2>2 DEF Additive
<1> HIDE DEF k
<1>3. SumFunctionOnSet(g, T) = k[T]
  BY <1>1, <1>2, SumIsAdditive
<1>4. QED
  BY <1>3 DEF k

(* What the proofs use of sums.                                            *)
LEMMA SumEmpty ==
  ASSUME NEW f
  PROVE  SumFunctionOnSet(f, {}) = 0
<1>1. IsFiniteSet({})
  BY FS_EmptySet
<1>2. PICK h : Additive(h, f, {})
  BY <1>1, AdditiveExists
<1>3. SumFunctionOnSet(f, {}) = h[{}]
  BY <1>1, <1>2, SumIsAdditive
<1>4. QED
  BY <1>2, <1>3 DEF Additive

LEMMA SumType ==
  ASSUME NEW S, IsFiniteSet(S), NEW f, \A x \in S : f[x] \in Int
  PROVE  SumFunctionOnSet(f, S) \in Int
<1>1. PICK h : Additive(h, f, S)
  BY AdditiveExists
<1>2. SumFunctionOnSet(f, S) = h[S] /\ S \in SUBSET S
  BY <1>1, SumIsAdditive
<1>3. QED
  BY <1>1, <1>2 DEF Additive

LEMMA SumSame ==
  ASSUME NEW S, IsFiniteSet(S), NEW f, NEW g,
         \A x \in S : f[x] \in Int /\ g[x] = f[x]
  PROVE  SumFunctionOnSet(f, S) = SumFunctionOnSet(g, S)
<1>1. PICK h : Additive(h, f, S)
  BY AdditiveExists
<1>2. SumFunctionOnSet(f, S) = h[S] /\ SumFunctionOnSet(g, S) = h[S]
  BY <1>1, SumOfPart
<1>3. QED
  BY <1>2

LEMMA SumRemove ==
  ASSUME NEW S, IsFiniteSet(S), NEW f, \A x \in S : f[x] \in Int, NEW x \in S
  PROVE  SumFunctionOnSet(f, S) = f[x] + SumFunctionOnSet(f, S \ {x})
<1>1. PICK h : Additive(h, f, S)
  BY AdditiveExists
<1>2. SumFunctionOnSet(f, S) = h[S] /\ SumFunctionOnSet(f, S \ {x}) = h[S \ {x}]
  BY <1>1, SumOfPart
<1>3. QED
  BY <1>1, <1>2 DEF Additive

LEMMA SumAdd ==
  ASSUME NEW S, IsFiniteSet(S), NEW x, x \notin S,
         NEW f, \A y \in S \cup {x} : f[y] \in Int
  PROVE  SumFunctionOnSet(f, S \cup {x}) = f[x] + SumFunctionOnSet(f, S)
<1>1. IsFiniteSet(S \cup {x})
  BY FS_AddElement
<1>2. (S \cup {x}) \ {x} = S
  OBVIOUS
<1>3. SumFunctionOnSet(f, S \cup {x}) = f[x] + SumFunctionOnSet(f, (S \cup {x}) \ {x})
  BY <1>1, SumRemove
<1>4. QED
  BY <1>2, <1>3

LEMMA SumDifference ==
  ASSUME NEW S, IsFiniteSet(S), NEW f, \A x \in S : f[x] \in Int, NEW T \in SUBSET S
  PROVE  SumFunctionOnSet(f, S \ T) = SumFunctionOnSet(f, S) - SumFunctionOnSet(f, T)
<1>1. PICK h : Additive(h, f, S)
  BY AdditiveExists
<1>2. \A U \in SUBSET S : SumFunctionOnSet(f, U) = h[U]
  BY <1>1, SumOfPart
<1> DEFINE Good == { U \in SUBSET T : h[S \ U] = h[S] - h[U] }
<1>3. {} \in Good
  BY <1>1 DEF Additive
<1>4. ASSUME NEW U \in SUBSET T, U # {}, \A x \in U : U \ {x} \in Good
      PROVE  U \in Good
  <2>1. PICK x \in U : h[S \ (U \ {x})] = h[S] - h[U \ {x}]
    BY <1>4
  <2>2. h[U] = f[x] + h[U \ {x}]
    BY <1>1 DEF Additive
  <2>3. h[S \ (U \ {x})] = f[x] + h[S \ U]
    <3>1. S \ (U \ {x}) \in SUBSET S /\ x \in S \ (U \ {x})
          /\ (S \ (U \ {x})) \ {x} = S \ U
      OBVIOUS
    <3>2. h[S \ (U \ {x})] = f[x] + h[(S \ (U \ {x})) \ {x}]
      BY <1>1, <3>1 DEF Additive
    <3>3. QED
      BY <3>1, <3>2
  <2>4. f[x] \in Int /\ \A V \in {S, S \ U, U \ {x}} : h[V] \in Int
    BY <1>1 DEF Additive
  <2>5. QED
    BY <2>1, <2>2, <2>3, <2>4
<1>5. IsFiniteSet(T)
  BY FS_Subset
<1>6. Good = SUBSET T
  <2> HIDE DEF Good
  <2>1. Good \in SUBSET SUBSET T
    BY DEF Good
  <2>2. QED
    BY <1>3, <1>4, <1>5, <2>1, SetInduction
<1>7. T \in Good
  BY <1>6
<1>8. QED
  BY <1>2, <1>7

=============================================================================
