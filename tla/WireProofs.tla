----------------------------- MODULE WireProofs -----------------------------
(***************************************************************************)
(* Proofs about Wire: what is read is what was written.                    *)
(*                                                                         *)
(* At(data, o, x) says that the bytes x stand in data from offset o on.    *)
(* Whatever is written is put together from pieces, and CatAt takes it     *)
(* apart again: of two pieces one behind the other, the first stands at o  *)
(* and the second where the first ends.  What is read is then a matter of  *)
(* where the fields stand.  The parts of a list, whose sizes the code adds *)
(* up in a loop when it writes and again when it reads, are an induction   *)
(* over their number.                                                      *)
(***************************************************************************)
EXTENDS MCFileBlocks, FileBlocksProofs, SequenceTheorems

Byte == 0..255

\* What an int can be.
IntLimit == 2147483648

Int32 == { n \in Int : -IntLimit <= n /\ n < IntLimit }

(* An int has four bytes.                                                  *)
LEMMA Int4Type ==
  ASSUME NEW n \in Int
  PROVE  Int4(n) \in Seq(Byte) /\ Len(Int4(n)) = 4
BY SMT DEF Int4, Byte

(* The higher bytes are found by one division after another.               *)
LEMMA DivMod ==
  ASSUME NEW n \in Int
  PROVE  /\ n = 256 * (n \div 256) + (n % 256)
         /\ n \div 256 \in Int /\ n % 256 \in 0..255
         /\ n \div 65536 = (n \div 256) \div 256
         /\ n \div 16777216 = ((n \div 256) \div 256) \div 256
BY SMT

(* The bytes of an int, read with their sign, are the int.                 *)
LEMMA Int4Value ==
  ASSUME NEW n \in Int32, NEW x, x = Int4(n)
  PROVE  n = x[1] + 256 * (x[2] + 256 * (x[3] + 256 * (x[4] - (IF x[4] < 128 THEN 0 ELSE 256))))
<1>1. n \in Int
  BY DEF Int32
<1>2. PICK q \in Int : q = n \div 256
  BY <1>1, DivMod
<1>3. PICK r \in Int : r = q \div 256
  BY DivMod
<1>4. PICK s \in Int : s = r \div 256
  BY DivMod
<1>5. /\ x[1] = n % 256
      /\ x[2] = q % 256
      /\ x[3] = r % 256
      /\ x[4] = s % 256
  <2>1. /\ x[1] = n % 256
        /\ x[2] = (n \div 256) % 256
        /\ x[3] = (n \div 65536) % 256
        /\ x[4] = (n \div 16777216) % 256
    BY SMT DEF Int4
  <2>2. n \div 65536 = r
    BY <1>1, <1>2, <1>3, DivMod
  <2>3. n \div 16777216 = s
    <3>1. n \div 16777216 = ((n \div 256) \div 256) \div 256
      BY <1>1, DivMod, SMTT(30)
    <3>2. ((n \div 256) \div 256) \div 256 = s
      BY <1>2, <1>3, <1>4, Zenon
    <3>3. QED
      BY <3>1, <3>2, SMT
  <2>4. QED
    BY <1>2, <2>1, <2>2, <2>3
<1>6. PICK x1 \in 0..255, x2 \in 0..255, x3 \in 0..255 :
        x1 = n % 256 /\ x2 = q % 256 /\ x3 = r % 256
  <2>1. n % 256 \in 0..255 /\ q % 256 \in 0..255 /\ r % 256 \in 0..255
    BY <1>1, DivMod
  <2>2. QED
    BY <2>1
<1>7. n = 256 * q + x1 /\ q = 256 * r + x2 /\ r = 256 * s + x3
  <2>1. n = 256 * q + (n % 256)
    BY <1>1, <1>2, DivMod
  <2>2. q = 256 * r + (q % 256)
    BY <1>3, DivMod
  <2>3. r = 256 * s + (r % 256)
    BY <1>4, DivMod
  <2>4. QED
    BY <1>6, <2>1, <2>2, <2>3
<1>8. -128 <= s /\ s < 128
  <2>1. -2147483648 <= n /\ n < 2147483648
    BY SMT DEF Int32, IntLimit
  <2>2. -8388608 <= q /\ q < 8388608
    BY <1>1, <1>7, <2>1, SMT
  <2>3. -32768 <= r /\ r < 32768
    BY <1>7, <2>2, SMT
  <2>4. QED
    BY <1>7, <2>3, SMT
<1>9. s = x[4] - (IF x[4] < 128 THEN 0 ELSE 256)
  BY <1>5, <1>8, SMT
<1>10. n = x1 + 256 * (x2 + 256 * (x3 + 256 * s))
  BY <1>1, <1>7
<1>11. x1 = x[1] /\ x2 = x[2] /\ x3 = x[3]
  BY <1>5, <1>6
<1>12. QED
  BY <1>9, <1>10, <1>11

-----------------------------------------------------------------------------
(* The bytes x stand in data from offset o on.                             *)
At(data, o, x) ==
  /\ o + Len(x) <= Len(data)
  /\ \A k \in 1..Len(x) : data[o + k] = x[k]

(* Where an int was written it is read.                                    *)
LEMMA ReadInt ==
  ASSUME NEW data \in Seq(Byte), NEW o \in Nat, NEW n \in Int32, At(data, o, Int4(n))
  PROVE  IntAt(data, o) = n
<1> DEFINE x == Int4(n)
<1>1. n \in Int
  BY DEF Int32
<1>2. Len(x) = 4
  BY <1>1, Int4Type
<1> HIDE DEF x
<1>3. /\ data[o + 1] = x[1] /\ data[o + 2] = x[2]
      /\ data[o + 3] = x[3] /\ data[o + 4] = x[4]
  BY <1>2 DEF At, x
<1>4. n = x[1] + 256 * (x[2] + 256 * (x[3] + 256 * (x[4] - (IF x[4] < 128 THEN 0 ELSE 256))))
  BY Int4Value DEF x
<1>5. QED
  BY <1>3, <1>4 DEF IntAt

(* Two pieces stand where they do exactly if each of them does.            *)
LEMMA CatAt ==
  ASSUME NEW data \in Seq(Byte), NEW o \in Nat, NEW x \in Seq(Byte), NEW y \in Seq(Byte)
  PROVE  At(data, o, x \o y) <=> At(data, o, x) /\ At(data, o + Len(x), y)
<1>1. Len(x \o y) = Len(x) + Len(y)
  OBVIOUS
<1>2. ASSUME At(data, o, x \o y)
      PROVE  At(data, o, x) /\ At(data, o + Len(x), y)
  <2>1. \A k \in 1..Len(x) : (x \o y)[k] = x[k]
    OBVIOUS
  <2>2. \A k \in 1..Len(y) : (x \o y)[Len(x) + k] = y[k]
    OBVIOUS
  <2>3. \A k \in 1..Len(x) : data[o + k] = x[k]
    BY <1>1, <1>2, <2>1 DEF At
  <2>4. \A k \in 1..Len(y) : data[o + Len(x) + k] = y[k]
    <3> SUFFICES ASSUME NEW k \in 1..Len(y) PROVE data[o + Len(x) + k] = y[k]
      OBVIOUS
    <3>1. Len(x) + k \in 1..Len(x \o y)
      BY <1>1
    <3>2. data[o + (Len(x) + k)] = (x \o y)[Len(x) + k]
      BY <1>2, <3>1 DEF At
    <3>3. o + (Len(x) + k) = o + Len(x) + k
      OBVIOUS
    <3>4. QED
      BY <2>2, <3>2, <3>3
  <2>5. QED
    BY <1>1, <1>2, <2>3, <2>4 DEF At
<1>3. ASSUME At(data, o, x), At(data, o + Len(x), y)
      PROVE  At(data, o, x \o y)
  <2> SUFFICES ASSUME NEW k \in 1..Len(x \o y) PROVE data[o + k] = (x \o y)[k]
    BY <1>1, <1>3 DEF At
  <2>1. CASE k <= Len(x)
    BY <1>3, <2>1 DEF At
  <2>2. CASE k > Len(x)
    <3>1. k - Len(x) \in 1..Len(y)
      BY <1>1, <2>2
    <3>2. data[(o + Len(x)) + (k - Len(x))] = y[k - Len(x)]
      BY <1>3, <3>1 DEF At
    <3>3. (o + Len(x)) + (k - Len(x)) = o + k /\ (x \o y)[k] = y[k - Len(x)]
      BY <2>2
    <3>4. QED
      BY <3>2, <3>3
  <2>3. QED
    BY <2>1, <2>2
<1>4. QED
  BY <1>2, <1>3

LEMMA AllAt ==
  ASSUME NEW x \in Seq(Byte)
  PROVE  At(x, 0, x)
BY DEF At

(* Where bytes stand they are cut out.                                     *)
LEMMA SubAt ==
  ASSUME NEW data \in Seq(Byte), NEW o \in Nat, NEW x \in Seq(Byte), At(data, o, x)
  PROVE  SubSeq(data, o + 1, o + Len(x)) = x
<1>1. PICK m \in Int, n \in Int : m = o + 1 /\ n = o + Len(x)
  OBVIOUS
<1>2. PICK y : y = SubSeq(data, m, n)
  OBVIOUS
<1>3. \A k \in m..n : data[k] \in Byte
  BY <1>1 DEF At
<1>4. /\ y \in Seq(Byte)
      /\ Len(y) = IF m <= n THEN n - m + 1 ELSE 0
      /\ \A k \in 1..(n - m + 1) : y[k] = data[m + k - 1]
  BY <1>2, <1>3, SubSeqProperties
<1>5. n - m + 1 = Len(x) /\ \A k \in 1..Len(x) : m + k - 1 = o + k
  BY <1>1
<1>6. Len(y) = Len(x)
  BY <1>1, <1>4, <1>5
<1>7. \A k \in 1..Len(y) : y[k] = x[k]
  BY <1>4, <1>5, <1>6 DEF At
<1>8. y = x
  BY <1>4, <1>6, <1>7, SeqEqual
<1>9. QED
  BY <1>1, <1>2, <1>8

LEMMA ShortInt ==
  ASSUME NEW n \in Nat, n < IntLimit
  PROVE  n \in Int32
<1>1. -IntLimit <= n
  BY SMT DEF IntLimit
<1>2. QED
  BY <1>1 DEF Int32

(* Bytes with their size in front: how long that is, and that it is read.  *)
LEMMA CountedLen ==
  ASSUME NEW x \in Seq(Byte)
  PROVE  Counted(x) \in Seq(Byte) /\ Len(Counted(x)) = 4 + Len(x)
<1> DEFINE size == Int4(Len(x))
<1>1. size \in Seq(Byte) /\ Len(size) = 4
  BY Int4Type
<1> HIDE DEF size
<1>2. size \o x \in Seq(Byte) /\ Len(size \o x) = Len(size) + Len(x)
  BY <1>1, ConcatProperties
<1>3. QED
  BY <1>1, <1>2 DEF Counted, size

LEMMA ReadCounted ==
  ASSUME NEW data \in Seq(Byte), NEW o \in Nat, NEW x \in Seq(Byte), Len(x) < IntLimit,
         At(data, o, Counted(x))
  PROVE  CountedAt(data, o) = x /\ IntAt(data, o) = Len(x)
<1>1. Int4(Len(x)) \in Seq(Byte) /\ Len(Int4(Len(x))) = 4
  BY Int4Type
<1>2. At(data, o, Int4(Len(x))) /\ At(data, o + 4, x)
  BY <1>1, CatAt DEF Counted
<1>3. IntAt(data, o) = Len(x)
  BY <1>2, ReadInt, ShortInt
<1>4. SubSeq(data, (o + 4) + 1, (o + 4) + Len(x)) = x
  BY <1>2, SubAt
<1>5. (o + 4) + 1 = o + 5 /\ (o + 4) + Len(x) = o + 4 + Len(x)
  OBVIOUS
<1>6. QED
  BY <1>3, <1>4, <1>5 DEF CountedAt

-----------------------------------------------------------------------------
(* Parts that stand one behind the other: e[i] is what the first i of the  *)
(* parts S make.                                                           *)
Joins(e, S, m) ==
  e[0] = <<>> /\ \A i \in 1..m : e[i] = e[i - 1] \o S[i]

(* Induction over the numbers up to N, by the smallest counterexample.      *)
LEMMA CountUp ==
  ASSUME NEW N \in Nat, NEW Good, 0 \in Good,
         \A i \in 1..N : i - 1 \in Good => i \in Good
  PROVE  \A i \in 0..N : i \in Good
<1> SUFFICES ASSUME NEW j \in 0..N, j \notin Good PROVE FALSE
  OBVIOUS
<1> DEFINE Bad == { i \in 0..N : i \notin Good }
<1>1. Bad \in SUBSET Nat /\ Bad # {}
  OBVIOUS
<1>2. PICK m \in Bad : \A k \in Bad : m <= k
  BY <1>1, LeastNumber
<1>3. m \in 1..N /\ m - 1 \in 0..N /\ ~(m <= m - 1)
  BY <1>2
<1>4. m - 1 \notin Bad
  BY <1>2, <1>3
<1>5. QED
  BY <1>2, <1>3, <1>4

(* There is such an e, and FlattenSeq is its last value.                   *)
LEMMA JoinsExist ==
  ASSUME NEW T, NEW S \in Seq(Seq(T))
  PROVE  \E e \in [0..Len(S) -> Seq(T)] : Joins(e, S, Len(S))
<1> DEFINE Good == { m \in 0..Len(S) : \E e \in [0..m -> Seq(T)] : Joins(e, S, m) }
<1>1. 0 \in Good
  <2> DEFINE e == [i \in 0..0 |-> <<>>]
  <2>1. e \in [0..0 -> Seq(T)] /\ Joins(e, S, 0)
    BY DEF Joins
  <2> HIDE DEF e
  <2>2. QED
    BY <2>1
<1>2. ASSUME NEW m \in 1..Len(S), m - 1 \in Good
      PROVE  m \in Good
  <2>1. PICK f \in [0..(m - 1) -> Seq(T)] : Joins(f, S, m - 1)
    BY <1>2
  <2> DEFINE e == [i \in 0..m |-> IF i = m THEN f[m - 1] \o S[m] ELSE f[i]]
  <2>2. S[m] \in Seq(T) /\ f[m - 1] \in Seq(T)
    OBVIOUS
  <2>3. e \in [0..m -> Seq(T)]
    <3>1. f[m - 1] \o S[m] \in Seq(T)
      BY <2>2, ConcatProperties
    <3>2. \A i \in 0..m : i # m => f[i] \in Seq(T)
      OBVIOUS
    <3>3. QED
      BY <3>1, <3>2
  <2>4. e[0] = <<>>
    BY <2>1 DEF Joins
  <2>5. ASSUME NEW i \in 1..m PROVE e[i] = e[i - 1] \o S[i]
    <3>1. i \in 0..m /\ i - 1 \in 0..m /\ i - 1 # m
      OBVIOUS
    <3>2. CASE i = m
      <4>1. e[m] = f[m - 1] \o S[m]
        BY <3>1, <3>2
      <4>2. e[m - 1] = f[m - 1]
        BY <3>1, <3>2
      <4>3. QED
        BY <3>2, <4>1, <4>2
    <3>3. CASE i # m
      <4>1. i \in 1..(m - 1)
        BY <3>3
      <4>2. f[i] = f[i - 1] \o S[i]
        BY <2>1, <4>1 DEF Joins
      <4>3. QED
        BY <3>1, <3>3, <4>2
    <3>4. QED
      BY <3>2, <3>3
  <2> HIDE DEF e
  <2>6. Joins(e, S, m)
    BY <2>4, <2>5 DEF Joins
  <2>7. QED
    BY <2>3, <2>6
<1>3. \A i \in 0..Len(S) : i \in Good
  <2>1. Len(S) \in Nat
    OBVIOUS
  <2> HIDE DEF Good
  <2>2. QED
    BY <1>1, <1>2, <2>1, CountUp
<1>4. QED
  BY <1>3

LEMMA FlattenJoins ==
  ASSUME NEW T, NEW S \in Seq(Seq(T)), NEW e \in [0..Len(S) -> Seq(T)],
         Joins(e, S, Len(S))
  PROVE  FlattenSeq(S) = e[Len(S)]
<1> DEFINE N == Len(S)
<1>1. CASE N = 0
  <2>1. FlattenSeq(S) = S
    BY <1>1 DEF FlattenSeq
  <2>2. S = <<>>
    BY <1>1
  <2>3. QED
    BY <1>1, <2>1, <2>2 DEF Joins
<1>2. CASE N # 0
  <2> DEFINE Solves(F) ==
               F = [i \in 1..N |-> IF i = 1 THEN S[i] ELSE F[i - 1] \o S[i]]
             flat == CHOOSE F : Solves(F)
             part == [i \in 1..N |-> e[i]]
  <2>1. FlattenSeq(S) = flat[N]
    BY <1>2 DEF FlattenSeq
  <2>2. Solves(part)
    <3>1. ASSUME NEW i \in 1..N
          PROVE  part[i] = IF i = 1 THEN S[i] ELSE part[i - 1] \o S[i]
      <4>1. e[i] = e[i - 1] \o S[i] /\ S[i] \in Seq(T)
        BY DEF Joins
      <4>2. CASE i = 1
        <5>1. i - 1 = 0 /\ e[0] = <<>>
          BY <4>2 DEF Joins
        <5>2. QED
          BY <4>1, <4>2, <5>1, ConcatEmptySeq
      <4>3. CASE i # 1
        <5>1. i - 1 \in 1..N
          BY <4>3
        <5>2. QED
          BY <4>1, <4>3, <5>1
      <4>4. QED
        BY <4>2, <4>3
    <3>2. QED
      BY <3>1
  <2>3. Solves(flat)
    BY <2>2
  <2> HIDE DEF flat
  <2> DEFINE Good == { i \in 0..N : i = 0 \/ flat[i] = e[i] }
  <2>4. ASSUME NEW i \in 1..N, i - 1 \in Good
        PROVE  i \in Good
    <3>1. flat[i] = IF i = 1 THEN S[i] ELSE flat[i - 1] \o S[i]
      BY <2>3
    <3>2. part[i] = IF i = 1 THEN S[i] ELSE part[i - 1] \o S[i]
      BY <2>2
    <3>3. part[i] = e[i] /\ (i # 1 => i - 1 \in 1..N /\ part[i - 1] = e[i - 1])
      OBVIOUS
    <3>4. QED
      BY <2>4, <3>1, <3>2, <3>3
  <2>5. \A i \in 0..N : i \in Good
    <3>1. 0 \in Good /\ N \in Nat
      OBVIOUS
    <3> HIDE DEF Good
    <3>2. QED
      BY <2>4, <3>1, CountUp
  <2>6. QED
    BY <1>2, <2>1, <2>5
<1>3. QED
  BY <1>1, <1>2

(* A sum that is added up one by one is the sum over the set.              *)
LEMMA RunningSum ==
  ASSUME NEW N \in Nat, NEW len \in [0..N -> Nat], len[0] = 0,
         NEW f, \A i \in 1..N : f[i] \in Nat,
         \A i \in 1..N : len[i] = len[i - 1] + f[i]
  PROVE  len[N] = SumFunctionOnSet(f, 1..N)
<1> DEFINE Good == { i \in 0..N : len[i] = SumFunctionOnSet(f, 1..i) }
<1>1. 0 \in Good
  <2>1. 1..0 = {}
    OBVIOUS
  <2>2. SumFunctionOnSet(f, 1..0) = 0
    BY <2>1, SumEmpty
  <2>3. QED
    BY <2>2
<1>2. ASSUME NEW i \in 1..N, i - 1 \in Good
      PROVE  i \in Good
  <2>1. 1..i = 1..(i - 1) \cup {i} /\ i \notin 1..(i - 1)
    OBVIOUS
  <2>2. IsFiniteSet(1..(i - 1))
    BY FS_Interval
  <2>3. \A j \in 1..(i - 1) \cup {i} : f[j] \in Int
    OBVIOUS
  <2>4. SumFunctionOnSet(f, 1..i) = f[i] + SumFunctionOnSet(f, 1..(i - 1))
    BY <2>1, <2>2, <2>3, SumAdd
  <2>5. len[i - 1] = SumFunctionOnSet(f, 1..(i - 1)) /\ len[i] = len[i - 1] + f[i]
    BY <1>2
  <2>6. len[i - 1] \in Nat /\ f[i] \in Nat
    OBVIOUS
  <2>7. QED
    BY <2>4, <2>5, <2>6
<1>3. \A i \in 0..N : i \in Good
  <2> HIDE DEF Good
  <2>1. QED
    BY <1>1, <1>2, CountUp
<1>4. QED
  BY <1>3

(* Each part stands where those before it end.                             *)
LEMMA JoinsAt ==
  ASSUME NEW data \in Seq(Byte), NEW o \in Nat, NEW N \in Nat,
         NEW e \in [0..N -> Seq(Byte)], NEW S, \A i \in 1..N : S[i] \in Seq(Byte),
         Joins(e, S, N), At(data, o, e[N])
  PROVE  \A i \in 1..N : At(data, o + Len(e[i - 1]), S[i])
<1>1. ASSUME NEW i \in 1..N, At(data, o, e[i])
      PROVE  At(data, o, e[i - 1]) /\ At(data, o + Len(e[i - 1]), S[i])
  <2>1. e[i] = e[i - 1] \o S[i] /\ e[i - 1] \in Seq(Byte)
    <3>1. i - 1 \in 0..N
      OBVIOUS
    <3>2. QED
      BY <3>1 DEF Joins
  <2>2. QED
    BY <1>1, <2>1, CatAt
<1> DEFINE Good == { i \in 0..N : At(data, o, e[N - i]) }
<1>2. 0 \in Good
  OBVIOUS
<1>3. ASSUME NEW i \in 1..N, i - 1 \in Good
      PROVE  i \in Good
  <2>1. N - (i - 1) \in 1..N /\ N - (i - 1) - 1 = N - i
    OBVIOUS
  <2>2. At(data, o, e[N - (i - 1)])
    BY <1>3
  <2>3. At(data, o, e[N - (i - 1) - 1])
    BY <1>1, <2>1, <2>2
  <2>4. QED
    BY <2>1, <2>3
<1>4. \A i \in 0..N : i \in Good
  <2> HIDE DEF Good
  <2>1. QED
    BY <1>2, <1>3, CountUp
<1>5. ASSUME NEW i \in 1..N PROVE At(data, o, e[i])
  <2>1. N - i \in 0..N /\ N - (N - i) = i
    OBVIOUS
  <2>2. QED
    BY <1>4, <2>1
<1>6. QED
  BY <1>1, <1>5

(* Where the parts stand in data: at[i] is where the first i of them end.  *)
Places(at, data, o, S, N) ==
  /\ at[0] = o
  /\ at[N] = o + Len(FlattenSeq(S))
  /\ \A i \in 1..N : at[i] = at[i - 1] + Len(S[i])
  /\ \A i \in 1..N : At(data, at[i - 1], S[i])

LEMMA Layout ==
  ASSUME NEW data \in Seq(Byte), NEW o \in Nat, NEW N \in Nat,
         NEW S \in [1..N -> Seq(Byte)], At(data, o, FlattenSeq(S))
  PROVE  \E at \in [0..N -> Nat] : Places(at, data, o, S, N)
<1>1. S \in Seq(Seq(Byte)) /\ Len(S) = N
  OBVIOUS
<1>2. PICK e \in [0..N -> Seq(Byte)] : Joins(e, S, N)
  BY <1>1, JoinsExist
<1>3. FlattenSeq(S) = e[N]
  BY <1>1, <1>2, FlattenJoins
<1>4. \A i \in 0..N : e[i] \in Seq(Byte) /\ Len(e[i]) \in Nat
  BY LenProperties
<1>5. \A i \in 1..N : At(data, o + Len(e[i - 1]), S[i])
  BY <1>2, <1>3, JoinsAt
<1> DEFINE at == [i \in 0..N |-> o + Len(e[i])]
<1>6. \A i \in 0..N : at[i] = o + Len(e[i])
  OBVIOUS
<1>7. at \in [0..N -> Nat]
  BY <1>4
<1> HIDE DEF at
<1>8. at[0] = o
  <2>1. Len(e[0]) = 0
    BY <1>2 DEF Joins
  <2>2. QED
    BY <1>6, <2>1
<1>9. ASSUME NEW i \in 1..N
      PROVE  at[i] = at[i - 1] + Len(S[i]) /\ At(data, at[i - 1], S[i])
  <2>1. i \in 0..N /\ i - 1 \in 0..N
    OBVIOUS
  <2>2. PICK x \in Seq(Byte) : x = e[i - 1]
    BY <2>1
  <2>3. PICK y \in Seq(Byte) : y = S[i]
    OBVIOUS
  <2>4. e[i] = x \o y
    BY <1>2, <2>2, <2>3 DEF Joins
  <2>5. Len(x \o y) = Len(x) + Len(y)
    BY ConcatProperties
  <2>6. at[i] = o + (Len(x) + Len(y)) /\ at[i - 1] = o + Len(x)
    BY <1>6, <2>1, <2>2, <2>4, <2>5
  <2>7. at[i] = at[i - 1] + Len(y)
    BY <2>6
  <2>8. QED
    BY <1>5, <2>2, <2>3, <2>6, <2>7
<1>10. at[N] = o + Len(FlattenSeq(S))
  <2>1. at[N] = o + Len(e[N])
    BY <1>6
  <2>2. QED
    BY <1>3, <2>1
<1>11. Places(at, data, o, S, N)
  BY <1>8, <1>9, <1>10 DEF Places
<1>12. QED
  BY <1>7, <1>11

(* What the loop that reads them goes through.                             *)
Finds(ends, data, o, P, N) ==
  /\ ends[0] = o
  /\ \A i \in 1..N : ends[i] = ends[i - 1] + 4 + IntAt(data, ends[i - 1])
  /\ \A i \in 1..N : CountedAt(data, ends[i - 1]) = P[i]

LEMMA PartsFrom ==
  ASSUME NEW data, NEW o, NEW N \in Nat, NEW P \in [1..N -> Seq(Byte)],
         NEW ends \in [0..N -> Nat], Finds(ends, data, o, P, N)
  PROVE  PartsAt(data, o, N) = P
<1> DEFINE Solves(a) ==
             a = [i \in 0..N |-> IF i = 0 THEN o ELSE a[i - 1] + 4 + IntAt(data, a[i - 1])]
           at == CHOOSE a : Solves(a)
<1>1. PartsAt(data, o, N) = [i \in 1..N |-> CountedAt(data, at[i - 1])]
  BY DEF PartsAt
<1>2. Solves(ends)
  <2>1. ASSUME NEW i \in 0..N
        PROVE  ends[i] = IF i = 0 THEN o ELSE ends[i - 1] + 4 + IntAt(data, ends[i - 1])
    <3>1. i # 0 => i \in 1..N
      OBVIOUS
    <3>2. QED
      BY <3>1 DEF Finds
  <2>2. QED
    BY <2>1
<1>3. \A i \in 0..N :
        at[i] = IF i = 0 THEN o ELSE at[i - 1] + 4 + IntAt(data, at[i - 1])
  <2>1. Solves(at)
    BY <1>2
  <2> HIDE DEF at
  <2>2. QED
    BY <2>1
<1> HIDE DEF at
<1> DEFINE Good == { i \in 0..N : at[i] = ends[i] }
<1>4. 0 \in Good
  BY <1>3 DEF Finds
<1>5. ASSUME NEW i \in 1..N, i - 1 \in Good
      PROVE  i \in Good
  <2>1. i \in 0..N /\ i # 0
    OBVIOUS
  <2>2. at[i] = at[i - 1] + 4 + IntAt(data, at[i - 1])
    BY <1>3, <2>1
  <2>3. at[i - 1] = ends[i - 1] /\ ends[i] = ends[i - 1] + 4 + IntAt(data, ends[i - 1])
    BY <1>5 DEF Finds
  <2>4. at[i] = ends[i]
    BY <2>2, <2>3
  <2>5. QED
    BY <2>1, <2>4
<1>6. \A i \in 0..N : i \in Good
  <2> HIDE DEF Good
  <2>1. QED
    BY <1>4, <1>5, CountUp
<1>7. \A i \in 1..N : CountedAt(data, at[i - 1]) = P[i]
  BY <1>6, SMTT(30) DEF Finds
<1>8. QED
  BY <1>1, <1>7

(* The bytes of the parts are as many as the sizes of the parts add up to. *)
LEMMA FlattenLen ==
  ASSUME NEW N \in Nat, NEW S \in [1..N -> Seq(Byte)],
         NEW f, \A i \in 1..N : f[i] = Len(S[i])
  PROVE  /\ FlattenSeq(S) \in Seq(Byte)
         /\ Len(FlattenSeq(S)) = SumFunctionOnSet(f, 1..N)
<1>1. FlattenSeq(S) \in Seq(Byte)
  <2>1. S \in Seq(Seq(Byte)) /\ Len(S) = N
    OBVIOUS
  <2>2. PICK e \in [0..N -> Seq(Byte)] : Joins(e, S, N)
    BY <2>1, JoinsExist
  <2>3. FlattenSeq(S) = e[N]
    BY <2>1, <2>2, FlattenJoins
  <2>4. QED
    BY <2>3
<1>2. At(FlattenSeq(S), 0, FlattenSeq(S))
  BY <1>1, AllAt
<1>3. PICK at \in [0..N -> Nat] : Places(at, FlattenSeq(S), 0, S, N)
  BY <1>1, <1>2, Layout
<1>4. at[0] = 0 /\ at[N] = 0 + Len(FlattenSeq(S))
  BY <1>3 DEF Places
<1>5. \A i \in 1..N : f[i] \in Nat
  BY LenProperties
<1>6. \A i \in 1..N : at[i] = at[i - 1] + f[i]
  BY <1>3 DEF Places
<1>7. at[N] = SumFunctionOnSet(f, 1..N)
  BY <1>4, <1>5, <1>6, RunningSum
<1>8. QED
  BY <1>1, <1>4, <1>7

(* The loops that find the files of a client and the clients of a list.    *)
LEMMA ReadParts ==
  ASSUME NEW data \in Seq(Byte), NEW o \in Nat, NEW N \in Nat,
         NEW P \in [1..N -> Seq(Byte)], \A i \in 1..N : Len(P[i]) < IntLimit,
         NEW S \in [1..N -> Seq(Byte)], \A i \in 1..N : S[i] = Counted(P[i]),
         At(data, o, FlattenSeq(S))
  PROVE  PartsAt(data, o, N) = P
<1>1. PICK at \in [0..N -> Nat] : Places(at, data, o, S, N)
  BY Layout
<1>2. ASSUME NEW i \in 1..N
      PROVE  /\ CountedAt(data, at[i - 1]) = P[i]
             /\ at[i] = at[i - 1] + 4 + IntAt(data, at[i - 1])
  <2>1. PICK x \in Seq(Byte) : x = P[i] /\ Len(x) < IntLimit /\ S[i] = Counted(x)
    OBVIOUS
  <2>2. PICK k \in Nat : k = at[i - 1]
    OBVIOUS
  <2>3. At(data, k, Counted(x)) /\ at[i] = k + Len(Counted(x))
    BY <1>1, <2>1, <2>2 DEF Places
  <2>4. CountedAt(data, k) = x /\ IntAt(data, k) = Len(x)
    BY <2>1, <2>3, ReadCounted
  <2>5. Len(Counted(x)) = 4 + Len(x) /\ Len(x) \in Nat
    BY CountedLen
  <2>6. at[i] = k + 4 + Len(x)
    BY <2>3, <2>5
  <2>7. QED
    BY <2>1, <2>2, <2>4, <2>6
<1>3. Finds(at, data, o, P, N)
  BY <1>1, <1>2 DEF Places, Finds
<1>4. QED
  BY <1>3, PartsFrom

-----------------------------------------------------------------------------
(* What can be sent: numbers and sizes fit an int.                         *)
WireFiles ==
  { f \in [url : Seq(Byte), filesize : Int32, blocksize : Int32, blockInfo : BlockMaps] :
      SizeOfFile(f) < IntLimit }

WireClients ==
  { c \in [ip_address : Seq(Byte), port : Int32, socketfd : Int32, directory : Seq(Byte),
           files : Seq(WireFiles)] :
      Len(c.files) < IntLimit /\ SizeOfClient(c) < IntLimit }

LEMMA Int4Bytes ==
  ASSUME NEW n \in Int32
  PROVE  Int4(n) \in Seq(Byte) /\ Len(Int4(n)) = 4
BY Int4Type DEF Int32

LEMMA CatBytes ==
  ASSUME NEW x \in Seq(Byte), NEW y \in Seq(Byte)
  PROVE  x \o y \in Seq(Byte) /\ Len(x \o y) = Len(x) + Len(y)
BY ConcatProperties

(* A map that is read back is the map that was written: its vector of bits *)
(* and its cursor, which the bits alone do not tell.                       *)
LEMMA MapBytes ==
  ASSUME NEW b \in BlockMaps, b.numBlocks < IntLimit
  PROVE  /\ BlockMapBytes(b) \in Seq(Byte) /\ Len(BlockMapBytes(b)) = 8 + b.numBlocks
         /\ ReadBlockMap(BlockMapBytes(b)) = b
<1>1. PICK n \in Nat, c \in Nat, B \in SUBSET Int :
        /\ b = [numBlocks |-> n, currentBlock |-> c, blocks |-> B]
        /\ B \in SUBSET (0..(n - 1)) /\ c <= n /\ n < IntLimit
  <2>1. b.blocks \in SUBSET (0..(b.numBlocks - 1))
    BY DEF BlockMaps
  <2>2. /\ b = [numBlocks |-> b.numBlocks, currentBlock |-> b.currentBlock,
                blocks |-> b.blocks]
        /\ b.numBlocks \in Nat /\ b.currentBlock \in Nat /\ b.currentBlock <= b.numBlocks
    BY DEF BlockMaps
  <2>3. QED
    BY <2>1, <2>2
<1>2. n \in Int32 /\ c \in Int32
  <2>1. c < IntLimit
    BY <1>1, SMT DEF IntLimit
  <2>2. QED
    BY <1>1, <2>1, ShortInt
<1>3. PICK x \in Seq(Byte), y \in Seq(Byte) :
        x = Int4(n) /\ y = Int4(c) /\ Len(x) = 4 /\ Len(y) = 4
  BY <1>2, Int4Bytes
<1>4. PICK z : z = [i \in 1..n |-> IF HasBlock(b, i - 1) THEN 1 ELSE 0]
  OBVIOUS
<1>5. z \in Seq(Byte) /\ Len(z) = n /\ \A i \in 1..n : z[i] # 0 <=> i - 1 \in B
  <2>1. \A i \in 1..n : z[i] \in Byte /\ (z[i] # 0 <=> i - 1 \in B)
    BY <1>1, <1>4 DEF HasBlock, Byte
  <2>2. QED
    BY <1>4, <2>1
<1>6. BlockMapBytes(b) = (x \o y) \o z
  BY <1>1, <1>3, <1>4 DEF BlockMapBytes
<1>7. PICK u \in Seq(Byte) : u = x \o y /\ Len(u) = 8
  <2>1. PICK u : u = x \o y
    OBVIOUS
  <2>2. u \in Seq(Byte) /\ Len(u) = Len(x) + Len(y)
    BY <2>1, CatBytes
  <2>3. Len(u) = 8
    BY <1>3, <2>2
  <2>4. QED
    BY <2>1, <2>2, <2>3
<1>8. PICK data \in Seq(Byte) : data = u \o z /\ Len(data) = 8 + n
  <2>1. u \o z \in Seq(Byte) /\ Len(u \o z) = Len(u) + Len(z)
    BY <1>5, CatBytes
  <2>2. QED
    BY <1>5, <1>7, <2>1
<1>9. At(data, 0, u \o z)
  BY <1>8, AllAt
<1>10. At(data, 0, u) /\ At(data, 8, z)
  <2>1. At(data, 0, u) /\ At(data, 0 + Len(u), z)
    BY <1>5, <1>9, CatAt
  <2>2. 0 + Len(u) = 8
    BY <1>7
  <2>3. QED
    BY <2>1, <2>2
<1>11. At(data, 0, x) /\ At(data, 4, y)
  <2>1. At(data, 0, x) /\ At(data, 0 + Len(x), y)
    BY <1>7, <1>10, CatAt
  <2>2. 0 + Len(x) = 4
    BY <1>3
  <2>3. QED
    BY <2>1, <2>2
<1>12. IntAt(data, 0) = n /\ IntAt(data, 4) = c
  BY <1>2, <1>3, <1>11, ReadInt
<1>13. { i \in 0..(n - 1) : data[8 + i + 1] # 0 } = B
  <2>1. ASSUME NEW i \in 0..(n - 1)
        PROVE  data[8 + i + 1] # 0 <=> i \in B
    <3>1. i + 1 \in 1..n /\ (i + 1) - 1 = i /\ 8 + (i + 1) = 8 + i + 1
      OBVIOUS
    <3>2. data[8 + (i + 1)] = z[i + 1]
      BY <1>5, <1>10, <3>1 DEF At
    <3>3. z[i + 1] # 0 <=> (i + 1) - 1 \in B
      BY <1>5, <3>1
    <3>4. QED
      BY <3>1, <3>2, <3>3
  <2>2. QED
    BY <1>1, <2>1
<1>14. ReadBlockMap(data) = b
  BY <1>1, <1>12, <1>13 DEF ReadBlockMap
<1>15. BlockMapBytes(b) = data /\ b.numBlocks = n
  BY <1>1, <1>6, <1>7, <1>8
<1>16. QED
  BY <1>8, <1>14, <1>15

(* Four pieces one behind the other.                                       *)
LEMMA FourBytes ==
  ASSUME NEW x \in Seq(Byte), NEW y \in Seq(Byte), NEW z \in Seq(Byte), NEW w \in Seq(Byte)
  PROVE  /\ ((x \o y) \o z) \o w \in Seq(Byte)
         /\ Len(((x \o y) \o z) \o w) = Len(x) + Len(y) + Len(z) + Len(w)
<1>1. PICK u \in Seq(Byte) : u = x \o y /\ Len(u) = Len(x) + Len(y)
  BY CatBytes
<1>2. PICK v \in Seq(Byte) : v = u \o z /\ Len(v) = Len(u) + Len(z)
  BY CatBytes
<1>3. v \o w \in Seq(Byte) /\ Len(v \o w) = Len(v) + Len(w)
  BY CatBytes
<1>4. QED
  BY <1>1, <1>2, <1>3

LEMMA FourAt ==
  ASSUME NEW data \in Seq(Byte), NEW o \in Nat, NEW x \in Seq(Byte),
         NEW y \in Seq(Byte), NEW z \in Seq(Byte), NEW w \in Seq(Byte)
  PROVE  At(data, o, ((x \o y) \o z) \o w) <=>
           /\ At(data, o, x)
           /\ At(data, o + Len(x), y)
           /\ At(data, o + Len(x) + Len(y), z)
           /\ At(data, o + Len(x) + Len(y) + Len(z), w)
<1>1. /\ x \o y \in Seq(Byte) /\ Len(x \o y) = Len(x) + Len(y)
      /\ Len(x) \in Nat /\ Len(y) \in Nat /\ Len(z) \in Nat
  BY CatBytes
<1>2. PICK u \in Seq(Byte) : u = x \o y /\ Len(u) = Len(x) + Len(y)
  BY <1>1
<1>3. PICK v \in Seq(Byte) : v = u \o z /\ Len(v) = Len(u) + Len(z)
  BY CatBytes
<1>5. At(data, o, v \o w) <=> At(data, o, v) /\ At(data, o + Len(v), w)
  BY CatAt
<1>6. At(data, o, v) <=> At(data, o, u) /\ At(data, o + Len(u), z)
  BY <1>3, CatAt
<1>7. At(data, o, u) <=> At(data, o, x) /\ At(data, o + Len(x), y)
  BY <1>2, CatAt
<1>8. o + Len(u) = o + Len(x) + Len(y) /\ o + Len(v) = o + Len(x) + Len(y) + Len(z)
  BY <1>1, <1>2, <1>3
<1>9. v = (x \o y) \o z
  BY <1>2, <1>3
<1>10. QED
  BY <1>5, <1>6, <1>7, <1>8, <1>9

(* What is written of a file has the size it is said to have, and is read  *)
(* back as the file.                                                       *)
LEMMA FileWire ==
  ASSUME NEW f \in WireFiles
  PROVE  /\ FileBytes(f) \in Seq(Byte) /\ Len(FileBytes(f)) = SizeOfFile(f)
         /\ SizeOfFile(f) \in Nat
         /\ ReadFile(FileBytes(f)) = f
<1>1. PICK url \in Seq(Byte), m \in Int32, k \in Int32, b \in BlockMaps :
        f = [url |-> url, filesize |-> m, blocksize |-> k, blockInfo |-> b]
  <2>1. f = [url |-> f.url, filesize |-> f.filesize, blocksize |-> f.blocksize,
             blockInfo |-> f.blockInfo]
    BY DEF WireFiles
  <2>2. f.url \in Seq(Byte) /\ f.filesize \in Int32 /\ f.blocksize \in Int32 /\ f.blockInfo \in BlockMaps
    BY DEF WireFiles
  <2>3. QED
    BY <2>1, <2>2
<1>2. PICK l \in Nat, n \in Nat : l = Len(url) /\ n = b.numBlocks
  BY DEF BlockMaps
<1>3. SizeOfFile(f) = 4 + l + 3 * 4 + (2 * 4 + n) /\ SizeOfFile(f) < IntLimit
  BY <1>1, <1>2 DEF SizeOfFile, WireFiles
<1>4. l < IntLimit /\ n < IntLimit /\ 8 + n < IntLimit
  BY <1>2, <1>3, SMT DEF IntLimit
<1>5. PICK x \in Seq(Byte) : x = Counted(url) /\ Len(x) = 4 + l
  BY <1>2, CountedLen
<1>6. PICK y \in Seq(Byte), z \in Seq(Byte) :
        y = Int4(m) /\ z = Int4(k) /\ Len(y) = 4 /\ Len(z) = 4
  BY Int4Bytes
<1>7. PICK v \in Seq(Byte) : v = BlockMapBytes(b) /\ Len(v) = 8 + n /\ ReadBlockMap(v) = b
  BY <1>2, <1>4, MapBytes
<1>8. PICK w \in Seq(Byte) : w = Counted(v) /\ Len(w) = 4 + (8 + n)
  BY <1>7, CountedLen
<1>9. PICK data : data = ((x \o y) \o z) \o w
  OBVIOUS
<1>10. FileBytes(f) = data
  BY <1>1, <1>5, <1>6, <1>7, <1>8, <1>9 DEF FileBytes
<1>11. data \in Seq(Byte) /\ Len(data) = Len(x) + Len(y) + Len(z) + Len(w)
  BY <1>9, FourBytes
<1>12. Len(data) = SizeOfFile(f)
  <2>1. Len(data) = (4 + l) + 4 + 4 + (4 + (8 + n))
    BY <1>5, <1>6, <1>8, <1>11
  <2>2. (4 + l) + 4 + 4 + (4 + (8 + n)) = 4 + l + 3 * 4 + (2 * 4 + n)
    OBVIOUS
  <2>3. QED
    BY <1>3, <2>1, <2>2
<1>13. /\ At(data, 0, x)
       /\ At(data, 0 + Len(x), y)
       /\ At(data, 0 + Len(x) + Len(y), z)
       /\ At(data, 0 + Len(x) + Len(y) + Len(z), w)
  <2>1. At(data, 0, ((x \o y) \o z) \o w)
    BY <1>9, <1>11, AllAt
  <2>2. QED
    BY <1>11, <2>1, FourAt
<1>14. PICK o \in Nat, p \in Nat, q \in Nat :
         o = 4 + l /\ p = o + 4 /\ q = o + 8
  OBVIOUS
<1>15. At(data, o, y) /\ At(data, p, z) /\ At(data, q, w)
  <2>1. 0 + Len(x) = o /\ 0 + Len(x) + Len(y) = p /\ 0 + Len(x) + Len(y) + Len(z) = q
    BY <1>2, <1>5, <1>6, <1>14
  <2>2. QED
    BY <1>13, <2>1
<1>16. CountedAt(data, 0) = url
  BY <1>2, <1>4, <1>5, <1>11, <1>13, ReadCounted
<1>17. IntAt(data, o) = m /\ IntAt(data, p) = k
  BY <1>6, <1>11, <1>15, ReadInt
<1>18. CountedAt(data, q) = v
  BY <1>4, <1>7, <1>8, <1>11, <1>15, ReadCounted
<1>19. ReadFile(data) = [url |-> url, filesize |-> m, blocksize |-> k, blockInfo |-> b]
  BY <1>2, <1>7, <1>14, <1>16, <1>17, <1>18 DEF ReadFile
<1>20. SizeOfFile(f) \in Nat
  BY <1>2, <1>3
<1>21. ReadFile(data) = f
  BY <1>1, <1>19
<1>22. QED
  BY <1>10, <1>11, <1>12, <1>20, <1>21

(* The files of a client: P is what is written of each, S what stands in   *)
(* the message.                                                            *)
LEMMA FilesWire ==
  ASSUME NEW files \in Seq(WireFiles)
  PROVE  \E P \in [1..Len(files) -> Seq(Byte)], S \in [1..Len(files) -> Seq(Byte)] :
           /\ S = [i \in DOMAIN files |-> Counted(FileBytes(files[i]))]
           /\ \A i \in 1..Len(files) :
                /\ Len(P[i]) < IntLimit
                /\ S[i] = Counted(P[i])
                /\ ReadFile(P[i]) = files[i]
           /\ FlattenSeq(S) \in Seq(Byte)
           /\ Len(FlattenSeq(S)) = SizeOfFiles(files)
<1> DEFINE N == Len(files)
           P == [i \in 1..N |-> FileBytes(files[i])]
           S == [i \in 1..N |-> Counted(FileBytes(files[i]))]
           len == [i \in 1..N |-> 4 + SizeOfFile(files[i])]
<1>1. N \in Nat /\ DOMAIN files = 1..N
  OBVIOUS
<1>2. ASSUME NEW i \in 1..N
      PROVE  /\ FileBytes(files[i]) \in Seq(Byte)
             /\ Len(FileBytes(files[i])) < IntLimit
             /\ ReadFile(FileBytes(files[i])) = files[i]
             /\ Counted(FileBytes(files[i])) \in Seq(Byte)
             /\ Len(Counted(FileBytes(files[i]))) = 4 + SizeOfFile(files[i])
  <2>1. PICK f \in WireFiles : f = files[i]
    OBVIOUS
  <2>2. PICK x \in Seq(Byte) :
          x = FileBytes(f) /\ Len(x) = SizeOfFile(f) /\ ReadFile(x) = f
    BY FileWire
  <2>3. SizeOfFile(f) < IntLimit
    BY DEF WireFiles
  <2>4. Counted(x) \in Seq(Byte) /\ Len(Counted(x)) = 4 + Len(x)
    BY CountedLen
  <2>5. QED
    BY <2>1, <2>2, <2>3, <2>4
<1>3. P \in [1..N -> Seq(Byte)] /\ S \in [1..N -> Seq(Byte)]
  BY <1>2
<1>4. \A i \in 1..N :
        Len(P[i]) < IntLimit /\ S[i] = Counted(P[i]) /\ ReadFile(P[i]) = files[i]
  BY <1>2
<1>5. \A i \in 1..N : len[i] = Len(S[i])
  BY <1>2
<1>6. S = [i \in DOMAIN files |-> Counted(FileBytes(files[i]))]
  BY <1>1
<1>7. SizeOfFiles(files) = SumFunctionOnSet(len, 1..N)
  <2>1. len = [i \in DOMAIN files |-> 4 + SizeOfFile(files[i])] /\ DOMAIN len = 1..N
    BY <1>1
  <2>2. SizeOfFiles(files) = SumFunction(len)
    BY <2>1 DEF SizeOfFiles
  <2>3. SumFunction(len) = SumFunctionOnSet(len, DOMAIN len)
    BY DEF SumFunction
  <2>4. QED
    BY <2>1, <2>2, <2>3
<1> HIDE DEF P, S, len
<1>8. FlattenSeq(S) \in Seq(Byte) /\ Len(FlattenSeq(S)) = SumFunctionOnSet(len, 1..N)
  BY <1>1, <1>3, <1>5, FlattenLen
<1>9. QED
  BY <1>3, <1>4, <1>6, <1>7, <1>8

(* What a client writes of itself has the size it says, and whoever reads  *)
(* it has the client.                                                      *)
LEMMA ClientWire ==
  ASSUME NEW c \in WireClients
  PROVE  /\ ClientBytes(c) \in Seq(Byte) /\ Len(ClientBytes(c)) = SizeOfClient(c)
         /\ SizeOfClient(c) \in Nat
         /\ ReadClient(ClientBytes(c)) = c
<1>1. PICK ip \in Seq(Byte), port \in Int32, fd \in Int32, dir \in Seq(Byte),
          files \in Seq(WireFiles) :
        /\ c = [ip_address |-> ip, port |-> port, socketfd |-> fd, directory |-> dir,
                files |-> files]
        /\ Len(files) < IntLimit
  <2>1. c = [ip_address |-> c.ip_address, port |-> c.port, socketfd |-> c.socketfd,
             directory |-> c.directory, files |-> c.files]
    BY DEF WireClients
  <2>2. /\ c.ip_address \in Seq(Byte) /\ c.port \in Int32 /\ c.socketfd \in Int32
        /\ c.directory \in Seq(Byte) /\ c.files \in Seq(WireFiles) /\ Len(c.files) < IntLimit
    BY DEF WireClients
  <2>3. QED
    BY <2>1, <2>2
<1>2. PICK l \in Nat, d \in Nat, N \in Nat : l = Len(ip) /\ d = Len(dir) /\ N = Len(files)
  OBVIOUS
<1>3. PICK P \in [1..N -> Seq(Byte)], S \in [1..N -> Seq(Byte)] :
        /\ S = [i \in DOMAIN files |-> Counted(FileBytes(files[i]))]
        /\ \A i \in 1..N :
             /\ Len(P[i]) < IntLimit
             /\ S[i] = Counted(P[i])
             /\ ReadFile(P[i]) = files[i]
        /\ FlattenSeq(S) \in Seq(Byte)
        /\ Len(FlattenSeq(S)) = SizeOfFiles(files)
  BY <1>2, FilesWire
<1>4. PICK m \in Nat, u \in Seq(Byte) :
        u = FlattenSeq(S) /\ Len(u) = m /\ m = SizeOfFiles(files)
  <2>1. PICK u \in Seq(Byte) : u = FlattenSeq(S)
    BY <1>3
  <2>2. Len(u) \in Nat /\ Len(u) = SizeOfFiles(files)
    BY <1>3, <2>1
  <2>3. QED
    BY <2>1, <2>2
<1>5. SizeOfClient(c) = 4 + l + 2 * 4 + 4 + d + 4 + m /\ SizeOfClient(c) < IntLimit
  BY <1>1, <1>2, <1>4 DEF SizeOfClient, WireClients
<1>6. l < IntLimit /\ d < IntLimit
  BY <1>5, SMT DEF IntLimit
<1>7. PICK x \in Seq(Byte), w \in Seq(Byte) :
        x = Counted(ip) /\ Len(x) = 4 + l /\ w = Counted(dir) /\ Len(w) = 4 + d
  BY <1>2, CountedLen
<1>8. N \in Int32
  BY <1>1, <1>2, ShortInt
<1>9. PICK y \in Seq(Byte), z \in Seq(Byte), v \in Seq(Byte) :
        /\ y = Int4(port) /\ z = Int4(fd) /\ v = Int4(N)
        /\ Len(y) = 4 /\ Len(z) = 4 /\ Len(v) = 4
  BY <1>8, Int4Bytes
<1>10. PICK a : a = ((x \o y) \o z) \o w
  OBVIOUS
<1>11. a \in Seq(Byte) /\ Len(a) = Len(x) + Len(y) + Len(z) + Len(w)
  BY <1>10, FourBytes
<1>12. Len(a) = 4 + l + 4 + 4 + (4 + d)
  BY <1>7, <1>9, <1>11
<1>13. PICK b : b = a \o v
  OBVIOUS
<1>14. b \in Seq(Byte) /\ Len(b) = Len(a) + Len(v)
  BY <1>11, <1>13, CatBytes
<1>15. Len(b) = 4 + l + 4 + 4 + (4 + d) + 4
  BY <1>9, <1>12, <1>14
<1>16. PICK data : data = b \o u
  OBVIOUS
<1>17. data \in Seq(Byte) /\ Len(data) = Len(b) + Len(u)
  BY <1>14, <1>16, CatBytes
<1>18. Len(data) = SizeOfClient(c) /\ SizeOfClient(c) \in Nat
  <2>1. Len(data) = (4 + l + 4 + 4 + (4 + d) + 4) + m
    BY <1>4, <1>15, <1>17
  <2>2. (4 + l + 4 + 4 + (4 + d) + 4) + m = 4 + l + 2 * 4 + 4 + d + 4 + m
    OBVIOUS
  <2>3. QED
    BY <1>5, <2>1, <2>2
<1>19. ClientBytes(c) = data
  BY <1>1, <1>2, <1>3, <1>4, <1>7, <1>9, <1>10, <1>13, <1>16 DEF ClientBytes
<1>20. At(data, 0, b) /\ At(data, 0 + Len(b), u)
  <2>1. At(data, 0, b \o u)
    BY <1>16, <1>17, AllAt
  <2>2. QED
    BY <1>14, <1>17, <2>1, CatAt
<1>21. At(data, 0, a) /\ At(data, 0 + Len(a), v)
  BY <1>11, <1>13, <1>17, <1>20, CatAt
<1>22. /\ At(data, 0, x)
       /\ At(data, 0 + Len(x), y)
       /\ At(data, 0 + Len(x) + Len(y), z)
       /\ At(data, 0 + Len(x) + Len(y) + Len(z), w)
  BY <1>10, <1>17, <1>21, FourAt
<1>23. PICK o \in Nat, o4 \in Nat, o8 \in Nat, count \in Nat, rest \in Nat :
         /\ o = 4 + l /\ o4 = o + 4 /\ o8 = o + 8
         /\ count = o + 12 + d /\ rest = count + 4
  OBVIOUS
<1>24. /\ At(data, o, y) /\ At(data, o4, z) /\ At(data, o8, w)
       /\ At(data, count, v) /\ At(data, rest, u)
  <2>1. 0 + Len(x) = o /\ 0 + Len(x) + Len(y) = o4 /\ 0 + Len(x) + Len(y) + Len(z) = o8
    BY <1>7, <1>9, <1>23
  <2>2. 0 + Len(a) = count /\ 0 + Len(b) = rest
    BY <1>12, <1>15, <1>23
  <2>3. QED
    BY <1>20, <1>21, <1>22, <2>1, <2>2
<1>25. CountedAt(data, 0) = ip
  BY <1>2, <1>6, <1>7, <1>17, <1>22, ReadCounted
<1>26. IntAt(data, o) = port /\ IntAt(data, o4) = fd /\ IntAt(data, count) = N
  BY <1>8, <1>9, <1>17, <1>24, ReadInt
<1>27. CountedAt(data, o8) = dir
  BY <1>2, <1>6, <1>7, <1>17, <1>24, ReadCounted
<1>28. PartsAt(data, rest, N) = P
  <2>1. \A i \in 1..N : Len(P[i]) < IntLimit
    BY <1>3
  <2>2. \A i \in 1..N : S[i] = Counted(P[i])
    BY <1>3
  <2>3. At(data, rest, FlattenSeq(S))
    BY <1>4, <1>24
  <2>4. QED
    BY <1>17, <2>1, <2>2, <2>3, ReadParts
<1>29. [i \in DOMAIN P |-> ReadFile(P[i])] = files
  <2>1. DOMAIN P = 1..N /\ files = [i \in 1..N |-> files[i]]
    BY <1>2, SMTT(30)
  <2>2. \A i \in 1..N : ReadFile(P[i]) = files[i]
    BY <1>3
  <2>3. QED
    BY <2>1, <2>2
<1>30. ReadClient(data) =
         [ip_address |-> ip, port |-> port, socketfd |-> fd, directory |-> dir,
          files |-> files]
  <2>1. 4 + Len(ip) = o /\ Len(dir) = d
    BY <1>2, <1>23
  <2>2. QED
    BY <1>23, <1>25, <1>26, <1>27, <1>28, <1>29, <2>1 DEF ReadClient
<1>31. ReadClient(data) = c
  BY <1>1, <1>30
<1>32. QED
  BY <1>17, <1>18, <1>19, <1>31

-----------------------------------------------------------------------------
(* What the thread of a connection makes of a packet, whatever follows it. *)
Delivers(op, n, x, rest) ==
  Receive(((Int4(op) \o Int4(n)) \o x) \o rest) = [op |-> op, data |-> x, rest |-> rest]

LEMMA Received ==
  ASSUME NEW op \in Int32, NEW n \in Int32, NEW x \in Seq(Byte), NEW rest \in Seq(Byte),
         \/ op = TRACKER_OP_QUERY /\ Len(x) = 0
         \/ op # TRACKER_OP_QUERY /\ Len(x) = n
  PROVE  Delivers(op, n, x, rest)
<1>1. PICK i \in Seq(Byte), j \in Seq(Byte) :
        i = Int4(op) /\ j = Int4(n) /\ Len(i) = 4 /\ Len(j) = 4
  BY Int4Bytes
<1>2. PICK m \in Nat, k \in Nat : m = Len(rest) /\ k = Len(x)
  OBVIOUS
<1>3. PICK stream : stream = ((i \o j) \o x) \o rest
  OBVIOUS
<1>4. stream \in Seq(Byte) /\ Len(stream) = Len(i) + Len(j) + Len(x) + Len(rest)
  <2>1. /\ ((i \o j) \o x) \o rest \in Seq(Byte)
        /\ Len(((i \o j) \o x) \o rest) = Len(i) + Len(j) + Len(x) + Len(rest)
    BY FourBytes
  <2>2. QED
    BY <1>3, <2>1
<1>5. /\ At(stream, 0, i)
      /\ At(stream, 0 + Len(i), j)
      /\ At(stream, 0 + Len(i) + Len(j), x)
      /\ At(stream, 0 + Len(i) + Len(j) + Len(x), rest)
  <2>1. At(stream, 0, ((i \o j) \o x) \o rest)
    BY <1>3, <1>4, AllAt
  <2>2. QED
    BY <1>4, <2>1, FourAt
<1>6. /\ 0 + Len(i) = 4 /\ 0 + Len(i) + Len(j) = 8
      /\ 0 + Len(i) + Len(j) + Len(x) = 8 + k
  BY <1>1, <1>2
<1>7. IntAt(stream, 0) = op /\ IntAt(stream, 4) = n
  <2>1. At(stream, 0, Int4(op)) /\ At(stream, 4, Int4(n))
    BY <1>1, <1>5, <1>6
  <2>2. IntAt(stream, 0) = op
    BY <1>4, <2>1, ReadInt
  <2>3. IntAt(stream, 4) = n
    BY <1>4, <2>1, ReadInt, SMTT(30)
  <2>4. QED
    BY <2>2, <2>3
<1>8. SubSeq(stream, 9, 8 + k) = x
  <2>1. SubSeq(stream, 8 + 1, 8 + Len(x)) = x
    BY <1>4, <1>5, <1>6, SubAt
  <2>2. 8 + 1 = 9 /\ 8 + Len(x) = 8 + k
    BY <1>2
  <2>3. QED
    BY <2>1, <2>2
<1>9. SubSeq(stream, 9 + k, Len(stream)) = rest
  <2>1. At(stream, 8 + k, rest) /\ 8 + k \in Nat
    BY <1>5, <1>6
  <2>2. SubSeq(stream, (8 + k) + 1, (8 + k) + Len(rest)) = rest
    BY <1>4, <2>1, SubAt
  <2>3. (8 + k) + 1 = 9 + k
    OBVIOUS
  <2>4. Len(stream) = (8 + k) + Len(rest)
    BY <1>1, <1>2, <1>4
  <2>5. QED
    BY <2>2, <2>3, <2>4
<1>10. k = IF op = TRACKER_OP_QUERY THEN 0 ELSE n
  BY <1>2
<1>11. Receive(stream) = [op |-> op, data |-> x, rest |-> rest]
  BY <1>7, <1>8, <1>9, <1>10 DEF Receive
<1>12. QED
  BY <1>1, <1>3, <1>11 DEF Delivers

(* The packets that carry data.                                            *)
LEMMA PacketWire ==
  ASSUME NEW op \in Int32, op # TRACKER_OP_QUERY,
         NEW x \in Seq(Byte), Len(x) < IntLimit, NEW rest \in Seq(Byte)
  PROVE  /\ Packet(op, Len(x), x) \in Seq(Byte)
         /\ Receive(Packet(op, Len(x), x) \o rest) = [op |-> op, data |-> x, rest |-> rest]
<1>1. Len(x) \in Int32
  BY LenProperties, ShortInt
<1>2. SubSeq(x, 1, Len(x)) = x
  <2>1. SubSeq(x, 0 + 1, 0 + Len(x)) = x
    BY AllAt, SubAt
  <2>2. 0 + 1 = 1 /\ 0 + Len(x) = Len(x)
    OBVIOUS
  <2>3. QED
    BY <2>1, <2>2
<1>3. PICK i \in Seq(Byte), j \in Seq(Byte) : i = Int4(op) /\ j = Int4(Len(x))
  BY <1>1, Int4Bytes
<1>4. Packet(op, Len(x), x) = (i \o j) \o x
  BY <1>2, <1>3 DEF Packet
<1>5. (i \o j) \o x \in Seq(Byte)
  BY CatBytes
<1>6. Receive(((i \o j) \o x) \o rest) = [op |-> op, data |-> x, rest |-> rest]
  <2>1. Delivers(op, Len(x), x, rest)
    BY <1>1, Received
  <2>2. QED
    BY <1>3, <2>1 DEF Delivers
<1>7. QED
  BY <1>4, <1>5, <1>6

LEMMA Operations ==
  /\ TRACKER_OP_REGISTER \in Int32 /\ TRACKER_OP_REGISTER # TRACKER_OP_QUERY
  /\ TRACKER_OP_UPDATE \in Int32 /\ TRACKER_OP_UPDATE # TRACKER_OP_QUERY
  /\ TRACKER_OP_QUIT \in Int32 /\ TRACKER_OP_QUIT # TRACKER_OP_QUERY
  /\ CLIENT_REQ_DATA \in Int32 /\ CLIENT_REQ_DATA # TRACKER_OP_QUERY
  /\ TRACKER_OP_QUERY \in Int32 /\ 1 \in Int32
BY SMT DEF Int32, IntLimit, TRACKER_OP_REGISTER, TRACKER_OP_QUERY, TRACKER_OP_UPDATE,
           TRACKER_OP_QUIT, CLIENT_REQ_DATA

(* A query says that one byte follows and sends none; it is taken for what *)
(* it is because its size is not looked at.                                *)
LEMMA QueryWire ==
  ASSUME NEW rest \in Seq(Byte)
  PROVE  /\ queryPacket \in Seq(Byte)
         /\ Receive(queryPacket \o rest) = [op |-> TRACKER_OP_QUERY, data |-> <<>>, rest |-> rest]
<1> DEFINE op == TRACKER_OP_QUERY
<1>1. PICK i \in Seq(Byte), j \in Seq(Byte) : i = Int4(op) /\ j = Int4(1)
  BY Operations, Int4Bytes
<1>2. PICK e \in Seq(Byte) : e = <<>> /\ Len(e) = 0
  <2>1. <<>> \in Seq(Byte)
    OBVIOUS
  <2>2. Len(<<>>) = 0
    OBVIOUS
  <2>3. QED
    BY <2>1, <2>2
<1>3. i \o j \in Seq(Byte) /\ (i \o j) \o e = i \o j
  BY <1>2, CatBytes, ConcatEmptySeq
<1>4. Receive(((i \o j) \o e) \o rest) = [op |-> TRACKER_OP_QUERY, data |-> e, rest |-> rest]
  <2>1. op \in Int32 /\ 1 \in Int32 /\ op = TRACKER_OP_QUERY
    BY Operations
  <2> HIDE DEF op
  <2>2. Delivers(op, 1, e, rest)
    BY <1>2, <2>1, Received
  <2>3. QED
    BY <1>1, <2>1, <2>2 DEF Delivers
<1>5. QED
  BY <1>1, <1>2, <1>3, <1>4 DEF queryPacket

(* The request for a block of a video.                                     *)
LEMMA RequestWire ==
  ASSUME NEW url \in Seq(Byte), NEW blocknum \in Int32, SizeOfRequest(url) < IntLimit
  PROVE  LET request == Receive(requestPacket(url, blocknum))
         IN  /\ request.op = CLIENT_REQ_DATA /\ request.rest = <<>>
             /\ IntAt(request.data, 0) = blocknum
             /\ CountedAt(request.data, 4) = url
<1>1. PICK l \in Nat : l = Len(url)
  OBVIOUS
<1>2. PICK i \in Seq(Byte), x \in Seq(Byte) :
        i = Int4(blocknum) /\ Len(i) = 4 /\ x = Counted(url) /\ Len(x) = 4 + l
  BY <1>1, Int4Bytes, CountedLen
<1>3. PICK data : data = i \o x
  OBVIOUS
<1>4. data \in Seq(Byte) /\ Len(data) = Len(i) + Len(x)
  BY <1>3, CatBytes
<1>5. Len(data) = SizeOfRequest(url)
  <2>1. Len(data) = 4 + (4 + l) /\ SizeOfRequest(url) = 4 + 4 + l
    BY <1>1, <1>2, <1>4 DEF SizeOfRequest
  <2>2. QED
    BY <2>1
<1>6. l < IntLimit
  <2>1. SizeOfRequest(url) = 4 + 4 + l
    BY <1>1 DEF SizeOfRequest
  <2>2. QED
    BY <2>1, SMT DEF IntLimit
<1>7. At(data, 0, i) /\ At(data, 4, x)
  <2>1. At(data, 0, i) /\ At(data, 0 + Len(i), x)
    BY <1>3, <1>4, AllAt, CatAt
  <2>2. 0 + Len(i) = 4
    BY <1>2
  <2>3. QED
    BY <2>1, <2>2
<1>8. IntAt(data, 0) = blocknum
  BY <1>2, <1>4, <1>7, ReadInt
<1>9. CountedAt(data, 4) = url
  BY <1>1, <1>2, <1>4, <1>6, <1>7, ReadCounted
<1>10. PICK p : p = requestPacket(url, blocknum)
  OBVIOUS
<1>11. p = Packet(CLIENT_REQ_DATA, Len(data), data)
  BY <1>2, <1>3, <1>5, <1>10 DEF requestPacket
<1>12. /\ p \in Seq(Byte)
       /\ Receive(p \o <<>>) = [op |-> CLIENT_REQ_DATA, data |-> data, rest |-> <<>>]
  <2>1. <<>> \in Seq(Byte)
    OBVIOUS
  <2>2. QED
    BY <1>4, <1>5, <1>11, <2>1, Operations, PacketWire
<1>13. p \o <<>> = p
  BY <1>12, ConcatEmptySeq
<1>14. QED
  BY <1>8, <1>9, <1>10, <1>12, <1>13

(* Packets that are sent one after another.                                *)
Associative(x, y, z) == (x \o y) \o z = x \o (y \o z)

LEMMA CatAssociative ==
  ASSUME NEW x \in Seq(Byte), NEW y \in Seq(Byte), NEW z \in Seq(Byte)
  PROVE  Associative(x, y, z)
BY ConcatAssociative DEF Associative

InTurn(r, q, u, s) ==
  /\ u \o s \in Seq(Byte) /\ q \o (u \o s) \in Seq(Byte)
  /\ ((r \o q) \o u) \o s = r \o (q \o (u \o s))

LEMMA CatFour ==
  ASSUME NEW r \in Seq(Byte), NEW q \in Seq(Byte), NEW u \in Seq(Byte), NEW s \in Seq(Byte)
  PROVE  InTurn(r, q, u, s)
<1>1. PICK us \in Seq(Byte), rq \in Seq(Byte) : us = u \o s /\ rq = r \o q
  BY CatBytes
<1>2. PICK qus \in Seq(Byte) : qus = q \o us
  BY CatBytes
<1>3. Associative(rq, u, s) /\ Associative(r, q, us)
  BY CatAssociative
<1>4. QED
  BY <1>1, <1>2, <1>3 DEF InTurn, Associative

(* What the tracker's thread makes of a client it can be sent.             *)
Arrives(c) ==
  Conversation(c) =
    [ops |-> <<TRACKER_OP_REGISTER, TRACKER_OP_QUERY, TRACKER_OP_UPDATE, TRACKER_OP_QUIT>>,
     registered |-> c, updated |-> c, quit |-> c.ip_address, rest |-> <<>>]

(* Every client whose numbers and sizes fit an int gets through to the      *)
(* tracker as it is: each of its four packets is found where the one before *)
(* ends, and what is read from it is what was written.                     *)
THEOREM EveryClientArrives == \A c \in WireClients : Arrives(c)
<1> SUFFICES ASSUME NEW c \in WireClients PROVE Arrives(c)
  OBVIOUS
<1>1. PICK data \in Seq(Byte) :
        /\ data = ClientBytes(c) /\ Len(data) = SizeOfClient(c)
        /\ Len(data) < IntLimit /\ ReadClient(data) = c
  <2>1. SizeOfClient(c) < IntLimit
    BY DEF WireClients
  <2>2. QED
    BY <2>1, ClientWire
<1>2. PICK ip \in Seq(Byte) : ip = c.ip_address /\ Len(ip) + 4 < IntLimit
  <2>1. c.ip_address \in Seq(Byte) /\ c.directory \in Seq(Byte)
    BY DEF WireClients
  <2>2. PICK l \in Nat, d \in Nat : l = Len(c.ip_address) /\ d = Len(c.directory)
    BY <2>1
  <2>3. c.files \in Seq(WireFiles)
    BY DEF WireClients
  <2>4. PICK m \in Nat : m = SizeOfFiles(c.files)
    <3>1. PICK S \in [1..Len(c.files) -> Seq(Byte)] :
            FlattenSeq(S) \in Seq(Byte) /\ Len(FlattenSeq(S)) = SizeOfFiles(c.files)
      BY <2>3, FilesWire
    <3>2. QED
      BY <3>1, LenProperties
  <2>5. SizeOfClient(c) = 4 + l + 2 * 4 + 4 + d + 4 + m /\ SizeOfClient(c) < IntLimit
    BY <2>2, <2>4 DEF SizeOfClient, WireClients
  <2>6. l + 4 < IntLimit
    BY <2>5, SMT DEF IntLimit
  <2>7. QED
    BY <2>1, <2>2, <2>6
<1>3. PICK quit : quit = Counted(ip)
  OBVIOUS
<1>4. quit \in Seq(Byte) /\ Len(quit) = 4 + Len(ip) /\ Len(quit) < IntLimit
  <2>1. quit \in Seq(Byte) /\ Len(quit) = 4 + Len(ip)
    BY <1>3, CountedLen
  <2>2. QED
    BY <1>2, <2>1
<1>5. /\ registerPacket(c) = Packet(TRACKER_OP_REGISTER, Len(data), data)
      /\ updatePacket(c) = Packet(TRACKER_OP_UPDATE, Len(data), data)
      /\ quitPacket(c) = Packet(TRACKER_OP_QUIT, Len(quit), quit)
  BY <1>1, <1>2, <1>3, <1>4 DEF registerPacket, updatePacket, quitPacket
<1>6. <<>> \in Seq(Byte)
  OBVIOUS
<1>7. PICK r \in Seq(Byte) :
        /\ r = registerPacket(c)
        /\ \A x \in Seq(Byte) :
             Receive(r \o x) = [op |-> TRACKER_OP_REGISTER, data |-> data, rest |-> x]
  BY <1>1, <1>5, <1>6, Operations, PacketWire
<1>8. PICK q \in Seq(Byte) :
        /\ q = queryPacket
        /\ \A x \in Seq(Byte) :
             Receive(q \o x) = [op |-> TRACKER_OP_QUERY, data |-> <<>>, rest |-> x]
  BY <1>6, QueryWire
<1>9. PICK u \in Seq(Byte) :
        /\ u = updatePacket(c)
        /\ \A x \in Seq(Byte) :
             Receive(u \o x) = [op |-> TRACKER_OP_UPDATE, data |-> data, rest |-> x]
  BY <1>1, <1>5, <1>6, Operations, PacketWire
<1>10. PICK s \in Seq(Byte) :
         /\ s = quitPacket(c)
         /\ \A x \in Seq(Byte) :
              Receive(s \o x) = [op |-> TRACKER_OP_QUIT, data |-> quit, rest |-> x]
  BY <1>4, <1>5, <1>6, Operations, PacketWire
<1>13. InTurn(r, q, u, s)
  BY CatFour
<1>14. PICK us \in Seq(Byte), qus \in Seq(Byte) :
         us = u \o s /\ qus = q \o us /\ ((r \o q) \o u) \o s = r \o qus
  BY <1>13 DEF InTurn
<1>15. Receive(r \o qus) = [op |-> TRACKER_OP_REGISTER, data |-> data, rest |-> qus]
  BY <1>7
<1>16. Receive(qus) = [op |-> TRACKER_OP_QUERY, data |-> <<>>, rest |-> us]
  BY <1>8, <1>14
<1>17. Receive(us) = [op |-> TRACKER_OP_UPDATE, data |-> data, rest |-> s]
  BY <1>9, <1>14
<1>18. Receive(s) = [op |-> TRACKER_OP_QUIT, data |-> quit, rest |-> <<>>]
  <2>1. s \o <<>> = s
    BY ConcatEmptySeq
  <2>2. QED
    BY <1>6, <1>10, <2>1
<1>19. CountedAt(quit, 0) = ip
  <2>1. Len(ip) < IntLimit
    <3>1. PICK l \in Nat : l = Len(ip)
      OBVIOUS
    <3>2. QED
      BY <1>2, <3>1, SMT DEF IntLimit
  <2>2. At(quit, 0, quit)
    BY <1>4, AllAt
  <2>3. QED
    BY <1>3, <1>4, <2>1, <2>2, ReadCounted
<1>20. PICK first, second, third, fourth :
         /\ first = Receive(registerPacket(c) \o queryPacket \o updatePacket(c) \o quitPacket(c))
         /\ second = Receive(first.rest)
         /\ third = Receive(second.rest)
         /\ fourth = Receive(third.rest)
  OBVIOUS
<1>21. first = [op |-> TRACKER_OP_REGISTER, data |-> data, rest |-> qus]
  BY <1>7, <1>8, <1>9, <1>10, <1>14, <1>15, <1>20
<1>22. second = [op |-> TRACKER_OP_QUERY, data |-> <<>>, rest |-> us]
  BY <1>16, <1>20, <1>21
<1>23. third = [op |-> TRACKER_OP_UPDATE, data |-> data, rest |-> s]
  BY <1>17, <1>20, <1>22
<1>24. fourth = [op |-> TRACKER_OP_QUIT, data |-> quit, rest |-> <<>>]
  BY <1>18, <1>20, <1>23
<1>25. Conversation(c) =
         [ops |-> <<first.op, second.op, third.op, fourth.op>>,
          registered |-> ReadClient(first.data), updated |-> ReadClient(third.data),
          quit |-> CountedAt(fourth.data, 0), rest |-> fourth.rest]
  BY <1>20, Zenon DEF Conversation
<1>26. QED
  BY <1>1, <1>2, <1>19, <1>21, <1>22, <1>23, <1>24, <1>25 DEF Arrives

-----------------------------------------------------------------------------
(* A file never changes its number of blocks.                              *)
LEMMA SizeStays == Spec => [](blockInfo.numBlocks \in Sizes)
<1> DEFINE Inv == blockInfo.numBlocks \in Sizes
<1>1. Init => Inv
  <2> SUFFICES ASSUME Init PROVE Inv
    OBVIOUS
  <2>1. PICK n \in Sizes : \/ blockInfo = MapWithout(n)
                           \/ blockInfo = MapWithAll(n)
                           \/ \E S \in SUBSET (0..(n - 1)) : blockInfo = MapOf(n, S)
    BY DEF Init
  <2>2. QED
    BY <2>1 DEF MapWithout, MapWithAll, MapOf
<1>2. IInv /\ Inv /\ [Next]_vars => Inv'
  <2> SUFFICES ASSUME IInv, Inv, [Next]_vars PROVE Inv'
    OBVIOUS
  <2> USE DEF IInv, TypeOK, BlockMaps
  <2>1. ASSUME NEW i \in 0..blockInfo.numBlocks, setBlock(i)
        PROVE  Inv'
    BY <2>1 DEF setBlock, SetBlock
  <2>2. ASSUME NEW i \in 0..blockInfo.numBlocks, unsetBlock(i)
        PROVE  Inv'
    BY <2>2 DEF unsetBlock, UnsetBlock
  <2>3. CASE nextBlockRange
    BY <2>3 DEF nextBlockRange
  <2>4. CASE UNCHANGED vars
    BY <2>4 DEF vars
  <2>5. QED
    BY <2>1, <2>2, <2>3, <2>4 DEF Next
<1>3. Spec => []IInv
  BY InitIInv, NextIInv, PTL DEF Spec
<1>4. QED
  BY <1>1, <1>2, <1>3, PTL DEF Spec

(* The clients of MCFileBlocks are clients that can be sent.               *)
LEMMA SizeOfNone == SizeOfFiles(<<>>) = 0
<1> DEFINE f == [i \in DOMAIN <<>> |-> 4 + SizeOfFile(<<>>[i])]
<1>1. DOMAIN f = {}
  OBVIOUS
<1> HIDE DEF f
<1>2. SumFunctionOnSet(f, DOMAIN f) = 0
  BY <1>1, SumEmpty
<1>3. QED
  BY <1>2 DEF SizeOfFiles, SumFunction, f

LEMMA SizeOfOne ==
  ASSUME NEW x, SizeOfFile(x) \in Nat
  PROVE  SizeOfFiles(<<x>>) = 4 + SizeOfFile(x)
<1> DEFINE f == [i \in DOMAIN <<x>> |-> 4 + SizeOfFile(<<x>>[i])]
<1>1. DOMAIN f = {} \cup {1} /\ f[1] = 4 + SizeOfFile(x)
  OBVIOUS
<1>2. SizeOfFiles(<<x>>) = SumFunctionOnSet(f, {} \cup {1})
  BY <1>1 DEF SizeOfFiles, SumFunction
<1>3. IsFiniteSet({}) /\ 1 \notin {} /\ \A j \in {} \cup {1} : f[j] \in Int
  BY <1>1, FS_EmptySet
<1> HIDE DEF f
<1>4. SumFunctionOnSet(f, {} \cup {1}) = f[1] + SumFunctionOnSet(f, {})
  BY <1>3, SumAdd
<1>5. SumFunctionOnSet(f, {}) = 0
  BY SumEmpty
<1>6. QED
  BY <1>1, <1>2, <1>4, <1>5

LEMMA SizeOfTwo ==
  ASSUME NEW x, SizeOfFile(x) \in Nat, NEW y, SizeOfFile(y) \in Nat
  PROVE  SizeOfFiles(<<x, y>>) = (4 + SizeOfFile(x)) + (4 + SizeOfFile(y))
<1> DEFINE f == [i \in DOMAIN <<x, y>> |-> 4 + SizeOfFile(<<x, y>>[i])]
<1>1. DOMAIN f = {1} \cup {2} /\ f[1] = 4 + SizeOfFile(x) /\ f[2] = 4 + SizeOfFile(y)
  OBVIOUS
<1>2. SizeOfFiles(<<x, y>>) = SumFunctionOnSet(f, {1} \cup {2})
  BY <1>1 DEF SizeOfFiles, SumFunction
<1> HIDE DEF f
<1>3. /\ IsFiniteSet({}) /\ IsFiniteSet({1}) /\ 1 \notin {} /\ 2 \notin {1}
      /\ \A j \in {1} \cup {2} : f[j] \in Int
      /\ \A j \in {} \cup {1} : f[j] \in Int
      /\ {} \cup {1} = {1}
  <2>1. IsFiniteSet({}) /\ IsFiniteSet({1})
    BY FS_EmptySet, FS_Singleton
  <2>2. f[1] \in Int /\ f[2] \in Int
    BY <1>1
  <2>3. QED
    BY <2>1, <2>2
<1>4. SumFunctionOnSet(f, {1} \cup {2}) = f[2] + SumFunctionOnSet(f, {1})
  BY <1>3, SumAdd
<1>5. SumFunctionOnSet(f, {} \cup {1}) = f[1] + SumFunctionOnSet(f, {})
  BY <1>3, SumAdd
<1>6. SumFunctionOnSet(f, {}) = 0
  BY SumEmpty
<1>7. QED
  BY <1>1, <1>2, <1>3, <1>4, <1>5, <1>6

(* The size of the largest file can be told in an int, File::filesize.     *)
FilesizesFit == \A n \in Sizes : 1000000 * n - 1 < IntLimit

LEMMA NumBlocksFit ==
  ASSUME blockInfo.numBlocks \in Sizes, FilesizesFit
  PROVE  \E n \in Nat : n = blockInfo.numBlocks /\ 1000000 * n - 1 < IntLimit
<1>1. PICK n \in Nat : n = blockInfo.numBlocks /\ n \in Sizes
  BY SizesAssumption
<1>2. 1000000 * n - 1 < IntLimit
  BY <1>1, SMT DEF FilesizesFit
<1>3. QED
  BY <1>1, <1>2, SMT

LEMMA FilesAreWire ==
  ASSUME IInv, blockInfo.numBlocks \in Sizes, FilesizesFit
  PROVE  /\ ThisFile \in WireFiles /\ OtherFile \in WireFiles
         /\ SizeOfFile(ThisFile) \in Nat /\ SizeOfFile(ThisFile) <= 3000
         /\ SizeOfFile(OtherFile) \in Nat /\ SizeOfFile(OtherFile) <= 3000
         /\ Len(<<120, 121>>) = 2
<1>1. PICK n \in Nat : n = blockInfo.numBlocks /\ 1000000 * n - 1 < IntLimit
  BY NumBlocksFit
<1>2. n <= 2147
  BY <1>1, SMT DEF IntLimit
<1>3. 1000000 * n - 1 \in Int32 /\ 1000000 * 3 - 1 \in Int32 /\ 1000000 \in Int32
  BY <1>1, SMT DEF Int32, IntLimit
<1>4. PICK b \in BlockMaps : b = MapWithAll(3) /\ b.numBlocks = 3
  <2>1. MapWithAll(3) \in BlockMaps
    BY UniformMapsCorrect
  <2>2. QED
    BY <2>1 DEF MapWithAll
<1>5. blockInfo \in BlockMaps
  BY DEF IInv, TypeOK
<1>6. <<120, 121>> \in Seq(Byte) /\ Len(<<120, 121>>) = 2 /\ <<>> \in Seq(Byte) /\ Len(<<>>) = 0
  BY DEF Byte
<1>8. /\ ThisFile = [url |-> <<120, 121>>, filesize |-> 1000000 * n - 1, blocksize |-> 1000000,
                     blockInfo |-> blockInfo]
      /\ OtherFile = [url |-> <<>>, filesize |-> 1000000 * 3 - 1, blocksize |-> 1000000,
                      blockInfo |-> b]
  BY <1>1, <1>4, SMT DEF ThisFile, OtherFile, FileOf
<1>9. SizeOfFile(ThisFile) = 4 + 2 + 3 * 4 + (2 * 4 + n)
  BY <1>1, <1>6, <1>8, SMT DEF SizeOfFile
<1>10. SizeOfFile(OtherFile) = 4 + 0 + 3 * 4 + (2 * 4 + 3)
  BY <1>4, <1>6, <1>8, SMT DEF SizeOfFile
<1>11. /\ SizeOfFile(ThisFile) \in Nat /\ SizeOfFile(ThisFile) <= 3000
       /\ SizeOfFile(OtherFile) \in Nat /\ SizeOfFile(OtherFile) <= 3000
  BY <1>2, <1>9, <1>10, SMT
<1>12. SizeOfFile(ThisFile) < IntLimit /\ SizeOfFile(OtherFile) < IntLimit
  BY <1>11, SMT DEF IntLimit
<1>13. ThisFile \in WireFiles
  BY <1>3, <1>5, <1>6, <1>8, <1>12, SMT DEF WireFiles
<1>14. OtherFile \in WireFiles
  BY <1>3, <1>4, <1>6, <1>8, <1>12, SMT DEF WireFiles
<1>15. QED
  BY <1>6, <1>11, <1>13, <1>14

Small(n) == n \in Nat /\ n <= 10000

LEMMA ClientIsWire ==
  ASSUME NEW ip \in Seq(Byte), Len(ip) <= 2, NEW port \in Int32,
         NEW files \in Seq(WireFiles), Len(files) < IntLimit,
         Small(SizeOfFiles(files))
  PROVE  ClientWith(ip, port, files) \in WireClients
<1>1. PICK dir \in Seq(Byte) : dir = <<47>> /\ Len(dir) = 1
  <2>1. PICK x : x = <<47>>
    OBVIOUS
  <2>2. x \in Seq(Byte) /\ Len(x) = 1
    BY <2>1 DEF Byte
  <2>3. QED
    BY <2>1, <2>2
<1>2. PICK c, size : c = ClientWith(ip, port, files) /\ size = SizeOfFiles(files)
  OBVIOUS
<1>3. size \in Nat /\ size <= 10000
  BY <1>2, SMT DEF Small
<1>4. c = [ip_address |-> ip, port |-> port, socketfd |-> -1, directory |-> dir,
           files |-> files]
  BY <1>1, <1>2, SMT DEF ClientWith
<1>5. PICK l \in Nat : l = Len(ip) /\ l <= 2
  OBVIOUS
<1>6. SizeOfClient(c) = 4 + l + 2 * 4 + 4 + 1 + 4 + size
  BY <1>1, <1>2, <1>3, <1>4, <1>5, SMT DEF SizeOfClient
<1>7. SizeOfClient(c) < IntLimit
  BY <1>3, <1>5, <1>6, SMT DEF IntLimit
<1>8. -1 \in Int32
  BY SMT DEF Int32, IntLimit
<1>9. c.files = files
  BY <1>4
<1>10. c \in WireClients
  BY <1>4, <1>7, <1>8, <1>9 DEF WireClients
<1>11. QED
  BY <1>2, <1>10

LEMMA ClientsAreWire ==
  ASSUME IInv, blockInfo.numBlocks \in Sizes, FilesizesFit
  PROVE  Alice \in WireClients /\ Bob \in WireClients /\ Charlie \in WireClients
<1>1. PICK x \in WireFiles, y \in WireFiles :
        /\ x = ThisFile /\ SizeOfFile(x) \in Nat /\ SizeOfFile(x) <= 3000
        /\ y = OtherFile /\ SizeOfFile(y) \in Nat /\ SizeOfFile(y) <= 3000
  BY FilesAreWire
<1>2. PICK two, one, none : two = <<x, y>> /\ one = <<x>> /\ none = <<>>
  OBVIOUS
<1>3. /\ two \in Seq(WireFiles) /\ Len(two) = 2
      /\ one \in Seq(WireFiles) /\ Len(one) = 1
      /\ none \in Seq(WireFiles) /\ Len(none) = 0
  BY <1>2
<1>4. /\ SizeOfFiles(two) = (4 + SizeOfFile(x)) + (4 + SizeOfFile(y))
      /\ SizeOfFiles(one) = 4 + SizeOfFile(x)
      /\ SizeOfFiles(none) = 0
  BY <1>1, <1>2, SizeOfNone, SizeOfOne, SizeOfTwo
<1>5. /\ Small(SizeOfFiles(two)) /\ Small(SizeOfFiles(one)) /\ Small(SizeOfFiles(none))
  BY <1>1, <1>4, SMT DEF Small
<1>6. Len(two) < IntLimit /\ Len(one) < IntLimit /\ Len(none) < IntLimit
  BY <1>3, SMT DEF IntLimit
<1>7. PICK ip, jp, kp : ip = <<49, 46>> /\ jp = <<50>> /\ kp = <<51>>
  OBVIOUS
<1>8. /\ ip \in Seq(Byte) /\ Len(ip) <= 2
      /\ jp \in Seq(Byte) /\ Len(jp) <= 2
      /\ kp \in Seq(Byte) /\ Len(kp) <= 2
  BY <1>7 DEF Byte
<1>9. PICK m \in Int32, n \in Int32 : m = 5000 /\ n = 5001
  BY SMT DEF Int32, IntLimit
<1>10. ClientWith(ip, m, two) \in WireClients
  BY <1>3, <1>5, <1>6, <1>8, ClientIsWire
<1>11. ClientWith(kp, n, one) \in WireClients
  BY <1>3, <1>5, <1>6, <1>8, ClientIsWire
<1>12. ClientWith(jp, m, none) \in WireClients
  BY <1>3, <1>5, <1>6, <1>8, ClientIsWire
<1>13. /\ Alice = ClientWith(ip, m, two) /\ Bob = ClientWith(kp, n, one)
       /\ Charlie = ClientWith(jp, m, none)
  BY <1>1, <1>2, <1>7, <1>9, SMT DEF Alice, Bob, Charlie
<1>14. QED
  BY <1>10, <1>11, <1>12, <1>13

(* What a client registers, updates, quits with and asks for is what the    *)
(* tracker and its peers read, for files of every size whose bytes fit an   *)
(* int.                                                                     *)
THEOREM MessagesArrive ==
  ASSUME FilesizesFit
  PROVE  Spec => []PacketsArriveAsSent
<1>1. IInv /\ blockInfo.numBlocks \in Sizes => PacketsArriveAsSent
  <2> SUFFICES ASSUME IInv, blockInfo.numBlocks \in Sizes
               PROVE  PacketsArriveAsSent
    OBVIOUS
  <2>1. Arrives(Alice) /\ Arrives(Charlie)
    BY ClientsAreWire, EveryClientArrives
  <2>2. PICK url \in Seq(Byte) : url = ThisFile.url /\ Len(url) = 2
    <3>1. ThisFile.url = <<120, 121>>
      BY SMT DEF ThisFile, FileOf
    <3>2. <<120, 121>> \in Seq(Byte) /\ Len(<<120, 121>>) = 2
      BY DEF Byte
    <3>3. QED
      BY <3>1, <3>2
  <2>3. SizeOfRequest(url) < IntLimit
    <3>1. SizeOfRequest(url) = 4 + 4 + 2
      BY <2>2 DEF SizeOfRequest
    <3>2. QED
      BY <3>1, SMT DEF IntLimit
  <2>4. ASSUME NEW blocknum \in 0..blockInfo.numBlocks
        PROVE  blocknum \in Int32
    <3>1. PICK n \in Nat : n = blockInfo.numBlocks /\ 1000000 * n - 1 < IntLimit
      BY NumBlocksFit
    <3>2. blocknum \in Nat /\ blocknum <= n
      BY <3>1, SMT
    <3>3. blocknum < IntLimit
      BY <3>1, <3>2, SMT DEF IntLimit
    <3>4. QED
      BY <3>2, <3>3, ShortInt
  <2>5. ASSUME NEW blocknum \in 0..blockInfo.numBlocks
        PROVE  LET request == Receive(requestPacket(url, blocknum))
               IN  /\ request.op = CLIENT_REQ_DATA /\ request.rest = <<>>
                   /\ IntAt(request.data, 0) = blocknum
                   /\ CountedAt(request.data, 4) = url
    <3>1. blocknum \in Int32
      BY <2>4
    <3>2. QED
      BY <2>3, <3>1, RequestWire
  <2>6. QED
    BY <2>1, <2>2, <2>5 DEF PacketsArriveAsSent, Arrives
<1>2. Spec => []IInv
  BY InitIInv, NextIInv, PTL DEF Spec
<1>3. QED
  BY <1>1, <1>2, SizeStays, PTL

-----------------------------------------------------------------------------
(* What a client reads of the tracker's answer is what the tracker lists.  *)
LEMMA ListWire ==
  ASSUME NEW N \in Nat, N < IntLimit, NEW order \in [1..N -> WireClients]
  PROVE  ReadClients(TrackerBytes(order)) = order
<1> DEFINE P == [i \in 1..N |-> ClientBytes(order[i])]
           S == [i \in 1..N |-> Counted(ClientBytes(order[i]))]
<1>1. ASSUME NEW i \in 1..N
      PROVE  /\ ClientBytes(order[i]) \in Seq(Byte)
             /\ Len(ClientBytes(order[i])) < IntLimit
             /\ ReadClient(ClientBytes(order[i])) = order[i]
             /\ Counted(ClientBytes(order[i])) \in Seq(Byte)
  <2>1. PICK c \in WireClients : c = order[i]
    OBVIOUS
  <2>2. PICK x \in Seq(Byte) :
          x = ClientBytes(c) /\ Len(x) = SizeOfClient(c) /\ ReadClient(x) = c
    BY ClientWire
  <2>3. SizeOfClient(c) < IntLimit
    BY DEF WireClients
  <2>4. Counted(x) \in Seq(Byte)
    BY CountedLen
  <2>5. QED
    BY <2>1, <2>2, <2>3, <2>4
<1>2. P \in [1..N -> Seq(Byte)] /\ S \in [1..N -> Seq(Byte)]
  BY <1>1
<1>3. \A i \in 1..N : Len(P[i]) < IntLimit
  BY <1>1
<1>4. \A i \in 1..N : S[i] = Counted(P[i])
  OBVIOUS
<1>5. \A i \in 1..N : ReadClient(P[i]) = order[i]
  BY <1>1
<1>6. DOMAIN order = 1..N /\ Len(order) = N /\ DOMAIN P = 1..N
  OBVIOUS
<1>7. S = [i \in DOMAIN order |-> Counted(ClientBytes(order[i]))]
  BY <1>6
<1> HIDE DEF P, S
<1>8. N \in Int32
  BY ShortInt
<1>9. PICK x \in Seq(Byte) : x = Int4(N) /\ Len(x) = 4
  BY <1>8, Int4Bytes
<1>10. PICK u \in Seq(Byte) : u = FlattenSeq(S)
  <2>1. \A i \in 1..N : [j \in 1..N |-> Len(S[j])][i] = Len(S[i])
    OBVIOUS
  <2>2. FlattenSeq(S) \in Seq(Byte)
    BY <1>2, <2>1, FlattenLen
  <2>3. QED
    BY <2>2
<1>11. PICK data \in Seq(Byte) : data = x \o u
  BY CatBytes
<1>12. TrackerBytes(order) = data
  BY <1>6, <1>7, <1>9, <1>10, <1>11 DEF TrackerBytes
<1>13. At(data, 0, x) /\ At(data, 4, u)
  <2>1. At(data, 0, x) /\ At(data, 0 + Len(x), u)
    BY <1>11, AllAt, CatAt
  <2>2. 0 + Len(x) = 4
    BY <1>9
  <2>3. QED
    BY <2>1, <2>2
<1>14. IntAt(data, 0) = N
  BY <1>8, <1>9, <1>13, ReadInt
<1>15. PartsAt(data, 4, N) = P
  <2>1. At(data, 4, FlattenSeq(S))
    BY <1>10, <1>13
  <2>2. QED
    BY <1>2, <1>3, <1>4, <2>1, ReadParts
<1>16. [i \in DOMAIN P |-> ReadClient(P[i])] = order
  BY <1>5, <1>6
<1>17. ReadClients(data) = order
  BY <1>14, <1>15, <1>16 DEF ReadClients
<1>18. QED
  BY <1>12, <1>17

(* The list without its k-th element.                                      *)
Without(clients, k, N) == [j \in 1..(N - 1) |-> clients[IF j < k THEN j ELSE j + 1]]

(* A client that a list names once, at k, keeps the others as they stand.  *)
LEMMA PeersWithout ==
  ASSUME NEW T, NEW N \in Nat, NEW clients \in [1..N -> T], NEW self, NEW k \in 1..N,
         \A i \in 1..N : NotSelf(self, clients[i]) <=> i # k
  PROVE  Peers(self, clients) = Without(clients, k, N)
<1> DEFINE S == [i \in 1..N |-> IF NotSelf(self, clients[i]) THEN <<clients[i]>> ELSE <<>>]
           size(i) == IF i < k THEN i ELSE i - 1
           e == [i \in 0..N |-> [j \in 1..size(i) |-> clients[IF j < k THEN j ELSE j + 1]]]
<1>1. Peers(self, clients) = FlattenSeq(S)
  BY DEF Peers
<1>2. S \in Seq(Seq(T)) /\ Len(S) = N
  <2>1. \A i \in 1..N : (IF NotSelf(self, clients[i]) THEN <<clients[i]>> ELSE <<>>) \in Seq(T)
    OBVIOUS
  <2>2. QED
    BY <2>1
<1>3. \A i \in 1..N : S[i] = IF i # k THEN <<clients[i]>> ELSE <<>>
  OBVIOUS
<1>4. ASSUME NEW i \in 0..N
      PROVE  /\ e[i] \in Seq(T)
             /\ Len(e[i]) = size(i)
             /\ \A j \in 1..size(i) : e[i][j] = clients[IF j < k THEN j ELSE j + 1]
  <2>1. size(i) \in Nat
    OBVIOUS
  <2>2. \A j \in 1..size(i) : clients[IF j < k THEN j ELSE j + 1] \in T
    OBVIOUS
  <2>3. e[i] = [j \in 1..size(i) |-> clients[IF j < k THEN j ELSE j + 1]]
    OBVIOUS
  <2> HIDE DEF e
  <2>4. QED
    BY <2>1, <2>2, <2>3
<1>5. e \in [0..N -> Seq(T)]
  BY <1>4
<1> HIDE DEF e, S
<1>6. e[0] = <<>>
  <2>1. size(0) = 0
    OBVIOUS
  <2>2. QED
    BY <1>4, <2>1
<1>7. ASSUME NEW i \in 1..N PROVE e[i] = e[i - 1] \o S[i]
  <2>1. i \in 0..N /\ i - 1 \in 0..N
    OBVIOUS
  <2>2. PICK x \in Seq(T), y \in Seq(T) : x = e[i - 1] /\ y = e[i]
    BY <1>4, <2>1
  <2>3. /\ Len(x) = size(i - 1)
        /\ \A j \in 1..size(i - 1) : x[j] = clients[IF j < k THEN j ELSE j + 1]
        /\ Len(y) = size(i)
        /\ \A j \in 1..size(i) : y[j] = clients[IF j < k THEN j ELSE j + 1]
    BY <1>4, <2>1, <2>2
  <2>4. CASE i = k
    <3>1. S[i] = <<>> /\ size(i) = size(i - 1)
      <4>1. size(i) = size(i - 1)
        BY <2>4
      <4>2. S[i] = <<>>
        BY <1>3, <2>4
      <4>3. QED
        BY <4>1, <4>2
    <3>2. x = y
      <4>1. Len(x) = Len(y)
        BY <2>3, <3>1
      <4>2. \A j \in 1..Len(x) : x[j] = y[j]
        BY <2>3, <3>1
      <4>3. QED
        BY <4>1, <4>2, SeqEqual
    <3>3. QED
      BY <2>2, <3>1, <3>2, ConcatEmptySeq
  <2>5. CASE i # k
    <3>1. S[i] = <<clients[i]>> /\ size(i) = size(i - 1) + 1 /\ size(i - 1) \in Nat
      <4>1. size(i) = size(i - 1) + 1 /\ size(i - 1) \in Nat
        BY <2>5
      <4>2. S[i] = <<clients[i]>>
        BY <1>3, <2>5
      <4>3. QED
        BY <4>1, <4>2
    <3>2. clients[IF size(i) < k THEN size(i) ELSE size(i) + 1] = clients[i]
      <4>1. (IF size(i) < k THEN size(i) ELSE size(i) + 1) = i
        BY <2>5
      <4>2. QED
        BY <4>1
    <3>3. PICK z : z = clients[i]
      OBVIOUS
    <3>4. PICK m \in Nat : m = size(i - 1)
      BY <3>1
    <3>5. /\ Len(x) = m /\ Len(y) = m + 1 /\ y[m + 1] = z
          /\ \A j \in 1..m : y[j] = x[j]
      <4>1. size(i) = m + 1
        BY <3>1, <3>4
      <4> HIDE DEF size
      <4>2. m + 1 \in 1..size(i) /\ \A j \in 1..m : j \in 1..size(i)
        BY <4>1
      <4>3. QED
        BY <2>3, <3>2, <3>3, <3>4, <4>1, <4>2
    <3>6. z \in T
      BY <3>3
    <3>7. y = x \o <<z>>
      <4>1. PICK w \in Seq(T) : w = <<z>> /\ Len(w) = 1 /\ w[1] = z
        <5>1. <<z>> \in Seq(T)
          BY <3>6
        <5>2. Len(<<z>>) = 1 /\ <<z>>[1] = z
          OBVIOUS
        <5>3. QED
          BY <5>1, <5>2
      <4>2. PICK v \in Seq(T) : v = x \o w
        BY ConcatProperties
      <4>3. /\ Len(v) = m + 1
            /\ \A j \in 1..(m + 1) : v[j] = IF j <= m THEN x[j] ELSE w[j - m]
        <5>1. /\ Len(v) = Len(x) + Len(w)
              /\ \A j \in 1..(Len(x) + Len(w)) : v[j] = IF j <= Len(x) THEN x[j] ELSE w[j - Len(x)]
          BY <4>2, ConcatProperties
        <5>2. Len(x) = m /\ Len(w) = 1
          BY <3>5, <4>1
        <5>3. QED
          BY <5>1, <5>2
      <4>4. \A j \in 1..(m + 1) : v[j] = y[j]
        <5>1. ASSUME NEW j \in 1..(m + 1) PROVE v[j] = y[j]
          <6>1. CASE j <= m
            BY <3>5, <4>3, <6>1
          <6>2. CASE j = m + 1
            BY <3>5, <4>1, <4>3, <6>2
          <6>3. QED
            BY <6>1, <6>2
        <5>2. QED
          BY <5>1
      <4>5. y = v
        BY <3>5, <4>3, <4>4, SeqEqual
      <4>6. QED
        BY <4>1, <4>2, <4>5
    <3>8. QED
      BY <2>2, <3>1, <3>3, <3>7
  <2>6. QED
    BY <2>4, <2>5
<1>8. Joins(e, S, N)
  BY <1>6, <1>7 DEF Joins
<1>9. FlattenSeq(S) = e[N]
  BY <1>2, <1>5, <1>8, FlattenJoins
<1>10. e[N] = Without(clients, k, N)
  BY DEF e, Without
<1>11. QED
  BY <1>1, <1>9, <1>10

AllListed(order, a, b, c) ==
  /\ order \in [1..3 -> {a, b, c}]
  /\ \A i, j \in 1..3 : i # j => order[i] # order[j]

(* What SetToSeqs makes of three clients.                                  *)
LEMMA ThreeListed ==
  ASSUME NEW a, NEW b, NEW c, a # b, a # c, b # c, NEW order \in SetToSeqs({a, b, c})
  PROVE  AllListed(order, a, b, c)
<1>1. IsFiniteSet({}) /\ Cardinality({}) = 0
  BY FS_EmptySet
<1>2. IsFiniteSet({} \cup {a}) /\ Cardinality({} \cup {a}) = 1
  BY <1>1, FS_AddElement
<1>3. IsFiniteSet(({} \cup {a}) \cup {b}) /\ Cardinality(({} \cup {a}) \cup {b}) = 2
  <2>1. b \notin {} \cup {a}
    OBVIOUS
  <2>2. QED
    BY <1>2, <2>1, FS_AddElement
<1>4. Cardinality((({} \cup {a}) \cup {b}) \cup {c}) = 3
  <2>1. c \notin ({} \cup {a}) \cup {b}
    OBVIOUS
  <2>2. QED
    BY <1>3, <2>1, FS_AddElement
<1>5. (({} \cup {a}) \cup {b}) \cup {c} = {a, b, c}
  OBVIOUS
<1>6. Cardinality({a, b, c}) = 3
  BY <1>4, <1>5
<1>7. QED
  BY <1>6 DEF SetToSeqs, AllListed

(* What one of three clients keeps of a list of all of them.               *)
LEMMA PeersOfThree ==
  ASSUME NEW a, NEW b, NEW c, a # b, a # c, b # c,
         NEW order \in [1..3 -> {a, b, c}],
         \A i, j \in 1..3 : i # j => order[i] # order[j],
         NEW self \in {a, b, c},
         \A d \in {a, b, c} : NotSelf(self, d) <=> d # self
  PROVE  /\ Len(Peers(self, order)) = 2
         /\ ToSet(Peers(self, order)) = {a, b, c} \ {self}
<1>1. \A i \in 1..3 : i = 1 \/ i = 2 \/ i = 3
  OBVIOUS
<1>2. /\ order[1] \in {a, b, c} /\ order[2] \in {a, b, c} /\ order[3] \in {a, b, c}
      /\ order[1] # order[2] /\ order[1] # order[3] /\ order[2] # order[3]
  OBVIOUS
<1>3. PICK k \in 1..3 : order[k] = self
  <2>1. order[1] = self \/ order[2] = self \/ order[3] = self
    BY <1>2
  <2>2. QED
    BY <2>1
<1>4. \A i \in 1..3 : NotSelf(self, order[i]) <=> i # k
  BY <1>3
<1>5. Peers(self, order) = Without(order, k, 3)
  BY <1>4, PeersWithout
<1>6. PICK p : p = Peers(self, order)
  OBVIOUS
<1>7. p = [j \in 1..2 |-> order[IF j < k THEN j ELSE j + 1]]
  <2>1. 3 - 1 = 2
    OBVIOUS
  <2>2. QED
    BY <1>5, <1>6, <2>1 DEF Without
<1>8. Len(p) = 2 /\ DOMAIN p = 1..2
  BY <1>7
<1>9. ToSet(p) = {p[1], p[2]}
  BY <1>8 DEF ToSet
<1>10. \/ k = 1 /\ p[1] = order[2] /\ p[2] = order[3]
       \/ k = 2 /\ p[1] = order[1] /\ p[2] = order[3]
       \/ k = 3 /\ p[1] = order[1] /\ p[2] = order[2]
  BY <1>1, <1>7
<1>11. {p[1], p[2]} = {a, b, c} \ {self}
  BY <1>2, <1>3, <1>10
<1>12. QED
  BY <1>6, <1>8, <1>9, <1>11

(* Whatever the order of the tracker's list, a client that asks gets all    *)
(* the others with their files, and not itself.                            *)
THEOREM OthersArrive ==
  ASSUME FilesizesFit
  PROVE  Spec => []PeersAreTheOthers
<1>1. IInv /\ blockInfo.numBlocks \in Sizes => PeersAreTheOthers
  <2> SUFFICES ASSUME IInv, blockInfo.numBlocks \in Sizes,
                      NEW order \in SetToSeqs({Alice, Bob, Charlie}),
                      NEW self \in {Alice, Bob, Charlie}
               PROVE  LET clients == ReadClients(TrackerBytes(order))
                      IN  /\ Len(Peers(self, clients)) = 2
                          /\ ToSet(Peers(self, clients)) = {Alice, Bob, Charlie} \ {self}
    BY DEF PeersAreTheOthers
  <2>1. PICK a \in WireClients, b \in WireClients, c \in WireClients :
          a = Alice /\ b = Bob /\ c = Charlie
    BY ClientsAreWire
  <2>2. /\ a.ip_address = <<49, 46>> /\ a.port = 5000
        /\ b.ip_address = <<51>> /\ b.port = 5001
        /\ c.ip_address = <<50>> /\ c.port = 5000
    BY <2>1, SMT DEF Alice, Bob, Charlie, ClientWith
  <2>3. <<49, 46>> # <<50>> /\ <<49, 46>> # <<51>> /\ <<50>> # <<51>>
    <3>1. Len(<<49, 46>>) = 2 /\ Len(<<50>>) = 1 /\ Len(<<51>>) = 1
      OBVIOUS
    <3>2. <<50>>[1] = 50 /\ <<51>>[1] = 51
      OBVIOUS
    <3>3. QED
      BY <3>1, <3>2, SMT
  <2>4. a # b /\ a # c /\ b # c
    BY <2>2, <2>3, SMT
  <2>5. \A d \in {a, b, c} : NotSelf(self, d) <=> d # self
    BY <2>1, <2>2, <2>3, SMT DEF NotSelf
  <2>6. order \in [1..3 -> {a, b, c}] /\ \A i, j \in 1..3 : i # j => order[i] # order[j]
    <3>1. order \in SetToSeqs({a, b, c})
      BY <2>1
    <3>2. AllListed(order, a, b, c)
      BY <2>4, <3>1, ThreeListed
    <3>3. QED
      BY <3>2 DEF AllListed
  <2>7. ReadClients(TrackerBytes(order)) = order
    <3>1. order \in [1..3 -> WireClients]
      BY <2>6
    <3>2. 3 \in Nat /\ 3 < IntLimit
      BY SMT DEF IntLimit
    <3>3. QED
      BY <3>1, <3>2, ListWire
  <2>8. QED
    BY <2>1, <2>4, <2>5, <2>6, <2>7, PeersOfThree
<1>2. Spec => []IInv
  BY InitIInv, NextIInv, PTL DEF Spec
<1>3. QED
  BY <1>1, <1>2, SizeStays, PTL
=============================================================================
