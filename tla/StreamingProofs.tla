-------------------------- MODULE StreamingProofs --------------------------
(***************************************************************************)
(* What TLAPS proves of Streaming, for videos of any length, any number of *)
(* prefetchers, and all the ways in which they may jump.                   *)
(*                                                                         *)
(* All that the threads hand each other through args stays inside some     *)
(* video that was asked for, and its name is whole as soon as there is a   *)
(* prefetcher, as long as there is only one video.  Only the browser asks  *)
(* for bytes behind the end, and its answer is then empty, or there is no  *)
(* answer: no prefetcher is created for it.                                *)
(***************************************************************************)
EXTENDS Streaming, BlockMapLemmas, TLAPS

\* A byte of one of the videos that were asked for.
Inside(start) == \E v \in asked : start \in 0..(FileSize[v] - 1)

\* What the browser may ask for.
Known(start) == beyond \/ Inside(start)

\* What getPrefetchOffset gives: where a block of one of the videos begins.
Found(start) == Inside(start) /\ \E b \in Nat : start = b * BlockSize

RequestRight ==
  \A r \in request : r.video \in asked /\ (r.start = NoRange \/ Known(r.start))

HeaderRight == \A start \in header : Known(start)

\* The streamer is past recv, past getBlock.
Serving   == pc \notin {"recv", "spin"}
Answering == pc \notin {"recv", "spin", "getBlock"}

ServedRight ==
  /\ Serving => served.video \in asked /\ Known(served.start)
  /\ Answering /\ served.start < FileSize[served.video] =>
       served.bytes \in 1..BlockSize
  /\ pc \notin {"recv", "spin", "getBlock", "send"} =>
       served.start + served.bytes < FileSize[served.video]

\* The record holds a length from before the first prefetcher on.
ArgsRight ==
  /\ args.name \in asked \cup {Torn}
  /\ args.offset \in Nat
  /\ pc = "create" => args.bsize \in 1..BlockSize

LocalRight ==
  \A p \in Prefetcher :
    at[p] # "idle" =>
      /\ asked # {} /\ args.bsize \in 1..BlockSize
      /\ local[p].offset \in Nat
      /\ local[p].startoffset \in Nat \cup {-1}
      /\ at[p] \in {"call", "getBlock"} => Found(local[p].startoffset)
      /\ at[p] = "getBlock" => local[p].name \in asked \cup {Torn}

\* With one video no name is torn when somebody may read it.
NamesWhole ==
  OneOf(asked) =>
    /\ pc \in {"offset", "bsize", "create"} => args.name # Torn
    /\ \A p \in Prefetcher :
         /\ at[p] # "idle" => args.name # Torn
         /\ at[p] = "getBlock" => local[p].name # Torn

\* The invariant that is inductive.
IInv ==
  /\ TypeOK
  /\ RequestRight
  /\ HeaderRight
  /\ ServedRight
  /\ ArgsRight
  /\ LocalRight
  /\ NamesWhole
  /\ OneVideoGoesOn

-----------------------------------------------------------------------------
(* Arithmetic.                                                             *)

LEMMA Division ==
  ASSUME NEW n \in Nat, NEW d \in Nat \ {0}
  PROVE  /\ n \div d \in Nat
         /\ (n \div d) * d <= n
         /\ n < (n \div d) * d + d
  OBVIOUS

LEMMA Times ==
  ASSUME NEW m \in Int, NEW n \in Int, NEW d \in Nat \ {0}, m <= n
  PROVE  m * d <= n * d
  OBVIOUS

LEMMA NumBlocksNat == ASSUME NEW v \in Video PROVE NumBlocks(v) \in Nat
<1>1. FileSize[v] \in Nat \ {0} /\ BlockSize \in Nat \ {0}
  BY StreamingAssumption
<1> QED
  BY <1>1, Division DEF NumBlocks

\* A byte of a video is in one of its blocks.
LEMMA BlockOfByte ==
  ASSUME NEW v \in Video, NEW start \in 0..(FileSize[v] - 1)
  PROVE  BlockAt(start) \in 0..(NumBlocks(v) - 1)
<1>1. FileSize[v] \in Nat \ {0} /\ BlockSize \in Nat \ {0}
  BY StreamingAssumption
<1>2. /\ start \in Nat /\ start < FileSize[v] /\ FileSize[v] + BlockSize - 1 \in Nat
  BY <1>1
<1> DEFINE q == start \div BlockSize
           n == (FileSize[v] + BlockSize - 1) \div BlockSize
<1>3. /\ q \in Nat /\ q * BlockSize <= start
      /\ n \in Nat /\ FileSize[v] + BlockSize - 1 < n * BlockSize + BlockSize
  BY <1>1, <1>2, Division
<1>4. q < n
  <2> SUFFICES ASSUME n <= q PROVE FALSE
    BY <1>3
  <2>1. n * BlockSize <= q * BlockSize
    BY <1>1, <1>3, Times
  <2> QED
    BY <1>1, <1>2, <1>3, <2>1
<1> QED
  BY <1>3, <1>4 DEF BlockAt, NumBlocks

\* A block of a video begins inside it.
LEMMA ByteOfBlock ==
  ASSUME NEW v \in Video, NEW b \in 0..(NumBlocks(v) - 1)
  PROVE  b * BlockSize \in 0..(FileSize[v] - 1)
<1>1. FileSize[v] \in Nat \ {0} /\ BlockSize \in Nat \ {0}
  BY StreamingAssumption
<1> DEFINE n == NumBlocks(v)
<1>2. n \in Nat /\ n * BlockSize <= FileSize[v] + BlockSize - 1
  BY <1>1, Division DEF NumBlocks
<1>3. b \in Nat /\ b + 1 <= n
  BY <1>2
<1>4. (b + 1) * BlockSize <= n * BlockSize
  BY <1>1, <1>2, <1>3, Times
<1>5. b * BlockSize + BlockSize <= FileSize[v] + BlockSize - 1
  BY <1>1, <1>2, <1>3, <1>4
<1>6. b * BlockSize \in Nat
  BY <1>1, <1>3
<1> QED
  BY <1>1, <1>5, <1>6

LEMMA RestRight ==
  ASSUME NEW v \in Video, NEW start \in Nat
  PROVE  /\ Rest(v, start) \in 0..BlockSize
         /\ start < FileSize[v] => Rest(v, start) \in 1..BlockSize
<1>1. FileSize[v] \in Nat \ {0} /\ BlockSize \in Nat \ {0} /\ start \in Nat
  BY StreamingAssumption
<1> DEFINE q == start \div BlockSize
<1>2. q \in Nat /\ q * BlockSize <= start /\ start < q * BlockSize + BlockSize
  BY <1>1, Division
<1> DEFINE end  == (q + 1) * BlockSize
           stop == IF end < FileSize[v] THEN end ELSE FileSize[v]
<1>3. end \in Nat /\ start < end /\ end <= start + BlockSize
  BY <1>1, <1>2
<1>4. Rest(v, start) = IF start < stop THEN stop - start ELSE 0
  BY DEF Rest
<1> HIDE DEF end
<1> QED
  BY <1>1, <1>3, <1>4

\* getPrefetchOffset never goes beyond the video it searches.
LEMMA FirstMissingRight ==
  ASSUME NEW v \in Video, NEW offset \in Nat
  PROVE  \/ FirstMissing(v, offset) = -1
         \/ /\ FirstMissing(v, offset) \in 0..(FileSize[v] - 1)
            /\ \E b \in Nat : FirstMissing(v, offset) = b * BlockSize
<1> DEFINE from == BlockAt(offset)
           n    == NumBlocks(v)
           hole == FirstHole(n, HeldOf(v), from)
<1>1. n \in Nat /\ BlockSize \in Nat \ {0}
  BY NumBlocksNat, StreamingAssumption
<1>2. from \in Nat
  BY <1>1, Division DEF BlockAt
<1>3. CASE from >= n \/ from..(n - 1) \subseteq HeldOf(v)
  BY <1>3 DEF FirstMissing
<1>4. CASE ~(from >= n \/ from..(n - 1) \subseteq HeldOf(v))
  <2>1. from \in 0..n
    BY <1>1, <1>2, <1>4
  <2>2. hole \in from..n /\ \A j \in from..(hole - 1) : j \in HeldOf(v)
    BY <1>1, <2>1, FirstHoleFound
  <2>3. hole # n
    BY <1>4, <2>2
  <2>4. hole \in 0..(n - 1)
    BY <1>1, <1>2, <2>2, <2>3
  <2>5. hole * BlockSize \in 0..(FileSize[v] - 1) /\ hole \in Nat
    BY <1>1, <2>4, ByteOfBlock
  <2>6. FirstMissing(v, offset) = hole * BlockSize
    BY <1>4 DEF FirstMissing
  <2> HIDE DEF hole
  <2> QED
    BY <2>5, <2>6
<1> QED
  BY <1>3, <1>4

\* hasBlock does not abort for a byte of the video.
LEMMA HasBlockInside ==
  ASSUME NEW v \in Video, NEW start \in 0..(FileSize[v] - 1)
  PROVE  HasBlockAt(v, start)
<1>1. BlockAt(start) \in 0..(NumBlocks(v) - 1) /\ NumBlocks(v) \in Nat
  BY BlockOfByte, NumBlocksNat
<1> QED
  BY <1>1 DEF HasBlockAt

\* An offset that hasBlock aborts for is behind the end, or of another video.
LEMMA AbortMeans ==
  ASSUME asked \subseteq Video, NEW v \in asked, NEW start, Known(start), ~HasBlockAt(v, start)
  PROVE  ~OneOf(asked) \/ beyond
<1> SUFFICES ASSUME Inside(start) PROVE ~OneOf(asked)
  BY DEF Known
<1>1. PICK w \in asked : start \in 0..(FileSize[w] - 1)
  BY DEF Inside
<1>2. v # w
  BY <1>1, HasBlockInside
<1> QED
  BY <1>2 DEF OneOf

\* Where a block begins there are bytes, if the video has the block.
LEMMA FoundInside ==
  ASSUME NEW v \in Video, NEW start, Found(start), HasBlockAt(v, start)
  PROVE  start < FileSize[v]
<1>1. FileSize[v] \in Nat \ {0} /\ BlockSize \in Nat \ {0} /\ NumBlocks(v) \in Nat
  BY StreamingAssumption, NumBlocksNat
<1>2. PICK b \in Nat : start = b * BlockSize
  BY DEF Found
<1>3. start \in Nat
  BY <1>1, <1>2
<1> DEFINE q == start \div BlockSize
<1>4. q \in Nat /\ start < q * BlockSize + BlockSize /\ q < NumBlocks(v)
  BY <1>1, <1>3, Division DEF HasBlockAt, BlockAt
<1> HIDE DEF q
<1>5. q * BlockSize < FileSize[v] /\ q * BlockSize \in Nat
  BY <1>1, <1>4, ByteOfBlock
<1>6. b <= q
  <2> SUFFICES ASSUME q + 1 <= b PROVE FALSE
    BY <1>4
  <2>1. (q + 1) * BlockSize <= b * BlockSize
    BY <1>1, <1>4, Times
  <2> QED
    BY <1>1, <1>2, <1>4, <2>1
<1>7. b * BlockSize <= q * BlockSize
  BY <1>1, <1>4, <1>6, Times
<1> QED
  BY <1>1, <1>2, <1>3, <1>5, <1>7

\* What getBlock puts into the cache is a block of a video.
LEMMA FetchedRight ==
  ASSUME held \subseteq Blocks, NEW v \in Video, NEW start \in Nat, HasBlockAt(v, start),
         NEW after \in Fetched(v, BlockAt(start))
  PROVE  after \subseteq Blocks
<1>1. BlockAt(start) \in Nat /\ NumBlocks(v) \in Nat
  BY NumBlocksNat, Division, StreamingAssumption DEF BlockAt
<1>2. <<v, BlockAt(start)>> \in Blocks
  BY <1>1 DEF Blocks, HasBlockAt
<1> QED
  BY <1>2 DEF Fetched

-----------------------------------------------------------------------------
LEMMA InitIInv == Init => IInv
<1> SUFFICES ASSUME Init PROVE IInv
  OBVIOUS
<1>1. AnyVideo \in Video /\ BlockSize \in Nat \ {0}
  BY StreamingAssumption DEF AnyVideo
<1>2. TypeOK
  <2>1. /\ NoServed \in [video : Video, start : Nat, bytes : Bytes]
        /\ NoArgs \in [name : Video \cup {Torn}, offset : Int, bsize : Bytes]
        /\ NoPrefetch \in [i : 0..2, offset : Int, startoffset : Int, name : Video \cup {Torn}]
    BY <1>1 DEF NoServed, NoArgs, NoPrefetch, Bytes
  <2> QED
    BY <1>1, <2>1 DEF Init, TypeOK
<1>3. RequestRight /\ HeaderRight /\ ServedRight /\ ArgsRight /\ LocalRight
  BY DEF Init, RequestRight, HeaderRight, ServedRight, Serving, Answering, ArgsRight, LocalRight,
         NoArgs, NoServed
<1>4. NamesWhole /\ OneVideoGoesOn
  BY DEF Init, NamesWhole, OneVideoGoesOn
<1> QED
  BY <1>2, <1>3, <1>4 DEF IInv

\* A process that ends leaves the browser and the cache as they were.
LEMMA DieStep ==
  ASSUME IInv, NEW how \in {"exited", "aborted", "crashed", "failed"}, Die(how),
         how \in {"exited", "aborted"} => ~OneOf(asked) \/ beyond
  PROVE  IInv'
<1>1. /\ process' = how
      /\ pc' = "recv" /\ served' = NoServed /\ header' = {} /\ args' = NoArgs
      /\ at' = [p \in Prefetcher |-> "idle"] /\ local' = [p \in Prefetcher |-> NoPrefetch]
      /\ UNCHANGED <<browser, request, position, held, asked, beyond>>
  BY DEF Die, history
<1>2. AnyVideo \in Video /\ BlockSize \in Nat
  BY StreamingAssumption DEF AnyVideo
<1>3. /\ NoServed \in [video : Video, start : Nat, bytes : Bytes]
      /\ NoArgs \in [name : Video \cup {Torn}, offset : Int, bsize : Bytes]
      /\ NoPrefetch \in [i : 0..2, offset : Int, startoffset : Int, name : Video \cup {Torn}]
  BY <1>2 DEF NoServed, NoArgs, NoPrefetch, Bytes
<1>4. TypeOK'
  BY <1>1, <1>3 DEF IInv, TypeOK, Bytes
<1>5. RequestRight'
  BY <1>1 DEF IInv, RequestRight, Known, Inside
<1>6. HeaderRight' /\ ServedRight' /\ ArgsRight' /\ LocalRight'
  BY <1>1 DEF HeaderRight, ServedRight, Serving, Answering, ArgsRight, LocalRight, NoArgs
<1>7. NamesWhole' /\ OneVideoGoesOn'
  BY <1>1 DEF NamesWhole, OneVideoGoesOn, OneOf
<1> QED
  BY <1>4, <1>5, <1>6, <1>7 DEF IInv

\* A request of the browser: a second video may come in, or the first one.
LEMMA AskStep ==
  ASSUME IInv, NEW v \in Video, NEW start \in Nat \cup {NoRange},
         Quiet, Ask(v, start), UNCHANGED <<browser, process>>,
         position' \in [video : Video, start : Nat]
  PROVE  IInv'
<1>1. /\ request' = {[video |-> v, start |-> start]} /\ asked' = asked \cup {v}
      /\ beyond' = (beyond \/ start >= FileSize[v])
      /\ UNCHANGED <<pc, served, header, args, at, local, held, process, browser>>
      /\ pc = "recv"
  BY DEF Ask, Quiet, streamer, prefetchers
<1>2. /\ \A n : Inside(n) => Inside(n)'
      /\ \A n : Known(n) => Known(n)'
      /\ \A n : Found(n) => Found(n)'
      /\ asked \subseteq asked'
  BY <1>1 DEF Inside, Known, Found
<1>3. TypeOK'
  <2>1. beyond' \in BOOLEAN
    BY <1>1 DEF IInv, TypeOK
  <2> QED
    BY <1>1, <2>1 DEF IInv, TypeOK, Bytes
<1>4. RequestRight'
  <2>1. CASE start # NoRange /\ start < FileSize[v]
    <3>1. FileSize[v] \in Nat /\ start \in 0..(FileSize[v] - 1)
      BY <2>1, StreamingAssumption
    <3> QED
      BY <1>1, <3>1 DEF Inside, Known, RequestRight
  <2>2. CASE start # NoRange /\ start >= FileSize[v]
    <3>1. beyond'
      BY <1>1, <2>2
    <3>2. \A r \in request' : r.video \in asked'
      BY <1>1
    <3> QED
      BY <3>1, <3>2 DEF Known, RequestRight
  <2>3. CASE start = NoRange
    BY <1>1, <2>3 DEF RequestRight
  <2>4. FileSize[v] \in Nat /\ (start # NoRange => start \in Nat)
    BY StreamingAssumption
  <2> QED
    BY <2>1, <2>2, <2>3, <2>4
<1>5. HeaderRight' /\ ServedRight'
  BY <1>1, <1>2 DEF IInv, HeaderRight, ServedRight, Serving, Answering
<1>6. ArgsRight'
  BY <1>1 DEF IInv, ArgsRight
<1>7. LocalRight'
  BY <1>1, <1>2 DEF IInv, LocalRight
<1>8. NamesWhole'
  <2> SUFFICES ASSUME OneOf(asked') PROVE NamesWhole'
    BY DEF NamesWhole
  <2>1. OneOf(asked)
    BY <1>1 DEF OneOf
  <2> QED
    BY <1>1, <2>1 DEF IInv, NamesWhole
<1>9. OneVideoGoesOn'
  BY <1>1 DEF IInv, OneVideoGoesOn, OneOf
<1> QED
  BY <1>3, <1>4, <1>5, <1>6, <1>7, <1>8, <1>9 DEF IInv

LEMMA BrowserStep == ASSUME IInv, process = "running", Browser PROVE IInv'
<1>1. CASE Jump
  <2> PICK v \in Video, start \in Seek :
        /\ Ask(v, start)
        /\ position' = [video |-> v, start |-> start]
    BY <1>1 DEF Jump
  <2>1. start \in Nat /\ UNCHANGED <<browser, process>> /\ Quiet
    BY <1>1, StreamingAssumption DEF Jump, Ask
  <2> QED
    BY <2>1, AskStep
<1>2. CASE AskWithoutRange
  <2> PICK v \in Video :
        Ask(v, NoRange) /\ position' = [video |-> v, start |-> FileSize[v]]
    BY <1>2 DEF AskWithoutRange
  <2>1. FileSize[v] \in Nat /\ UNCHANGED <<browser, process>> /\ Quiet
    BY <1>2, StreamingAssumption DEF AskWithoutRange, Ask
  <2> QED
    BY <2>1, AskStep
<1>3. CASE AskForMore
  <2>1. position.video \in Video /\ position.start \in Nat /\ UNCHANGED <<browser, process, position>>
    BY <1>3 DEF IInv, TypeOK, AskForMore, Ask
  <2>2. position \in [video : Video, start : Nat]
    BY DEF IInv, TypeOK
  <2> QED
    BY <1>3, <2>1, <2>2, AskStep DEF AskForMore
<1>4. CASE PlayFromHere \/ Close
  <2>1. /\ browser' \in {"playing", "closed"}
        /\ UNCHANGED <<request, position, pc, served, header, args, at, local, held, process, asked, beyond>>
    BY <1>4 DEF PlayFromHere, Close, streamer, prefetchers, history
  <2>2. TypeOK'
    BY <2>1 DEF IInv, TypeOK, Bytes
  <2>3. RequestRight' /\ HeaderRight' /\ ServedRight' /\ ArgsRight' /\ LocalRight'
    BY <2>1 DEF IInv, RequestRight, HeaderRight, ServedRight, Serving, Answering, ArgsRight,
                LocalRight, Known, Found, Inside
  <2>4. NamesWhole' /\ OneVideoGoesOn'
    BY <2>1 DEF IInv, NamesWhole, OneVideoGoesOn
  <2> QED
    BY <2>2, <2>3, <2>4 DEF IInv
<1> QED
  BY <1>1, <1>2, <1>3, <1>4 DEF Browser

-----------------------------------------------------------------------------
(* The streamer.                                                           *)

\* The header of a request, with an offset that the browser has asked for.
LEMMA ServeStep ==
  ASSUME IInv, NEW r \in request, NEW start \in Nat, Known(start), Serve(r, start),
         pc = "recv", UNCHANGED process
  PROVE  IInv'
<1>1. /\ request' = {} /\ served' = [video |-> r.video, start |-> start, bytes |-> 0]
      /\ header' = header \cup {start} /\ pc' = "getBlock"
      /\ UNCHANGED <<browser, position, args, at, local, held, process, asked, beyond>>
  BY DEF Serve, prefetchers, history
<1>2. r.video \in asked /\ asked \subseteq Video /\ BlockSize \in Nat \ {0}
  BY StreamingAssumption DEF IInv, RequestRight, TypeOK
<1>3. TypeOK'
  BY <1>1, <1>2 DEF IInv, TypeOK, Bytes
<1>4. RequestRight' /\ HeaderRight' /\ ServedRight' /\ ArgsRight' /\ LocalRight'
  BY <1>1, <1>2 DEF IInv, RequestRight, HeaderRight, ServedRight, Serving, Answering,
                    ArgsRight, LocalRight, Known, Found, Inside
<1>5. NamesWhole' /\ OneVideoGoesOn'
  BY <1>1 DEF IInv, NamesWhole, OneVideoGoesOn
<1> QED
  BY <1>3, <1>4, <1>5 DEF IInv

LEMMA GetBlockStep == ASSUME IInv, process = "running", GetBlock PROVE IInv'
<1>1. served.video \in Video /\ served.video \in asked /\ Known(served.start)
  BY DEF IInv, TypeOK, ServedRight, Serving, GetBlock
<1>2. CASE ~HasBlockAt(served.video, served.start) /\ Die("aborted")
  <2>1. ~OneOf(asked) \/ beyond
    BY <1>1, <1>2, AbortMeans DEF IInv, TypeOK
  <2> QED
    BY <1>2, <2>1, DieStep
<1>3. CASE GetBlockFails(served.video, served.start)
  BY <1>3, DieStep DEF GetBlockFails
<1>4. CASE /\ HasBlockAt(served.video, served.start)
           /\ held' \in Fetched(served.video, BlockAt(served.start))
           /\ served' = [served EXCEPT !.bytes = Rest(served.video, served.start)]
           /\ pc' = "send"
           /\ UNCHANGED <<browser, request, position, header, args, prefetchers, process, history>>
  <2> DEFINE rest == Rest(served.video, served.start)
  <2>1. /\ served' = [served EXCEPT !.bytes = rest]
        /\ pc' = "send"
        /\ UNCHANGED <<browser, request, position, header, args, at, local, process, asked, beyond>>
    BY <1>4 DEF prefetchers, history
  <2>2. served \in [video : Video, start : Nat, bytes : Bytes]
    BY DEF IInv, TypeOK
  <2>3. rest \in 0..BlockSize /\ (served.start < FileSize[served.video] => rest \in 1..BlockSize)
    BY <2>2, RestRight
  <2>4. held' \subseteq Blocks
    BY <1>4, <2>2, FetchedRight DEF IInv, TypeOK
  <2> HIDE DEF rest
  <2>5. BlockSize \in Nat
    BY StreamingAssumption
  <2>6. /\ served'.video = served.video /\ served'.start = served.start
        /\ served'.bytes = rest
        /\ served' \in [video : Video, start : Nat, bytes : Bytes]
    BY <2>1, <2>2, <2>3, <2>5 DEF Bytes
  <2>7. TypeOK'
    BY <2>1, <2>4, <2>6 DEF IInv, TypeOK
  <2>8. ServedRight'
    BY <1>1, <2>1, <2>3, <2>6 DEF ServedRight, Serving, Answering, Known, Inside
  <2>9. RequestRight' /\ HeaderRight' /\ ArgsRight' /\ LocalRight'
    BY <2>1 DEF IInv, RequestRight, HeaderRight, ArgsRight, LocalRight, Known, Found, Inside
  <2>10. NamesWhole' /\ OneVideoGoesOn'
    BY <2>1 DEF IInv, NamesWhole, OneVideoGoesOn
  <2> QED
    BY <2>7, <2>8, <2>9, <2>10 DEF IInv
<1> QED
  BY <1>2, <1>3, <1>4 DEF GetBlock

LEMMA SendAnswerStep == ASSUME IInv, SendAnswer, UNCHANGED process PROVE IInv'
<1>1. /\ UNCHANGED <<browser, request, served, header, args, at, local, held, asked, beyond>>
      /\ pc = "send" /\ pc' = (IF NextByte < FileSize[served.video] THEN "name" ELSE "recv")
      /\ position' = IF position.video = served.video /\ position.start = served.start
                     THEN [position EXCEPT !.start = NextByte]
                     ELSE position
  BY DEF SendAnswer, prefetchers, history
<1>2. NextByte = served.start + served.bytes /\ NextByte \in Nat
  BY StreamingAssumption DEF IInv, TypeOK, NextByte, Bytes
<1>3. position' \in [video : Video, start : Nat]
  BY <1>1, <1>2 DEF IInv, TypeOK
<1>4. TypeOK'
  BY <1>1, <1>3 DEF IInv, TypeOK, Bytes
<1>5. ServedRight'
  BY <1>1, <1>2 DEF IInv, ServedRight, Serving, Answering, Known, Inside
<1>6. RequestRight' /\ HeaderRight' /\ ArgsRight' /\ LocalRight'
  BY <1>1 DEF IInv, RequestRight, HeaderRight, ArgsRight, LocalRight, Known, Found, Inside
<1>7. NamesWhole' /\ OneVideoGoesOn'
  BY <1>1 DEF IInv, NamesWhole, OneVideoGoesOn
<1> QED
  BY <1>4, <1>5, <1>6, <1>7 DEF IInv

\* With one video the record has its name already, or nobody reads it.
LEMMA WriteArgsStep == ASSUME IInv, WriteArgs, UNCHANGED process PROVE IInv'
<1>1. UNCHANGED <<browser, request, position, served, header, at, local, held, asked, beyond, process>>
  BY DEF WriteArgs, Write, prefetchers, history
<1>2. /\ served.video \in asked /\ served.bytes \in 1..BlockSize
      /\ NextByte \in Nat /\ NextByte < FileSize[served.video] /\ Answering
      /\ BlockSize \in Nat
      /\ args \in [name : Video \cup {Torn}, offset : Int, bsize : Bytes]
      /\ asked \subseteq Video
  BY StreamingAssumption
     DEF IInv, TypeOK, ServedRight, Serving, Answering, WriteArgs, NextByte, Bytes
<1>3. /\ pc \in {"name", "nameEnd", "offset", "bsize"}
      /\ pc' \in {"nameEnd", "offset", "bsize", "create"}
      /\ args' \in [name : Video \cup {Torn}, offset : Int, bsize : Bytes]
      /\ args'.name \in asked \cup {Torn}
      /\ args'.offset = args.offset \/ args'.offset = NextByte
      /\ (args'.bsize = args.bsize /\ pc' # "create") \/ args'.bsize = served.bytes
  BY <1>2 DEF IInv, ArgsRight, WriteArgs, Write, Bytes
<1>4. TypeOK'
  BY <1>1, <1>3 DEF IInv, TypeOK
<1>5. RequestRight' /\ HeaderRight'
  BY <1>1 DEF IInv, RequestRight, HeaderRight, Known, Inside
<1>6. ServedRight'
  BY <1>1, <1>3 DEF IInv, ServedRight, Serving, Answering, Known, Inside
<1>7. ArgsRight'
  BY <1>1, <1>2, <1>3 DEF IInv, ArgsRight
<1>8. LocalRight'
  BY <1>1, <1>2, <1>3 DEF IInv, LocalRight, Known, Found, Inside
<1>9. NamesWhole'
  <2> SUFFICES ASSUME OneOf(asked) PROVE NamesWhole'
    BY <1>1 DEF NamesWhole
  <2>1. /\ args.name # Torn => args'.name # Torn
        /\ pc' \in {"offset", "bsize", "create"} => args'.name # Torn
    <3>1. args.name = served.video \/ args.name = Torn
      BY <1>2 DEF OneOf, IInv, ArgsRight
    <3>2. served.video # Torn
      BY <1>2, StreamingAssumption
    <3>3. CASE pc = "name"
      BY <1>2, <3>1, <3>2, <3>3 DEF WriteArgs, Write
    <3>4. CASE pc = "nameEnd"
      BY <1>2, <3>2, <3>4 DEF WriteArgs, Write
    <3>5. CASE pc \in {"offset", "bsize"}
      <4>1. args.name # Torn
        BY <3>5 DEF IInv, NamesWhole
      <4> QED
        BY <1>2, <3>5, <4>1 DEF WriteArgs, Write
    <3> QED
      BY <1>3, <3>3, <3>4, <3>5
  <2> QED
    BY <1>1, <2>1 DEF IInv, NamesWhole
<1>10. OneVideoGoesOn'
  BY <1>1 DEF IInv, OneVideoGoesOn
<1> QED
  BY <1>4, <1>5, <1>6, <1>7, <1>8, <1>9, <1>10 DEF IInv

LEMMA CreateStep == ASSUME IInv, CreatePrefetcher, UNCHANGED process PROVE IInv'
<1> PICK p \in Pool(asked) :
      /\ at[p] = "idle"
      /\ at' = [at EXCEPT ![p] = "begin"]
      /\ local' = [local EXCEPT ![p] = [NoPrefetch EXCEPT !.i = 1]]
  BY DEF CreatePrefetcher
<1>1. /\ UNCHANGED <<browser, request, position, served, header, args, held, asked, beyond, process>>
      /\ pc = "create" /\ pc' = "recv"
  BY DEF CreatePrefetcher, history
<1>2. p \in Prefetcher
  BY DEF Pool
<1>3. /\ at \in [Prefetcher -> {"idle", "begin", "look", "call", "getBlock", "advance"}]
      /\ DOMAIN local = Prefetcher
  BY DEF IInv, TypeOK
<1>4. local'[p] = [i |-> 1, offset |-> 0, startoffset |-> 0, name |-> Torn] /\ at'[p] = "begin"
      /\ \A q \in Prefetcher : q # p => at'[q] = at[q] /\ local'[q] = local[q]
  BY <1>2, <1>3 DEF NoPrefetch
<1>5. TypeOK'
  BY <1>1, <1>2, <1>4 DEF IInv, TypeOK, Bytes
<1>6. RequestRight' /\ HeaderRight' /\ ServedRight' /\ ArgsRight'
  BY <1>1 DEF IInv, RequestRight, HeaderRight, ServedRight, Serving, Answering, ArgsRight, Known, Inside
<1>7. asked # {} /\ args.bsize \in 1..BlockSize
  BY <1>1 DEF IInv, ServedRight, Serving, ArgsRight
<1>8. LocalRight'
  BY <1>1, <1>4, <1>7 DEF IInv, LocalRight, Known, Found, Inside
<1>9. NamesWhole'
  BY <1>1, <1>4 DEF IInv, NamesWhole
<1>10. OneVideoGoesOn'
  BY <1>1 DEF IInv, OneVideoGoesOn
<1> QED
  BY <1>5, <1>6, <1>8, <1>9, <1>10 DEF IInv

LEMMA StreamerStep == ASSUME IInv, process = "running", handleStreaming PROVE IInv'
<1>1. CASE Spin
  <2>1. /\ pc = "recv" /\ pc' = "spin"
        /\ UNCHANGED <<browser, request, position, served, header, args, at, local,
                       held, process, asked, beyond>>
    BY <1>1 DEF Spin, prefetchers, history
  <2>2. TypeOK'
    BY <2>1 DEF IInv, TypeOK, Bytes
  <2>3. RequestRight' /\ HeaderRight' /\ ServedRight' /\ ArgsRight' /\ LocalRight'
    BY <2>1 DEF IInv, RequestRight, HeaderRight, ServedRight, Serving, Answering, ArgsRight,
                LocalRight, Known, Found, Inside
  <2>4. NamesWhole' /\ OneVideoGoesOn'
    BY <2>1 DEF IInv, NamesWhole, OneVideoGoesOn
  <2> QED
    BY <2>2, <2>3, <2>4 DEF IInv
<1>2. CASE RecvRequest
  <2> PICK r \in request : r.start # NoRange /\ Serve(r, r.start)
    BY <1>2 DEF RecvRequest
  <2>1. r.start \in Nat /\ Known(r.start)
    BY DEF IInv, TypeOK, RequestRight
  <2> QED
    BY <1>2, <2>1, ServeStep DEF RecvRequest, Serve
<1>3. CASE RecvWithoutRange
  <2> PICK r \in request : (\E start \in header : Serve(r, start)) \/ Die("crashed")
    BY <1>3 DEF RecvWithoutRange
  <2>1. CASE Die("crashed")
    BY <2>1, DieStep
  <2>2. CASE \E start \in header : Serve(r, start)
    <3> PICK start \in header : Serve(r, start)
      BY <2>2
    <3>1. start \in Nat /\ Known(start)
      BY DEF IInv, TypeOK, HeaderRight
    <3> QED
      BY <1>3, <3>1, ServeStep DEF RecvWithoutRange, Serve
  <2> QED
    BY <2>1, <2>2
<1>4. CASE GetBlock
  BY <1>4, GetBlockStep
<1>5. CASE SendAnswer
  BY <1>5, SendAnswerStep DEF SendAnswer
<1>6. CASE WriteArgs
  BY <1>6, WriteArgsStep DEF WriteArgs, Write
<1>7. CASE CreatePrefetcher
  BY <1>7, CreateStep DEF CreatePrefetcher
<1> QED
  BY <1>1, <1>2, <1>3, <1>4, <1>5, <1>6, <1>7 DEF handleStreaming

-----------------------------------------------------------------------------
(* The prefetchers.                                                        *)

\* A step of prefetcher p that does not touch the record.
LEMMA OwnStep ==
  ASSUME IInv, NEW p \in Prefetcher, at[p] # "idle",
         UNCHANGED <<browser, request, position, streamer, args, held, process, asked, beyond>>,
         NEW label \in {"look", "call", "getBlock", "advance"},
         NEW mine \in [i : 0..2, offset : Nat, startoffset : Nat \cup {-1},
                       name : Video \cup {Torn}],
         at' = [at EXCEPT ![p] = label], local' = [local EXCEPT ![p] = mine],
         label \in {"call", "getBlock"} => Found(mine.startoffset),
         label = "getBlock" => mine.name = args.name
  PROVE  IInv'
<1>1. UNCHANGED <<browser, request, position, pc, served, header, args, held, process, asked, beyond>>
  BY DEF streamer
<1>2. /\ at \in [Prefetcher -> {"idle", "begin", "look", "call", "getBlock", "advance"}]
      /\ local \in [Prefetcher -> [i : 0..2, offset : Int, startoffset : Int,
                                   name : Video \cup {Torn}]]
  BY DEF IInv, TypeOK
<1>3. /\ at'[p] = label /\ local'[p] = mine
      /\ \A q \in Prefetcher : q # p => at'[q] = at[q] /\ local'[q] = local[q]
  BY <1>2
<1>4. TypeOK'
  <2>1. mine \in [i : 0..2, offset : Int, startoffset : Int, name : Video \cup {Torn}]
    OBVIOUS
  <2>2. local' \in [Prefetcher -> [i : 0..2, offset : Int, startoffset : Int,
                                   name : Video \cup {Torn}]]
    BY <1>2, <2>1
  <2> QED
    BY <1>1, <1>2, <2>2 DEF IInv, TypeOK
<1>5. RequestRight' /\ HeaderRight' /\ ServedRight' /\ ArgsRight'
  BY <1>1 DEF IInv, RequestRight, HeaderRight, ServedRight, Serving, Answering, ArgsRight, Known, Inside
<1>6. LocalRight'
  BY <1>1, <1>3 DEF IInv, LocalRight, ArgsRight, Found, Inside
<1>7. NamesWhole'
  BY <1>1, <1>3 DEF IInv, NamesWhole
<1>8. OneVideoGoesOn'
  BY <1>1 DEF IInv, OneVideoGoesOn
<1> QED
  BY <1>4, <1>5, <1>6, <1>7, <1>8 DEF IInv

\* A step of p after which the record has another length or offset.
LEMMA RecordStep ==
  ASSUME IInv, NEW p \in Prefetcher, at[p] # "idle",
         UNCHANGED <<browser, request, position, streamer, process, asked, beyond>>,
         NEW label \in {"idle", "begin", "advance"},
         NEW mine \in [i : 0..2, offset : Nat, startoffset : Nat \cup {-1},
                       name : Video \cup {Torn}],
         at' = [at EXCEPT ![p] = label], local' = [local EXCEPT ![p] = mine],
         held' \subseteq Blocks,
         NEW offset \in Nat, NEW bytes \in 1..BlockSize,
         args' = [args EXCEPT !.offset = offset, !.bsize = bytes]
  PROVE  IInv'
<1>1. UNCHANGED <<browser, request, position, pc, served, header, process, asked, beyond>>
  BY DEF streamer
<1>2. /\ at \in [Prefetcher -> {"idle", "begin", "look", "call", "getBlock", "advance"}]
      /\ local \in [Prefetcher -> [i : 0..2, offset : Int, startoffset : Int,
                                   name : Video \cup {Torn}]]
      /\ args \in [name : Video \cup {Torn}, offset : Int, bsize : Bytes]
      /\ BlockSize \in Nat
  BY StreamingAssumption DEF IInv, TypeOK
<1>3. /\ at'[p] = label /\ local'[p] = mine
      /\ \A q \in Prefetcher : q # p => at'[q] = at[q] /\ local'[q] = local[q]
      /\ args'.name = args.name /\ args'.offset = offset /\ args'.bsize = bytes
  BY <1>2
<1>4. TypeOK'
  <2>1. mine \in [i : 0..2, offset : Int, startoffset : Int, name : Video \cup {Torn}]
    OBVIOUS
  <2>2. local' \in [Prefetcher -> [i : 0..2, offset : Int, startoffset : Int,
                                   name : Video \cup {Torn}]]
    BY <1>2, <2>1
  <2>3. offset \in Int /\ bytes \in Bytes
    BY <1>2 DEF Bytes
  <2>4. args' \in [name : Video \cup {Torn}, offset : Int, bsize : Bytes]
    BY <1>2, <2>3
  <2> QED
    BY <1>1, <1>2, <2>2, <2>4 DEF IInv, TypeOK
<1>5. RequestRight' /\ HeaderRight' /\ ServedRight'
  BY <1>1 DEF IInv, RequestRight, HeaderRight, ServedRight, Serving, Answering, Known, Inside
<1>6. ArgsRight'
  BY <1>1, <1>3 DEF IInv, ArgsRight
<1>7. LocalRight'
  BY <1>1, <1>3 DEF IInv, LocalRight, Found, Inside
<1>8. NamesWhole'
  BY <1>1, <1>3 DEF IInv, NamesWhole
<1>9. OneVideoGoesOn'
  BY <1>1 DEF IInv, OneVideoGoesOn
<1> QED
  BY <1>4, <1>5, <1>6, <1>7, <1>8, <1>9 DEF IInv

\* What a prefetcher that runs may rely on.
LEMMA Mine ==
  ASSUME IInv, NEW p \in Prefetcher, at[p] # "idle"
  PROVE  /\ local[p] \in [i : 0..2, offset : Nat, startoffset : Nat \cup {-1},
                          name : Video \cup {Torn}]
         /\ args \in [name : Video \cup {Torn}, offset : Nat, bsize : 1..BlockSize]
<1>1. /\ local[p] \in [i : 0..2, offset : Int, startoffset : Int, name : Video \cup {Torn}]
      /\ args \in [name : Video \cup {Torn}, offset : Int, bsize : Bytes]
  BY DEF IInv, TypeOK
<1>2. /\ local[p].offset \in Nat /\ local[p].startoffset \in Nat \cup {-1}
      /\ args.offset \in Nat /\ args.bsize \in 1..BlockSize
  BY DEF IInv, LocalRight, ArgsRight
<1> QED
  BY <1>1, <1>2

LEMMA ReadOffsetStep ==
  ASSUME IInv, NEW p \in Prefetcher, ReadOffset(p), UNCHANGED process PROVE IInv'
<1> DEFINE mine == [local[p] EXCEPT !.offset = args.offset]
<1>1. /\ at[p] = "begin" /\ at' = [at EXCEPT ![p] = "look"]
      /\ local' = [local EXCEPT ![p] = mine]
  BY DEF ReadOffset, Goto
<1>2. mine \in [i : 0..2, offset : Nat, startoffset : Nat \cup {-1}, name : Video \cup {Torn}]
  BY <1>1, Mine
<1>3. UNCHANGED <<browser, request, position, streamer, args, held, process, asked, beyond>>
  BY DEF ReadOffset, history
<1> HIDE DEF mine
<1> QED
  BY <1>1, <1>2, <1>3, OwnStep

LEMMA LookStep ==
  ASSUME IInv, NEW p \in Prefetcher, getPrefetchOffset(p), UNCHANGED process PROVE IInv'
<1> DEFINE found == IF args.name \in Video THEN FirstMissing(args.name, local[p].offset) ELSE -1
           mine  == [local[p] EXCEPT !.offset = 0, !.startoffset = found]
           label == IF found = -1 THEN "advance" ELSE "call"
<1>1. /\ at[p] = "look" /\ at' = [at EXCEPT ![p] = label]
      /\ local' = [local EXCEPT ![p] = mine]
      /\ UNCHANGED <<browser, request, position, streamer, args, held, process, asked, beyond>>
  BY DEF getPrefetchOffset, Goto, history
<1>2. local[p] \in [i : 0..2, offset : Nat, startoffset : Nat \cup {-1},
                    name : Video \cup {Torn}]
  BY <1>1, Mine
<1>3. found = -1 \/ (found \in Nat /\ Found(found))
  <2>1. CASE args.name \in Video
    <3>1. \/ found = -1
          \/ found \in 0..(FileSize[args.name] - 1) /\ \E b \in Nat : found = b * BlockSize
      BY <1>2, <2>1, FirstMissingRight
    <3>2. args.name \in asked
      BY <2>1, StreamingAssumption DEF IInv, ArgsRight
    <3> QED
      BY <3>1, <3>2 DEF Inside, Found
  <2> QED
    BY <2>1
<1> HIDE DEF found
<1>4. /\ mine \in [i : 0..2, offset : Nat, startoffset : Nat \cup {-1}, name : Video \cup {Torn}]
      /\ mine.startoffset = found
  BY <1>2, <1>3
<1>5. label \in {"advance", "call"} /\ (label = "call" => Found(mine.startoffset))
  BY <1>3, <1>4
<1> HIDE DEF mine, label
<1> QED
  BY <1>1, <1>4, <1>5, OwnStep

LEMMA CallStep ==
  ASSUME IInv, NEW p \in Prefetcher, CallGetBlock(p), UNCHANGED process PROVE IInv'
<1> DEFINE mine == [local[p] EXCEPT !.name = args.name]
<1>1. /\ at[p] = "call" /\ at' = [at EXCEPT ![p] = "getBlock"]
      /\ local' = [local EXCEPT ![p] = mine]
      /\ UNCHANGED <<browser, request, position, streamer, args, held, process, asked, beyond>>
  BY DEF CallGetBlock, Goto, history
<1>2. /\ mine \in [i : 0..2, offset : Nat, startoffset : Nat \cup {-1}, name : Video \cup {Torn}]
      /\ mine.startoffset = local[p].startoffset /\ mine.name = args.name
  BY <1>1, Mine
<1>3. Found(local[p].startoffset)
  BY <1>1 DEF IInv, LocalRight
<1> HIDE DEF mine
<1> QED
  BY <1>1, <1>2, <1>3, OwnStep

\* getBlock's abort, and its exit for a torn name, need two videos.
LEMMA PrefetchBlockStep ==
  ASSUME IInv, process = "running", NEW p \in Prefetcher, PrefetchBlock(p) PROVE IInv'
<1> DEFINE v     == local[p].name
           start == local[p].startoffset
<1>1. /\ at[p] = "getBlock" /\ at[p] # "idle"
      /\ v \in asked \cup {Torn} /\ Found(start) /\ asked \subseteq Video
  BY DEF PrefetchBlock, IInv, TypeOK, LocalRight
<1>2. /\ local[p] \in [i : 0..2, offset : Nat, startoffset : Nat \cup {-1},
                       name : Video \cup {Torn}]
      /\ args \in [name : Video \cup {Torn}, offset : Nat, bsize : 1..BlockSize]
      /\ local = [local EXCEPT ![p] = local[p]]
  BY <1>1, Mine DEF IInv, TypeOK
<1>3. OneOf(asked) => v # Torn
  BY <1>1 DEF IInv, NamesWhole
<1>4. CASE v = Torn /\ Die("exited")
  BY <1>3, <1>4, DieStep
<1>5. CASE v # Torn /\ ~HasBlockAt(v, start) /\ Die("aborted")
  <2>1. ~OneOf(asked) \/ beyond
    BY <1>1, <1>5, AbortMeans DEF Known, Found
  <2> QED
    BY <1>5, <2>1, DieStep
<1>9. CASE GetBlockFails(v, start)
  BY <1>9, DieStep DEF GetBlockFails
<1>6. ASSUME NEW bytes \in 1..BlockSize,
             args' = [args EXCEPT !.bsize = bytes], Goto(p, "advance"), held' \subseteq Blocks,
             UNCHANGED <<browser, request, position, streamer, local, process, asked, beyond>>
      PROVE  IInv'
  <2>1. args' = [args EXCEPT !.offset = args.offset, !.bsize = bytes] /\ args.offset \in Nat
    BY <1>2, <1>6
  <2>2. at' = [at EXCEPT ![p] = "advance"] /\ local' = [local EXCEPT ![p] = local[p]]
    BY <1>2, <1>6 DEF Goto
  <2> QED
    BY <1>1, <1>2, <1>6, <2>1, <2>2, RecordStep
<1>7. CASE /\ v = Torn
           /\ \E bytes \in 1..BlockSize : args' = [args EXCEPT !.bsize = bytes]
           /\ Goto(p, "advance")
           /\ UNCHANGED <<browser, request, position, streamer, local, held, process, history>>
  BY <1>6, <1>7 DEF IInv, TypeOK, history
<1>8. CASE /\ v # Torn /\ HasBlockAt(v, start)
           /\ held' \in Fetched(v, BlockAt(start))
           /\ args' = [args EXCEPT !.bsize = Rest(v, start)]
           /\ Goto(p, "advance")
           /\ UNCHANGED <<browser, request, position, streamer, local, process, history>>
  <2>1. v \in Video /\ start \in Nat
    BY <1>1, <1>8 DEF Found, Inside
  <2>2. held' \subseteq Blocks
    BY <1>8, <2>1, FetchedRight DEF IInv, TypeOK
  <2>3. start < FileSize[v]
    BY <1>1, <1>8, <2>1, FoundInside
  <2>4. Rest(v, start) \in 1..BlockSize
    BY <2>1, <2>3, RestRight
  <2> QED
    BY <1>6, <1>8, <2>2, <2>4 DEF history
<1> QED
  BY <1>4, <1>5, <1>7, <1>8, <1>9 DEF PrefetchBlock

LEMMA AdvanceStep ==
  ASSUME IInv, NEW p \in Prefetcher, Advance(p), UNCHANGED process PROVE IInv'
<1> PICK jump \in Ahead : args' = [args EXCEPT !.offset = local[p].startoffset + jump * args.bsize]
  BY DEF Advance
<1>1. /\ at[p] = "advance"
      /\ UNCHANGED <<browser, request, position, streamer, held, process, asked, beyond>>
      /\ \/ at' = [at EXCEPT ![p] = "idle"] /\ local' = [local EXCEPT ![p] = NoPrefetch]
         \/ /\ at' = [at EXCEPT ![p] = "begin"]
            /\ local' = [local EXCEPT ![p] = [NoPrefetch EXCEPT !.i = 2]]
  BY DEF Advance, Goto, history
<1>2. /\ local[p].startoffset \in Nat \cup {-1}
      /\ args \in [name : Video \cup {Torn}, offset : Nat, bsize : 1..BlockSize]
  BY <1>1, Mine
<1>3. jump \in Nat \ {0} /\ BlockSize \in Nat
  BY StreamingAssumption
<1> DEFINE offset == local[p].startoffset + jump * args.bsize
<1>4. offset \in Nat
  <2> DEFINE bsize == args.bsize
  <2>1. bsize \in Nat \ {0}
    BY <1>2, <1>3
  <2> HIDE DEF bsize
  <2>2. jump * bsize \in Nat /\ 1 * bsize <= jump * bsize
    BY <1>3, <2>1, Times
  <2>3. local[p].startoffset + jump * bsize \in Nat
    BY <1>2, <2>1, <2>2
  <2> QED
    BY <2>3 DEF bsize
<1>5. args' = [args EXCEPT !.offset = offset, !.bsize = args.bsize] /\ args.bsize \in 1..BlockSize
  BY <1>2
<1>6. \A i \in {0, 2} :
        [NoPrefetch EXCEPT !.i = i] \in [i : 0..2, offset : Nat, startoffset : Nat \cup {-1},
                                         name : Video \cup {Torn}]
  BY DEF NoPrefetch
<1>7. NoPrefetch = [NoPrefetch EXCEPT !.i = 0]
  BY DEF NoPrefetch
<1>8. held' \subseteq Blocks
  BY <1>1 DEF IInv, TypeOK
<1> HIDE DEF offset
<1>9. PICK i \in {0, 2}, label \in {"idle", "begin"} :
        at' = [at EXCEPT ![p] = label] /\ local' = [local EXCEPT ![p] = [NoPrefetch EXCEPT !.i = i]]
  BY <1>1, <1>7
<1> DEFINE mine == [NoPrefetch EXCEPT !.i = i]
<1>10. /\ mine \in [i : 0..2, offset : Nat, startoffset : Nat \cup {-1},
                    name : Video \cup {Torn}]
       /\ local' = [local EXCEPT ![p] = mine]
  BY <1>6, <1>9
<1> HIDE DEF mine
<1> QED
  BY <1>1, <1>4, <1>5, <1>8, <1>9, <1>10, RecordStep

-----------------------------------------------------------------------------
LEMMA StepIInv == IInv /\ [Next]_vars => IInv'
<1> SUFFICES ASSUME IInv, [Next]_vars PROVE IInv'
  OBVIOUS
<1>1. CASE UNCHANGED vars
  <2>1. UNCHANGED <<browser, request, position, pc, served, header, args, at, local, held,
                    process, asked, beyond>>
    BY <1>1 DEF vars, streamer, prefetchers, history
  <2>2. TypeOK'
    BY <2>1 DEF IInv, TypeOK, Bytes
  <2>3. RequestRight' /\ HeaderRight' /\ ServedRight' /\ ArgsRight' /\ LocalRight'
    BY <2>1 DEF IInv, RequestRight, HeaderRight, ServedRight, Serving, Answering, ArgsRight,
                LocalRight, Known, Found, Inside
  <2>4. NamesWhole' /\ OneVideoGoesOn'
    BY <2>1 DEF IInv, NamesWhole, OneVideoGoesOn
  <2> QED
    BY <2>2, <2>3, <2>4 DEF IInv
<1>2. CASE process = "running" /\ Browser
  BY <1>2, BrowserStep
<1>3. CASE process = "running" /\ handleStreaming
  BY <1>3, StreamerStep
<1>4. CASE process = "running" /\ \E p \in Prefetcher : prefetcher(p)
  <2> PICK p \in Prefetcher : prefetcher(p)
    BY <1>4
  <2>1. CASE ReadOffset(p)
    BY <2>1, ReadOffsetStep DEF ReadOffset
  <2>2. CASE getPrefetchOffset(p)
    BY <2>2, LookStep DEF getPrefetchOffset
  <2>3. CASE CallGetBlock(p)
    BY <2>3, CallStep DEF CallGetBlock
  <2>4. CASE PrefetchBlock(p)
    BY <1>4, <2>4, PrefetchBlockStep
  <2>5. CASE Advance(p)
    BY <2>5, AdvanceStep DEF Advance
  <2> QED
    BY <2>1, <2>2, <2>3, <2>4, <2>5 DEF prefetcher
<1> QED
  BY <1>1, <1>2, <1>3, <1>4 DEF Next, Running

LEMMA IInvImplies == IInv => TypeOK /\ PrefetchInsideVideo /\ OneVideoGoesOn
<1> SUFFICES ASSUME IInv PROVE PrefetchInsideVideo
  BY DEF IInv
<1> SUFFICES ASSUME OneOf(asked), NEW p \in Prefetcher, at[p] = "getBlock"
             PROVE  /\ local[p].name \in asked
                    /\ local[p].startoffset \in 0..(FileSize[local[p].name] - 1)
  BY DEF PrefetchInsideVideo
<1>1. local[p].name \in asked /\ Inside(local[p].startoffset)
  BY DEF IInv, LocalRight, NamesWhole, Found
<1> QED
  BY <1>1 DEF Inside, OneOf

LEMMA SpecIInv == Spec => []IInv
<1> QED
  BY InitIInv, StepIInv, PTL DEF Spec

\* The type invariant: the cache, too, holds only blocks that there are, in
\* whatever way the threads race for the record.
THEOREM TypeCorrect == Spec => []TypeOK
<1> QED
  BY SpecIInv, IInvImplies, PTL

\* As long as one video is asked for, prefetchers that overwrite each other's
\* record call getBlock for that video and for a byte that it has.
THEOREM PrefetchersStayInside == Spec => []PrefetchInsideVideo
<1> QED
  BY SpecIInv, IInvImplies, PTL

\* The process is aborted by hasBlock, or ended for a name of no video, only
\* after two videos, or a byte behind the end of one, were asked for on the one
\* connection: what the threads do with each other's record is not enough.
THEOREM TwoVideosEndIt == Spec => []OneVideoGoesOn
<1> QED
  BY SpecIInv, IInvImplies, PTL

=============================================================================
