-------------------------- MODULE BlockCacheProofs --------------------------
(***************************************************************************)
(* Proofs about BlockCache, for any number of threads, videos, blocks and  *)
(* retries and any size of the cache.                                      *)
(***************************************************************************)
EXTENDS BlockCache, BlockMapLemmas, FiniteSetTheorems

(* A thread past the lookup holds the index of its file, which no other    *)
(* thread makes stale: files only grow at their end.                       *)
IdxRight ==
  \A t \in Thread :
    pc[t] \in {"lockFetch", "check", "read", "sleep"} \cup MarkedAt =>
      idx[t] \in DOMAIN files /\ files[idx[t]] = req[t].name

(* handleCache looks at files there are, and has a pass left.              *)
ScanRight ==
  \A t \in Thread : pc[t] = "evict" => scan.i \in DOMAIN files /\ scan.tries > 0

(* The file of a block is complete before the block is set in the map.     *)
FileBeforeMap ==
  resets = 0 => \A t \in Thread : pc[t] = "store" => req[t].block \in disk[req[t].name]

(* No video is opened twice, although a thread lets others run between not *)
(* finding a file and adding it: it holds client_mutex meanwhile.          *)
FilesRight ==
  /\ \A j, k \in DOMAIN files : files[j] = files[k] => j = k
  /\ StoredName \subseteq Known
  /\ \A t \in Thread : pc[t] = "grow" => req[t].name \notin Known

(* The inductive invariant.  SingleFlight is inductive only with the       *)
(* mutex, which makes the search for a mark and the mark one step, and     *)
(* with IdxRight: a thread with a stale index would look for the mark, or  *)
(* erase it, in another file.                                              *)
IInv ==
  /\ TypeOK
  /\ LockDiscipline
  /\ IdxRight
  /\ FilesRight
  /\ ScanRight
  /\ SingleFlight
  /\ FetchOnlyMissing
  /\ FileBeforeMap
  /\ OnDisk

(* The steps of no thread in getBlock: those of the tracker threads, and the *)
(* end that a peer brings about who asks for a video the client has not.    *)
OtherStep ==
  \/ QueryTracker \/ TrackerAnswers \/ UpdateOnTracker \/ UpdateSent
  \/ \E t \in Server : ServeUnknown(t)

LEMMA NumBlocksNat == ASSUME NEW n \in Name PROVE NumBlocks(n) \in Nat
<1>1. FileSize[n] \in Nat \ {0} /\ BlockSize \in Nat \ {0}
  BY FilesAssumption
<1>2. QED
  BY <1>1 DEF NumBlocks

(* What the eviction of some blocks in front of the cursor leaves.         *)
LEMMA WithoutBlocksCorrect ==
  ASSUME NEW b \in BlockMaps,
         NEW gone \in SUBSET (0..(b.currentBlock - 1)),
         NEW c, c = WithoutBlocks(b, gone)
  PROVE  /\ c \in BlockMaps
         /\ c.numBlocks = b.numBlocks
         /\ c.blocks = b.blocks \ gone
         /\ CursorExact(b) => CursorExact(c)
<1> DEFINE low == CHOOSE k \in gone : \A j \in gone : k <= j
<1>1. /\ b.numBlocks \in Nat
      /\ b.currentBlock \in 0..b.numBlocks
      /\ b.blocks \in SUBSET (0..(b.numBlocks - 1))
      /\ b = [numBlocks |-> b.numBlocks, currentBlock |-> b.currentBlock,
              blocks |-> b.blocks]
  BY DEF BlockMaps
<1>2. CASE gone = {}
  <2>1. c = b
    BY <1>1, <1>2 DEF WithoutBlocks
  <2>2. QED
    BY <2>1, <1>2
<1>3. CASE gone # {}
  <2>1. gone \in SUBSET Nat
    BY <1>1
  <2>2. \E k \in gone : \A j \in gone : k <= j
    BY <1>3, <2>1, LeastNumber
  <2>3. low \in gone /\ \A j \in gone : low <= j
    BY <2>2
  <2>4. c = [numBlocks |-> b.numBlocks, currentBlock |-> low,
             blocks |-> b.blocks \ gone]
    BY <1>1, <1>3 DEF WithoutBlocks
  <2> HIDE DEF low
  <2>5. low \in 0..(b.currentBlock - 1)
    BY <2>3
  <2>6. c.numBlocks = b.numBlocks /\ c.currentBlock = low /\ c.blocks = b.blocks \ gone
    BY <2>4
  <2>7. c \in BlockMaps
    BY <1>1, <2>4, <2>5 DEF BlockMaps
  <2>8. CursorExact(b) => CursorExact(c)
    BY <1>1, <2>1, <2>3, <2>5, <2>6 DEF CursorExact
  <2>9. QED
    BY <2>6, <2>7, <2>8
<1>4. QED
  BY <1>2, <1>3

(* getFileIdxByURL finds the file.                                         *)
LEMMA IdxOfFinds ==
  ASSUME files \in Seq(Name), NEW n \in Known
  PROVE  IdxOf(n) \in DOMAIN files /\ IdxOf(n) \in Nat /\ files[IdxOf(n)] = n
<1>1. \E k \in DOMAIN files : files[k] = n
  BY DEF Known
<1>2. IdxOf(n) \in DOMAIN files /\ files[IdxOf(n)] = n
  BY <1>1 DEF IdxOf
<1>3. DOMAIN files = 1..Len(files) /\ Len(files) \in Nat
  OBVIOUS
<1>4. QED
  BY <1>2, <1>3

-----------------------------------------------------------------------------
LEMMA CallType ==
  ASSUME TypeOK, NEW t \in Thread, NEW n \in Name, NEW k \in Nat,
         NEW off \in Nat, Call(t, n, k, off)
  PROVE  TypeOK'
<1>2. req' \in [Thread -> [name : Name, block : Nat, offset : Nat]]
  BY DEF TypeOK, Call
<1>3. pc' \in [Thread \cup {Querier, Updater} -> Labels \cup {"waiting"}]
  BY DEF TypeOK, Call, Goto, Labels, ExclusiveAt, MarkedAt, InFlightAt
<1>4. \A u \in Thread : pc'[u] \in InsideAt => req'[u].block \in Blocks(req'[u].name)
  BY DEF TypeOK, Call, Goto, InsideAt, MarkedAt, InFlightAt
<1>5. QED
  BY <1>2, <1>3, <1>4 DEF TypeOK, Call, rwlock, cache, rest, Blocks, NumBlocks

LEMMA ReturnType ==
  ASSUME TypeOK, NEW t \in Thread, Return(t)
  PROVE  /\ pc' \in [Thread \cup {Querier, Updater} -> Labels \cup {"waiting"}]
         /\ req' \in [Thread -> [name : Name, block : Nat, offset : Nat]]
         /\ idx' \in [Thread -> Nat]
         /\ prefetched' \in [Thread -> BOOLEAN]
         /\ retries' \in [Thread -> Nat]
         /\ resp_size' \in [Thread -> Int]
         /\ \A u \in Thread : pc'[u] \in InsideAt => req'[u].block \in Blocks(req'[u].name)
<1>1. NoCall \in [name : Name, block : Nat, offset : Nat]
  BY FilesAssumption DEF NoCall
<1>2. QED
  BY <1>1 DEF TypeOK, Return, Goto, Labels, InsideAt, MarkedAt, InFlightAt

LEMMA UnlockType ==
  ASSUME TypeOK, NEW t, Unlock(t)
  PROVE  writer' \in Thread \cup {Querier, NoThread} /\ readers' \in Int
  BY DEF TypeOK, Unlock

LEMMA UnlockOwn ==
  ASSUME NEW t, Unlock(t), writer = t
  PROVE  writer' = NoThread /\ UNCHANGED readers
  BY DEF Unlock

LEMMA LookupType ==
  ASSUME IInv, NEW t \in Thread, Lookup(t)
  PROVE  TypeOK'
<1> USE DEF IInv, TypeOK, Goto, Labels, ExclusiveAt, MarkedAt, InFlightAt, InsideAt, rwlock,
            cache, rest, locals, Blocks, NumBlocks
<1>1. CASE LockClient(t)
  BY <1>1 DEF LockClient
<1>2. CASE FileFound(t)
  <2>1. IdxOf(req[t].name) \in Nat
    BY <1>2, IdxOfFinds DEF FileFound
  <2>2. QED
    BY <1>2, <2>1 DEF FileFound
<1>3. CASE FileNotFound(t)
  BY <1>3 DEF FileNotFound
<1>4. CASE NewFileFails(t)
  BY <1>4 DEF NewFileFails, Die
<1>5. CASE NewFile(t)
  <2>1. files' \in Seq(Name) /\ Len(files) + 1 \in Nat
    BY <1>5 DEF NewFile
  <2>2. QED
    BY <1>5, <2>1 DEF NewFile
<1>6. QED
  BY <1>1, <1>2, <1>3, <1>4, <1>5 DEF Lookup

(* The test of hasBlock is against the number of blocks of the file.        *)
LEMMA InRangeBlock ==
  ASSUME IInv, NEW t \in Thread, pc[t] = "check", InRange(t)
  PROVE  req[t].block \in Blocks(req[t].name)
<1>1. files[idx[t]] = req[t].name /\ req[t].name \in Name
  BY DEF IInv, TypeOK, IdxRight
<1>2. blockInfo[req[t].name].numBlocks = NumBlocks(req[t].name)
  BY <1>1 DEF IInv, TypeOK
<1>3. QED
  BY <1>1, <1>2 DEF InRange, ValidBlock, Blocks

LEMMA CheckType ==
  ASSUME IInv, NEW t \in Thread, Check(t)
  PROVE  TypeOK'
<1> USE DEF IInv, TypeOK, Goto, Labels, ExclusiveAt, MarkedAt, InFlightAt, InsideAt, rwlock,
            cache, rest, locals, Blocks, NumBlocks
<1>1. CASE LockFetch(t)
  BY <1>1 DEF LockFetch
<1>2. CASE WaitForDownload(t)
  BY <1>2, UnlockType DEF WaitForDownload
<1>3. CASE WakeUp(t)
  <2>1. req[t].name \in Known
    BY <1>3 DEF WakeUp, IdxRight, Known
  <2>2. IdxOf(req[t].name) \in Nat
    BY <2>1, IdxOfFinds
  <2>3. QED
    BY <1>3, <2>2 DEF WakeUp
<1> HIDE DEF IInv, TypeOK
<1>0. InRange(t) /\ pc[t] = "check" => req[t].block \in Blocks(req[t].name)
  BY InRangeBlock
<1> USE DEF IInv, TypeOK
<1>4. CASE CacheHit(t)
  BY <1>0, <1>4 DEF CacheHit
<1>5. CASE ReadBlock(t)
  <2>1. CASE Return(t) /\ Unlock(t) /\ UNCHANGED <<fetch, cache, rest>>
    BY <2>1, ReturnType, UnlockType
  <2>2. CASE Die("crashed")
    BY <2>2 DEF Die
  <2>3. QED
    BY <1>5, <2>1, <2>2 DEF ReadBlock
<1>6. CASE OutOfRange(t) \/ WaitedInVain(t)
  BY <1>6 DEF OutOfRange, WaitedInVain, Die
<1>7. CASE CacheMiss(t)
  <2>1. scan' \in [i : Nat, begin : Nat, tries : Nat]
    <3>1. DOMAIN files = 1..Len(files) /\ EvictTries \in Nat
      BY CacheAssumption
    <3>2. QED
      BY <1>7, <3>1 DEF CacheMiss
  <2>2. downloading' \in [Name -> SUBSET Nat]
    <3>1. req[t].block \in Nat /\ files[idx[t]] = req[t].name
      BY <1>7 DEF CacheMiss, IdxRight
    <3>2. downloading' = [downloading EXCEPT ![req[t].name] = @ \cup {req[t].block}]
      BY <1>7, <3>1 DEF CacheMiss
    <3>3. QED
      BY <3>1, <3>2
  <2>3. pc' \in [Thread \cup {Querier, Updater} -> Labels \cup {"waiting"}]
    BY <1>7 DEF CacheMiss
  <2>4. \A u \in Thread : pc'[u] \in InsideAt => u = t \/ pc[u] \in InsideAt
    BY <1>7 DEF CacheMiss
  <2>5. \A u \in Thread : pc'[u] \in InsideAt => req'[u].block \in Blocks(req'[u].name)
    BY <1>0, <1>7, <2>4 DEF CacheMiss
  <2>6. QED
    BY <1>7, <2>1, <2>2, <2>3, <2>5 DEF CacheMiss
<1>8. QED
  BY <1>1, <1>2, <1>3, <1>4, <1>5, <1>6, <1>7 DEF Check

(* One move of the scan of handleCache.                                    *)
LEMMA NextVisitEffect ==
  ASSUME IInv, NEW t \in Thread, pc[t] = "evict", NextVisit(t) \/ EvictionDone(t)
  PROVE  /\ scan' \in [i : Nat, begin : Nat, tries : Nat]
         /\ \/ /\ UNCHANGED <<pc, fetch>>
               /\ scan'.i \in DOMAIN files /\ scan'.tries > 0
            \/ pc' = [pc EXCEPT ![t] = "choose"] /\ fetch' = NoThread
<1> DEFINE i == (scan.i % Len(files)) + 1
           tries == IF i = scan.begin THEN scan.tries - 1 ELSE scan.tries
<1>1. /\ files \in Seq(Name)
      /\ scan.i \in DOMAIN files
      /\ scan.begin \in Nat /\ scan.tries \in Nat /\ scan.tries > 0
  BY DEF IInv, TypeOK, ScanRight
<1>2. Len(files) \in Nat /\ DOMAIN files = 1..Len(files)
  BY <1>1
<1>3. Len(files) > 0 /\ scan.i \in Nat
  BY <1>1, <1>2
<1>4. i \in DOMAIN files /\ i \in Nat
  BY <1>2, <1>3
<1>5. CASE EvictionDone(t)
  BY <1>5 DEF EvictionDone, NoScan, Goto
<1>6. CASE NextVisit(t)
  <2>1. CASE tries = 0
    BY <1>6, <2>1 DEF NextVisit, EvictionDone, NoScan, Goto
  <2>2. CASE tries # 0
    <3>1. scan' = [scan EXCEPT !.i = i, !.tries = tries] /\ UNCHANGED <<pc, fetch>>
      BY <1>6, <2>2 DEF NextVisit
    <3>2. scan \in [i : Nat, begin : Nat, tries : Nat]
      BY DEF IInv, TypeOK
    <3>3. scan' = [i |-> i, begin |-> scan.begin, tries |-> tries]
      BY <3>1, <3>2
    <3>4. tries \in Nat /\ tries > 0
      BY <1>1, <2>2
    <3> HIDE DEF i, tries
    <3>5. QED
      BY <3>1, <3>3, <3>4, <1>1, <1>4
  <2>3. QED
    BY <2>1, <2>2
<1>7. QED
  BY <1>5, <1>6

(* What a thread copies of a map is a map of that length, and the map      *)
(* itself as long as client_mutex excludes.                                *)
LEMMA CopiesAreMaps ==
  ASSUME IInv, NEW n \in Name, NEW b \in Copies(n)
  PROVE  /\ b \in BlockMaps
         /\ b.numBlocks = NumBlocks(n)
         /\ resets = 0 => b = blockInfo[n] /\ CursorExact(b)
<1>1. /\ blockInfo[n] \in BlockMaps
      /\ blockInfo[n].numBlocks = NumBlocks(n)
      /\ resets = 0 => CursorExact(blockInfo[n])
  BY DEF IInv, TypeOK, OnDisk
<1>2. CASE resets = 0
  BY <1>1, <1>2 DEF Copies
<1>3. CASE resets # 0
  <2>1. b \in [numBlocks : {NumBlocks(n)}, currentBlock : 0..NumBlocks(n),
               blocks : SUBSET Blocks(n)]
    BY <1>3 DEF Copies
  <2>2. NumBlocks(n) \in Nat
    BY NumBlocksNat
  <2>3. QED
    BY <1>3, <2>1, <2>2 DEF BlockMaps, Blocks
<1>4. QED
  BY <1>2, <1>3

(* One visit of handleCache: the other file loses a batch of blocks, from  *)
(* the map and from the disk alike, if client_mutex excludes.              *)
LEMMA EvictEffect ==
  ASSUME IInv, NEW t \in Thread, EvictFromFile(t)
  PROVE  \E n \in Name, gone \in SUBSET Nat, c \in BlockMaps :
           /\ n # req[t].name
           /\ blockInfo' = [blockInfo EXCEPT ![n] = c]
           /\ disk' = [disk EXCEPT ![n] = @ \ gone]
           /\ c.numBlocks = blockInfo[n].numBlocks
           /\ resets = 0 => /\ c.blocks = blockInfo[n].blocks \ gone
                            /\ gone \subseteq blockInfo[n].blocks
                            /\ CursorExact(c)
                            /\ n \in Known
                            /\ cache_used' = cache_used - Charged(n, gone)
<1> DEFINE n == files[scan.i]
<1>1. pc[t] = "evict" /\ scan.i # idx[t]
  BY DEF EvictFromFile, OwnFile
<1>2. /\ scan.i \in DOMAIN files /\ n \in Name /\ n \in Known
      /\ idx[t] \in DOMAIN files /\ files[idx[t]] = req[t].name
  BY <1>1 DEF IInv, TypeOK, ScanRight, IdxRight, MarkedAt, InFlightAt, Known
<1>3. n # req[t].name
  BY <1>1, <1>2 DEF IInv, FilesRight
<1>4. PICK b \in Copies(n) :
        /\ disk' = [disk EXCEPT ![n] = @ \ Batch(b)]
        /\ blockInfo' = [blockInfo EXCEPT ![n] = WithoutBlocks(b, Batch(b) \cap disk[n])]
        /\ cache_used' \in Discounted(n, Batch(b))
  BY DEF EvictFromFile
<1> DEFINE batch == Batch(b)
           gone == batch \cap disk[n]
           c == WithoutBlocks(b, gone)
<1> HIDE DEF n
<1>5. /\ b \in BlockMaps
      /\ b.numBlocks = blockInfo[n].numBlocks
      /\ resets = 0 => b = blockInfo[n] /\ CursorExact(b)
  BY <1>2, CopiesAreMaps DEF IInv, TypeOK
<1>6. batch \in SUBSET (0..(b.currentBlock - 1)) /\ batch \in SUBSET Nat
  BY DEF Batch
<1>7. /\ blockInfo' = [blockInfo EXCEPT ![n] = c]
      /\ disk' = [disk EXCEPT ![n] = @ \ batch]
  BY <1>4
<1> HIDE DEF c, batch
<1>8. /\ c \in BlockMaps
      /\ c.numBlocks = b.numBlocks
      /\ c.blocks = b.blocks \ gone
      /\ CursorExact(b) => CursorExact(c)
  BY <1>5, <1>6, WithoutBlocksCorrect DEF c
<1>9. ASSUME resets = 0
      PROVE  /\ c.blocks = blockInfo[n].blocks \ batch
             /\ batch \subseteq blockInfo[n].blocks
             /\ CursorExact(c)
             /\ cache_used' = cache_used - Charged(n, batch)
  <2>0. cache_used' = cache_used - Charged(n, batch)
    BY <1>4, <1>9 DEF Discounted, batch
  <2>1. batch \subseteq blockInfo[n].blocks
    BY <1>5, <1>6, <1>9 DEF CursorExact
  <2>2. c.blocks = blockInfo[n].blocks \ batch
    BY <1>2, <1>5, <1>8, <1>9 DEF IInv, OnDisk
  <2>3. QED
    BY <1>5, <1>8, <1>9, <2>0, <2>1, <2>2
<1>10. QED
  BY <1>2, <1>3, <1>5, <1>6, <1>7, <1>8, <1>9

LEMMA EvictType ==
  ASSUME IInv, NEW t \in Thread, handleCache(t)
  PROVE  TypeOK'
<1>1. pc[t] = "evict" /\ (NextVisit(t) \/ EvictionDone(t))
  BY DEF handleCache, SkipOwnFile, EvictFromFile
<1>2. scan' \in [i : Nat, begin : Nat, tries : Nat]
  BY <1>1, NextVisitEffect
<1>3. /\ pc' \in [Thread \cup {Querier, Updater} -> Labels \cup {"waiting"}]
      /\ \A u \in Thread : pc'[u] \in InsideAt => pc[u] \in InsideAt
      /\ fetch' \in Thread \cup {NoThread}
  BY <1>1, NextVisitEffect
     DEF IInv, TypeOK, Labels, ExclusiveAt, InsideAt, MarkedAt, InFlightAt
<1>4. /\ blockInfo' \in [Name -> BlockMaps]
      /\ \A n \in Name : blockInfo'[n].numBlocks = blockInfo[n].numBlocks
      /\ disk' \in [Name -> SUBSET Nat]
  <2>1. CASE SkipOwnFile(t)
    BY <2>1 DEF SkipOwnFile, cache, IInv, TypeOK
  <2>2. CASE EvictFromFile(t)
    <3>1. PICK n \in Name, gone \in SUBSET Nat, c \in BlockMaps :
            /\ blockInfo' = [blockInfo EXCEPT ![n] = c]
            /\ disk' = [disk EXCEPT ![n] = @ \ gone]
            /\ c.numBlocks = blockInfo[n].numBlocks
      BY <2>2, EvictEffect
    <3>2. /\ blockInfo \in [Name -> BlockMaps]
          /\ disk \in [Name -> SUBSET Nat]
      BY DEF IInv, TypeOK
    <3>3. QED
      BY <3>1, <3>2
  <2>3. QED
    BY <2>1, <2>2 DEF handleCache
<1>5. UNCHANGED <<locals, rwlock, files, downloading, peers, resets, process>>
  BY DEF handleCache, SkipOwnFile, EvictFromFile, cache
<1>6. QED
  BY <1>2, <1>3, <1>4, <1>5 DEF IInv, TypeOK, locals, rwlock, Blocks, NumBlocks

LEMMA BlockBytesInt ==
  ASSUME NEW n \in Name, NEW b \in Nat
  PROVE  BlockBytes(n, b) \in Int
<1>1. FileSize[n] \in Nat /\ BlockSize \in Nat
  BY FilesAssumption
<1>2. b * BlockSize \in Int
  BY <1>1
<1>3. QED
  BY <1>1, <1>2 DEF BlockBytes

(* What a thread whose block is asked for does to the map of its file.     *)
LEMMA StoreEffect ==
  ASSUME IInv, NEW t \in Thread, Store(t)
  PROVE  \E k \in DOMAIN files, c \in BlockMaps :
           /\ files[k] = req[t].name
           /\ idx' = [idx EXCEPT ![t] = k]
           /\ blockInfo' = [blockInfo EXCEPT ![req[t].name] = c]
           /\ c.numBlocks = blockInfo[req[t].name].numBlocks
           /\ resets = 0 =>
                /\ c.blocks = blockInfo[req[t].name].blocks \cup {req[t].block}
                /\ CursorExact(c)
<1> DEFINE n == req[t].name
           k == IdxOf(n)
           m == blockInfo[n]
<1>1. pc[t] = "store" /\ n \in Name
  BY DEF Store, IInv, TypeOK
<1>2. n \in Known
  BY <1>1 DEF IInv, IdxRight, MarkedAt, InFlightAt, Known
<1>3. k \in DOMAIN files /\ files[k] = n
  BY <1>2, IdxOfFinds DEF IInv, TypeOK
<1>4. PICK b \in Copies(n) :
        blockInfo' = [blockInfo EXCEPT ![n] =
                        IF HasBlock(b, req[t].block) THEN @ ELSE SetBlock(b, req[t].block)]
  BY <1>3 DEF Store
<1> DEFINE c == IF HasBlock(b, req[t].block) THEN m ELSE SetBlock(b, req[t].block)
<1>5. blockInfo' = [blockInfo EXCEPT ![n] = c] /\ idx' = [idx EXCEPT ![t] = k]
  BY <1>1, <1>4 DEF Store, IInv, TypeOK
<1>6. /\ b \in BlockMaps
      /\ b.numBlocks = m.numBlocks
      /\ resets = 0 => b = m /\ CursorExact(b)
      /\ m \in BlockMaps
  BY <1>1, CopiesAreMaps DEF IInv, TypeOK
<1>7. ValidBlock(b, req[t].block)
  BY <1>1, <1>6 DEF IInv, TypeOK, ValidBlock, Blocks, InsideAt, MarkedAt, InFlightAt
<1> HIDE DEF k, m, n
<1>8. /\ c \in BlockMaps /\ c.numBlocks = m.numBlocks
      /\ resets = 0 => c.blocks = m.blocks \cup {req[t].block} /\ CursorExact(c)
  <2>1. CASE HasBlock(b, req[t].block)
    BY <2>1, <1>6 DEF HasBlock
  <2>2. CASE ~HasBlock(b, req[t].block)
    BY <2>2, <1>6, <1>7, SetBlockCorrect
  <2>3. QED
    BY <2>1, <2>2
<1> HIDE DEF c
<1>9. QED
  BY <1>3, <1>5, <1>8 DEF n, m

LEMMA DownloadType ==
  ASSUME IInv, NEW t \in Thread, Download(t)
  PROVE  TypeOK'
<1> USE DEF IInv, TypeOK, Goto, Labels, ExclusiveAt, MarkedAt, InFlightAt, InsideAt, rwlock,
            cache, rest, locals, Blocks, NumBlocks
<1>1. CASE AskPeer(t)
  BY <1>1, UnlockType DEF AskPeer
<1>2. CASE PeerIsGone(t)
  BY <1>2 DEF PeerIsGone, Die
<1>3. ASSUME pc[t] # "idle"
      PROVE  /\ BlockBytes(req[t].name, req[t].block) \in Int
             /\ req[t].block \in Nat /\ req[t].name \in Name
  BY <1>3, BlockBytesInt
<1>4. CASE PeerSends(t)
  BY <1>3, <1>4 DEF PeerSends
<1>5. CASE PeerBreaks(t)
  <2>1. resets' \in 0..MaxResets /\ Retries \in Nat
    BY <1>5, CacheAssumption DEF PeerBreaks
  <2>2. QED
    BY <1>5, <2>1, UnlockType DEF PeerBreaks
<1>6. CASE AskSource(t)
  <2>1. Retries \in Nat
    BY CacheAssumption
  <2>2. QED
    BY <1>6, <2>1, UnlockType DEF AskSource
<1>7. CASE SourceSends(t)
  <2>1. AfterOffset(BlockBytes(req[t].name, req[t].block), req[t].offset) \in Int
    BY <1>3, <1>7 DEF SourceSends, AfterOffset
  <2>2. QED
    BY <1>3, <1>7, <2>1 DEF SourceSends
<1>8. CASE SourceFails(t)
  <2>1. retries' \in [Thread -> Nat]
    BY <1>8 DEF SourceFails
  <2>2. QED
    BY <1>8, <2>1 DEF SourceFails
<1>9. CASE SourceExhausted(t) \/ CopyOverrun(t)
  BY <1>9 DEF SourceExhausted, CopyOverrun, Die
<1>10. CASE Store(t)
  <2> HIDE DEF IInv, TypeOK
  <2>1. PICK k \in DOMAIN files, c \in BlockMaps :
          /\ idx' = [idx EXCEPT ![t] = k]
          /\ blockInfo' = [blockInfo EXCEPT ![req[t].name] = c]
          /\ c.numBlocks = blockInfo[req[t].name].numBlocks
    BY <1>10, StoreEffect
  <2> USE DEF IInv, TypeOK
  <2>2. k \in Nat
    <3>1. DOMAIN files = 1..Len(files)
      OBVIOUS
    <3>2. QED
      BY <2>1, <3>1
  <2>3. /\ idx' \in [Thread -> Nat]
        /\ blockInfo' \in [Name -> BlockMaps]
        /\ \A n \in Name : blockInfo'[n].numBlocks = blockInfo[n].numBlocks
    BY <2>1, <2>2
  <2>4. /\ pc' = [pc EXCEPT ![t] = "unqueue"] /\ pc[t] = "store"
        /\ UNCHANGED <<req, prefetched, retries, resp_size, rwlock, fetch, files,
                       downloading, disk, rest>>
    BY <1>10 DEF Store
  <2>5. QED
    BY <2>3, <2>4
<1>11. CASE Unqueue(t)
  <2>1. downloading' \in [Name -> SUBSET Nat]
    BY <1>11 DEF Unqueue
  <2>2. QED
    BY <1>11, <2>1, ReturnType DEF Unqueue
<1>12. CASE UnqueueRaces(t)
  <2>1. CASE Return(t) /\ UNCHANGED <<rwlock, fetch, cache, rest>>
    BY <2>1, ReturnType
  <2>2. CASE Die("crashed")
    BY <2>2 DEF Die
  <2>3. QED
    BY <1>12, <2>1, <2>2 DEF UnqueueRaces
<1>13. QED
  BY <1>1, <1>2, <1>4, <1>5, <1>6, <1>7, <1>8, <1>9, <1>10, <1>11, <1>12 DEF Download

LEMMA TrackerType ==
  ASSUME IInv, OtherStep
  PROVE  TypeOK'
<1>1. CASE \E t \in Server : ServeUnknown(t)
  BY <1>1 DEF ServeUnknown, Die, IInv, TypeOK, locals, rwlock, cache, Blocks, NumBlocks
<1>2. CASE QueryTracker \/ TrackerAnswers \/ UpdateOnTracker \/ UpdateSent
  <2>1. Querier \notin Thread /\ Updater \notin Thread
    BY ThreadsAssumption
  <2>2. /\ pc \in [Thread \cup {Querier, Updater} -> Labels \cup {"waiting"}]
        /\ readers \in Int /\ peers \in SUBSET (Name \X Nat)
        /\ writer \in Thread \cup {Querier, NoThread}
    BY DEF IInv, TypeOK
  <2>3. \E u \in {Querier, Updater}, label \in {"idle", "waiting"} :
          pc' = [pc EXCEPT ![u] = label]
    BY <1>2 DEF QueryTracker, TrackerAnswers, UpdateOnTracker, UpdateSent, Goto
  <2>4. /\ pc' \in [Thread \cup {Querier, Updater} -> Labels \cup {"waiting"}]
        /\ \A t \in Thread : pc'[t] = pc[t]
    BY <2>1, <2>2, <2>3 DEF Labels
  <2>5. writer' \in Thread \cup {Querier, NoThread} /\ readers' \in Int
    BY <1>2, <2>2 DEF QueryTracker, TrackerAnswers, UpdateOnTracker, UpdateSent, Unlock
  <2>6. peers' \in SUBSET (Name \X Nat)
    BY <1>2, <2>2, CacheAssumption
       DEF QueryTracker, TrackerAnswers, UpdateOnTracker, UpdateSent, rest
  <2>7. UNCHANGED <<locals, fetch, cache, scan, resets, process>>
    BY <1>2 DEF QueryTracker, TrackerAnswers, UpdateOnTracker, UpdateSent, rest
  <2>8. QED
    BY <2>4, <2>5, <2>6, <2>7 DEF IInv, TypeOK, locals, cache, Blocks, NumBlocks
<1>3. QED
  BY <1>1, <1>2 DEF OtherStep

-----------------------------------------------------------------------------
(* The locks.                                                              *)

(* One thread goes on to a label, and gains or loses what the label says.   *)
LEMMA LocksMove ==
  ASSUME IInv, NEW t \in Thread, NEW label,
         pc' = [pc EXCEPT ![t] = label],
         UNCHANGED resets,
         fetch' = IF label \in FetchAt THEN t ELSE IF fetch = t THEN NoThread ELSE fetch,
         resets = 0 =>
           /\ writer' = IF label \in ExclusiveAt THEN t
                        ELSE IF writer = t THEN NoThread ELSE writer
           /\ UNCHANGED readers,
         label \in FetchAt => fetch \in {t, NoThread},
         resets = 0 /\ label \in ExclusiveAt =>
           writer = t \/ (writer = NoThread /\ readers = 0)
  PROVE  LockDiscipline'
<1>1. /\ NoThread \notin Thread /\ NoThread # Querier
      /\ Querier \notin Thread /\ Updater \notin Thread
  BY ThreadsAssumption
<1>2. /\ \A u \in Thread : pc'[u] = IF u = t THEN label ELSE pc[u]
      /\ pc'[Querier] = pc[Querier] /\ pc'[Updater] = pc[Updater]
  BY <1>1 DEF IInv, TypeOK
<1>3. \A u \in Thread : fetch' = u <=> pc'[u] \in FetchAt
  BY <1>1, <1>2 DEF IInv, LockDiscipline
<1>4. resets = 0 => \A u \in Thread : writer' = u <=> pc'[u] \in ExclusiveAt
  BY <1>1, <1>2 DEF IInv, LockDiscipline
<1>5. resets = 0 => /\ writer' = Querier <=> pc'[Querier] = "waiting"
                    /\ readers' = IF pc'[Updater] = "waiting" THEN 1 ELSE 0
                    /\ readers' = 0 \/ writer' = NoThread
  BY <1>1, <1>2 DEF IInv, LockDiscipline
<1>6. QED
  BY <1>3, <1>4, <1>5 DEF LockDiscipline

LEMMA CallLocks ==
  ASSUME IInv, NEW t \in Thread, NEW n, NEW k, NEW off, Call(t, n, k, off)
  PROVE  LockDiscipline'
<1>1. t # Querier /\ t # Updater
  BY ThreadsAssumption
<1>2. QED
  BY <1>1 DEF IInv, TypeOK, LockDiscipline, Call, Goto, rwlock, rest, FetchAt, ExclusiveAt

LEMMA LookupLocks ==
  ASSUME IInv, NEW t \in Thread, Lookup(t)
  PROVE  LockDiscipline'
<1>1. /\ NoThread \notin Thread /\ NoThread # Querier
      /\ Querier \notin Thread /\ Updater \notin Thread
  BY ThreadsAssumption
<1> USE DEF IInv, TypeOK, LockDiscipline, Goto, rwlock, rest, FetchAt, ExclusiveAt
<1>2. CASE LockClient(t)
  <2>1. /\ pc[t] = "lock" /\ pc' = [pc EXCEPT ![t] = "lookup"]
        /\ writer' = t
        /\ UNCHANGED <<readers, fetch, resets>>
        /\ resets = 0 => writer = NoThread /\ readers = 0
    BY <1>2 DEF LockClient, WrFree
  <2>2. fetch # t
    BY <2>1
  <2>3. QED
    BY <2>1, <2>2, LocksMove
<1>3. CASE FileFound(t)
  BY <1>1, <1>3 DEF FileFound
<1>4. CASE FileNotFound(t)
  BY <1>1, <1>4 DEF FileNotFound
<1>5. CASE NewFileFails(t)
  BY <1>5 DEF NewFileFails, Die
<1>6. CASE NewFile(t)
  BY <1>1, <1>6 DEF NewFile
<1>7. QED
  BY <1>2, <1>3, <1>4, <1>5, <1>6 DEF Lookup

LEMMA CheckLocks ==
  ASSUME IInv, NEW t \in Thread, Check(t)
  PROVE  LockDiscipline'
<1>1. /\ NoThread \notin Thread /\ NoThread # Querier
      /\ Querier \notin Thread /\ Updater \notin Thread
  BY ThreadsAssumption
<1> USE DEF IInv, TypeOK, LockDiscipline, Goto, rwlock, rest, FetchAt, ExclusiveAt
<1>2. CASE LockFetch(t)
  BY <1>1, <1>2 DEF LockFetch, FetchFree
<1>3. CASE WaitForDownload(t)
  <2>1. /\ pc[t] = "check" /\ pc' = [pc EXCEPT ![t] = "sleep"]
        /\ fetch' = NoThread /\ Unlock(t)
        /\ UNCHANGED resets
    BY <1>3 DEF WaitForDownload
  <2>2. fetch = t /\ (resets = 0 => writer' = NoThread /\ writer = t /\ UNCHANGED readers)
    BY <2>1, UnlockOwn
  <2>3. QED
    BY <2>1, <2>2, LocksMove
<1>4. CASE WakeUp(t)
  <2>1. /\ pc[t] = "sleep" /\ pc' = [pc EXCEPT ![t] = "lockFetch"]
        /\ writer' = t
        /\ UNCHANGED <<readers, fetch, resets>>
        /\ resets = 0 => writer = NoThread /\ readers = 0
    BY <1>4 DEF WakeUp, WrFree
  <2>2. fetch # t
    BY <2>1
  <2>3. QED
    BY <2>1, <2>2, LocksMove
<1>5. CASE CacheHit(t)
  BY <1>1, <1>5 DEF CacheHit
<1>6. CASE ReadBlock(t)
  <2>1. CASE Die("crashed")
    BY <2>1 DEF Die
  <2>2. CASE Unlock(t) /\ Return(t) /\ UNCHANGED <<fetch, cache, rest>>
    <3>1. pc[t] = "read" /\ pc' = [pc EXCEPT ![t] = "idle"]
      BY <1>6, <2>2 DEF ReadBlock, Return
    <3>2. resets = 0 => writer = t /\ writer' = NoThread /\ UNCHANGED readers
      BY <2>2, <3>1, UnlockOwn
    <3>3. fetch # t
      BY <3>1
    <3>4. QED
      BY <2>2, <3>1, <3>2, <3>3, LocksMove
  <2>3. QED
    BY <1>6, <2>1, <2>2 DEF ReadBlock
<1>7. CASE OutOfRange(t) \/ WaitedInVain(t)
  BY <1>7 DEF OutOfRange, WaitedInVain, Die
<1>8. CASE CacheMiss(t)
  <2>1. /\ pc[t] = "check"
        /\ UNCHANGED <<writer, readers, resets>>
        /\ \/ pc' = [pc EXCEPT ![t] = "evict"] /\ UNCHANGED fetch
           \/ pc' = [pc EXCEPT ![t] = "choose"] /\ fetch' = NoThread
    BY <1>8 DEF CacheMiss
  <2>2. fetch = t /\ (resets = 0 => writer = t)
    BY <2>1
  <2>3. QED
    BY <2>1, <2>2, LocksMove
<1>9. QED
  BY <1>2, <1>3, <1>4, <1>5, <1>6, <1>7, <1>8 DEF Check

LEMMA EvictLocks ==
  ASSUME IInv, NEW t \in Thread, handleCache(t)
  PROVE  LockDiscipline'
<1>1. /\ NoThread \notin Thread /\ NoThread # Querier
      /\ Querier \notin Thread /\ Updater \notin Thread
  BY ThreadsAssumption
<1>2. pc[t] = "evict" /\ (NextVisit(t) \/ EvictionDone(t))
  BY DEF handleCache, SkipOwnFile, EvictFromFile
<1>3. \/ UNCHANGED <<pc, fetch>>
      \/ pc' = [pc EXCEPT ![t] = "choose"] /\ fetch' = NoThread
  BY <1>2, NextVisitEffect
<1>4. UNCHANGED <<writer, readers, resets>>
  BY DEF handleCache, SkipOwnFile, EvictFromFile, rwlock
<1>5. QED
  <2>1. fetch = t /\ (resets = 0 => writer = t)
    BY <1>2 DEF IInv, LockDiscipline, FetchAt, ExclusiveAt
  <2>2. CASE UNCHANGED <<pc, fetch>>
    BY <1>4, <2>2 DEF IInv, LockDiscipline
  <2>3. CASE pc' = [pc EXCEPT ![t] = "choose"] /\ fetch' = NoThread
    BY <1>1, <1>4, <2>1, <2>3, LocksMove DEF FetchAt, ExclusiveAt
  <2>4. QED
    BY <1>3, <2>2, <2>3

LEMMA DownloadLocks ==
  ASSUME IInv, NEW t \in Thread, Download(t)
  PROVE  LockDiscipline'
<1>1. /\ NoThread \notin Thread /\ NoThread # Querier
      /\ Querier \notin Thread /\ Updater \notin Thread
  BY ThreadsAssumption
<1> USE DEF IInv, TypeOK, LockDiscipline, Goto, rwlock, rest, FetchAt, ExclusiveAt
<1>2. CASE AskPeer(t)
  <2>1. /\ pc[t] = "choose" /\ pc' = [pc EXCEPT ![t] = "peer"]
        /\ Unlock(t) /\ UNCHANGED <<fetch, resets>>
    BY <1>2 DEF AskPeer
  <2>2. fetch # t /\ (resets = 0 => writer' = NoThread /\ writer = t /\ UNCHANGED readers)
    BY <2>1, UnlockOwn
  <2>3. QED
    BY <2>1, <2>2, LocksMove
<1>3. CASE PeerIsGone(t)
  BY <1>3 DEF PeerIsGone, Die
<1>4. CASE PeerSends(t)
  BY <1>1, <1>4 DEF PeerSends
<1>5. CASE PeerBreaks(t)
  <2>1. resets' # 0
    BY <1>5, CacheAssumption DEF PeerBreaks
  <2>2. QED
    BY <1>1, <1>5, <2>1 DEF PeerBreaks
<1>6. CASE AskSource(t)
  <2>1. /\ pc[t] = "choose" /\ pc' = [pc EXCEPT ![t] = "source"]
        /\ Unlock(t) /\ UNCHANGED <<fetch, resets>>
    BY <1>6 DEF AskSource
  <2>2. fetch # t /\ (resets = 0 => writer' = NoThread /\ writer = t /\ UNCHANGED readers)
    BY <2>1, UnlockOwn
  <2>3. QED
    BY <2>1, <2>2, LocksMove
<1>7. CASE SourceSends(t)
  BY <1>1, <1>7 DEF SourceSends
<1>8. CASE SourceFails(t)
  BY <1>8 DEF SourceFails
<1>9. CASE SourceExhausted(t) \/ CopyOverrun(t)
  BY <1>9 DEF SourceExhausted, CopyOverrun, Die
<1>10. CASE Store(t)
  <2>1. /\ pc[t] = "store" /\ pc' = [pc EXCEPT ![t] = "unqueue"]
        /\ UNCHANGED <<writer, readers, fetch, resets>>
    BY <1>10 DEF Store
  <2>2. fetch # t /\ (resets = 0 => writer # t)
    BY <2>1
  <2>3. QED
    BY <2>1, <2>2, LocksMove
<1>11. CASE Unqueue(t)
  BY <1>1, <1>11 DEF Unqueue, Return
<1>12. CASE UnqueueRaces(t)
  <2>1. CASE Return(t) /\ UNCHANGED <<rwlock, fetch, cache, rest>>
    <3>1. /\ pc[t] = "unqueue" /\ pc' = [pc EXCEPT ![t] = "idle"]
          /\ UNCHANGED <<writer, readers, fetch, resets>>
      BY <1>12, <2>1 DEF UnqueueRaces, Return
    <3>2. fetch # t /\ (resets = 0 => writer # t)
      BY <3>1
    <3>3. QED
      BY <3>1, <3>2, LocksMove
  <2>2. CASE Die("crashed")
    BY <2>2 DEF Die
  <2>3. QED
    BY <1>12, <2>1, <2>2 DEF UnqueueRaces
<1>13. QED
  BY <1>2, <1>3, <1>4, <1>5, <1>6, <1>7, <1>8, <1>9, <1>10, <1>11, <1>12 DEF Download

LEMMA TrackerLocks ==
  ASSUME IInv, OtherStep
  PROVE  LockDiscipline'
<1>1. /\ NoThread \notin Thread /\ NoThread # Querier
      /\ Querier \notin Thread /\ Updater \notin Thread /\ Querier # Updater
  BY ThreadsAssumption
<1> USE DEF IInv, TypeOK, LockDiscipline, Goto, rwlock, rest, FetchAt, ExclusiveAt
<1>2. CASE QueryTracker
  BY <1>1, <1>2 DEF QueryTracker, WrFree
<1>3. CASE TrackerAnswers
  BY <1>1, <1>3 DEF TrackerAnswers, Unlock
<1>4. CASE UpdateOnTracker
  BY <1>1, <1>4 DEF UpdateOnTracker, RdFree
<1>5. CASE UpdateSent
  BY <1>1, <1>5 DEF UpdateSent
<1>6. CASE \E t \in Server : ServeUnknown(t)
  BY <1>6 DEF ServeUnknown, Die
<1>7. QED
  BY <1>2, <1>3, <1>4, <1>5, <1>6 DEF OtherStep

-----------------------------------------------------------------------------
(* The downloads.                                                          *)

(* Only CacheMiss starts one: whoever is at a download after another step  *)
(* was at the same one before it.                                          *)
LEMMA DownloadsGoOn ==
  ASSUME IInv, Running, \A t \in Thread : ~CacheMiss(t), NEW u \in Thread
  PROVE  /\ pc'[u] \in MarkedAt => pc[u] \in MarkedAt /\ req'[u] = req[u]
         /\ pc'[u] \in InFlightAt => pc[u] \in InFlightAt
<1> USE DEF Goto, MarkedAt, InFlightAt, locals
<1>1. pc \in [Thread \cup {Querier, Updater} -> Labels \cup {"waiting"}]
  BY DEF IInv, TypeOK
<1>2. Querier \notin Thread /\ Updater \notin Thread
  BY ThreadsAssumption
<1>3. ASSUME NEW t \in Thread, NEW n, NEW k, NEW off, Call(t, n, k, off)
      PROVE  /\ pc'[u] \in MarkedAt => pc[u] \in MarkedAt /\ req'[u] = req[u]
             /\ pc'[u] \in InFlightAt => pc[u] \in InFlightAt
  <2>1. /\ u = t => pc'[u] = "lock"
        /\ u # t => pc'[u] = pc[u] /\ req'[u] = req[u]
    BY <1>1, <1>3 DEF Call, IInv, TypeOK
  <2>2. QED
    BY <2>1
<1>4. ASSUME NEW t \in Thread, Lookup(t)
      PROVE  /\ pc'[u] \in MarkedAt => pc[u] \in MarkedAt /\ req'[u] = req[u]
             /\ pc'[u] \in InFlightAt => pc[u] \in InFlightAt
  BY <1>1, <1>4
     DEF Lookup, LockClient, FileFound, FileNotFound, NewFileFails, NewFile, Die
<1>5. ASSUME NEW t \in Thread, Check(t)
      PROVE  /\ pc'[u] \in MarkedAt => pc[u] \in MarkedAt /\ req'[u] = req[u]
             /\ pc'[u] \in InFlightAt => pc[u] \in InFlightAt
  BY <1>1, <1>5
     DEF Check, LockFetch, WaitForDownload, WakeUp, CacheHit, ReadBlock, Return,
         OutOfRange, WaitedInVain, Die, IInv, TypeOK
<1>6. ASSUME NEW t \in Thread, handleCache(t)
      PROVE  /\ pc'[u] \in MarkedAt => pc[u] \in MarkedAt /\ req'[u] = req[u]
             /\ pc'[u] \in InFlightAt => pc[u] \in InFlightAt
  <2>1. pc[t] = "evict" /\ (NextVisit(t) \/ EvictionDone(t)) /\ UNCHANGED req
    BY <1>6 DEF handleCache, SkipOwnFile, EvictFromFile
  <2>2. UNCHANGED pc \/ pc' = [pc EXCEPT ![t] = "choose"]
    BY <2>1, NextVisitEffect
  <2>3. QED
    BY <1>1, <2>1, <2>2
<1>7. ASSUME NEW t \in Thread, Download(t)
      PROVE  /\ pc'[u] \in MarkedAt => pc[u] \in MarkedAt /\ req'[u] = req[u]
             /\ pc'[u] \in InFlightAt => pc[u] \in InFlightAt
  BY <1>1, <1>7
     DEF Download, AskPeer, PeerIsGone, PeerSends, PeerBreaks, AskSource, SourceSends,
         SourceFails, SourceExhausted, CopyOverrun, Store, Unqueue, UnqueueRaces, Return, Die, IInv, TypeOK
<1>8. CASE OtherStep
  BY <1>1, <1>2, <1>8 DEF OtherStep, QueryTracker, TrackerAnswers, UpdateOnTracker,
         UpdateSent, ServeUnknown, Die
<1>9. Streamer \in Thread /\ Prefetcher \subseteq Thread /\ Server \subseteq Thread
  BY DEF Thread
<1>10. QED
  BY <1>3, <1>4, <1>5, <1>6, <1>7, <1>8, <1>9
     DEF Running, OtherStep, StreamCall, PrefetchCall, ServeCall, getBlock

LEMMA MarksGoOn ==
  ASSUME IInv, Running, \A t \in Thread : ~CacheMiss(t)
  PROVE  \/ UNCHANGED downloading
         \/ \E t \in Thread : Unqueue(t)
<1> USE DEF cache
<1>1. CASE \E t \in Thread : Lookup(t)
  BY <1>1 DEF Lookup, LockClient, FileFound, FileNotFound, NewFileFails, NewFile, Die
<1>2. CASE \E t \in Thread : Check(t)
  BY <1>2 DEF Check, LockFetch, WaitForDownload, WakeUp, CacheHit, ReadBlock,
              OutOfRange, WaitedInVain, Die
<1>3. CASE \E t \in Thread : handleCache(t)
  BY <1>3 DEF handleCache, SkipOwnFile, EvictFromFile
<1>4. CASE \E t \in Thread : Download(t)
  BY <1>4 DEF Download, AskPeer, PeerIsGone, PeerSends, PeerBreaks, AskSource,
              SourceSends, SourceFails, SourceExhausted, CopyOverrun, Store, UnqueueRaces, Die
<1>5. CASE OtherStep
  BY <1>5 DEF OtherStep, QueryTracker, TrackerAnswers, UpdateOnTracker,
         UpdateSent, ServeUnknown, Die
<1>6. QED
  BY <1>1, <1>2, <1>3, <1>4, <1>5
     DEF Running, OtherStep, StreamCall, PrefetchCall, ServeCall, Call, getBlock

LEMMA SingleFlightStep ==
  ASSUME IInv, Running
  PROVE  SingleFlight'
<1>1. ASSUME NEW t \in Thread, CacheMiss(t)
      PROVE  SingleFlight'
  <2>1. /\ pc[t] = "check"
        /\ req' = req
        /\ pc'[t] \in {"evict", "choose"}
        /\ \A u \in Thread \ {t} : pc'[u] = pc[u]
    BY <1>1 DEF CacheMiss, Goto, locals, IInv, TypeOK
  <2>2. files[idx[t]] = req[t].name /\ req[t].name \in Name
    BY <2>1 DEF IInv, TypeOK, IdxRight
  <2>3. /\ req[t].block \notin downloading[req[t].name]
        /\ downloading' = [downloading EXCEPT ![req[t].name] = @ \cup {req[t].block}]
    BY <1>1, <2>2 DEF CacheMiss, Marked
  <2>4. /\ req[t].block \in downloading'[req[t].name]
        /\ \A n \in Name : downloading[n] \subseteq downloading'[n]
    BY <2>2, <2>3 DEF IInv, TypeOK
  <2>5. Marking' = Marking \cup {t}
    BY <2>1 DEF Marking, MarkedAt, InFlightAt
  <2>6. \A u \in Marking' : req'[u].block \in downloading'[req'[u].name]
    BY <2>1, <2>4, <2>5 DEF IInv, TypeOK, SingleFlight, Marking
  <2>7. \A u \in Marking : Key(u) # Key(t)
    BY <2>3 DEF IInv, SingleFlight, Key
  <2>8. \A u \in Thread : Key(u)' = Key(u)
    BY <2>1 DEF Key
  <2>9. \A u, v \in Marking' : u # v => Key(u)' # Key(v)'
    BY <2>5, <2>7, <2>8 DEF IInv, SingleFlight, Marking
  <2>10. QED
    BY <2>6, <2>9 DEF SingleFlight
<1>2. CASE \A t \in Thread : ~CacheMiss(t)
  <2>1. \A u \in Marking' : u \in Marking /\ req'[u] = req[u]
    BY <1>2, DownloadsGoOn DEF Marking
  <2>2. \A u, v \in Marking' : u # v => Key(u)' # Key(v)'
    BY <2>1 DEF IInv, SingleFlight, Key
  <2>3. CASE UNCHANGED downloading
    BY <2>1, <2>2, <2>3 DEF IInv, SingleFlight
  <2>4. ASSUME NEW t \in Thread, Unqueue(t)
        PROVE  SingleFlight'
    <3>1. pc[t] = "unqueue" /\ pc'[t] = "idle"
      BY <2>4 DEF Unqueue, Return, Goto, IInv, TypeOK
    <3>2. files[idx[t]] = req[t].name /\ t \in Marking /\ t \notin Marking'
      BY <3>1 DEF IInv, IdxRight, Marking, MarkedAt, InFlightAt
    <3>3. downloading' = [downloading EXCEPT ![req[t].name] = @ \ {req[t].block}]
      BY <2>4, <3>2 DEF Unqueue
    <3>4. ASSUME NEW u \in Marking'
          PROVE  req'[u].block \in downloading'[req'[u].name]
      <4>1. u \in Marking /\ u # t /\ req'[u] = req[u]
        BY <2>1, <3>2
      <4>2. Key(u) # Key(t) /\ req[u].block \in downloading[req[u].name]
        BY <4>1, <3>2 DEF IInv, SingleFlight
      <4>3. u \in Thread /\ req[u].name \in Name /\ req[t].name \in Name
        BY <4>1 DEF IInv, TypeOK, Marking
      <4>4. QED
        BY <3>3, <4>1, <4>2, <4>3 DEF IInv, TypeOK, Key
    <3>5. QED
      BY <2>2, <3>4 DEF SingleFlight
  <2>5. QED
    BY <1>2, <2>3, <2>4, MarksGoOn
<1>3. QED
  BY <1>1, <1>2

(* What a step does to the maps of the files: nothing, but for a download  *)
(* that ends and an eviction.                                              *)
LEMMA MapsStep ==
  ASSUME IInv, Running
  PROVE  \/ /\ UNCHANGED <<blockInfo, cache_used>>
            /\ \A n \in Name : disk[n] \subseteq disk'[n]
         \/ \E t \in Thread : Store(t) \/ EvictFromFile(t)
<1> USE DEF cache, IInv, TypeOK
<1>1. CASE \E t \in Thread : Lookup(t)
  BY <1>1 DEF Lookup, LockClient, FileFound, FileNotFound, NewFileFails, NewFile, Die
<1>2. CASE \E t \in Thread : Check(t)
  BY <1>2 DEF Check, LockFetch, WaitForDownload, WakeUp, CacheHit, ReadBlock,
              OutOfRange, WaitedInVain, CacheMiss, Die
<1>3. CASE \E t \in Thread : SkipOwnFile(t)
  BY <1>3 DEF SkipOwnFile
<1>4. CASE \E t \in Thread : Download(t) /\ ~Store(t)
  <2>1. PICK t \in Thread : Download(t) /\ ~Store(t)
    BY <1>4
  <2>2. CASE PeerSends(t) \/ SourceSends(t)
    <3>1. /\ disk' = [disk EXCEPT ![req[t].name] = @ \cup {req[t].block}]
          /\ UNCHANGED <<blockInfo, cache_used>>
      BY <2>2 DEF PeerSends, SourceSends
    <3>2. disk \in [Name -> SUBSET Nat]
      OBVIOUS
    <3> HIDE DEF IInv, TypeOK
    <3>3. QED
      BY <3>1, <3>2
  <2>3. CASE ~(PeerSends(t) \/ SourceSends(t))
    BY <2>1, <2>3 DEF Download, AskPeer, PeerIsGone, PeerBreaks, AskSource, SourceFails,
                      SourceExhausted, CopyOverrun, Unqueue, UnqueueRaces, Die
  <2>4. QED
    BY <2>2, <2>3
<1>5. CASE OtherStep
  BY <1>5 DEF OtherStep, QueryTracker, TrackerAnswers, UpdateOnTracker,
         UpdateSent, ServeUnknown, Die
<1>6. QED
  BY <1>1, <1>2, <1>3, <1>4, <1>5
     DEF Running, OtherStep, StreamCall, PrefetchCall, ServeCall, Call, getBlock, handleCache

(* A broken connection stays broken.                                       *)
LEMMA ResetsStay ==
  ASSUME IInv, Running, resets' = 0
  PROVE  resets = 0
<1> USE DEF rest
<1>1. CASE \E t \in Thread : Lookup(t)
  BY <1>1 DEF Lookup, LockClient, FileFound, FileNotFound, NewFileFails, NewFile, Die
<1>2. CASE \E t \in Thread : Check(t)
  BY <1>2 DEF Check, LockFetch, WaitForDownload, WakeUp, CacheHit, ReadBlock,
              OutOfRange, WaitedInVain, CacheMiss, Die
<1>3. CASE \E t \in Thread : handleCache(t)
  BY <1>3 DEF handleCache, SkipOwnFile, EvictFromFile
<1>4. CASE \E t \in Thread : Download(t) /\ ~PeerBreaks(t)
  BY <1>4 DEF Download, AskPeer, PeerIsGone, PeerSends, AskSource, SourceSends,
              SourceFails, SourceExhausted, CopyOverrun, Store, Unqueue, UnqueueRaces, Die
<1>5. CASE \E t \in Thread : PeerBreaks(t)
  <2>1. resets' = resets + 1 /\ resets \in Nat
    BY <1>5, CacheAssumption DEF PeerBreaks, IInv, TypeOK
  <2>2. QED
    BY <2>1
<1>6. CASE OtherStep
  BY <1>6 DEF OtherStep, QueryTracker, TrackerAnswers, UpdateOnTracker,
         UpdateSent, ServeUnknown, Die
<1>7. QED
  BY <1>1, <1>2, <1>3, <1>4, <1>5, <1>6
     DEF Running, OtherStep, StreamCall, PrefetchCall, ServeCall, Call, getBlock

LEMMA FetchOnlyMissingStep ==
  ASSUME IInv, Running
  PROVE  FetchOnlyMissing'
<1> SUFFICES ASSUME resets' = 0
             PROVE  FetchOnlyMissing'
  BY DEF FetchOnlyMissing
<1>0. resets = 0
  BY ResetsStay
<1>1. ASSUME NEW t \in Thread, CacheMiss(t)
      PROVE  FetchOnlyMissing'
  <2>1. /\ pc[t] = "check"
        /\ req' = req /\ blockInfo' = blockInfo
        /\ \A u \in Thread \ {t} : pc'[u] = pc[u]
    BY <1>1 DEF CacheMiss, Goto, locals, IInv, TypeOK
  <2>2. req[t].block \notin blockInfo[req[t].name].blocks
    BY <1>1, <2>1 DEF CacheMiss, Held, HasBlock, IInv, IdxRight
  <2>3. QED
    BY <1>0, <2>1, <2>2 DEF IInv, FetchOnlyMissing, InFlight
<1>2. CASE \A t \in Thread : ~CacheMiss(t)
  <2>1. \A u \in InFlight' : u \in InFlight /\ req'[u] = req[u] /\ u \in Marking
    BY <1>2, DownloadsGoOn DEF InFlight, Marking, MarkedAt
  <2>2. CASE UNCHANGED blockInfo
    BY <1>0, <2>1, <2>2 DEF IInv, FetchOnlyMissing
  <2>3. ASSUME NEW t \in Thread, Store(t)
        PROVE  FetchOnlyMissing'
    <3>1. PICK c \in BlockMaps :
            /\ blockInfo' = [blockInfo EXCEPT ![req[t].name] = c]
            /\ c.blocks = blockInfo[req[t].name].blocks \cup {req[t].block}
      BY <1>0, <2>3, StoreEffect
    <3>2. pc[t] = "store" /\ pc'[t] = "unqueue"
      BY <2>3 DEF Store, Goto, IInv, TypeOK
    <3>3. t \in Marking /\ t \notin InFlight'
      BY <3>2 DEF Marking, InFlight, MarkedAt, InFlightAt
    <3>4. ASSUME NEW u \in InFlight'
          PROVE  req'[u].block \notin blockInfo'[req'[u].name].blocks
      <4>1. u \in InFlight /\ u \in Marking /\ u # t /\ req'[u] = req[u]
        BY <2>1, <3>3
      <4>2. Key(u) # Key(t) /\ req[u].block \notin blockInfo[req[u].name].blocks
        BY <1>0, <4>1, <3>3 DEF IInv, SingleFlight, FetchOnlyMissing
      <4>3. u \in Thread /\ req[u].name \in Name /\ req[t].name \in Name
        BY <4>1 DEF IInv, TypeOK, Marking
      <4>4. QED
        BY <3>1, <4>1, <4>2, <4>3 DEF IInv, TypeOK, Key
    <3>5. QED
      BY <3>4 DEF FetchOnlyMissing
  <2>4. ASSUME NEW t \in Thread, EvictFromFile(t)
        PROVE  FetchOnlyMissing'
    <3>1. PICK n \in Name, gone \in SUBSET Nat, c \in BlockMaps :
            /\ blockInfo' = [blockInfo EXCEPT ![n] = c]
            /\ c.blocks = blockInfo[n].blocks \ gone
      BY <1>0, <2>4, EvictEffect
    <3>2. \A m \in Name : blockInfo'[m].blocks \subseteq blockInfo[m].blocks
      BY <3>1 DEF IInv, TypeOK
    <3>3. \A u \in InFlight : req[u].name \in Name
      BY DEF IInv, TypeOK, InFlight
    <3>4. QED
      BY <1>0, <2>1, <3>2, <3>3 DEF IInv, FetchOnlyMissing
  <2>5. QED
    BY <2>2, <2>3, <2>4, MapsStep
<1>3. QED
  BY <1>1, <1>2

(* A thread comes to store its block only with the block file written.     *)
LEMMA BeforeStore ==
  ASSUME IInv, Running, NEW u \in Thread, pc'[u] = "store"
  PROVE  \/ pc[u] = "store" /\ req'[u] = req[u] /\ resp_size'[u] = resp_size[u]
         \/ PeerSends(u) \/ SourceSends(u)
<1> DEFINE Goal == \/ pc[u] = "store" /\ req'[u] = req[u] /\ resp_size'[u] = resp_size[u]
                   \/ PeerSends(u) \/ SourceSends(u)
<1> USE DEF Goto, locals
<1>1. pc \in [Thread \cup {Querier, Updater} -> Labels \cup {"waiting"}]
  BY DEF IInv, TypeOK
<1>2. /\ req \in [Thread -> [name : Name, block : Nat, offset : Nat]]
      /\ resp_size \in [Thread -> Int]
  BY DEF IInv, TypeOK
<1>3. ASSUME NEW t \in Thread, NEW n, NEW k, NEW off, Call(t, n, k, off)
      PROVE  Goal
  BY <1>1, <1>2, <1>3 DEF Call
<1>4. ASSUME NEW t \in Thread, Lookup(t)
      PROVE  Goal
  BY <1>1, <1>4
     DEF Lookup, LockClient, FileFound, FileNotFound, NewFileFails, NewFile, Die
<1>5. ASSUME NEW t \in Thread, Check(t)
      PROVE  Goal
  BY <1>1, <1>2, <1>5
     DEF Check, LockFetch, WaitForDownload, WakeUp, CacheHit, ReadBlock, Return,
         OutOfRange, WaitedInVain, CacheMiss, Die
<1>6. ASSUME NEW t \in Thread, handleCache(t)
      PROVE  Goal
  <2>1. pc[t] = "evict" /\ (NextVisit(t) \/ EvictionDone(t))
        /\ UNCHANGED <<req, resp_size>>
    BY <1>6 DEF handleCache, SkipOwnFile, EvictFromFile
  <2>2. UNCHANGED pc \/ pc' = [pc EXCEPT ![t] = "choose"]
    BY <2>1, NextVisitEffect
  <2>3. QED
    BY <1>1, <2>1, <2>2
<1>7. ASSUME NEW t \in Thread, Download(t)
      PROVE  Goal
  <2>1. CASE PeerSends(t) \/ SourceSends(t)
    <3>1. CASE u = t
      BY <2>1, <3>1
    <3>2. CASE u # t
      BY <1>1, <1>2, <2>1, <3>2 DEF PeerSends, SourceSends
    <3>3. QED
      BY <3>1, <3>2
  <2>2. CASE ~(PeerSends(t) \/ SourceSends(t))
    BY <1>1, <1>2, <1>7, <2>2
       DEF Download, AskPeer, PeerIsGone, PeerBreaks, AskSource, SourceFails,
           SourceExhausted, CopyOverrun, Store, Unqueue, UnqueueRaces, Return, Die
  <2>3. QED
    BY <2>1, <2>2
<1>8. ASSUME OtherStep
      PROVE  Goal
  BY <1>1, <1>8, ThreadsAssumption
     DEF OtherStep, QueryTracker, TrackerAnswers, UpdateOnTracker,
         UpdateSent, ServeUnknown, Die
<1>9. Streamer \in Thread /\ Prefetcher \subseteq Thread /\ Server \subseteq Thread
  BY DEF Thread
<1> HIDE DEF Goal
<1>10. Goal
  BY <1>3, <1>4, <1>5, <1>6, <1>7, <1>8, <1>9
     DEF Running, OtherStep, StreamCall, PrefetchCall, ServeCall, getBlock
<1>11. QED
  BY <1>10 DEF Goal

LEMMA FileBeforeMapStep ==
  ASSUME IInv, Running
  PROVE  FileBeforeMap'
<1> SUFFICES ASSUME resets' = 0, NEW u \in Thread, pc'[u] = "store"
             PROVE  req'[u].block \in disk'[req'[u].name]
  BY DEF FileBeforeMap
<1>0. resets = 0
  BY ResetsStay
<1>1. /\ disk \in [Name -> SUBSET Nat]
      /\ req \in [Thread -> [name : Name, block : Nat, offset : Nat]]
      /\ req[u].name \in Name
  BY DEF IInv, TypeOK
<1>2. CASE PeerSends(u) \/ SourceSends(u)
  <2>1. /\ disk' = [disk EXCEPT ![req[u].name] = @ \cup {req[u].block}]
        /\ UNCHANGED req
    BY <1>2 DEF PeerSends, SourceSends
  <2>2. QED
    BY <1>1, <2>1
<1>3. CASE pc[u] = "store" /\ req'[u] = req[u]
  <2>1. req[u].block \in disk[req[u].name]
    BY <1>0, <1>3 DEF IInv, FileBeforeMap
  <2>2. CASE \A n \in Name : disk[n] \subseteq disk'[n]
    BY <1>1, <1>3, <2>1, <2>2
  <2>3. CASE \E t \in Thread : Store(t)
    BY <1>3, <2>1, <2>3 DEF Store
  <2>4. ASSUME NEW t \in Thread, EvictFromFile(t)
        PROVE  req'[u].block \in disk'[req'[u].name]
    <3>1. PICK n \in Name, gone \in SUBSET Nat :
            /\ disk' = [disk EXCEPT ![n] = @ \ gone]
            /\ gone \subseteq blockInfo[n].blocks
      BY <1>0, <2>4, EvictEffect
    <3>2. req[u].block \notin blockInfo[req[u].name].blocks
      BY <1>0, <1>3 DEF IInv, FetchOnlyMissing, InFlight, InFlightAt
    <3>3. QED
      BY <1>1, <1>3, <2>1, <3>1, <3>2
  <2>5. QED
    BY <2>2, <2>3, <2>4, MapsStep
<1>4. QED
  BY <1>2, <1>3, BeforeStore

LEMMA OnDiskStep ==
  ASSUME IInv, Running
  PROVE  OnDisk'
<1> SUFFICES ASSUME resets' = 0
             PROVE  OnDisk'
  BY DEF OnDisk
<1>0. resets = 0
  BY ResetsStay
<1>1. disk \in [Name -> SUBSET Nat] /\ blockInfo \in [Name -> BlockMaps]
  BY DEF IInv, TypeOK
<1>2. \A n \in Name : blockInfo[n].blocks \subseteq disk[n] /\ CursorExact(blockInfo[n])
  BY <1>0 DEF IInv, OnDisk
<1>3. CASE UNCHANGED blockInfo /\ \A n \in Name : disk[n] \subseteq disk'[n]
  BY <1>2, <1>3 DEF OnDisk
<1>4. ASSUME NEW t \in Thread, Store(t)
      PROVE  OnDisk'
  <2>1. PICK c \in BlockMaps :
          /\ blockInfo' = [blockInfo EXCEPT ![req[t].name] = c]
          /\ c.blocks = blockInfo[req[t].name].blocks \cup {req[t].block}
          /\ CursorExact(c)
    BY <1>0, <1>4, StoreEffect
  <2>2. UNCHANGED disk /\ req[t].block \in disk[req[t].name]
    BY <1>0, <1>4 DEF Store, IInv, FileBeforeMap
  <2>3. \A n \in Name : blockInfo'[n] = IF n = req[t].name THEN c ELSE blockInfo[n]
    BY <1>1, <2>1
  <2>4. QED
    BY <1>2, <2>1, <2>2, <2>3 DEF OnDisk
<1>5. ASSUME NEW t \in Thread, EvictFromFile(t)
      PROVE  OnDisk'
  <2>1. PICK n \in Name, gone \in SUBSET Nat, c \in BlockMaps :
          /\ blockInfo' = [blockInfo EXCEPT ![n] = c]
          /\ disk' = [disk EXCEPT ![n] = @ \ gone]
          /\ c.blocks = blockInfo[n].blocks \ gone
          /\ CursorExact(c)
    BY <1>0, <1>5, EvictEffect
  <2>2. \A m \in Name : /\ blockInfo'[m] = IF m = n THEN c ELSE blockInfo[m]
                        /\ disk'[m] = IF m = n THEN disk[m] \ gone ELSE disk[m]
    BY <1>1, <2>1
  <2>3. QED
    BY <1>2, <2>1, <2>2 DEF OnDisk
<1>6. QED
  BY <1>3, <1>4, <1>5, MapsStep

-----------------------------------------------------------------------------
(* The vector files.                                                       *)

LEMMA FilesGrow ==
  ASSUME IInv, Running
  PROVE  \/ UNCHANGED files
         \/ \E t \in Thread : NewFile(t)
<1> USE DEF cache
<1>1. CASE \E t \in Thread : Lookup(t)
  BY <1>1 DEF Lookup, LockClient, FileFound, FileNotFound, NewFileFails, Die
<1>2. CASE \E t \in Thread : Check(t)
  BY <1>2 DEF Check, LockFetch, WaitForDownload, WakeUp, CacheHit, ReadBlock,
              OutOfRange, WaitedInVain, CacheMiss, Die
<1>3. CASE \E t \in Thread : handleCache(t)
  BY <1>3 DEF handleCache, SkipOwnFile, EvictFromFile
<1>4. CASE \E t \in Thread : Download(t)
  BY <1>4 DEF Download, AskPeer, PeerIsGone, PeerSends, PeerBreaks, AskSource,
              SourceSends, SourceFails, SourceExhausted, CopyOverrun, Store, Unqueue, UnqueueRaces, Die
<1>5. CASE OtherStep
  BY <1>5 DEF OtherStep, QueryTracker, TrackerAnswers, UpdateOnTracker,
         UpdateSent, ServeUnknown, Die
<1>6. QED
  BY <1>1, <1>2, <1>3, <1>4, <1>5
     DEF Running, OtherStep, StreamCall, PrefetchCall, ServeCall, Call, getBlock

(* Whatever happens, a file keeps its place.                               *)
LEMMA PlacesKept ==
  ASSUME IInv, Running
  PROVE  /\ files' \in Seq(Name)
         /\ \A k \in DOMAIN files : k \in DOMAIN files' /\ files'[k] = files[k]
         /\ Known \subseteq Known'
<1>1. files \in Seq(Name)
  BY DEF IInv, TypeOK
<1>2. CASE UNCHANGED files
  BY <1>1, <1>2 DEF Known
<1>3. ASSUME NEW t \in Thread, NewFile(t)
      PROVE  /\ files' \in Seq(Name)
             /\ \A k \in DOMAIN files : k \in DOMAIN files' /\ files'[k] = files[k]
  <2>1. files' = Append(files, req[t].name) /\ req[t].name \in Name
    BY <1>3 DEF NewFile, IInv, TypeOK
  <2>2. QED
    BY <1>1, <2>1
<1>4. QED
  BY <1>2, <1>3, FilesGrow DEF Known

IdxAt == {"lockFetch", "check", "read", "sleep"} \cup MarkedAt

(* A thread comes by its index by looking it up, or adds its file itself.  *)
LEMMA BeforeIdx ==
  ASSUME IInv, Running, NEW u \in Thread, pc'[u] \in IdxAt
  PROVE  \/ pc[u] \in IdxAt /\ idx'[u] = idx[u] /\ req'[u] = req[u]
         \/ /\ req[u].name \in Known /\ req'[u] = req[u] /\ files' = files
            /\ idx'[u] = IdxOf(req[u].name)
         \/ NewFile(u)
<1> DEFINE Goal == \/ pc[u] \in IdxAt /\ idx'[u] = idx[u] /\ req'[u] = req[u]
                   \/ /\ req[u].name \in Known /\ req'[u] = req[u] /\ files' = files
                      /\ idx'[u] = IdxOf(req[u].name)
                   \/ NewFile(u)
<1> USE DEF Goto, locals
<1>1. /\ pc \in [Thread \cup {Querier, Updater} -> Labels \cup {"waiting"}]
      /\ req \in [Thread -> [name : Name, block : Nat, offset : Nat]]
      /\ idx \in [Thread -> Nat]
  BY DEF IInv, TypeOK
<1>2. \A t \in Thread : pc[t] \in IdxAt => req[t].name \in Known
  BY DEF IInv, IdxRight, IdxAt, Known
<1>3. ASSUME NEW t \in Thread, NEW n, NEW k, NEW off, Call(t, n, k, off)
      PROVE  Goal
  BY <1>1, <1>3 DEF Call, IdxAt, MarkedAt, InFlightAt
<1>4. ASSUME NEW t \in Thread, Lookup(t)
      PROVE  Goal
  <2>1. CASE FileFound(t)
    BY <1>1, <2>1 DEF FileFound, cache
  <2>2. CASE NewFile(t)
    <3>1. CASE u = t
      BY <2>2, <3>1
    <3>2. CASE u # t
      BY <1>1, <2>2, <3>2 DEF NewFile
    <3>3. QED
      BY <3>1, <3>2
  <2>3. QED
    BY <1>1, <1>4, <2>1, <2>2
       DEF Lookup, LockClient, FileNotFound, NewFileFails, Die, IdxAt, MarkedAt, InFlightAt
<1>5. ASSUME NEW t \in Thread, Check(t)
      PROVE  Goal
  <2>1. CASE WakeUp(t)
    <3>1. CASE u = t
      BY <1>1, <1>2, <2>1, <3>1 DEF WakeUp, IdxAt, cache
    <3>2. CASE u # t
      BY <1>1, <2>1, <3>2 DEF WakeUp
    <3>3. QED
      BY <3>1, <3>2
  <2>2. CASE ReadBlock(t)
    BY <1>1, <2>2 DEF ReadBlock, Return, Die, IdxAt, MarkedAt, InFlightAt
  <2>3. QED
    BY <1>1, <1>5, <2>1, <2>2
       DEF Check, LockFetch, WaitForDownload, CacheHit, OutOfRange, WaitedInVain, CacheMiss, Die, IdxAt
<1>6. ASSUME NEW t \in Thread, handleCache(t)
      PROVE  Goal
  <2>1. /\ pc[t] = "evict" /\ (NextVisit(t) \/ EvictionDone(t))
        /\ UNCHANGED <<req, idx>>
    BY <1>6 DEF handleCache, SkipOwnFile, EvictFromFile
  <2>2. UNCHANGED pc \/ pc' = [pc EXCEPT ![t] = "choose"]
    BY <2>1, NextVisitEffect
  <2>3. QED
    BY <1>1, <2>1, <2>2 DEF IdxAt, MarkedAt, InFlightAt
<1>7. ASSUME NEW t \in Thread, Download(t)
      PROVE  Goal
  <2>1. CASE Store(t)
    <3>1. CASE u = t
      BY <1>1, <1>2, <2>1, <3>1 DEF Store, IdxAt, MarkedAt, InFlightAt
    <3>2. CASE u # t
      BY <1>1, <2>1, <3>2 DEF Store
    <3>3. QED
      BY <3>1, <3>2
  <2>2. CASE Unqueue(t) \/ UnqueueRaces(t)
    BY <1>1, <2>2 DEF Unqueue, UnqueueRaces, Return, Die, IdxAt, MarkedAt, InFlightAt
  <2>3. QED
    BY <1>1, <1>7, <2>1, <2>2
       DEF Download, AskPeer, PeerIsGone, PeerSends, PeerBreaks, AskSource, SourceSends,
           SourceFails, SourceExhausted, CopyOverrun, Die, IdxAt, MarkedAt, InFlightAt
<1>8. ASSUME OtherStep
      PROVE  Goal
  BY <1>1, <1>8, ThreadsAssumption
     DEF OtherStep, QueryTracker, TrackerAnswers, UpdateOnTracker,
         UpdateSent, ServeUnknown, Die
<1>9. Streamer \in Thread /\ Prefetcher \subseteq Thread /\ Server \subseteq Thread
  BY DEF Thread
<1> HIDE DEF Goal
<1>10. Goal
  BY <1>3, <1>4, <1>5, <1>6, <1>7, <1>8, <1>9
     DEF Running, OtherStep, StreamCall, PrefetchCall, ServeCall, getBlock
<1>11. QED
  BY <1>10 DEF Goal

LEMMA IdxRightStep ==
  ASSUME IInv, Running
  PROVE  IdxRight'
<1> SUFFICES ASSUME NEW u \in Thread, pc'[u] \in IdxAt
             PROVE  idx'[u] \in DOMAIN files' /\ files'[idx'[u]] = req'[u].name
  BY DEF IdxRight, IdxAt
<1>1. \A k \in DOMAIN files : k \in DOMAIN files' /\ files'[k] = files[k]
  BY PlacesKept
<1>2. CASE pc[u] \in IdxAt /\ idx'[u] = idx[u] /\ req'[u] = req[u]
  BY <1>1, <1>2 DEF IInv, IdxRight, IdxAt
<1>3. CASE /\ req[u].name \in Known /\ req'[u] = req[u] /\ files' = files
           /\ idx'[u] = IdxOf(req[u].name)
  BY <1>3, IdxOfFinds DEF IInv, TypeOK
<1>4. CASE NewFile(u)
  <2>1. /\ files' = Append(files, req[u].name) /\ files \in Seq(Name)
        /\ idx' = [idx EXCEPT ![u] = Len(files) + 1] /\ idx \in [Thread -> Nat]
        /\ req' = req /\ req[u].name \in Name
    BY <1>4 DEF NewFile, IInv, TypeOK
  <2>2. QED
    BY <2>1
<1>5. QED
  BY <1>2, <1>3, <1>4, BeforeIdx

(* Only CacheMiss calls handleCache, and the scan is handleCache's own.    *)
LEMMA BeforeEvict ==
  ASSUME IInv, Running, \A t \in Thread : ~CacheMiss(t) /\ ~handleCache(t)
  PROVE  UNCHANGED scan /\ \A u \in Thread : pc'[u] = "evict" => pc[u] = "evict"
<1> DEFINE Goal == UNCHANGED scan /\ \A u \in Thread : pc'[u] = "evict" => pc[u] = "evict"
<1> USE DEF Goto, rest
<1>1. pc \in [Thread \cup {Querier, Updater} -> Labels \cup {"waiting"}]
  BY DEF IInv, TypeOK
<1>2. ASSUME NEW t \in Thread, NEW n, NEW k, NEW off, Call(t, n, k, off)
      PROVE  Goal
  BY <1>1, <1>2 DEF Call
<1>3. ASSUME NEW t \in Thread, Lookup(t)
      PROVE  Goal
  BY <1>1, <1>3
     DEF Lookup, LockClient, FileFound, FileNotFound, NewFileFails, NewFile, Die
<1>4. ASSUME NEW t \in Thread, Check(t)
      PROVE  Goal
  BY <1>1, <1>4
     DEF Check, LockFetch, WaitForDownload, WakeUp, CacheHit, ReadBlock, Return,
         OutOfRange, WaitedInVain, Die
<1>5. ASSUME NEW t \in Thread, Download(t)
      PROVE  Goal
  BY <1>1, <1>5
     DEF Download, AskPeer, PeerIsGone, PeerSends, PeerBreaks, AskSource, SourceSends,
         SourceFails, SourceExhausted, CopyOverrun, Store, Unqueue, UnqueueRaces, Return, Die
<1>6. ASSUME OtherStep
      PROVE  Goal
  BY <1>1, <1>6, ThreadsAssumption
     DEF OtherStep, QueryTracker, TrackerAnswers, UpdateOnTracker,
         UpdateSent, ServeUnknown, Die
<1>7. Streamer \in Thread /\ Prefetcher \subseteq Thread /\ Server \subseteq Thread
  BY DEF Thread
<1> HIDE DEF Goal
<1>8. Goal
  BY <1>2, <1>3, <1>4, <1>5, <1>6, <1>7
     DEF Running, OtherStep, StreamCall, PrefetchCall, ServeCall, getBlock
<1>9. QED
  BY <1>8 DEF Goal

LEMMA ScanRightStep ==
  ASSUME IInv, Running
  PROVE  ScanRight'
<1>1. \A k \in DOMAIN files : k \in DOMAIN files'
  BY PlacesKept
<1>2. pc \in [Thread \cup {Querier, Updater} -> Labels \cup {"waiting"}]
  BY DEF IInv, TypeOK
<1>3. \A t, u \in Thread : pc[t] \in FetchAt /\ pc[u] \in FetchAt => t = u
  BY DEF IInv, LockDiscipline
<1>4. ASSUME NEW t \in Thread, CacheMiss(t)
      PROVE  ScanRight'
  <2>1. \A u \in Thread : pc'[u] = "evict" => u = t
    BY <1>2, <1>3, <1>4 DEF CacheMiss, Goto, FetchAt
  <2>2. pc'[t] = "evict" => scan'.i \in DOMAIN files /\ scan'.tries = EvictTries
    BY <1>2, <1>4 DEF CacheMiss, Goto
  <2>3. EvictTries > 0
    BY CacheAssumption
  <2>4. QED
    BY <1>1, <2>1, <2>2, <2>3 DEF ScanRight
<1>5. ASSUME NEW t \in Thread, handleCache(t)
      PROVE  ScanRight'
  <2>1. pc[t] = "evict" /\ (NextVisit(t) \/ EvictionDone(t))
    BY <1>5 DEF handleCache, SkipOwnFile, EvictFromFile
  <2>2. CASE UNCHANGED pc /\ scan'.i \in DOMAIN files /\ scan'.tries > 0
    BY <1>1, <2>2 DEF ScanRight
  <2>3. CASE pc' = [pc EXCEPT ![t] = "choose"]
    BY <1>2, <1>3, <2>1, <2>3 DEF ScanRight, FetchAt
  <2>4. QED
    BY <2>1, <2>2, <2>3, NextVisitEffect
<1>6. CASE \A t \in Thread : ~CacheMiss(t) /\ ~handleCache(t)
  <2>1. UNCHANGED scan /\ \A u \in Thread : pc'[u] = "evict" => pc[u] = "evict"
    BY <1>6, BeforeEvict
  <2>2. QED
    BY <1>1, <2>1 DEF IInv, ScanRight
<1>7. QED
  BY <1>4, <1>5, <1>6

LEMMA BeforeGrow ==
  ASSUME IInv, Running, NEW u \in Thread, pc'[u] = "grow"
  PROVE  \/ pc[u] = "grow" /\ req'[u] = req[u]
         \/ req[u].name \notin Known /\ req'[u] = req[u] /\ files' = files
<1> DEFINE Goal == \/ pc[u] = "grow" /\ req'[u] = req[u]
                   \/ req[u].name \notin Known /\ req'[u] = req[u] /\ files' = files
<1> USE DEF Goto, locals
<1>1. /\ pc \in [Thread \cup {Querier, Updater} -> Labels \cup {"waiting"}]
      /\ req \in [Thread -> [name : Name, block : Nat, offset : Nat]]
  BY DEF IInv, TypeOK
<1>2. ASSUME NEW t \in Thread, NEW n, NEW k, NEW off, Call(t, n, k, off)
      PROVE  Goal
  BY <1>1, <1>2 DEF Call
<1>3. ASSUME NEW t \in Thread, Lookup(t)
      PROVE  Goal
  <2>1. CASE FileNotFound(t)
    BY <1>1, <2>1 DEF FileNotFound, cache
  <2>2. QED
    BY <1>1, <1>3, <2>1 DEF Lookup, LockClient, FileFound, NewFileFails, NewFile, Die
<1>4. ASSUME NEW t \in Thread, Check(t)
      PROVE  Goal
  BY <1>1, <1>4
     DEF Check, LockFetch, WaitForDownload, WakeUp, CacheHit, ReadBlock, Return,
         OutOfRange, WaitedInVain, CacheMiss, Die
<1>5. ASSUME NEW t \in Thread, handleCache(t)
      PROVE  Goal
  <2>1. pc[t] = "evict" /\ (NextVisit(t) \/ EvictionDone(t)) /\ UNCHANGED req
    BY <1>5 DEF handleCache, SkipOwnFile, EvictFromFile
  <2>2. UNCHANGED pc \/ pc' = [pc EXCEPT ![t] = "choose"]
    BY <2>1, NextVisitEffect
  <2>3. QED
    BY <1>1, <2>1, <2>2
<1>6. ASSUME NEW t \in Thread, Download(t)
      PROVE  Goal
  BY <1>1, <1>6
     DEF Download, AskPeer, PeerIsGone, PeerSends, PeerBreaks, AskSource, SourceSends,
         SourceFails, SourceExhausted, CopyOverrun, Store, Unqueue, UnqueueRaces, Return, Die
<1>7. ASSUME OtherStep
      PROVE  Goal
  BY <1>1, <1>7, ThreadsAssumption
     DEF OtherStep, QueryTracker, TrackerAnswers, UpdateOnTracker,
         UpdateSent, ServeUnknown, Die
<1>8. Streamer \in Thread /\ Prefetcher \subseteq Thread /\ Server \subseteq Thread
  BY DEF Thread
<1> HIDE DEF Goal
<1>9. Goal
  BY <1>2, <1>3, <1>4, <1>5, <1>6, <1>7, <1>8
     DEF Running, OtherStep, StreamCall, PrefetchCall, ServeCall, getBlock
<1>10. QED
  BY <1>9 DEF Goal

LEMMA FilesRightStep ==
  ASSUME IInv, Running
  PROVE  FilesRight'
<1>1. /\ files \in Seq(Name)
      /\ req \in [Thread -> [name : Name, block : Nat, offset : Nat]]
      /\ pc \in [Thread \cup {Querier, Updater} -> Labels \cup {"waiting"}]
      /\ resets \in 0..MaxResets
  BY DEF IInv, TypeOK
<1>2. /\ \A j, k \in DOMAIN files : files[j] = files[k] => j = k
      /\ StoredName \subseteq Known
      /\ \A t \in Thread : pc[t] = "grow" => req[t].name \notin Known
  BY DEF IInv, FilesRight
<1>3. StoredName \subseteq Known'
  BY <1>2, PlacesKept
<1>4. CASE UNCHANGED files
  <2>1. Known' = Known
    BY <1>4 DEF Known
  <2>2. \A t \in Thread : pc'[t] = "grow" => req'[t].name \notin Known'
    BY <1>2, <2>1, BeforeGrow
  <2>3. QED
    BY <1>2, <1>3, <1>4, <2>2 DEF FilesRight
<1>5. ASSUME NEW t \in Thread, NewFile(t)
      PROVE  FilesRight'
  <2>1. /\ pc[t] = "grow" /\ req' = req
        /\ files' = Append(files, req[t].name)
        /\ pc' = [pc EXCEPT ![t] = "lockFetch"]
    BY <1>5 DEF NewFile, Goto
  <2>2. req[t].name \notin Known /\ req[t].name \in Name
    BY <1>1, <1>2, <2>1
  <2>3. \A k \in DOMAIN files : files[k] # req[t].name
    BY <2>2 DEF Known
  <2>4. \A j, k \in DOMAIN files' : files'[j] = files'[k] => j = k
    BY <1>1, <1>2, <2>1, <2>2, <2>3
  <2>5. MaxResets = 0
    BY <1>2, <2>2, ResetsAssumption
  <2>6. resets = 0
    BY <1>1, <2>5
  <2>7. \A u \in Thread : pc[u] = "grow" => u = t
    BY <2>1, <2>6 DEF IInv, LockDiscipline, ExclusiveAt
  <2>8. \A u \in Thread : pc'[u] # "grow"
    BY <1>1, <2>1, <2>7
  <2>9. QED
    BY <1>3, <2>4, <2>8 DEF FilesRight
<1>6. QED
  BY <1>4, <1>5, FilesGrow

-----------------------------------------------------------------------------
(* The invariant.                                                          *)

LEMMA InitIInv == Init => IInv
<1> SUFFICES ASSUME Init PROVE IInv
  OBVIOUS
<1>1. Cardinality(StoredName) \in Nat
  BY FilesAssumption, FS_CardinalityType
<1>2. files \in [1..Cardinality(StoredName) -> StoredName]
  BY DEF Init, Orders
<1>3. files \in Seq(Name) /\ DOMAIN files = 1..Cardinality(StoredName)
  BY <1>1, <1>2, FilesAssumption
<1>4. \A n \in Name : disk[n] \subseteq Blocks(n)
  BY DEF Init
<1>5. \A n \in Name : disk[n] \subseteq Nat
  BY <1>4, NumBlocksNat DEF Blocks
<1>6. disk \in [Name -> SUBSET Nat]
  BY <1>5 DEF Init
<1>7. \A n \in Name :
        /\ blockInfo[n] = MapOf(NumBlocks(n), disk[n])
        /\ MapOf(NumBlocks(n), disk[n]) \in BlockMaps
        /\ CursorExact(MapOf(NumBlocks(n), disk[n]))
  BY <1>4, NumBlocksNat, MapOfCorrect DEF Init, Blocks
<1>8. \A n \in Name : blockInfo[n].blocks = disk[n] /\ blockInfo[n].numBlocks = NumBlocks(n)
  <2>1. ASSUME NEW n \in Name
        PROVE  blockInfo[n].blocks = disk[n] /\ blockInfo[n].numBlocks = NumBlocks(n)
    <3>1. blockInfo[n] = MapOf(NumBlocks(n), disk[n])
      BY <1>7
    <3>2. blockInfo[n] = [numBlocks |-> NumBlocks(n),
                          currentBlock |-> FirstHole(NumBlocks(n), disk[n], 0),
                          blocks |-> disk[n]]
      BY <3>1 DEF MapOf
    <3>3. QED
      BY <3>2
  <2>2. QED
    BY <2>1
<1>9. /\ pc = [t \in Thread \cup {Querier, Updater} |-> "idle"]
      /\ req = [t \in Thread |-> NoCall]
      /\ writer = NoThread /\ readers = 0 /\ fetch = NoThread /\ resets = 0
  BY DEF Init
<1>10. NoCall \in [name : Name, block : Nat, offset : Nat]
  BY FilesAssumption DEF NoCall
<1>11. TypeOK
  <2>1. blockInfo \in [Name -> BlockMaps]
    BY <1>7 DEF Init
  <2>2. peers \in SUBSET (Name \X Nat)
    BY CacheAssumption DEF Init
  <2>3. 0 \in 0..MaxResets
    BY CacheAssumption
  <2>4. QED
    BY <1>3, <1>6, <1>8, <1>9, <1>10, <2>1, <2>2, <2>3
       DEF Init, TypeOK, Labels, NoScan, InsideAt, MarkedAt, InFlightAt
<1>12. LockDiscipline
  BY <1>9, ThreadsAssumption DEF LockDiscipline, FetchAt, ExclusiveAt
<1>13. \A t \in Thread : pc[t] = "idle"
  BY <1>9
<1>14. /\ IdxRight /\ ScanRight /\ SingleFlight /\ FetchOnlyMissing /\ FileBeforeMap
  BY <1>13 DEF IdxRight, ScanRight, SingleFlight, FetchOnlyMissing, FileBeforeMap,
               Marking, MarkedAt, InFlight, InFlightAt
<1>15. FilesRight
  <2>1. \A n \in StoredName : \E k \in DOMAIN files :
          \A j \in DOMAIN files : files[j] = n <=> j = k
    BY DEF Init, Orders
  <2>2. StoredName \subseteq Known
    BY <2>1 DEF Known
  <2>3. \A j, k \in DOMAIN files : files[j] = files[k] => j = k
    BY <1>2, <2>1
  <2>4. QED
    BY <1>13, <2>2, <2>3 DEF FilesRight
<1>16. OnDisk
  BY <1>7, <1>8 DEF OnDisk
<1>17. QED
  BY <1>11, <1>12, <1>14, <1>15, <1>16 DEF IInv

LEMMA RunningTypeLocks ==
  ASSUME IInv, Running
  PROVE  TypeOK' /\ LockDiscipline'
<1>1. Streamer \in Thread /\ Prefetcher \subseteq Thread /\ Server \subseteq Thread
  BY DEF Thread
<1>0. \A n \in Name : AnyBlock(n) \subseteq Nat
  BY NumBlocksNat DEF AnyBlock
<1>2. ASSUME NEW t \in Thread, NEW n \in Name, NEW k \in Nat, NEW off \in Nat,
             Call(t, n, k, off)
      PROVE  TypeOK' /\ LockDiscipline'
  BY <1>2, CallType, CallLocks DEF IInv
<1>3. CASE StreamCall
  <2>1. Offset \subseteq Nat
    BY FilesAssumption
  <2>2. QED
    BY <1>0, <1>1, <1>2, <1>3, <2>1 DEF StreamCall
<1>4. Known \subseteq Name
  BY DEF IInv, TypeOK, Known
<1>5. ASSUME NEW t \in Prefetcher, PrefetchCall(t)
      PROVE  TypeOK' /\ LockDiscipline'
  <2> DEFINE hole(n, from) == FirstHole(NumBlocks(n), blockInfo[n].blocks, from)
  <2>1. PICK n \in Known : \E from \in Blocks(n) :
          hole(n, from) < NumBlocks(n) /\ Call(t, n, hole(n, from), 0)
    BY <1>5 DEF PrefetchCall
  <2>2. PICK from \in Blocks(n) :
          hole(n, from) < NumBlocks(n) /\ Call(t, n, hole(n, from), 0)
    BY <2>1
  <2> DEFINE k == hole(n, from)
  <2>3. NumBlocks(n) \in Nat /\ from \in 0..NumBlocks(n)
    BY <1>4, NumBlocksNat DEF Blocks
  <2>4. k \in from..NumBlocks(n)
    BY <2>3, FirstHoleFound
  <2>5. k < NumBlocks(n) /\ Call(t, n, k, 0)
    BY <2>2
  <2> HIDE DEF k, hole
  <2>6. k \in Nat
    BY <2>3, <2>4
  <2>7. QED
    BY <1>1, <1>2, <1>4, <2>5, <2>6
<1>6. ASSUME NEW t \in Server, ServeCall(t)
      PROVE  TypeOK' /\ LockDiscipline'
  BY <1>0, <1>1, <1>2, <1>4, <1>6 DEF ServeCall
<1>7. ASSUME NEW t \in Thread, getBlock(t)
      PROVE  TypeOK' /\ LockDiscipline'
  BY <1>7, LookupType, LookupLocks, CheckType, CheckLocks, EvictType, EvictLocks,
     DownloadType, DownloadLocks DEF getBlock
<1>8. CASE OtherStep
  BY <1>8, TrackerType, TrackerLocks
<1>9. QED
  BY <1>3, <1>5, <1>6, <1>7, <1>8 DEF Running, OtherStep

LEMMA NextIInv == IInv /\ [Next]_vars => IInv'
<1> SUFFICES ASSUME IInv, [Next]_vars PROVE IInv'
  OBVIOUS
<1>1. CASE Running
  BY <1>1, RunningTypeLocks, IdxRightStep, FilesRightStep, ScanRightStep,
     SingleFlightStep, FetchOnlyMissingStep, FileBeforeMapStep, OnDiskStep DEF IInv
<1>2. CASE UNCHANGED vars
  BY <1>2, SMTT(30) DEF vars, locals, rwlock, cache, rest, IInv, TypeOK, LockDiscipline, IdxRight,
              FilesRight, ScanRight, SingleFlight, FetchOnlyMissing, FileBeforeMap, OnDisk,
              Marking, InFlight, Key, Known, Blocks, NumBlocks
<1>3. QED
  BY <1>1, <1>2 DEF Next, Ended

LEMMA Invariance == Spec => []IInv
  BY InitIInv, NextIInv, PTL DEF Spec

(* In every reachable state the variables have their types.  Ranges and    *)
(* numbers past the end may be asked for; a block that is marked, fetched, *)
(* stored or read is one of its file nevertheless, in whatever order the   *)
(* threads go and whatever a copy of its map says, so that setBlock never  *)
(* aborts.                                                                 *)
THEOREM TypeCorrect == Spec => []TypeOK
<1>1. IInv => TypeOK
  BY DEF IInv
<1>2. QED
  BY <1>1, Invariance, PTL

(* fetch_mutex excludes, and client_mutex does until a peer's connection   *)
(* breaks, on every path through getBlock, handleCache and the threads of  *)
(* the tracker.                                                            *)
THEOREM LocksCorrect == Spec => []LockDiscipline
<1>1. IInv => LockDiscipline
  BY DEF IInv
<1>2. QED
  BY <1>1, Invariance, PTL

(* As long as no connection to a peer broke, handleCache runs with both    *)
(* locks held, as its comment says: the unlock too many after a failed     *)
(* exchange is the only way to run it without.                             *)
THEOREM OnlyResetsUnlockEviction == Spec => [](resets = 0 => HandleCacheHoldsLocks)
<1>1. IInv => (resets = 0 => HandleCacheHoldsLocks)
  BY DEF IInv, LockDiscipline, HandleCacheHoldsLocks, FetchAt, ExclusiveAt
<1>2. QED
  BY <1>1, Invariance, PTL

(* No two threads ever fetch the same block, even when a broken connection *)
(* has undone client_mutex: fetch_mutex and the marks are enough.          *)
THEOREM FetchesSingle == Spec => []SingleFlight
<1>1. IInv => SingleFlight
  BY DEF IInv
<1>2. QED
  BY <1>1, Invariance, PTL

(* No thread ever fetches a block that the cache has, as long as no        *)
(* connection to a peer breaks.                                            *)
THEOREM FetchesNeeded == Spec => []FetchOnlyMissing
<1>1. IInv => FetchOnlyMissing
  BY DEF IInv
<1>2. QED
  BY <1>1, Invariance, PTL

(* Whatever the map of a file has is on disk, and its cursor is exact,     *)
(* through every download and eviction, as long as no connection to a peer *)
(* breaks.                                                                 *)
THEOREM BlocksOnDisk == Spec => []OnDisk
<1>1. IInv => OnDisk
  BY DEF IInv
<1>2. QED
  BY <1>1, Invariance, PTL

(* A thread that is at a download stays at it until it erases its mark.    *)
LEMMA MarkersGoOn ==
  ASSUME IInv, Running, NEW u \in Thread, pc[u] \in MarkedAt,
         ~Unqueue(u), ~UnqueueRaces(u)
  PROVE  pc'[u] \in MarkedAt /\ req'[u] = req[u]
<1> DEFINE Goal == pc'[u] \in MarkedAt /\ req'[u] = req[u]
<1> USE DEF Goto, MarkedAt, InFlightAt, locals
<1>1. /\ pc \in [Thread \cup {Querier, Updater} -> Labels \cup {"waiting"}]
      /\ req \in [Thread -> [name : Name, block : Nat, offset : Nat]]
  BY DEF IInv, TypeOK
<1>2. Querier \notin Thread /\ Updater \notin Thread
  BY ThreadsAssumption
<1>3. ASSUME NEW t \in Thread, NEW n, NEW k, NEW off, Call(t, n, k, off) PROVE Goal
  BY <1>1, <1>3 DEF Call
<1>4. ASSUME NEW t \in Thread, Lookup(t) PROVE Goal
  BY <1>1, <1>4
     DEF Lookup, LockClient, FileFound, FileNotFound, NewFileFails, NewFile, Die
<1>5. ASSUME NEW t \in Thread, Check(t) PROVE Goal
  BY <1>1, <1>5
     DEF Check, LockFetch, WaitForDownload, WakeUp, CacheHit, ReadBlock, Return,
         OutOfRange, WaitedInVain, CacheMiss, Die
<1>6. ASSUME NEW t \in Thread, handleCache(t) PROVE Goal
  <2>1. pc[t] = "evict" /\ (NextVisit(t) \/ EvictionDone(t)) /\ UNCHANGED req
    BY <1>6 DEF handleCache, SkipOwnFile, EvictFromFile
  <2>2. UNCHANGED pc \/ pc' = [pc EXCEPT ![t] = "choose"]
    BY <2>1, NextVisitEffect
  <2>3. QED
    BY <1>1, <2>1, <2>2
<1>7. ASSUME NEW t \in Thread, Download(t) PROVE Goal
  <2>1. CASE Unqueue(t) \/ UnqueueRaces(t)
    <3>1. t # u
      BY <2>1
    <3>2. QED
      BY <1>1, <2>1, <3>1 DEF Unqueue, UnqueueRaces, Return, Die
  <2>2. CASE ~Unqueue(t) /\ ~UnqueueRaces(t)
    BY <1>1, <1>7, <2>2
       DEF Download, AskPeer, PeerIsGone, PeerSends, PeerBreaks, AskSource, SourceSends,
           SourceFails, SourceExhausted, CopyOverrun, Store, Die
  <2>3. QED
    BY <2>1, <2>2
<1>8. ASSUME OtherStep PROVE Goal
  BY <1>1, <1>2, <1>8 DEF OtherStep, QueryTracker, TrackerAnswers, UpdateOnTracker,
         UpdateSent, ServeUnknown, Die
<1>9. Streamer \in Thread /\ Prefetcher \subseteq Thread /\ Server \subseteq Thread
  BY DEF Thread
<1> HIDE DEF Goal
<1>10. Goal
  BY <1>3, <1>4, <1>5, <1>6, <1>7, <1>8, <1>9
     DEF Running, OtherStep, StreamCall, PrefetchCall, ServeCall, getBlock
<1>11. QED
  BY <1>10 DEF Goal

(* Where every video is known from the start no push_back moves the vector *)
(* while a mark is erased.                                                 *)
LEMMA NothingRaces ==
  ASSUME IInv, StoredName = Name, NEW t \in Thread
  PROVE  ~UnqueueRaces(t)
<1>1. \A u \in Thread : pc[u] # "grow"
  BY DEF IInv, TypeOK, FilesRight
<1>2. QED
  BY <1>1 DEF UnqueueRaces

LEMMA MarkMeansDownloadStep ==
  ASSUME IInv, Running, StoredName = Name, MarkMeansDownload
  PROVE  MarkMeansDownload'
<1> SUFFICES ASSUME NEW n \in Name, NEW b \in downloading'[n]
             PROVE  \E u \in Marking' : Key(u)' = <<n, b>>
  BY DEF MarkMeansDownload
<1>1. ASSUME NEW t \in Thread, CacheMiss(t), b \notin downloading[n]
      PROVE  t \in Marking' /\ Key(t)' = <<n, b>>
  <2>1. pc[t] = "check" /\ req' = req /\ pc'[t] \in {"evict", "choose"}
    BY <1>1 DEF CacheMiss, Goto, locals, IInv, TypeOK
  <2>2. files[idx[t]] = req[t].name
    BY <2>1 DEF IInv, IdxRight
  <2>3. downloading' = [downloading EXCEPT ![req[t].name] = @ \cup {req[t].block}]
    BY <1>1, <2>2 DEF CacheMiss
  <2>4. n = req[t].name /\ b = req[t].block
    BY <1>1, <2>3 DEF IInv, TypeOK
  <2>5. QED
    BY <2>1, <2>4 DEF Marking, MarkedAt, InFlightAt, Key
<1>2. CASE b \in downloading[n]
  <2>1. PICK u \in Marking : Key(u) = <<n, b>>
    BY <1>2 DEF MarkMeansDownload
  <2>2. u \in Thread /\ pc[u] \in MarkedAt
    BY DEF Marking
  <2>3. ~Unqueue(u)
    <3> SUFFICES ASSUME Unqueue(u) PROVE FALSE
      OBVIOUS
    <3>1. pc[u] = "unqueue"
      BY DEF Unqueue
    <3>2. files[idx[u]] = n /\ req[u].block = b
      BY <2>1, <2>2, <3>1 DEF IInv, IdxRight, MarkedAt, InFlightAt, Key
    <3>3. downloading' = [downloading EXCEPT ![n] = @ \ {b}]
      BY <3>2 DEF Unqueue
    <3>4. QED
      BY <3>3 DEF IInv, TypeOK
  <2>4. pc'[u] \in MarkedAt /\ req'[u] = req[u]
    BY <2>2, <2>3, NothingRaces, MarkersGoOn
  <2>5. u \in Marking' /\ Key(u)' = <<n, b>>
    BY <2>1, <2>2, <2>4 DEF Marking, Key
  <2>6. QED
    BY <2>5
<1>3. CASE b \notin downloading[n]
  <2>1. CASE \E t \in Thread : CacheMiss(t)
    BY <1>1, <1>3, <2>1
  <2>2. CASE \A t \in Thread : ~CacheMiss(t)
    <3>1. ~UNCHANGED downloading
      BY <1>3
    <3>2. PICK t \in Thread : Unqueue(t)
      BY <2>2, <3>1, MarksGoOn
    <3>3. \A m \in Name : downloading'[m] \subseteq downloading[m]
      BY <3>2 DEF Unqueue, IInv, TypeOK
    <3>4. QED
      BY <1>3, <3>3
  <2>3. QED
    BY <2>1, <2>2
<1>4. QED
  BY <1>2, <1>3

(* A waiter never waits for nobody: in a client that knows all videos from *)
(* the start every mark is of a thread that fetches the block.             *)
THEOREM MarksHaveFetchers ==
  ASSUME StoredName = Name
  PROVE  Spec => []MarkMeansDownload
<1>1. Init => MarkMeansDownload
  BY DEF Init, MarkMeansDownload
<1>2. IInv /\ MarkMeansDownload /\ [Next]_vars => MarkMeansDownload'
  <2> SUFFICES ASSUME IInv, MarkMeansDownload, [Next]_vars PROVE MarkMeansDownload'
    OBVIOUS
  <2>1. CASE Running
    BY <2>1, MarkMeansDownloadStep
  <2>2. CASE UNCHANGED vars
    BY <2>2 DEF vars, locals, cache, MarkMeansDownload, Marking, Key
  <2>3. QED
    BY <2>1, <2>2 DEF Next, Ended
<1>3. QED
  BY <1>1, <1>2, Invariance, PTL DEF Spec

-----------------------------------------------------------------------------
(* BlockCache implements SharedCache: the look at the marks and the map,   *)
(* which holds both locks, is its Fetch; locks, sleep and network stutter. *)

LEMMA HeldIffInMap ==
  ASSUME NEW n \in Name, NEW k
  PROVE  <<n, k>> \in BlocksHeld <=> k \in blockInfo[n].blocks
  BY DEF BlocksHeld

LEMMA HeldArePairs ==
  ASSUME NEW e \in BlocksHeld
  PROVE  \E n \in Name : \E k \in blockInfo[n].blocks : e = <<n, k>>
  BY DEF BlocksHeld

LEMMA KeyIsBlock ==
  ASSUME IInv, NEW t \in InFlight
  PROVE  Key(t) \in AllBlocks /\ Key(t) \in BlocksAsked
<1>1. t \in Thread /\ pc[t] \in InsideAt
  BY DEF InFlight, InsideAt, MarkedAt
<1>2. req[t].name \in Name /\ req[t].block \in Blocks(req[t].name)
  BY <1>1 DEF IInv, TypeOK
<1>3. QED
  BY <1>2 DEF AllBlocks, BlocksAsked, Key

LEMMA InitShared == Init => Shared!Init
<1> SUFFICES ASSUME Init PROVE Shared!Init
  OBVIOUS
<1>1. TypeOK /\ InFlight = {}
  BY InitIInv DEF IInv, Init, InFlight, InFlightAt
<1>2. ASSUME NEW n \in Name
      PROVE  blockInfo[n].blocks \subseteq Blocks(n)
  <2>1. blockInfo[n] \in BlockMaps /\ blockInfo[n].numBlocks = NumBlocks(n)
    BY <1>1 DEF TypeOK
  <2>2. QED
    BY <2>1 DEF BlockMaps, Blocks
<1>3. BlocksHeld \subseteq AllBlocks
  BY <1>2 DEF BlocksHeld, AllBlocks
<1>4. QED
  BY <1>1, <1>3 DEF Shared!Init, BlocksAsked

(* Only Store ends the flight of a block.                                  *)
LEMMA FlightsGoOn ==
  ASSUME IInv, Running, \A t \in Thread : ~Store(t), NEW u \in InFlight
  PROVE  u \in InFlight' /\ req'[u] = req[u]
<1> USE DEF Goto, InFlight, InFlightAt, locals
<1>1. pc \in [Thread \cup {Querier, Updater} -> Labels \cup {"waiting"}]
      /\ req \in [Thread -> [name : Name, block : Nat, offset : Nat]]
      /\ u \in Thread
  BY DEF IInv, TypeOK
<1>2. Querier \notin Thread /\ Updater \notin Thread
  BY ThreadsAssumption
<1>3. ASSUME NEW t \in Thread, NEW n, NEW k, NEW off, Call(t, n, k, off)
      PROVE  u \in InFlight' /\ req'[u] = req[u]
  BY <1>1, <1>3 DEF Call
<1>4. ASSUME NEW t \in Thread, Lookup(t)
      PROVE  u \in InFlight' /\ req'[u] = req[u]
  BY <1>1, <1>4
     DEF Lookup, LockClient, FileFound, FileNotFound, NewFileFails, NewFile, Die
<1>5. ASSUME NEW t \in Thread, Check(t)
      PROVE  u \in InFlight' /\ req'[u] = req[u]
  BY <1>1, <1>5
     DEF Check, LockFetch, WaitForDownload, WakeUp, CacheHit, ReadBlock, Return,
         OutOfRange, WaitedInVain, CacheMiss, Die
<1>6. ASSUME NEW t \in Thread, handleCache(t)
      PROVE  u \in InFlight' /\ req'[u] = req[u]
  <2>1. pc[t] = "evict" /\ (NextVisit(t) \/ EvictionDone(t)) /\ UNCHANGED req
    BY <1>6 DEF handleCache, SkipOwnFile, EvictFromFile
  <2>2. UNCHANGED pc \/ pc' = [pc EXCEPT ![t] = "choose"]
    BY <2>1, NextVisitEffect
  <2>3. QED
    BY <1>1, <2>1, <2>2
<1>7. ASSUME NEW t \in Thread, Download(t)
      PROVE  u \in InFlight' /\ req'[u] = req[u]
  BY <1>1, <1>7
     DEF Download, AskPeer, PeerIsGone, PeerSends, PeerBreaks, AskSource, SourceSends,
         SourceFails, SourceExhausted, CopyOverrun, Unqueue, UnqueueRaces, Return, Die
<1>8. CASE OtherStep
  BY <1>1, <1>2, <1>8 DEF OtherStep, QueryTracker, TrackerAnswers, UpdateOnTracker,
         UpdateSent, ServeUnknown, Die
<1>9. Streamer \in Thread /\ Prefetcher \subseteq Thread /\ Server \subseteq Thread
  BY DEF Thread
<1>10. QED
  BY <1>3, <1>4, <1>5, <1>6, <1>7, <1>8, <1>9
     DEF Running, OtherStep, StreamCall, PrefetchCall, ServeCall, getBlock

LEMMA MissFetches ==
  ASSUME IInv, NEW t \in Thread, CacheMiss(t)
  PROVE  Key(t) \in AllBlocks /\ Shared!Fetch(Key(t))
<1>1. /\ pc[t] = "check"
      /\ req' = req /\ blockInfo' = blockInfo
      /\ pc'[t] \in {"evict", "choose"}
      /\ \A u \in Thread \ {t} : pc'[u] = pc[u]
  BY DEF CacheMiss, Goto, locals, IInv, TypeOK
<1>2. /\ files[idx[t]] = req[t].name
      /\ req[t].name \in Name /\ req[t].block \in Blocks(req[t].name)
  BY <1>1, InRangeBlock DEF CacheMiss, IInv, TypeOK, IdxRight
<1>3. Key(t) \in AllBlocks
  BY <1>2 DEF AllBlocks, Key
<1>4. req[t].block \notin blockInfo[req[t].name].blocks
  BY <1>1, <1>2 DEF CacheMiss, Held, HasBlock
<1>5. Key(t) \notin BlocksHeld
  BY <1>2, <1>4, HeldIffInMap DEF Key
<1>6. req[t].block \notin downloading[req[t].name]
  BY <1>2 DEF CacheMiss, Marked
<1>7. Key(t) \notin BlocksAsked
  BY <1>6 DEF IInv, SingleFlight, BlocksAsked, InFlight, Marking, MarkedAt, Key
<1>8. InFlight' = InFlight \cup {t}
  BY <1>1 DEF InFlight, InFlightAt
<1>9. \A u \in Thread : Key(u)' = Key(u)
  BY <1>1 DEF Key
<1>10. BlocksAsked' = BlocksAsked \cup {Key(t)}
  BY <1>8, <1>9 DEF BlocksAsked, InFlight
<1>11. BlocksHeld' = BlocksHeld
  BY <1>1 DEF BlocksHeld
<1>12. Shared!Fetch(Key(t))
  BY <1>5, <1>7, <1>10, <1>11 DEF Shared!Fetch
<1>13. QED
  BY <1>3, <1>12

LEMMA StoreStores ==
  ASSUME IInv, resets = 0, NEW t \in Thread, Store(t)
  PROVE  Key(t) \in AllBlocks /\ Shared!Store(Key(t))
<1> DEFINE n == req[t].name
<1>1. /\ pc[t] = "store"
      /\ req' = req
      /\ pc'[t] = "unqueue"
      /\ \A u \in Thread \ {t} : pc'[u] = pc[u]
  BY DEF Store, Goto, IInv, TypeOK
<1>2. t \in InFlight /\ InFlight' = InFlight \ {t} /\ n \in Name
  BY <1>1 DEF InFlight, InFlightAt, IInv, TypeOK
<1>3. Key(t) \in AllBlocks /\ Key(t) \in BlocksAsked
  BY <1>2, KeyIsBlock
<1>4. \A u \in Thread : Key(u)' = Key(u)
  BY <1>1 DEF Key
<1>5. \A u \in InFlight : u # t => Key(u) # Key(t)
  BY <1>2 DEF IInv, SingleFlight, InFlight, Marking, MarkedAt
<1>6. BlocksAsked' = BlocksAsked \ {Key(t)}
  BY <1>2, <1>4, <1>5 DEF BlocksAsked, InFlight
<1>7. PICK c \in BlockMaps :
        /\ blockInfo' = [blockInfo EXCEPT ![n] = c]
        /\ c.blocks = blockInfo[n].blocks \cup {req[t].block}
  BY StoreEffect
<1>8. /\ blockInfo'[n].blocks = blockInfo[n].blocks \cup {req[t].block}
      /\ \A m \in Name \ {n} : blockInfo'[m].blocks = blockInfo[m].blocks
  BY <1>2, <1>7 DEF IInv, TypeOK
<1> HIDE DEF n
<1>9. BlocksHeld' = BlocksHeld \cup {<<n, req[t].block>>}
  BY <1>2, <1>8 DEF BlocksHeld
<1>10. Shared!Store(Key(t))
  BY <1>3, <1>6, <1>9 DEF Shared!Store, Key, n
<1>11. QED
  BY <1>3, <1>10

LEMMA EvictEvicts ==
  ASSUME IInv, resets = 0, NEW t \in Thread, EvictFromFile(t)
  PROVE  Shared!Next
<1>1. /\ pc[t] = "evict" /\ (NextVisit(t) \/ EvictionDone(t))
      /\ req' = req
  BY DEF EvictFromFile, locals
<1>2. /\ pc'[t] \in {"evict", "choose"}
      /\ \A u \in Thread \ {t} : pc'[u] = pc[u]
  BY <1>1, NextVisitEffect DEF IInv, TypeOK
<1>3. t \in InFlight /\ InFlight' = InFlight
  BY <1>1, <1>2 DEF InFlight, InFlightAt
<1>4. Key(t) \in AllBlocks /\ Key(t) \in BlocksAsked
  BY <1>3, KeyIsBlock
<1>5. BlocksAsked' = BlocksAsked
  BY <1>1, <1>3 DEF BlocksAsked, Key
<1>6. PICK n \in Name, gone \in SUBSET Nat, c \in BlockMaps :
        /\ n # req[t].name
        /\ blockInfo' = [blockInfo EXCEPT ![n] = c]
        /\ disk' = [disk EXCEPT ![n] = @ \ gone]
        /\ c.numBlocks = blockInfo[n].numBlocks
        /\ resets = 0 => /\ c.blocks = blockInfo[n].blocks \ gone
                         /\ gone \subseteq blockInfo[n].blocks
                         /\ CursorExact(c)
                         /\ n \in Known
                         /\ cache_used' = cache_used - Charged(n, gone)
  BY EvictEffect
<1>7. /\ blockInfo'[n].blocks = blockInfo[n].blocks \ gone
      /\ \A m \in Name \ {n} : blockInfo'[m].blocks = blockInfo[m].blocks
  BY <1>6 DEF IInv, TypeOK
<1>8. BlocksHeld' \subseteq BlocksHeld
  BY <1>7 DEF BlocksHeld
<1>9. ASSUME NEW e \in BlocksHeld \ BlocksHeld'
      PROVE  e[1] # req[t].name
  <2>1. PICK m \in Name : \E k \in blockInfo[m].blocks : e = <<m, k>>
    BY HeldArePairs
  <2>2. PICK k \in blockInfo[m].blocks : e = <<m, k>>
    BY <2>1
  <2>3. k \notin blockInfo'[m].blocks
    BY <2>2 DEF BlocksHeld
  <2>4. m = n
    BY <1>7, <2>3
  <2>5. QED
    BY <1>6, <2>2, <2>4
<1>10. Shared!Evict(Key(t))
  BY <1>4, <1>5, <1>8, <1>9 DEF Shared!Evict, Key
<1>11. QED
  BY <1>4, <1>10 DEF Shared!Next

LEMMA QuietShared ==
  ASSUME IInv, Running,
         \A t \in Thread : ~CacheMiss(t) /\ ~Store(t) /\ ~EvictFromFile(t)
  PROVE  UNCHANGED <<BlocksHeld, BlocksAsked>>
<1>1. BlocksHeld' = BlocksHeld
  BY MapsStep DEF BlocksHeld
<1>2. \A u \in InFlight' : u \in InFlight /\ req'[u] = req[u]
  BY DownloadsGoOn DEF InFlight, MarkedAt
<1>3. \A u \in InFlight : u \in InFlight'
  BY FlightsGoOn
<1>4. BlocksAsked' = BlocksAsked
  BY <1>2, <1>3 DEF BlocksAsked, Key
<1>5. QED
  BY <1>1, <1>4

LEMMA NextShared ==
  IInv /\ resets = 0 /\ [Next]_vars => [Shared!Next]_<<BlocksHeld, BlocksAsked>>
<1> SUFFICES ASSUME IInv, resets = 0, [Next]_vars
             PROVE  Shared!Next \/ UNCHANGED <<BlocksHeld, BlocksAsked>>
  OBVIOUS
<1>1. CASE Running /\ \A t \in Thread : ~CacheMiss(t) /\ ~Store(t) /\ ~EvictFromFile(t)
  BY <1>1, QuietShared
<1>2. CASE \E t \in Thread : CacheMiss(t) \/ Store(t) \/ EvictFromFile(t)
  BY <1>2, MissFetches, StoreStores, EvictEvicts DEF Shared!Next
<1>3. CASE UNCHANGED vars
  BY <1>3 DEF vars, locals, rwlock, cache, rest, BlocksHeld, BlocksAsked, InFlight, Key
<1>4. QED
  BY <1>1, <1>2, <1>3 DEF Next, Ended

(* Threads, locks, waiting and evictions together keep what SharedCache    *)
(* promises, as long as no connection to a peer breaks: one fetch of a     *)
(* block at a time, only of a missing block, and blocks leave only to make *)
(* room for a block of another video.                                      *)
THEOREM RefinesSharedCache == Spec /\ [](resets = 0) => ImplementsSharedCache
  BY InitShared, Invariance, NextShared, PTL DEF Spec, ImplementsSharedCache, Shared!Spec

-----------------------------------------------------------------------------
(* Only an eviction, or the confusion after a broken connection, makes a   *)
(* waiter wait in vain.                                                    *)

Calm == resets = 0 /\ \A t \in Thread : pc[t] # "evict"

\* The blocks that are in the cache or on their way to it.
Coming == BlocksHeld \cup BlocksAsked

\* A mark without a download, which UnqueueRaces leaves, is of a block that
\* was stored; what a thread has waited for is coming or there.
WaitersInv ==
  /\ \A n \in Name : \A k \in downloading[n] : <<n, k>> \in Coming
  /\ \A t \in Thread : prefetched[t] => pc[t] # "idle" /\ Key(t) \in Coming
  /\ WaiterFindsBlock

LEMMA ComingGrows ==
  ASSUME IInv, Running, Calm, NEW e \in Coming
  PROVE  e \in Coming'
<1>1. \A t \in Thread : ~EvictFromFile(t)
  BY DEF Calm, EvictFromFile
<1>2. CASE \E t \in Thread : CacheMiss(t)
  BY <1>2, MissFetches DEF Shared!Fetch, Coming
<1>3. CASE \E t \in Thread : Store(t)
  BY <1>3, StoreStores DEF Shared!Store, Coming, Calm
<1>4. CASE \A t \in Thread : ~CacheMiss(t) /\ ~Store(t)
  BY <1>1, <1>4, QuietShared DEF Coming
<1>5. QED
  BY <1>2, <1>3, <1>4

(* A thread that waits has seen the mark.                                  *)
LEMMA BeforeWait ==
  ASSUME IInv, Running, NEW u \in Thread, prefetched'[u],
         prefetched[u] => pc[u] # "idle"
  PROVE  /\ pc'[u] # "idle" /\ req'[u] = req[u]
         /\ prefetched[u] \/ WaitForDownload(u)
<1> DEFINE Goal == /\ pc'[u] # "idle" /\ req'[u] = req[u]
                   /\ prefetched[u] \/ WaitForDownload(u)
<1> USE DEF Goto, locals
<1>1. /\ pc \in [Thread \cup {Querier, Updater} -> Labels \cup {"waiting"}]
      /\ req \in [Thread -> [name : Name, block : Nat, offset : Nat]]
      /\ prefetched \in [Thread -> BOOLEAN]
  BY DEF IInv, TypeOK
<1>2. Querier \notin Thread /\ Updater \notin Thread
  BY ThreadsAssumption
<1>3. ASSUME NEW t \in Thread, NEW n, NEW k, NEW off, Call(t, n, k, off) PROVE Goal
  BY <1>1, <1>3 DEF Call
<1>4. ASSUME NEW t \in Thread, Lookup(t) PROVE Goal
  BY <1>1, <1>4
     DEF Lookup, LockClient, FileFound, FileNotFound, NewFileFails, NewFile, Die
<1>5. ASSUME NEW t \in Thread, Check(t) PROVE Goal
  <2>1. CASE WaitForDownload(t)
    <3>1. /\ pc[t] = "check" /\ pc' = [pc EXCEPT ![t] = "sleep"]
          /\ prefetched' = [prefetched EXCEPT ![t] = TRUE] /\ UNCHANGED req
      BY <2>1 DEF WaitForDownload
    <3>2. CASE u = t
      BY <1>1, <2>1, <3>1, <3>2
    <3>3. CASE u # t
      BY <1>1, <3>1, <3>3
    <3>4. QED
      BY <3>2, <3>3
  <2>2. CASE ~WaitForDownload(t)
    BY <1>1, <1>5, <2>2
       DEF Check, LockFetch, WakeUp, CacheHit, ReadBlock, Return,
           OutOfRange, WaitedInVain, CacheMiss, Die
  <2>3. QED
    BY <2>1, <2>2
<1>6. ASSUME NEW t \in Thread, handleCache(t) PROVE Goal
  <2>1. /\ pc[t] = "evict" /\ (NextVisit(t) \/ EvictionDone(t))
        /\ UNCHANGED <<req, prefetched>>
    BY <1>6 DEF handleCache, SkipOwnFile, EvictFromFile
  <2>2. UNCHANGED pc \/ pc' = [pc EXCEPT ![t] = "choose"]
    BY <2>1, NextVisitEffect
  <2>3. QED
    BY <1>1, <2>1, <2>2
<1>7. ASSUME NEW t \in Thread, Download(t) PROVE Goal
  BY <1>1, <1>7
     DEF Download, AskPeer, PeerIsGone, PeerSends, PeerBreaks, AskSource, SourceSends,
         SourceFails, SourceExhausted, CopyOverrun, Store, Unqueue, UnqueueRaces, Return, Die
<1>8. ASSUME OtherStep PROVE Goal
  BY <1>1, <1>2, <1>8 DEF OtherStep, QueryTracker, TrackerAnswers, UpdateOnTracker,
         UpdateSent, ServeUnknown, Die
<1>9. Streamer \in Thread /\ Prefetcher \subseteq Thread /\ Server \subseteq Thread
  BY DEF Thread
<1> HIDE DEF Goal
<1>10. Goal
  BY <1>3, <1>4, <1>5, <1>6, <1>7, <1>8, <1>9
     DEF Running, OtherStep, StreamCall, PrefetchCall, ServeCall, getBlock
<1>11. QED
  BY <1>10 DEF Goal

(* Only WaitedInVain aborts the process.                                   *)
LEMMA AbortIsVain ==
  ASSUME IInv, Running, process # "aborted", process' = "aborted"
  PROVE  \E t \in Thread : WaitedInVain(t)
<1> USE DEF rest, Die
<1>1. \A t \in Thread : ~Lookup(t)
  BY DEF Lookup, LockClient, FileFound, FileNotFound, NewFileFails, NewFile
<1>2. \A t \in Thread : Check(t) => WaitedInVain(t)
  BY DEF Check, LockFetch, WaitForDownload, WakeUp, OutOfRange, CacheHit, ReadBlock, CacheMiss
<1>3. \A t \in Thread : ~handleCache(t)
  BY DEF handleCache, SkipOwnFile, EvictFromFile
<1>4. \A t \in Thread : ~Download(t)
  BY DEF Download, AskPeer, PeerIsGone, PeerSends, PeerBreaks, AskSource, SourceSends,
         SourceFails, SourceExhausted, CopyOverrun, Store, Unqueue, UnqueueRaces
<1>5. ~(OtherStep)
  BY DEF OtherStep, QueryTracker, TrackerAnswers, UpdateOnTracker,
         UpdateSent, ServeUnknown, Die
<1>6. QED
  BY <1>1, <1>2, <1>3, <1>4, <1>5
     DEF Running, OtherStep, StreamCall, PrefetchCall, ServeCall, Call, getBlock

(* What is not marked and not in the map is not coming.                    *)
LEMMA NotVain ==
  ASSUME IInv, NEW t \in Thread, Key(t) \in Coming
  PROVE  ~WaitedInVain(t)
<1> SUFFICES ASSUME WaitedInVain(t) PROVE FALSE
  OBVIOUS
<1>1. /\ pc[t] = "check" /\ ~Marked(t) /\ ~Held(t)
      /\ files[idx[t]] = req[t].name /\ req[t].name \in Name
  BY DEF WaitedInVain, IInv, IdxRight, TypeOK
<1>2. Key(t) \notin BlocksHeld
  BY <1>1, HeldIffInMap DEF Held, HasBlock, Key
<1>3. PICK u \in InFlight : Key(u) = Key(t)
  BY <1>2 DEF Coming, BlocksAsked
<1>4. u \in Marking
  BY <1>3 DEF InFlight, Marking, MarkedAt
<1>5. req[t].block \in downloading[req[t].name]
  BY <1>3, <1>4 DEF IInv, SingleFlight, Key
<1>6. QED
  BY <1>1, <1>5 DEF Marked

LEMMA WaitersInvStep ==
  ASSUME IInv, Running, Calm, WaitersInv
  PROVE  WaitersInv'
<1>1. ASSUME NEW n \in Name, NEW k \in downloading'[n]
      PROVE  <<n, k>> \in Coming'
  <2>1. CASE k \in downloading[n]
    BY <2>1, ComingGrows DEF WaitersInv
  <2>2. CASE k \notin downloading[n]
    <3>1. PICK t \in Thread : CacheMiss(t)
      <4>1. SUFFICES ASSUME \A t \in Thread : ~CacheMiss(t) PROVE FALSE
        OBVIOUS
      <4>2. PICK t \in Thread : Unqueue(t)
        BY <2>2, <4>1, MarksGoOn
      <4>3. downloading'[n] \subseteq downloading[n]
        BY <4>2 DEF Unqueue, IInv, TypeOK
      <4>4. QED
        BY <2>2, <4>3
    <3>2. files[idx[t]] = req[t].name
      BY <3>1 DEF CacheMiss, IInv, IdxRight
    <3>3. downloading' = [downloading EXCEPT ![req[t].name] = @ \cup {req[t].block}]
      BY <3>1, <3>2 DEF CacheMiss
    <3>4. n = req[t].name /\ k = req[t].block
      BY <2>2, <3>3 DEF IInv, TypeOK
    <3>5. Key(t) \in BlocksAsked'
      BY <3>1, MissFetches DEF Shared!Fetch
    <3>6. QED
      BY <3>4, <3>5 DEF Coming, Key
  <2>3. QED
    BY <2>1, <2>2
<1>2. ASSUME NEW t \in Thread, prefetched'[t]
      PROVE  pc'[t] # "idle" /\ Key(t)' \in Coming'
  <2>1. /\ pc'[t] # "idle" /\ req'[t] = req[t]
        /\ prefetched[t] \/ WaitForDownload(t)
    BY <1>2, BeforeWait DEF WaitersInv
  <2>2. CASE prefetched[t]
    BY <2>1, <2>2, ComingGrows DEF WaitersInv, Key
  <2>3. CASE WaitForDownload(t)
    <3>1. /\ files[idx[t]] = req[t].name /\ req[t].name \in Name
          /\ req[t].block \in downloading[files[idx[t]]]
      BY <2>3 DEF WaitForDownload, Marked, IInv, IdxRight, TypeOK
    <3>2. Key(t) \in Coming
      BY <3>1 DEF WaitersInv, Key
    <3>3. QED
      BY <2>1, <3>2, ComingGrows DEF Key
  <2>4. QED
    BY <2>1, <2>2, <2>3
<1>3. WaiterFindsBlock'
  <2>1. SUFFICES ASSUME process' = "aborted" PROVE FALSE
    BY DEF WaiterFindsBlock
  <2>2. PICK t \in Thread : WaitedInVain(t)
    BY <2>1, AbortIsVain DEF WaitersInv, WaiterFindsBlock
  <2>3. prefetched[t]
    BY <2>2 DEF WaitedInVain
  <2>4. QED
    BY <2>2, <2>3, NotVain DEF WaitersInv
<1>4. QED
  BY <1>1, <1>2, <1>3 DEF WaitersInv

(* The process is aborted at "Should have been in cache!" only after an    *)
(* eviction or a broken connection: without them a thread that waited for  *)
(* a download always finds the block.                                      *)
THEOREM OnlyEvictionsDisappoint ==
  Spec /\ [](resets = 0 /\ \A t \in Thread : pc[t] # "evict") => []WaiterFindsBlock
<1>1. Init => WaitersInv
  BY DEF Init, WaitersInv, WaiterFindsBlock
<1>2. IInv /\ Calm /\ WaitersInv /\ [Next]_vars => WaitersInv'
  <2> SUFFICES ASSUME IInv, Calm, WaitersInv, [Next]_vars PROVE WaitersInv'
    OBVIOUS
  <2>1. CASE Running
    BY <2>1, WaitersInvStep
  <2>2. CASE UNCHANGED vars
    BY <2>2 DEF vars, locals, cache, rest, WaitersInv, WaiterFindsBlock, Coming,
                BlocksHeld, BlocksAsked, InFlight, Key
  <2>3. QED
    BY <2>1, <2>2 DEF Next, Ended
<1>3. WaitersInv => WaiterFindsBlock
  BY DEF WaitersInv
<1>4. (resets = 0 /\ \A t \in Thread : pc[t] # "evict") => Calm
  BY DEF Calm
<1>5. QED
  BY <1>1, <1>2, <1>3, <1>4, Invariance, PTL DEF Spec

-----------------------------------------------------------------------------
(* handleCache gives up only when it has to.                               *)

\* A scan that is at i, and began at begin, has seen k in this pass.
Seen(i, begin, k) ==
  IF begin <= i THEN begin <= k /\ k < i ELSE begin <= k \/ k < i

\* How often it has seen k.
Visits(i, begin, tries, k) ==
  (EvictTries - tries) + (IF Seen(i, begin, k) THEN 1 ELSE 0)

(* A scan that begins has visited nothing.                                 *)
LEMMA NoVisitYet ==
  ASSUME NEW i \in Nat, NEW k \in Nat
  PROVE  Visits(i, i, EvictTries, k) = 0
<1>1. EvictTries \in Nat
  BY CacheAssumption
<1>2. ~Seen(i, i, k)
  BY DEF Seen
<1>3. QED
  BY <1>1, <1>2 DEF Visits

\* What v visits leave of the blocks in front of the cursor.
Reduced(b, v) ==
  b.currentBlock = 0 \/ b.currentBlock + v * EvictBatch <= b.numBlocks

PassesRight ==
  \A t \in Thread : pc[t] = "evict" =>
    /\ scan.begin \in DOMAIN files
    /\ \A k \in DOMAIN files : files[k] # req[t].name =>
         Reduced(blockInfo[files[k]], Visits(scan.i, scan.begin, scan.tries, k))

(* One visit.                                                              *)
LEMMA VisitReduces ==
  ASSUME NEW b \in BlockMaps, CursorExact(b), NEW S, b.blocks \subseteq S,
         NEW v \in Int, Reduced(b, v),
         NEW c, c = WithoutBlocks(b, Batch(b) \cap S)
  PROVE  Reduced(c, v + 1)
<1> DEFINE cur == b.currentBlock
           low == IF cur > EvictBatch THEN cur - EvictBatch ELSE 0
<1>1. /\ cur \in Nat /\ b.numBlocks \in Nat /\ EvictBatch \in Nat \ {0}
      /\ \A k \in 0..(cur - 1) : k \in b.blocks
  BY CacheAssumption DEF BlockMaps, CursorExact
<1>2. Batch(b) \cap S = low..(cur - 1)
  BY <1>1 DEF Batch
<1>3. c.numBlocks = b.numBlocks /\ c.currentBlock = low
  <2>1. CASE cur = 0
    <3>1. Batch(b) \cap S = {}
      BY <1>1, <1>2, <2>1
    <3>2. QED
      BY <1>1, <2>1, <3>1 DEF WithoutBlocks, BlockMaps
  <2>2. CASE cur # 0
    <3>1. low \in low..(cur - 1) /\ \A k \in low..(cur - 1) : low <= k
      BY <1>1, <2>2
    <3>2. (CHOOSE k \in low..(cur - 1) : \A j \in low..(cur - 1) : k <= j) = low
      <4>1. \A k \in low..(cur - 1) : (\A j \in low..(cur - 1) : k <= j) => k = low
        BY <1>1, <3>1
      <4>2. QED
        BY <3>1, <4>1
    <3>3. low..(cur - 1) # {}
      BY <3>1
    <3> HIDE DEF low
    <3>4. c.currentBlock = low
      BY <1>2, <3>2, <3>3 DEF WithoutBlocks, BlockMaps
    <3>5. c.numBlocks = b.numBlocks
      BY DEF WithoutBlocks, BlockMaps
    <3>6. QED
      BY <3>4, <3>5
  <2>3. QED
    BY <2>1, <2>2
<1>4. CASE cur > EvictBatch
  <2>1. cur + v * EvictBatch <= b.numBlocks
    BY <1>1, <1>4 DEF Reduced
  <2>2. v * EvictBatch \in Int /\ (v + 1) * EvictBatch = v * EvictBatch + EvictBatch
    BY <1>1
  <2>3. QED
    BY <1>1, <1>3, <1>4, <2>1, <2>2 DEF Reduced
<1>5. CASE ~(cur > EvictBatch)
  BY <1>3, <1>5 DEF Reduced
<1>6. QED
  BY <1>4, <1>5

(* A visit moves the scan on, to the next file or to the end.  The scan    *)
(* goes round the files, and every round is a visit to each.               *)
LEMMA VisitMoves ==
  ASSUME IInv, NEW t \in Thread, pc[t] = "evict", scan.begin \in DOMAIN files,
         NextVisit(t)
  PROVE  \E j \in DOMAIN files, left \in Nat :
           /\ \A k \in DOMAIN files :
                Visits(j, scan.begin, left, k)
                  = Visits(scan.i, scan.begin, scan.tries, k) + (IF k = scan.i THEN 1 ELSE 0)
           /\ \/ /\ left # 0 /\ UNCHANGED pc
                 /\ scan' = [i |-> j, begin |-> scan.begin, tries |-> left]
              \/ left = 0 /\ j = scan.begin /\ pc' = [pc EXCEPT ![t] = "choose"]
<1> DEFINE j == (scan.i % Len(files)) + 1
           left == IF j = scan.begin THEN scan.tries - 1 ELSE scan.tries
<1>1. /\ files \in Seq(Name) /\ DOMAIN files = 1..Len(files) /\ Len(files) \in Nat
      /\ scan.i \in DOMAIN files
      /\ scan \in [i : Nat, begin : Nat, tries : Nat] /\ scan.tries > 0
  BY DEF IInv, TypeOK, ScanRight
<1>2. j \in DOMAIN files /\ left \in Nat
  BY <1>1
<1>3. \A k \in DOMAIN files :
        Visits(j, scan.begin, left, k)
          = Visits(scan.i, scan.begin, scan.tries, k) + (IF k = scan.i THEN 1 ELSE 0)
  <2> DEFINE len == Len(files)
             i == scan.i
             begin == scan.begin
             tries == scan.tries
  <2>1. /\ len \in Nat /\ i \in 1..len /\ begin \in 1..len /\ tries \in Nat
        /\ EvictTries \in Nat
    BY <1>1, CacheAssumption
  <2>2. j = IF i = len THEN 1 ELSE i + 1
    BY <2>1
  <2>3. left = IF j = begin THEN tries - 1 ELSE tries
    OBVIOUS
  <2> HIDE DEF j, left, len, i, begin, tries
  <2> SUFFICES ASSUME NEW k \in 1..len
               PROVE  Visits(j, begin, left, k)
                        = Visits(i, begin, tries, k) + (IF k = i THEN 1 ELSE 0)
    BY <1>1 DEF len, i, begin, tries
  <2>4. CASE j = begin
    <3>1. ~Seen(j, begin, k) /\ left = tries - 1
      BY <2>1, <2>3, <2>4 DEF Seen
    <3>2. Seen(i, begin, k) <=> k # i
      BY <2>1, <2>2, <2>4 DEF Seen
    <3>3. QED
      BY <2>1, <3>1, <3>2 DEF Visits
  <2>5. CASE j # begin
    <3>1. left = tries /\ ~Seen(i, begin, i)
      BY <2>1, <2>3, <2>5 DEF Seen
    <3>2. Seen(j, begin, k) <=> Seen(i, begin, k) \/ k = i
      BY <2>1, <2>2, <2>5 DEF Seen
    <3>3. QED
      BY <2>1, <3>1, <3>2 DEF Visits
  <2>6. QED
    BY <2>4, <2>5
<1>4. CASE left = 0
  <2>1. j = scan.begin
    BY <1>1, <1>4
  <2>2. pc' = [pc EXCEPT ![t] = "choose"]
    BY <1>4 DEF NextVisit, EvictionDone, Goto
  <2> HIDE DEF j, left
  <2>3. QED
    BY <1>2, <1>3, <1>4, <2>1, <2>2
<1>5. CASE left # 0
  <2>1. scan' = [scan EXCEPT !.i = j, !.tries = left] /\ UNCHANGED pc
    BY <1>5 DEF NextVisit
  <2> HIDE DEF j, left
  <2>2. scan' = [i |-> j, begin |-> scan.begin, tries |-> left]
    BY <1>1, <2>1
  <2>3. QED
    BY <1>2, <1>3, <1>5, <2>1, <2>2
<1>6. QED
  BY <1>4, <1>5

(* What one step of handleCache does to the files it has to look at.       *)
LEMMA VisitCounts ==
  ASSUME IInv, resets = 0, PassesRight, NEW t \in Thread, pc[t] = "evict",
         SkipOwnFile(t) \/ EvictFromFile(t),
         NEW k \in DOMAIN files, files[k] # req[t].name
  PROVE  Reduced(blockInfo'[files[k]],
                 Visits(scan.i, scan.begin, scan.tries, k) + (IF k = scan.i THEN 1 ELSE 0))
<1> DEFINE v == Visits(scan.i, scan.begin, scan.tries, k)
           f == files[k]
<1>1. Reduced(blockInfo[f], v) /\ f \in Name
  BY DEF PassesRight, IInv, TypeOK
<1>2. v \in Int
  <2>1. EvictTries \in Nat /\ scan.tries \in Nat
    BY CacheAssumption DEF IInv, TypeOK
  <2>2. QED
    BY <2>1 DEF Visits
<1>3. CASE SkipOwnFile(t)
  <2>1. k # scan.i
    BY <1>3 DEF SkipOwnFile, OwnFile, IInv, IdxRight, MarkedAt, InFlightAt
  <2>2. UNCHANGED blockInfo
    BY <1>3 DEF SkipOwnFile, cache
  <2>3. QED
    BY <1>1, <1>2, <2>1, <2>2
<1>4. CASE EvictFromFile(t)
  <2> DEFINE g == files[scan.i]
             c == WithoutBlocks(blockInfo[g], Batch(blockInfo[g]) \cap disk[g])
  <2>1. scan.i \in DOMAIN files /\ g \in Name
    BY DEF IInv, TypeOK, ScanRight
  <2>2. blockInfo' = [blockInfo EXCEPT ![g] = c]
    BY <1>4 DEF EvictFromFile, Copies
  <2>3. CASE k = scan.i
    <3>1. /\ blockInfo[f] \in BlockMaps /\ CursorExact(blockInfo[f])
          /\ blockInfo[f].blocks \subseteq disk[f]
      BY <1>1 DEF IInv, TypeOK, OnDisk
    <3>2. blockInfo'[f] = c /\ f = g
      BY <1>1, <2>2, <2>3 DEF IInv, TypeOK
    <3> HIDE DEF v
    <3>3. Reduced(c, v + 1)
      BY <1>1, <1>2, <3>1, <3>2, VisitReduces
    <3>4. QED
      BY <2>3, <3>2, <3>3 DEF v
  <2>4. CASE k # scan.i
    <3>1. f # g
      BY <2>1, <2>4 DEF IInv, FilesRight
    <3>2. blockInfo'[f] = blockInfo[f]
      BY <1>1, <2>2, <3>1 DEF IInv, TypeOK
    <3>3. QED
      BY <1>1, <1>2, <2>4, <3>2
  <2>5. QED
    BY <2>3, <2>4
<1>5. QED
  BY <1>3, <1>4

(* Only handleCache ends an eviction.                                      *)
LEMMA EvictGoesOn ==
  ASSUME IInv, Running, NEW u \in Thread, pc[u] = "evict", ~handleCache(u)
  PROVE  pc'[u] = "evict"
<1> USE DEF Goto
<1>1. pc \in [Thread \cup {Querier, Updater} -> Labels \cup {"waiting"}]
  BY DEF IInv, TypeOK
<1>2. Querier \notin Thread /\ Updater \notin Thread
  BY ThreadsAssumption
<1>3. ASSUME NEW t \in Thread, NEW n, NEW k, NEW off, Call(t, n, k, off)
      PROVE  pc'[u] = "evict"
  BY <1>1, <1>3 DEF Call
<1>4. ASSUME NEW t \in Thread, Lookup(t)
      PROVE  pc'[u] = "evict"
  BY <1>1, <1>4
     DEF Lookup, LockClient, FileFound, FileNotFound, NewFileFails, NewFile, Die
<1>5. ASSUME NEW t \in Thread, Check(t)
      PROVE  pc'[u] = "evict"
  BY <1>1, <1>5
     DEF Check, LockFetch, WaitForDownload, WakeUp, CacheHit, ReadBlock, Return,
         OutOfRange, WaitedInVain, CacheMiss, Die
<1>6. ASSUME NEW t \in Thread, handleCache(t)
      PROVE  pc'[u] = "evict"
  <2>1. pc[t] = "evict" /\ (NextVisit(t) \/ EvictionDone(t)) /\ t # u
    BY <1>6 DEF handleCache, SkipOwnFile, EvictFromFile
  <2>2. UNCHANGED pc \/ pc' = [pc EXCEPT ![t] = "choose"]
    BY <2>1, NextVisitEffect
  <2>3. QED
    BY <1>1, <2>1, <2>2
<1>7. ASSUME NEW t \in Thread, Download(t)
      PROVE  pc'[u] = "evict"
  BY <1>1, <1>7
     DEF Download, AskPeer, PeerIsGone, PeerSends, PeerBreaks, AskSource, SourceSends,
         SourceFails, SourceExhausted, CopyOverrun, Store, Unqueue, UnqueueRaces, Return, Die
<1>8. CASE OtherStep
  BY <1>1, <1>2, <1>8 DEF OtherStep, QueryTracker, TrackerAnswers, UpdateOnTracker,
         UpdateSent, ServeUnknown, Die
<1>9. Streamer \in Thread /\ Prefetcher \subseteq Thread /\ Server \subseteq Thread
  BY DEF Thread
<1>10. QED
  BY <1>3, <1>4, <1>5, <1>6, <1>7, <1>8, <1>9
     DEF Running, OtherStep, StreamCall, PrefetchCall, ServeCall, getBlock

(* While one thread evicts the locks keep the others from the maps.        *)
LEMMA OthersWait ==
  ASSUME IInv, Running, resets = 0, NEW t \in Thread, pc[t] = "evict", ~handleCache(t)
  PROVE  /\ pc'[t] = "evict" /\ req'[t] = req[t]
         /\ UNCHANGED <<files, blockInfo, scan>>
<1>1. /\ pc \in [Thread \cup {Querier, Updater} -> Labels \cup {"waiting"}]
      /\ fetch = t /\ writer = t /\ t # NoThread
  BY ThreadsAssumption DEF IInv, TypeOK, LockDiscipline, FetchAt, ExclusiveAt
<1>2. \A u \in Thread \ {t} : pc[u] \notin FetchAt \cup ExclusiveAt
  BY <1>1 DEF IInv, LockDiscipline
<1>3. \A u \in Thread : ~handleCache(u)
  BY <1>2 DEF handleCache, SkipOwnFile, EvictFromFile, FetchAt
<1>4. \A u \in Thread : ~CacheMiss(u) /\ ~NewFile(u) /\ ~Store(u)
  BY <1>1, <1>2 DEF CacheMiss, NewFile, Store, WrFree, FetchAt, ExclusiveAt
<1>5. UNCHANGED scan
  BY <1>3, <1>4, BeforeEvict
<1>6. UNCHANGED files
  BY <1>4, FilesGrow
<1>7. UNCHANGED blockInfo
  BY <1>3, <1>4, MapsStep DEF handleCache
<1>8. t \in InFlight /\ t \in InFlight' /\ req'[t] = req[t]
  <2>1. t \in InFlight
    BY DEF InFlight, InFlightAt
  <2>2. QED
    BY <1>4, <2>1, FlightsGoOn
<1>9. pc'[t] = "evict"
  BY EvictGoesOn
<1>10. QED
  BY <1>5, <1>6, <1>7, <1>8, <1>9

LEMMA PassesRightStep ==
  ASSUME IInv, Running, resets = 0, PassesRight
  PROVE  PassesRight'
<1> SUFFICES ASSUME NEW t \in Thread, pc'[t] = "evict"
             PROVE  /\ scan'.begin \in DOMAIN files'
                    /\ \A k \in DOMAIN files' : files'[k] # req'[t].name =>
                         Reduced(blockInfo'[files'[k]],
                                 Visits(scan'.i, scan'.begin, scan'.tries, k))
  BY DEF PassesRight
<1>1. pc \in [Thread \cup {Querier, Updater} -> Labels \cup {"waiting"}]
  BY DEF IInv, TypeOK
<1>2. CASE pc[t] = "evict" /\ ~handleCache(t)
  BY <1>2, OthersWait DEF PassesRight
<1>3. CASE handleCache(t)
  <2>1. /\ pc[t] = "evict" /\ UNCHANGED <<files, req>>
        /\ NextVisit(t) \/ EvictionDone(t)
    BY <1>3 DEF handleCache, SkipOwnFile, EvictFromFile, cache, locals
  <2>2. NextVisit(t)
    BY <1>1, <2>1 DEF EvictionDone, Goto
  <2>3. scan.begin \in DOMAIN files
    BY <2>1 DEF PassesRight
  <2>4. PICK j \in DOMAIN files, left \in Nat :
          /\ \A k \in DOMAIN files :
               Visits(j, scan.begin, left, k)
                 = Visits(scan.i, scan.begin, scan.tries, k) + (IF k = scan.i THEN 1 ELSE 0)
          /\ scan' = [i |-> j, begin |-> scan.begin, tries |-> left]
    BY <1>1, <2>1, <2>2, <2>3, VisitMoves
  <2>5. ASSUME NEW k \in DOMAIN files, files[k] # req[t].name
        PROVE  Reduced(blockInfo'[files[k]], Visits(j, scan.begin, left, k))
    BY <1>3, <2>1, <2>4, <2>5, VisitCounts DEF handleCache
  <2>6. QED
    BY <2>1, <2>3, <2>4, <2>5
<1>4. CASE pc[t] # "evict"
  <2>1. PICK u \in Thread : CacheMiss(u) \/ handleCache(u)
    BY <1>4, BeforeEvict
  <2>2. CASE handleCache(u)
    <3>1. pc[u] = "evict" /\ (NextVisit(u) \/ EvictionDone(u))
      BY <2>2 DEF handleCache, SkipOwnFile, EvictFromFile
    <3>2. UNCHANGED pc \/ pc' = [pc EXCEPT ![u] = "choose"]
      BY <3>1, NextVisitEffect
    <3>3. QED
      BY <1>1, <1>4, <3>2
  <2>3. CASE CacheMiss(u)
    <3>1. t = u
      BY <1>1, <1>4, <2>3 DEF CacheMiss, Goto
    <3>2. /\ UNCHANGED <<files, blockInfo>>
          /\ \E first \in DOMAIN files :
               scan' = [i |-> first, begin |-> first, tries |-> EvictTries]
      BY <1>1, <2>3, <3>1 DEF CacheMiss, Goto
    <3>3. PICK first \in DOMAIN files :
               scan' = [i |-> first, begin |-> first, tries |-> EvictTries]
      BY <3>2
    <3>4. ASSUME NEW k \in DOMAIN files
          PROVE  Reduced(blockInfo[files[k]], Visits(first, first, EvictTries, k))
      <4>0. files \in Seq(Name)
        BY DEF IInv, TypeOK
      <4>1. files[k] \in Name /\ first \in Nat /\ k \in Nat
        <5>1. DOMAIN files = 1..Len(files) /\ Len(files) \in Nat
          BY <4>0
        <5>2. QED
          BY <4>0, <5>1
      <4>2. Visits(first, first, EvictTries, k) = 0
        BY <4>1, NoVisitYet
      <4>3. blockInfo[files[k]] \in BlockMaps
        BY <4>1 DEF IInv, TypeOK
      <4>4. QED
        BY <4>2, <4>3, CacheAssumption DEF Reduced, BlockMaps
    <3>5. QED
      BY <3>2, <3>3, <3>4
  <2>4. QED
    BY <2>1, <2>2, <2>3
<1>5. QED
  BY <1>2, <1>3, <1>4

(* handleCache ends below 85 %, or when it has taken from every other file *)
(* whose blocks fit in its passes whatever there was before the cursor.    *)
LEMMA EndOfEviction ==
  ASSUME IInv, Running, resets = 0, PassesRight,
         NEW t \in Thread, pc[t] = "evict", pc'[t] = "choose",
         ~(Percent(cache_used') < 85),
         NEW n \in Known \ {req[t].name}, NumBlocks(n) <= EvictTries * EvictBatch
  PROVE  blockInfo'[n].currentBlock = 0
<1>1. handleCache(t)
  BY OthersWait
<1>2. NextVisit(t)
  BY <1>1 DEF handleCache, SkipOwnFile, EvictFromFile, Discounted
<1>3. pc \in [Thread \cup {Querier, Updater} -> Labels \cup {"waiting"}]
      /\ scan.begin \in DOMAIN files
  BY DEF IInv, TypeOK, PassesRight
<1>4. PICK j \in DOMAIN files, left \in Nat :
        /\ \A k \in DOMAIN files :
             Visits(j, scan.begin, left, k)
               = Visits(scan.i, scan.begin, scan.tries, k) + (IF k = scan.i THEN 1 ELSE 0)
        /\ left = 0 /\ j = scan.begin
  <2>1. ~UNCHANGED pc
    OBVIOUS
  <2>2. QED
    BY <1>2, <1>3, <2>1, VisitMoves
<1>5. PICK k \in DOMAIN files : files[k] = n
  BY DEF Known
<1>6. Visits(j, scan.begin, left, k) = EvictTries
  <2>1. ~Seen(j, scan.begin, k) /\ EvictTries \in Nat
    <3>1. DOMAIN files = 1..Len(files)
      BY DEF IInv, TypeOK
    <3>2. QED
      BY <1>4, <3>1, CacheAssumption DEF Seen
  <2>2. QED
    BY <1>4, <2>1 DEF Visits
<1>7. Reduced(blockInfo'[n], EvictTries)
  BY <1>1, <1>4, <1>5, <1>6, VisitCounts DEF handleCache
<1>8. blockInfo' \in [Name -> BlockMaps] /\ blockInfo'[n].numBlocks = NumBlocks(n) /\ n \in Name
  <2>1. TypeOK'
    BY RunningTypeLocks
  <2>2. n \in Name
    BY <1>5 DEF IInv, TypeOK
  <2>3. QED
    BY <2>1, <2>2 DEF TypeOK, NumBlocks
<1>9. blockInfo'[n].currentBlock \in Nat /\ EvictTries * EvictBatch \in Nat
  BY <1>8, CacheAssumption DEF BlockMaps
<1>10. NumBlocks(n) \in Nat
  BY <1>8, NumBlocksNat
<1>11. QED
  BY <1>7, <1>8, <1>9, <1>10 DEF Reduced

(* When handleCache gives up the cache is below 85 %, or no other file,    *)
(* if its blocks fit in the passes, has a block left in front of its       *)
(* cursor: as long as no connection to a peer breaks.                      *)
THEOREM EvictionsAreThorough == Spec /\ [](resets = 0) => EvictionThorough
<1> DEFINE Ends(t) ==
      pc[t] = "evict" /\ pc'[t] = "choose" =>
        \/ Percent(cache_used') < 85
        \/ \A n \in Known \ {req[t].name} :
             NumBlocks(n) <= EvictTries * EvictBatch => blockInfo'[n].currentBlock = 0
<1>1. Init => PassesRight
  BY DEF Init, PassesRight
<1>2. IInv /\ resets = 0 /\ PassesRight /\ [Next]_vars => PassesRight'
  <2> SUFFICES ASSUME IInv, resets = 0, PassesRight, [Next]_vars PROVE PassesRight'
    OBVIOUS
  <2>1. CASE Running
    BY <2>1, PassesRightStep
  <2>2. CASE UNCHANGED vars
    BY <2>2 DEF vars, locals, cache, rest, PassesRight
  <2>3. QED
    BY <2>1, <2>2 DEF Next, Ended
<1>3. IInv /\ resets = 0 /\ PassesRight /\ [Next]_vars => [\A t \in Thread : Ends(t)]_vars
  <2> SUFFICES ASSUME IInv, resets = 0, PassesRight, [Next]_vars, ~UNCHANGED vars,
                      NEW t \in Thread
               PROVE  Ends(t)
    OBVIOUS
  <2>1. Running
    BY DEF Next, Ended
  <2>2. QED
    BY <2>1, EndOfEviction
<1>4. QED
  BY <1>1, <1>2, <1>3, Invariance, PTL DEF Spec, EvictionThorough

-----------------------------------------------------------------------------
(* The account of the cache.  What a block is charged when it is found at  *)
(* the start or evicted is what its file occupies, and what is counted for *)
(* a download is, too, if no file ends with a whole block and no range     *)
(* begins inside one.                                                      *)
ShortLastBlocks == \A n \in Name : FileSize[n] % BlockSize # 0

WholeBlocks == ShortLastBlocks /\ Offset \subseteq {0}

Bytes(n, S) == SumFunction([b \in S |-> BlockBytes(n, b)])

AccountOfKnown ==
  /\ \A n \in Name \ Known : blockInfo[n].blocks = {}
  /\ cache_used \in Int

(* AccountingExact is inductive with what a thread is about to add to the  *)
(* account, and with FetchOnlyMissing and OnDisk: a block that is added    *)
(* twice, or taken away when it was not there, is counted all the same.    *)
AccountRight ==
  /\ AccountOfKnown
  /\ \A t \in Thread : req[t].offset = 0
  /\ \A t \in Thread :
       pc[t] = "store" => resp_size[t] = BlockBytes(req[t].name, req[t].block)
  /\ AccountingExact

(* Whatever the offsets, a thread adds no more than the block occupies.    *)
AccountLow ==
  /\ AccountOfKnown
  /\ \A t \in Thread :
       pc[t] = "store" => resp_size[t] <= BlockBytes(req[t].name, req[t].block)
  /\ cache_used <= StoredBytes

(* A step lets the account drift from what is stored by d.                 *)
Drift(d) ==
  \E was, is \in Int :
    was = StoredBytes /\ is = StoredBytes' /\ cache_used' = cache_used + (is - was) + d

Surplus(t) == resp_size[t] - BlockBytes(req[t].name, req[t].block)

LEMMA LastBlockBytes ==
  ASSUME NEW f \in Nat, NEW d \in Nat \ {0}, f % d # 0
  PROVE  f - (((f + d - 1) \div d) - 1) * d = f % d
<1> DEFINE q == f \div d
           r == f % d
           n == (f + d - 1) \div d
<1>1. /\ q \in Nat /\ r \in Nat /\ r < d /\ r # 0
      /\ f = q * d + r
  OBVIOUS
<1>2. /\ n \in Nat
      /\ n * d <= f + d - 1
      /\ f + d - 1 < n * d + d
  OBVIOUS
<1> HIDE DEF q, r, n
<1>3. \A a, b \in Nat : a <= b => a * d <= b * d
  OBVIOUS
<1>4. ~(n <= q)
  <2>1. n <= q => n * d <= q * d
    BY <1>1, <1>2, <1>3
  <2>2. q * d \in Nat /\ n * d \in Nat
    BY <1>1, <1>2
  <2>3. QED
    BY <1>1, <1>2, <2>1, <2>2
<1>5. ~(q + 2 <= n)
  <2>1. q + 2 <= n => (q + 2) * d <= n * d
    BY <1>1, <1>2, <1>3
  <2>2. q * d \in Nat /\ n * d \in Nat /\ (q + 2) * d = q * d + 2 * d
    BY <1>1, <1>2
  <2>3. QED
    BY <1>1, <1>2, <2>1, <2>2
<1>6. n - 1 = q
  BY <1>1, <1>2, <1>4, <1>5
<1>7. f - (n - 1) * d = r
  <2>1. q * d \in Nat
    BY <1>1
  <2>2. f - q * d = r
    BY <1>1, <2>1
  <2>3. QED
    BY <1>6, <2>2
<1>8. QED
  BY <1>7 DEF n, r

LEMMA ChargedIsBytes ==
  ASSUME ShortLastBlocks, NEW n \in Name, NEW S
  PROVE  Charged(n, S) = Bytes(n, S)
<1>1. FileSize[n] \in Nat /\ BlockSize \in Nat \ {0}
  BY FilesAssumption
<1>2. FileSize[n] - (NumBlocks(n) - 1) * BlockSize = FileSize[n] % BlockSize
  BY <1>1, LastBlockBytes DEF ShortLastBlocks, NumBlocks
<1>3. \A b : ChargedBytes(n, b) = BlockBytes(n, b)
  BY <1>2 DEF ChargedBytes, BlockBytes
<1>4. [b \in S |-> ChargedBytes(n, b)] = [b \in S |-> BlockBytes(n, b)]
  BY <1>3
<1>5. QED
  BY <1>4 DEF Charged, Bytes

(* The bytes of some blocks as a sum over one function for all of them.    *)
LEMMA BytesOfPart ==
  ASSUME NEW n \in Name, NEW S \in SUBSET Blocks(n), NEW T \in SUBSET S
  PROVE  /\ IsFiniteSet(S)
         /\ Bytes(n, T) = SumFunctionOnSet([b \in S |-> BlockBytes(n, b)], T)
         /\ Bytes(n, T) \in Int
<1> DEFINE f == [b \in S |-> BlockBytes(n, b)]
           g == [b \in T |-> BlockBytes(n, b)]
<1>1. IsFiniteSet(Blocks(n))
  BY NumBlocksNat, FS_Interval DEF Blocks
<1>2. IsFiniteSet(S) /\ IsFiniteSet(T)
  BY <1>1, FS_Subset
<1>3. \A b \in S : b \in Nat
  BY NumBlocksNat DEF Blocks
<1>4. \A b \in S : f[b] \in Int
  BY <1>3, BlockBytesInt
<1>5. \A b \in T : f[b] \in Int /\ g[b] = f[b]
  BY <1>4
<1>6. Bytes(n, T) = SumFunctionOnSet(g, T)
  BY DEF Bytes, SumFunction
<1> HIDE DEF f, g
<1>7. SumFunctionOnSet(f, T) = SumFunctionOnSet(g, T) /\ SumFunctionOnSet(f, T) \in Int
  BY <1>2, <1>5, SumSame, SumType
<1>8. QED
  BY <1>2, <1>6, <1>7 DEF f

LEMMA BytesAdd ==
  ASSUME NEW n \in Name, NEW S \in SUBSET Blocks(n), NEW b \in Blocks(n), b \notin S
  PROVE  Bytes(n, S \cup {b}) = Bytes(n, S) + BlockBytes(n, b)
<1> DEFINE U == S \cup {b}
           f == [k \in U |-> BlockBytes(n, k)]
<1>1. U \in SUBSET Blocks(n)
  OBVIOUS
<1>2. /\ IsFiniteSet(U)
      /\ Bytes(n, U) = SumFunctionOnSet(f, U)
      /\ Bytes(n, S) = SumFunctionOnSet(f, S) /\ Bytes(n, S) \in Int
  BY <1>1, BytesOfPart
<1>3. \A k \in U : f[k] \in Int
  BY <1>1, BlockBytesInt, NumBlocksNat DEF Blocks
<1>4. U \ {b} = S /\ b \in U /\ f[b] = BlockBytes(n, b)
  OBVIOUS
<1> HIDE DEF f, U
<1>5. SumFunctionOnSet(f, U) = f[b] + SumFunctionOnSet(f, U \ {b})
  BY <1>2, <1>3, <1>4, SumRemove
<1>6. Bytes(n, U) = BlockBytes(n, b) + Bytes(n, S)
  BY <1>2, <1>4, <1>5
<1>7. BlockBytes(n, b) \in Int
  BY <1>3, <1>4
<1>8. QED
  BY <1>2, <1>6, <1>7 DEF U

(* No block is empty.                                                      *)
LEMMA BytesPositive ==
  ASSUME ShortLastBlocks, NEW n \in Name, NEW b \in Nat
  PROVE  BlockBytes(n, b) \in Nat \ {0}
<1>1. FileSize[n] \in Nat /\ BlockSize \in Nat \ {0}
  BY FilesAssumption
<1>2. FileSize[n] - (NumBlocks(n) - 1) * BlockSize = FileSize[n] % BlockSize
  BY <1>1, LastBlockBytes DEF ShortLastBlocks, NumBlocks
<1>3. FileSize[n] % BlockSize \in Nat \ {0}
  BY <1>1 DEF ShortLastBlocks
<1>4. QED
  BY <1>1, <1>2, <1>3 DEF BlockBytes

LEMMA BytesRemove ==
  ASSUME NEW n \in Name, NEW S \in SUBSET Blocks(n), NEW T \in SUBSET S
  PROVE  Bytes(n, S \ T) = Bytes(n, S) - Bytes(n, T)
<1> DEFINE f == [k \in S |-> BlockBytes(n, k)]
<1>1. /\ IsFiniteSet(S)
      /\ Bytes(n, S) = SumFunctionOnSet(f, S)
      /\ Bytes(n, T) = SumFunctionOnSet(f, T)
      /\ Bytes(n, S \ T) = SumFunctionOnSet(f, S \ T)
  BY BytesOfPart
<1>2. \A k \in S : f[k] \in Int
  BY BlockBytesInt, NumBlocksNat DEF Blocks
<1> HIDE DEF f
<1>3. SumFunctionOnSet(f, S \ T) = SumFunctionOnSet(f, S) - SumFunctionOnSet(f, T)
  BY <1>1, <1>2, SumDifference
<1>4. QED
  BY <1>1, <1>3

LEMMA KnownFinite ==
  ASSUME TypeOK
  PROVE  IsFiniteSet(Known) /\ Known \subseteq Name
<1>1. DOMAIN files = 1..Len(files) /\ Len(files) \in Nat
  BY DEF TypeOK
<1>2. IsFiniteSet(DOMAIN files)
  BY <1>1, FS_Interval
<1>3. files \in Surjection(DOMAIN files, Known)
  BY <1>1 DEF Known, Surjection, TypeOK
<1>4. IsFiniteSet(Known)
  BY <1>2, <1>3, FS_Surjection
<1>5. QED
  BY <1>1, <1>4 DEF Known, TypeOK

LEMMA MapsInFile ==
  ASSUME TypeOK, NEW n \in Name
  PROVE  blockInfo[n].blocks \in SUBSET Blocks(n)
<1>1. blockInfo[n] \in BlockMaps /\ blockInfo[n].numBlocks = NumBlocks(n)
  BY DEF TypeOK
<1>2. blockInfo[n].blocks \in SUBSET (0..(blockInfo[n].numBlocks - 1))
  BY <1>1 DEF BlockMaps
<1>3. QED
  BY <1>1, <1>2 DEF Blocks

(* The total as a sum over the files.                                      *)
FileBytes == [n \in Known |-> Bytes(n, blockInfo[n].blocks)]

LEMMA StoredIsSum ==
  ASSUME TypeOK
  PROVE  /\ StoredBytes = SumFunctionOnSet(FileBytes, Known)
         /\ \A n \in Known : FileBytes[n] \in Int
<1>1. \A n \in Name : Bytes(n, blockInfo[n].blocks) \in Int
  BY MapsInFile, BytesOfPart
<1>2. Known \subseteq Name
  BY KnownFinite
<1>3. StoredBytes = SumFunction(FileBytes)
  BY DEF StoredBytes, FileBytes, Bytes
<1>4. DOMAIN FileBytes = Known
  BY DEF FileBytes
<1>5. SumFunction(FileBytes) = SumFunctionOnSet(FileBytes, Known)
  BY <1>4 DEF SumFunction
<1>6. QED
  BY <1>1, <1>2, <1>3, <1>5 DEF FileBytes

(* A change of one map changes the total by what it adds to the file.      *)
LEMMA StoredChange ==
  ASSUME TypeOK, TypeOK', UNCHANGED files,
         NEW n \in Known, NEW c, blockInfo' = [blockInfo EXCEPT ![n] = c]
  PROVE  StoredBytes' = StoredBytes - Bytes(n, blockInfo[n].blocks) + Bytes(n, c.blocks)
<1> DEFINE K == Known
           f == FileBytes
           g == FileBytes'
           R == K \ {n}
<1>1. Known' = K
  BY DEF Known
<1>2. IsFiniteSet(K) /\ K \subseteq Name /\ n \in K
  BY KnownFinite
<1>3. /\ StoredBytes = SumFunctionOnSet(f, K)
      /\ \A m \in K : f[m] \in Int
  BY StoredIsSum
<1>4. \A m \in Name : Bytes(m, blockInfo'[m].blocks) \in Int
  <2>1. ASSUME NEW m \in Name PROVE blockInfo'[m].blocks \in SUBSET Blocks(m)
    <3>1. blockInfo'[m] \in BlockMaps /\ blockInfo'[m].numBlocks = NumBlocks(m)
      BY DEF TypeOK, NumBlocks
    <3>2. blockInfo'[m].blocks \in SUBSET (0..(blockInfo'[m].numBlocks - 1))
      BY <3>1 DEF BlockMaps
    <3>3. QED
      BY <3>1, <3>2 DEF Blocks
  <2>2. QED
    BY <2>1, BytesOfPart
<1>5. g = [m \in K |-> Bytes(m, blockInfo'[m].blocks)]
  BY <1>1 DEF FileBytes, Bytes, BlockBytes, NumBlocks
<1>6. StoredBytes' = SumFunctionOnSet(g, K)
  <2>1. StoredBytes' = SumFunction([m \in K |-> Bytes(m, blockInfo'[m].blocks)])
    BY <1>1 DEF StoredBytes, Bytes, BlockBytes, NumBlocks
  <2>2. DOMAIN g = K
    BY <1>5
  <2>3. StoredBytes' = SumFunctionOnSet(g, DOMAIN g)
    BY <1>5, <2>1 DEF SumFunction
  <2>4. QED
    BY <2>2, <2>3
<1>7. \A m \in K : g[m] \in Int
  BY <1>2, <1>4, <1>5
<1>8. /\ g[n] = Bytes(n, c.blocks)
      /\ f[n] = Bytes(n, blockInfo[n].blocks)
      /\ \A m \in R : g[m] = f[m]
  <2>1. blockInfo \in [Name -> BlockMaps]
    BY DEF TypeOK
  <2>2. \A m \in K : blockInfo'[m] = IF m = n THEN c ELSE blockInfo[m]
    BY <1>2, <2>1
  <2>3. \A m \in K : f[m] = Bytes(m, blockInfo[m].blocks)
    BY DEF FileBytes
  <2> HIDE DEF f, g
  <2>4. QED
    BY <1>2, <1>5, <2>2, <2>3
<1> HIDE DEF K, f, g
<1>9. SumFunctionOnSet(f, K) = f[n] + SumFunctionOnSet(f, R)
  BY <1>2, <1>3, SumRemove
<1>10. SumFunctionOnSet(g, K) = g[n] + SumFunctionOnSet(g, R)
  BY <1>2, <1>7, SumRemove
<1>11. IsFiniteSet(R)
  BY <1>2, FS_Subset
<1>12. SumFunctionOnSet(f, R) = SumFunctionOnSet(g, R) /\ SumFunctionOnSet(f, R) \in Int
  BY <1>3, <1>8, <1>11, SumSame, SumType
<1>13. f[n] \in Int /\ g[n] \in Int
  BY <1>2, <1>3, <1>7
<1>14. QED
  BY <1>3, <1>6, <1>8, <1>9, <1>10, <1>12, <1>13

LEMMA InitAccount ==
  ASSUME ShortLastBlocks, Init
  PROVE  /\ AccountOfKnown /\ AccountingExact /\ StoredBytes \in Int
         /\ \A t \in Thread : req[t].offset = 0 /\ pc[t] = "idle"
<1>1. IInv
  BY InitIInv
<1>2. /\ \A t \in Thread : req[t].offset = 0 /\ pc[t] = "idle"
      /\ \A n \in Name : disk[n] \subseteq IF n \in StoredName THEN Blocks(n) ELSE {}
      /\ \A n \in Name : blockInfo[n] = MapOf(NumBlocks(n), disk[n])
      /\ files \in Orders(StoredName)
  BY DEF Init, NoCall
<1>3. \A n \in Name : blockInfo[n].blocks = disk[n]
  <2>1. ASSUME NEW n \in Name PROVE blockInfo[n].blocks = disk[n]
    <3>1. blockInfo[n] = MapOf(NumBlocks(n), disk[n])
      BY <1>2
    <3>2. blockInfo[n] = [numBlocks |-> NumBlocks(n),
                          currentBlock |-> FirstHole(NumBlocks(n), disk[n], 0),
                          blocks |-> disk[n]]
      BY <3>1 DEF MapOf
    <3>3. QED
      BY <3>2
  <2>2. QED
    BY <2>1
<1>4. Known = StoredName
  BY <1>2 DEF Orders, Known
<1>5. \A n \in Name \ Known : blockInfo[n].blocks = {}
  BY <1>2, <1>3, <1>4
<1>6. AccountingExact
  <2>1. cache_used = SumFunction([n \in StoredName |-> Charged(n, disk[n])])
    BY DEF Init
  <2>2. \A n \in StoredName : Charged(n, disk[n]) = Bytes(n, blockInfo[n].blocks)
    BY <1>3, ChargedIsBytes, FilesAssumption
  <2>3. [n \in StoredName |-> Charged(n, disk[n])]
          = [n \in StoredName |-> Bytes(n, blockInfo[n].blocks)]
    BY <2>2
  <2>4. QED
    BY <1>4, <2>1, <2>3 DEF AccountingExact, StoredBytes, Bytes
<1>7. StoredBytes \in Int
  BY <1>1, KnownFinite, StoredIsSum, SumType DEF IInv
<1>8. QED
  BY <1>2, <1>5, <1>6, <1>7 DEF AccountOfKnown, AccountingExact

(* No call begins inside a block.                                          *)
LEMMA OffsetsStay ==
  ASSUME WholeBlocks, IInv, Running, \A t \in Thread : req[t].offset = 0
  PROVE  \A t \in Thread : req'[t].offset = 0
<1> DEFINE Goal == \A t \in Thread : req'[t].offset = 0
<1> USE DEF locals
<1>1. req \in [Thread -> [name : Name, block : Nat, offset : Nat]]
  BY DEF IInv, TypeOK
<1>2. ASSUME NEW t \in Thread, NEW n, NEW b, Call(t, n, b, 0)
      PROVE  Goal
  BY <1>1, <1>2 DEF Call
<1>3. CASE StreamCall
  BY <1>2, <1>3 DEF StreamCall, WholeBlocks, Thread
<1>4. CASE \E t \in Prefetcher : PrefetchCall(t)
  BY <1>2, <1>4 DEF PrefetchCall, Thread
<1>5. CASE \E t \in Server : ServeCall(t)
  BY <1>2, <1>5 DEF ServeCall, Thread
<1>6. ASSUME NEW t \in Thread, Return(t)
      PROVE  Goal
  BY <1>1, <1>6 DEF Return, NoCall
<1>7. ASSUME NEW t \in Thread, getBlock(t), ~Return(t)
      PROVE  UNCHANGED req
  <2>1. CASE Lookup(t)
    BY <2>1 DEF Lookup, LockClient, FileFound, FileNotFound, NewFileFails, NewFile, Die
  <2>2. CASE Check(t)
    BY <1>7, <2>2
       DEF Check, LockFetch, WaitForDownload, WakeUp, CacheHit, ReadBlock,
           OutOfRange, WaitedInVain, CacheMiss, Die
  <2>3. CASE handleCache(t)
    BY <2>3 DEF handleCache, SkipOwnFile, EvictFromFile
  <2>4. CASE Download(t)
    BY <1>7, <2>4
       DEF Download, AskPeer, PeerIsGone, PeerSends, PeerBreaks, AskSource, SourceSends,
           SourceFails, SourceExhausted, CopyOverrun, Store, Unqueue, UnqueueRaces, Die
  <2>5. QED
    BY <1>7, <2>1, <2>2, <2>3, <2>4 DEF getBlock
<1>8. CASE OtherStep
  BY <1>8 DEF OtherStep, QueryTracker, TrackerAnswers, UpdateOnTracker,
         UpdateSent, ServeUnknown, Die
<1>9. ASSUME NEW t \in Thread, getBlock(t)
      PROVE  Goal
  BY <1>6, <1>7, <1>9
<1>10. QED
  BY <1>3, <1>4, <1>5, <1>8, <1>9 DEF Running, OtherStep

(* Only what a thread adds for its block makes the account drift.          *)
LEMMA AccountStep ==
  ASSUME ShortLastBlocks, IInv, TypeOK', Running, resets = 0, AccountOfKnown
  PROVE  /\ AccountOfKnown'
         /\ Drift(0) \/ \E t \in Thread : pc[t] = "store" /\ Drift(Surplus(t))
<1> DEFINE Drifts == Drift(0) \/ \E t \in Thread : pc[t] = "store" /\ Drift(Surplus(t))
           Right  == AccountOfKnown' /\ Drifts
<1>1. /\ req \in [Thread -> [name : Name, block : Nat, offset : Nat]]
      /\ resp_size \in [Thread -> Int]
      /\ blockInfo \in [Name -> BlockMaps]
      /\ TypeOK
  BY DEF IInv, TypeOK
<1>2. StoredBytes \in Int
  BY <1>1, KnownFinite, StoredIsSum, SumType
<1>4. CASE \E t \in Thread : NewFile(t)
  <2>1. PICK t \in Thread : NewFile(t)
    BY <1>4
  <2> DEFINE n == req[t].name
             f == FileBytes
             g == FileBytes'
             K == Known
  <2>2. n \in Name \ K /\ UNCHANGED <<blockInfo, cache_used>> /\ files' = Append(files, n)
    BY <1>1, <2>1 DEF NewFile, IInv, FilesRight
  <2>3. Known' = K \cup {n}
    <3>1. files \in Seq(Name) /\ DOMAIN files = 1..Len(files) /\ Len(files) \in Nat
      BY <1>1 DEF TypeOK
    <3>2. DOMAIN files' = 1..(Len(files) + 1)
      BY <2>2, <3>1
    <3>3. \A k \in DOMAIN files' : files'[k] = IF k = Len(files) + 1 THEN n ELSE files[k]
      BY <2>2, <3>1, <3>2
    <3> HIDE DEF n
    <3>4. QED
      BY <3>1, <3>2, <3>3 DEF Known
  <2>4. blockInfo[n].blocks = {}
    BY <2>2 DEF AccountOfKnown
  <2>5. g = [m \in K \cup {n} |-> Bytes(m, blockInfo[m].blocks)]
    BY <2>2, <2>3 DEF FileBytes, Bytes, BlockBytes, NumBlocks
  <2>6. g[n] = 0
    <3>1. Bytes(n, {}) = SumFunctionOnSet([b \in {} |-> BlockBytes(n, b)], {})
      BY DEF Bytes, SumFunction
    <3>2. Bytes(n, {}) = 0
      BY <3>1, SumEmpty
    <3>3. QED
      BY <2>4, <2>5, <3>2
  <2>7. IsFiniteSet(K) /\ StoredBytes = SumFunctionOnSet(f, K) /\ \A m \in K : f[m] \in Int
    BY <1>1, KnownFinite, StoredIsSum
  <2>8. \A m \in K : g[m] = f[m]
    BY <2>5 DEF FileBytes
  <2>9. StoredBytes' = SumFunctionOnSet(g, K \cup {n})
    <3>1. StoredBytes' = SumFunction([m \in K \cup {n} |-> Bytes(m, blockInfo[m].blocks)])
      BY <2>2, <2>3 DEF StoredBytes, Bytes, BlockBytes, NumBlocks
    <3>2. DOMAIN g = K \cup {n}
      BY <2>5
    <3>3. StoredBytes' = SumFunctionOnSet(g, DOMAIN g)
      BY <2>5, <3>1 DEF SumFunction
    <3>4. QED
      BY <3>2, <3>3
  <2> HIDE DEF f, g, K, n
  <2>10. SumFunctionOnSet(g, K \cup {n}) = g[n] + SumFunctionOnSet(g, K)
    <3>1. \A m \in K \cup {n} : g[m] \in Int
      BY <2>6, <2>7, <2>8
    <3>2. QED
      BY <2>2, <2>7, <3>1, SumAdd
  <2>11. SumFunctionOnSet(g, K) = SumFunctionOnSet(f, K) /\ SumFunctionOnSet(f, K) \in Int
    BY <2>7, <2>8, SumSame, SumType
  <2>12. StoredBytes' = StoredBytes
    BY <2>6, <2>7, <2>9, <2>10, <2>11
  <2>13. AccountOfKnown'
    BY <2>2, <2>3 DEF AccountOfKnown, K
  <2>14. Drift(0)
    BY <1>2, <2>2, <2>12 DEF Drift, AccountOfKnown
  <2>15. QED
    BY <2>13, <2>14
<1>5. CASE UNCHANGED files
  <2>1. Known' = Known /\ IsFiniteSet(Known) /\ Known \subseteq Name
    BY <1>1, <1>5, KnownFinite DEF Known
  <2>2. ASSUME NEW n \in Known, NEW c, blockInfo' = [blockInfo EXCEPT ![n] = c],
               NEW d \in Int, NEW e \in Int,
               Bytes(n, c.blocks) = Bytes(n, blockInfo[n].blocks) + d,
               cache_used' = cache_used + d + e
        PROVE  AccountOfKnown' /\ Drift(e)
    <3>1. StoredBytes' = StoredBytes - Bytes(n, blockInfo[n].blocks) + Bytes(n, c.blocks)
      BY <1>1, <1>5, <2>2, StoredChange
    <3>2. Bytes(n, blockInfo[n].blocks) \in Int
      BY <1>1, <2>1, MapsInFile, BytesOfPart
    <3>3. StoredBytes' = StoredBytes + d
      BY <1>2, <2>2, <3>1, <3>2
    <3>4. cache_used' \in Int /\ Drift(e)
      <4>1. PICK was, is \in Int : was = StoredBytes /\ is = StoredBytes + d
        BY <1>2, <2>2
      <4>2. cache_used \in Int /\ cache_used' = cache_used + (is - was) + e
        BY <2>2, <4>1 DEF AccountOfKnown
      <4>3. is = StoredBytes'
        BY <3>3, <4>1
      <4>4. QED
        BY <2>2, <4>1, <4>2, <4>3 DEF Drift
    <3>5. \A m \in Name \ Known : blockInfo'[m] = blockInfo[m]
      BY <1>1, <2>1, <2>2
    <3>6. QED
      BY <2>1, <3>4, <3>5 DEF AccountOfKnown
  <2>3. ASSUME UNCHANGED <<blockInfo, cache_used>>
        PROVE  Right
    <3>1. blockInfo' = blockInfo /\ cache_used' = cache_used
      BY <2>3
    <3>2. StoredBytes' = StoredBytes
      BY <2>1, <3>1 DEF StoredBytes, BlockBytes, NumBlocks
    <3>3. Drift(0)
      BY <1>2, <3>1, <3>2 DEF Drift, AccountOfKnown
    <3>4. QED
      BY <1>2, <2>1, <3>1, <3>2, <3>3 DEF AccountOfKnown
  <2>4. ASSUME NEW t \in Thread, Store(t)
        PROVE  Right
    <3> DEFINE n == req[t].name
               S == blockInfo[n].blocks
    <3>1. PICK c \in BlockMaps : /\ blockInfo' = [blockInfo EXCEPT ![n] = c]
                                 /\ c.blocks = S \cup {req[t].block}
      BY <2>4, StoreEffect
    <3>2. /\ pc[t] = "store" /\ n \in Known /\ n \in Name
          /\ req[t].block \in Blocks(n) /\ req[t].block \notin S
      <4>1. pc[t] = "store"
        BY <2>4 DEF Store
      <4>2. n \in Name /\ req[t].block \in Blocks(n)
        BY <1>1, <4>1 DEF TypeOK, InsideAt, MarkedAt, InFlightAt
      <4>3. n \in Known
        BY <4>1 DEF IInv, IdxRight, MarkedAt, InFlightAt, Known
      <4>4. req[t].block \notin S
        BY <4>1 DEF IInv, FetchOnlyMissing, InFlight, InFlightAt
      <4>5. QED
        BY <4>1, <4>2, <4>3, <4>4
    <3>3. S \in SUBSET Blocks(n)
      BY <1>1, <3>2, MapsInFile
    <3>4. /\ Bytes(n, c.blocks) = Bytes(n, S) + BlockBytes(n, req[t].block)
          /\ Bytes(n, S) \in Int
      <4> HIDE DEF n, S
      <4>1. Bytes(n, S \cup {req[t].block}) = Bytes(n, S) + BlockBytes(n, req[t].block)
        BY <3>2, <3>3, BytesAdd
      <4>2. Bytes(n, S) \in Int
        BY <3>2, <3>3, BytesOfPart
      <4>3. QED
        BY <3>1, <4>1, <4>2
    <3>5. cache_used' = cache_used + resp_size[t]
      BY <2>4 DEF Store, Counted
    <3>6. BlockBytes(n, req[t].block) \in Int /\ resp_size[t] \in Int
      BY <1>1, <3>2, BlockBytesInt, NumBlocksNat DEF Blocks
    <3>7. Surplus(t) \in Int /\ cache_used' = cache_used + BlockBytes(n, req[t].block) + Surplus(t)
      BY <3>5, <3>6 DEF AccountOfKnown, Surplus
    <3>8. AccountOfKnown' /\ Drift(Surplus(t))
      <4> HIDE DEF n, S
      <4>1. Bytes(n, c.blocks) = Bytes(n, S) + BlockBytes(n, req[t].block)
        BY <3>4
      <4>2. QED
        BY <2>2, <3>1, <3>2, <3>6, <3>7, <4>1 DEF S
    <3>9. QED
      BY <3>2, <3>8
  <2>5. ASSUME NEW t \in Thread, EvictFromFile(t)
        PROVE  Right
    <3>1. PICK n \in Name, gone \in SUBSET Nat, c \in BlockMaps :
            /\ blockInfo' = [blockInfo EXCEPT ![n] = c]
            /\ c.blocks = blockInfo[n].blocks \ gone
            /\ gone \subseteq blockInfo[n].blocks
            /\ n \in Known
            /\ cache_used' = cache_used - Charged(n, gone)
      BY <2>5, EvictEffect
    <3> DEFINE S == blockInfo[n].blocks
    <3>2. S \in SUBSET Blocks(n) /\ gone \in SUBSET S
      BY <1>1, <3>1, MapsInFile
    <3>3. /\ Bytes(n, c.blocks) = Bytes(n, S) - Bytes(n, gone)
          /\ Bytes(n, S) \in Int /\ Bytes(n, gone) \in Int
      BY <3>1, <3>2, BytesRemove, BytesOfPart
    <3>4. cache_used' = cache_used - Bytes(n, gone)
      BY <3>1, ChargedIsBytes
    <3>5. PICK d \in Int : /\ Bytes(n, c.blocks) = Bytes(n, S) + d
                           /\ cache_used' = cache_used + d + 0
      <4>1. PICK e \in Int : e = 0 - Bytes(n, gone)
        BY <3>3
      <4>2. QED
        BY <3>3, <3>4, <4>1 DEF AccountOfKnown
    <3>6. AccountOfKnown' /\ Drift(0)
      <4> HIDE DEF S
      <4>1. /\ blockInfo' = [blockInfo EXCEPT ![n] = c] /\ n \in Known
            /\ Bytes(n, c.blocks) = Bytes(n, S) + d
            /\ cache_used' = cache_used + d + 0
        BY <3>1, <3>5
      <4>2. 0 \in Int
        OBVIOUS
      <4>3. QED
        BY <2>2, <4>1, <4>2 DEF S
    <3>7. QED
      BY <3>6
  <2>6. Right
    <3> HIDE DEF Right
    <3>1. QED
      BY <2>3, <2>4, <2>5, MapsStep
  <2>7. QED
    BY <2>6
<1>6. QED
  BY <1>4, <1>5, FilesGrow

(* What a thread is about to add is what its block occupies, if the range  *)
(* begins with the block, and no more in any case.                         *)
LEMMA SizesStay ==
  ASSUME IInv, Running, NEW t \in Thread, pc'[t] = "store"
  PROVE  /\ BlockBytes(req'[t].name, req'[t].block) \in Int
         /\ \/ /\ pc[t] = "store" /\ resp_size'[t] = resp_size[t]
               /\ req'[t] = req[t]
            \/ resp_size'[t] = BlockBytes(req'[t].name, req'[t].block)
            \/ resp_size'[t] = AfterOffset(BlockBytes(req'[t].name, req'[t].block),
                                           req[t].offset)
<1>1. /\ req \in [Thread -> [name : Name, block : Nat, offset : Nat]]
      /\ resp_size \in [Thread -> Int]
  BY DEF IInv, TypeOK
<1>2. req'[t] = req[t]
  BY BeforeStore DEF PeerSends, SourceSends
<1>3. BlockBytes(req[t].name, req[t].block) \in Int
  BY <1>1, BlockBytesInt
<1>4. CASE PeerSends(t)
  BY <1>1, <1>2, <1>3, <1>4 DEF PeerSends
<1>5. CASE SourceSends(t)
  BY <1>1, <1>2, <1>3, <1>5 DEF SourceSends
<1>6. QED
  BY <1>2, <1>3, <1>4, <1>5, BeforeStore

LEMMA RightStep ==
  ASSUME WholeBlocks, IInv, TypeOK', Running, resets = 0, AccountRight
  PROVE  AccountRight'
<1>1. \A t \in Thread : req'[t].offset = 0
  BY OffsetsStay DEF AccountRight
<1>2. ASSUME NEW t \in Thread, pc'[t] = "store"
      PROVE  resp_size'[t] = BlockBytes(req'[t].name, req'[t].block)
  <2>1. req'[t] \in [name : Name, block : Nat, offset : Nat]
    BY DEF TypeOK
  <2>2. BlockBytes(req'[t].name, req'[t].block) \in Nat \ {0}
    BY <2>1, BytesPositive DEF WholeBlocks
  <2>3. QED
    BY <1>2, <2>2, SizesStay DEF AccountRight, AfterOffset
<1>3. ASSUME NEW t \in Thread, pc[t] = "store"
      PROVE  Surplus(t) = 0
  <2>1. req[t] \in [name : Name, block : Nat, offset : Nat]
    BY DEF IInv, TypeOK
  <2>2. BlockBytes(req[t].name, req[t].block) \in Int
    BY <2>1, BlockBytesInt
  <2>3. QED
    BY <1>3, <2>2 DEF AccountRight, Surplus
<1>4. AccountOfKnown' /\ Drift(0)
  BY <1>3, AccountStep DEF AccountRight, WholeBlocks
<1>5. cache_used' = StoredBytes'
  <2>1. PICK was, is \in Int : /\ was = StoredBytes /\ is = StoredBytes'
                              /\ cache_used' = cache_used + (is - was) + 0
    BY <1>4 DEF Drift
  <2>2. cache_used = was /\ cache_used' = cache_used + (is - was) + 0
    BY <2>1 DEF AccountRight, AccountingExact
  <2>3. cache_used' = is
    BY <2>2
  <2>4. is = StoredBytes'
    BY <2>1
  <2>5. QED
    BY <2>3, <2>4
<1>6. QED
  BY <1>1, <1>2, <1>4, <1>5 DEF AccountRight, AccountingExact, BlockBytes, NumBlocks

LEMMA LowStep ==
  ASSUME ShortLastBlocks, IInv, TypeOK', Running, resets = 0, AccountLow
  PROVE  AccountLow'
<1>1. /\ req \in [Thread -> [name : Name, block : Nat, offset : Nat]]
      /\ resp_size \in [Thread -> Int]
  BY DEF IInv, TypeOK
<1>2. ASSUME NEW t \in Thread, pc'[t] = "store"
      PROVE  resp_size'[t] <= BlockBytes(req'[t].name, req'[t].block)
  <2>1. req[t].offset \in Nat
    BY <1>1
  <2>2. req'[t] \in [name : Name, block : Nat, offset : Nat]
    BY DEF TypeOK
  <2>3. BlockBytes(req'[t].name, req'[t].block) \in Nat \ {0}
    BY <2>2, BytesPositive
  <2>4. QED
    BY <1>2, <2>1, <2>3, SizesStay DEF AccountLow, AfterOffset
<1>3. ASSUME NEW t \in Thread, pc[t] = "store"
      PROVE  Surplus(t) \in Int /\ Surplus(t) <= 0
  BY <1>1, <1>3, BlockBytesInt DEF AccountLow, Surplus
<1>4. /\ AccountOfKnown'
      /\ \E d \in Int : d <= 0 /\ Drift(d)
  BY <1>3, AccountStep DEF AccountLow
<1>5. cache_used' <= StoredBytes'
  <2>1. PICK d \in Int : d <= 0 /\ Drift(d)
    BY <1>4
  <2>2. PICK was, is \in Int : /\ was = StoredBytes /\ is = StoredBytes'
                              /\ cache_used' = cache_used + (is - was) + d
    BY <2>1 DEF Drift
  <2>3. /\ cache_used <= was /\ cache_used \in Int
        /\ cache_used' = cache_used + (is - was) + d
    BY <2>2 DEF AccountLow, AccountOfKnown
  <2>4. cache_used' <= is
    BY <2>1, <2>3
  <2>5. is = StoredBytes'
    BY <2>2
  <2>6. QED
    BY <2>4, <2>5
<1>6. QED
  BY <1>2, <1>4, <1>5 DEF AccountLow, BlockBytes, NumBlocks

(* What cache_used says is what the blocks known to the maps occupy on     *)
(* disk, after every sequence of start, downloads and evictions: as long   *)
(* as no connection to a peer breaks, in files that do not end with a      *)
(* whole block, for ranges that begin with a block.                        *)
THEOREM AccountsAreExact ==
  ASSUME WholeBlocks
  PROVE  Spec /\ [](resets = 0) => []AccountingExact
<1>1. Init => AccountRight
  BY InitAccount DEF AccountRight, WholeBlocks
<1>2. IInv /\ IInv' /\ resets = 0 /\ AccountRight /\ [Next]_vars => AccountRight'
  <2> SUFFICES ASSUME IInv, IInv', resets = 0, AccountRight, [Next]_vars
               PROVE  AccountRight'
    OBVIOUS
  <2>1. CASE Running
    BY <2>1, RightStep DEF IInv
  <2>2. CASE UNCHANGED vars
    BY <2>2 DEF vars, locals, cache, rest, AccountRight, AccountOfKnown, AccountingExact,
                StoredBytes, Known, BlockBytes, NumBlocks
  <2>3. QED
    BY <2>1, <2>2 DEF Next, Ended
<1>3. AccountRight => AccountingExact
  BY DEF AccountRight
<1>4. QED
  BY <1>1, <1>2, <1>3, Invariance, PTL DEF Spec

(* Whatever offsets the ranges begin at, cache_used is at most what the    *)
(* blocks known to the maps occupy, in files that do not end with a whole  *)
(* block and until a connection to a peer breaks: no sequence of downloads *)
(* and evictions makes handleCache take blocks while there is room.        *)
THEOREM AccountsNeverOverstate ==
  ASSUME ShortLastBlocks
  PROVE  Spec => []AccountNeverOver
<1>1. Init => AccountLow
  BY InitAccount DEF AccountLow, AccountOfKnown, AccountingExact
<1>2. IInv /\ IInv' /\ (resets = 0 => AccountLow) /\ [Next]_vars => (resets = 0 => AccountLow)'
  <2> SUFFICES ASSUME IInv, IInv', resets = 0 => AccountLow, [Next]_vars, resets' = 0
               PROVE  AccountLow'
    OBVIOUS
  <2>1. CASE Running
    <3>1. resets = 0
      BY <2>1, ResetsStay
    <3>2. QED
      BY <2>1, <3>1, LowStep DEF IInv
  <2>2. CASE UNCHANGED vars
    BY <2>2 DEF vars, locals, cache, rest, AccountLow, AccountOfKnown, StoredBytes, Known,
                BlockBytes, NumBlocks
  <2>3. QED
    BY <2>1, <2>2 DEF Next, Ended
<1>3. (resets = 0 => AccountLow) => AccountNeverOver
  BY DEF AccountLow, AccountNeverOver
<1>4. QED
  BY <1>1, <1>2, <1>3, Invariance, PTL DEF Spec

=============================================================================
