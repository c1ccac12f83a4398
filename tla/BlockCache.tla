----------------------------- MODULE BlockCache -----------------------------
(***************************************************************************)
(* The block cache of one client process (common.cpp): getBlock, called by *)
(* the thread that streams to the browser, by prefetcher threads and by    *)
(* the threads that serve peers; handleCache, which evicts; and the two    *)
(* tracker threads, which share the lock with them.                        *)
(*                                                                         *)
(* client_mutex is a read-write lock and fetch_mutex a plain one.  A step  *)
(* of the model is the code between two operations another thread can      *)
(* notice: taking or releasing a lock, sleeping, the network.  What the    *)
(* code reaches only through those locks is read and written in the step.  *)
(* When a peer connection breaks, client_mutex is unlocked by a thread that *)
(* does not hold it.  From then on (resets > 0) it excludes nobody, and    *)
(* whatever it alone protects may be read and written in any order.        *)
(*                                                                         *)
(* idx is the code's index into the vector files; it counts from 1 here    *)
(* and 0 stands for no index.                                              *)
(***************************************************************************)
EXTENDS BlockMap, Sequences, FiniteSets, Functions

CONSTANTS
  Streamer,      \* the thread of handleStreaming
  Prefetcher,    \* the threads running prefetcher
  Server,        \* the threads running fileTransfer
  Querier,       \* the thread of handleQuery
  Updater,       \* the thread of handleUpdate
  NoThread,      \* none of them
  Name,          \* the videos, by URL
  StoredName,    \* those that have a folder in the cache directory at start
  FileSize,      \* the size in bytes of each
  BlockSize,     \* DEFAULT_BLK_SIZE
  CacheSize,     \* cachesize in client.xml
  Offset,        \* where in a block the browser's ranges may begin
  Retries,       \* how often the download script is run (10)
  EvictBatch,    \* how many blocks of a file one visit evicts (10)
  EvictTries,    \* how many passes handleCache makes (5)
  PeerView,      \* what the tracker may say of the peers: sets of blocks
  MaxResets      \* bound: how many peer connections break

Thread == {Streamer} \cup Prefetcher \cup Server

ASSUME ThreadsAssumption ==
  /\ Streamer \notin Prefetcher \cup Server
  /\ Prefetcher \cap Server = {}
  /\ Querier # Updater
  /\ NoThread \notin Thread \cup {Querier, Updater}
  /\ {Querier, Updater} \cap Thread = {}

ASSUME FilesAssumption ==
  /\ Name # {}
  /\ StoredName \subseteq Name
  /\ IsFiniteSet(StoredName)
  /\ FileSize \in [Name -> Nat \ {0}]
  /\ BlockSize \in Nat \ {0}
  /\ Offset \subseteq 0..(BlockSize - 1)

(* A cache below 100 bytes divides by zero in getBlock.                    *)
ASSUME CacheAssumption ==
  /\ CacheSize \in Nat /\ CacheSize >= 100
  /\ {Retries, EvictBatch, EvictTries} \subseteq Nat \ {0}
  /\ MaxResets \in Nat
  /\ PeerView # {}
  /\ PeerView \subseteq SUBSET (Name \X Nat)

(* A bound of the model: a broken connection, after which client_mutex no  *)
(* longer excludes, is followed in clients that open no new video.         *)
ASSUME ResetsAssumption == MaxResets = 0 \/ StoredName = Name

VARIABLES
  pc,            \* where each thread is
  req,           \* the name, block and offset getBlock was called for
  idx,           \* its local i
  prefetched,    \* its local prefetched: it has waited for another download
  retries,       \* its local retries
  resp_size,     \* its local resp_size
  writer,        \* client_mutex: who holds it exclusively
  readers,       \* client_mutex: the number of shared holders
  fetch,         \* fetch_mutex: who holds it
  files,         \* the names, in the order of the vector files
  blockInfo,     \* File::blockInfo of each name
  downloading,   \* File::downloading of each name
  disk,          \* the block files in each name's folder
  cache_used,
  peers,         \* the blocks the peers have, as last heard from the tracker
  scan,          \* handleCache's locals: i, begin and tries
  resets,        \* how many peer connections broke
  process        \* "running", or how the process ended

locals == <<req, idx, prefetched, retries, resp_size>>
rwlock == <<writer, readers>>
cache  == <<files, blockInfo, downloading, disk, cache_used>>
rest   == <<peers, scan, resets, process>>
vars   == <<pc, locals, rwlock, fetch, cache, rest>>

-----------------------------------------------------------------------------
(* Sizes.                                                                  *)

NumBlocks(n) == (FileSize[n] + BlockSize - 1) \div BlockSize

Blocks(n) == 0..(NumBlocks(n) - 1)

\* The length of the block file.
BlockBytes(n, b) ==
  IF b = NumBlocks(n) - 1 THEN FileSize[n] - b * BlockSize ELSE BlockSize

\* Broken variant: a short last block counts as a whole one.
ChargedBytesWhole(n, b) == BlockSize

\* What initialize adds and handleCache subtracts for it, which is nothing
\* for the last block of a file whose size is a multiple of the block size.
ChargedBytes(n, b) ==
  IF b = NumBlocks(n) - 1 THEN FileSize[n] % BlockSize ELSE BlockSize

Charged(n, S) == SumFunction([b \in S |-> ChargedBytes(n, b)])

\* cache_used / (cache_size / 100)
Percent(used) == used \div (CacheSize \div 100)

-----------------------------------------------------------------------------
(* The files of the client.                                                *)

Known == { files[k] : k \in DOMAIN files }

IdxOf(n) == CHOOSE k \in DOMAIN files : files[k] = n

\* The sequences with each element of S once.
Orders(S) ==
  { s \in [1..Cardinality(S) -> S] :
      \A n \in S : \E k \in DOMAIN s : \A j \in DOMAIN s : s[j] = n <=> j = k }

NoCall == [name |-> CHOOSE n \in Name : TRUE, block |-> 0, offset |-> 0]

NoScan == [i |-> 0, begin |-> 0, tries |-> 0]

\* Client::initialize: every folder, in the order of readdir, with the block
\* files found in it; then the threads of main.
Init ==
  /\ files \in Orders(StoredName)
  /\ disk \in { d \in [Name -> UNION {SUBSET Blocks(n) : n \in Name}] :
                 \A n \in Name :
                   d[n] \subseteq IF n \in StoredName THEN Blocks(n) ELSE {} }
  /\ blockInfo = [n \in Name |-> MapOf(NumBlocks(n), disk[n])]
  /\ cache_used = SumFunction([n \in StoredName |-> Charged(n, disk[n])])
  /\ downloading = [n \in Name |-> {}]
  /\ peers \in PeerView
  /\ pc = [t \in Thread \cup {Querier, Updater} |-> "idle"]
  /\ req = [t \in Thread |-> NoCall]
  /\ idx = [t \in Thread |-> 0]
  /\ prefetched = [t \in Thread |-> FALSE]
  /\ retries = [t \in Thread |-> 0]
  /\ resp_size = [t \in Thread |-> 0]
  /\ writer = NoThread
  /\ readers = 0
  /\ fetch = NoThread
  /\ scan = NoScan
  /\ resets = 0
  /\ process = "running"

-----------------------------------------------------------------------------
(* The locks.                                                              *)

Goto(t, label) == pc' = [pc EXCEPT ![t] = label]

WrFree == resets > 0 \/ (writer = NoThread /\ readers = 0)

RdFree == resets > 0 \/ writer = NoThread

FetchFree == fetch = NoThread

\* pthread_rwlock_unlock.  The call of a thread that does not hold the lock is
\* undefined; it may release the lock of another, or miscount the readers,
\* whose number no longer matters then.
Unlock(t) ==
  /\ writer' \in IF writer = t THEN {NoThread} ELSE {NoThread, writer}
  /\ UNCHANGED readers

\* The map of a file as a thread copies it, changes it and writes it back.
\* Without exclusion the copy may be torn or old by then.
Copies(n) ==
  IF resets = 0
  THEN {blockInfo[n]}
  ELSE [numBlocks : {NumBlocks(n)}, currentBlock : 0..NumBlocks(n),
        blocks : SUBSET Blocks(n)]

\* A bound of the model: how far cache_used is followed when updates get lost.
UsedBound(S) == {cache_used} \cup (S \cap (-2 * CacheSize .. 2 * CacheSize))

\* cache_used after bytes were added to it.  Without exclusion the update may
\* be lost to one that another thread makes at the same time.
Counted(used) == IF resets = 0 THEN {used} ELSE UsedBound({used, cache_used})

\* And after each of these blocks was taken off it.
Discounted(n, S) ==
  IF resets = 0
  THEN {cache_used - Charged(n, S)}
  ELSE UsedBound({ cache_used - Charged(n, T) : T \in SUBSET S })

Die(how) ==
  /\ process' = how
  /\ UNCHANGED <<pc, locals, rwlock, fetch, cache, peers, scan, resets>>

-----------------------------------------------------------------------------
(* Calls of getBlock.                                                      *)

Call(t, n, b, off) ==
  /\ pc[t] = "idle"
  /\ req' = [req EXCEPT ![t] = [name |-> n, block |-> b, offset |-> off]]
  /\ Goto(t, "lock")
  /\ UNCHANGED <<idx, prefetched, retries, resp_size, rwlock, fetch, cache, rest>>

\* The numbers of the blocks of a file and one that is past its end.
AnyBlock(n) == 0..NumBlocks(n)

\* handleStreaming: the browser asks for a range of any video.  Nobody looks
\* whether it begins before the end of the file.
StreamCall ==
  \E n \in Name : \E b \in AnyBlock(n), off \in Offset : Call(Streamer, n, b, off)

\* prefetcher: getPrefetchOffset looks, holding the lock shared, for the
\* first block that is missing from some block on.
PrefetchCall(t) ==
  /\ RdFree
  /\ \E n \in Known : \E from \in Blocks(n) :
       LET b == FirstHole(NumBlocks(n), blockInfo[n].blocks, from)
       IN  b < NumBlocks(n) /\ Call(t, n, b, 0)

\* sendBlock, for a peer that read our entry at the tracker.  The block may
\* have been evicted since, and its number is taken as it comes.
ServeCall(t) ==
  /\ RdFree
  /\ \E n \in Known : \E b \in AnyBlock(n) : Call(t, n, b, 0)

\* "Tracker corruption!": the peer asks for a video the client does not have.
ServeUnknown(t) ==
  /\ pc[t] = "idle" /\ RdFree
  /\ \E n \in Name : n \notin Known
  /\ Die("exited")

Return(t) ==
  /\ Goto(t, "idle")
  /\ req' = [req EXCEPT ![t] = NoCall]
  /\ idx' = [idx EXCEPT ![t] = 0]
  /\ prefetched' = [prefetched EXCEPT ![t] = FALSE]
  /\ retries' = [retries EXCEPT ![t] = 0]
  /\ resp_size' = [resp_size EXCEPT ![t] = 0]

-----------------------------------------------------------------------------
(* getBlock up to the decision between cache and download.                 *)

LockClient(t) ==
  /\ pc[t] = "lock" /\ WrFree
  /\ writer' = t
  /\ Goto(t, "lookup")
  /\ UNCHANGED <<locals, readers, fetch, cache, rest>>

FileFound(t) ==
  /\ pc[t] = "lookup" /\ req[t].name \in Known
  /\ idx' = [idx EXCEPT ![t] = IdxOf(req[t].name)]
  /\ Goto(t, "lockFetch")
  /\ UNCHANGED <<req, prefetched, retries, resp_size, rwlock, fetch, cache, rest>>

\* getVideoLength, mkdir and the metadata file; push_back starts to copy.
FileNotFound(t) ==
  /\ pc[t] = "lookup" /\ req[t].name \notin Known
  /\ Goto(t, "grow")
  /\ UNCHANGED <<locals, rwlock, fetch, cache, rest>>

\* One of those three fails: exit(1).
NewFileFails(t) ==
  /\ pc[t] = "lookup" /\ req[t].name \notin Known
  /\ Die("exited")

\* push_back is done.  The new file has no block and no mark, which is what
\* blockInfo and downloading say of every name that is not in files.
NewFile(t) ==
  /\ pc[t] = "grow"
  /\ files' = Append(files, req[t].name)
  /\ idx' = [idx EXCEPT ![t] = Len(files) + 1]
  /\ Goto(t, "lockFetch")
  /\ UNCHANGED <<req, prefetched, retries, resp_size, rwlock, fetch, blockInfo,
                 downloading, disk, cache_used, rest>>

LockFetch(t) ==
  /\ pc[t] = "lockFetch" /\ FetchFree
  /\ fetch' = t
  /\ Goto(t, "check")
  /\ UNCHANGED <<locals, rwlock, cache, rest>>

\* Broken variant: nobody looks at the marks.
MarkedUnseen(t) == FALSE

\* Broken variant: a block past the cursor is taken for missing.
HeldBeforeCursor(t) == req[t].block < blockInfo[files[idx[t]]].currentBlock

Marked(t) == req[t].block \in downloading[files[idx[t]]]

Held(t) == HasBlock(blockInfo[files[idx[t]]], req[t].block)

\* Broken variant: fetch_mutex is kept while asleep.
WaitForDownloadKeepFetch(t) ==
  /\ pc[t] = "check" /\ Marked(t)
  /\ prefetched' = [prefetched EXCEPT ![t] = TRUE]
  /\ Unlock(t)
  /\ Goto(t, "sleep")
  /\ UNCHANGED <<req, idx, retries, resp_size, fetch, cache, rest>>

\* The loop that waits for another thread's download: release both locks
\* and sleep.
WaitForDownload(t) ==
  /\ pc[t] = "check" /\ Marked(t)
  /\ prefetched' = [prefetched EXCEPT ![t] = TRUE]
  /\ fetch' = NoThread
  /\ Unlock(t)
  /\ Goto(t, "sleep")
  /\ UNCHANGED <<req, idx, retries, resp_size, cache, rest>>

WakeUp(t) ==
  /\ pc[t] = "sleep" /\ WrFree
  /\ writer' = t
  /\ idx' = [idx EXCEPT ![t] = IdxOf(req[t].name)]
  /\ Goto(t, "lockFetch")
  /\ UNCHANGED <<req, prefetched, retries, resp_size, readers, fetch, cache, rest>>

\* Broken variant: off by one.
InRangeInclusive(t) == ValidBlockInclusive(blockInfo[files[idx[t]]], req[t].block)

InRange(t) == ValidBlock(blockInfo[files[idx[t]]], req[t].block)

\* hasBlock aborts.
OutOfRange(t) ==
  /\ pc[t] = "check" /\ ~Marked(t) /\ ~InRange(t)
  /\ Die("outOfRange")

CacheHit(t) ==
  /\ pc[t] = "check" /\ ~Marked(t) /\ InRange(t) /\ Held(t)
  /\ fetch' = NoThread
  /\ Goto(t, "read")
  /\ UNCHANGED <<locals, rwlock, cache, rest>>

\* Without the block file fopen gives NULL, which fseek dereferences.
ReadBlock(t) ==
  /\ pc[t] = "read"
  /\ IF req[t].block \in disk[req[t].name]
     THEN Unlock(t) /\ Return(t) /\ UNCHANGED <<fetch, cache, rest>>
     ELSE Die("crashed")

\* "Should have been in cache!"
WaitedInVain(t) ==
  /\ pc[t] = "check" /\ ~Marked(t) /\ InRange(t) /\ ~Held(t) /\ prefetched[t]
  /\ Die("aborted")

\* Mark the block and, in a full cache, call handleCache, whose first file
\* is any (time(NULL) % files.size()); fetch_mutex is kept for it.
CacheMiss(t) ==
  /\ pc[t] = "check" /\ ~Marked(t) /\ InRange(t) /\ ~Held(t) /\ ~prefetched[t]
  /\ downloading' = [downloading EXCEPT ![files[idx[t]]] = @ \cup {req[t].block}]
  /\ \/ /\ Percent(cache_used) > 90
        /\ \E first \in DOMAIN files :
             scan' = [i |-> first, begin |-> first, tries |-> EvictTries]
        /\ Goto(t, "evict")
        /\ UNCHANGED fetch
     \/ /\ Percent(cache_used) <= 90
        /\ fetch' = NoThread
        /\ Goto(t, "choose")
        /\ UNCHANGED scan
  /\ UNCHANGED <<locals, rwlock, files, blockInfo, disk, cache_used, peers, resets, process>>

-----------------------------------------------------------------------------
(* handleCache: passes over the files, in vector order from scan.begin.    *)

EvictionDone(t) ==
  /\ scan' = NoScan
  /\ fetch' = NoThread
  /\ Goto(t, "choose")

\* Broken variant: one pass is enough.
NextVisitOnePass(t) ==
  LET i == (scan.i % Len(files)) + 1
  IN  IF i = scan.begin
      THEN EvictionDone(t)
      ELSE scan' = [scan EXCEPT !.i = i] /\ UNCHANGED <<pc, fetch>>

\* On to the next file; coming round to the first is the next pass.
NextVisit(t) ==
  LET i     == (scan.i % Len(files)) + 1
      tries == IF i = scan.begin THEN scan.tries - 1 ELSE scan.tries
  IN  IF tries = 0
      THEN EvictionDone(t)
      ELSE scan' = [scan EXCEPT !.i = i, !.tries = tries] /\ UNCHANGED <<pc, fetch>>

\* Broken variant: handleCache does not know its file.
OwnFileUnseen(t) == FALSE

OwnFile(t) == scan.i = idx[t]

\* The file that is being fetched is left alone.
SkipOwnFile(t) ==
  /\ pc[t] = "evict" /\ OwnFile(t)
  /\ NextVisit(t)
  /\ UNCHANGED <<locals, rwlock, cache, peers, resets, process>>

\* The blocks a visit unlinks: at most EvictBatch, from the cursor down.
Batch(b) == { k \in 0..(b.currentBlock - 1) : k >= b.currentBlock - EvictBatch }

\* Broken variant: the cursor is not pulled back.
WithoutBlocksKeepCursor(b, gone) == [b EXCEPT !.blocks = @ \ gone]

\* unsetBlock for each of them.
WithoutBlocks(b, gone) ==
  [b EXCEPT !.blocks = @ \ gone,
            !.currentBlock =
              IF gone = {} THEN @
              ELSE CHOOSE k \in gone : \A j \in gone : k <= j]

\* A block is unset when unlink succeeds and discounted in either case.
EvictFromFile(t) ==
  /\ pc[t] = "evict" /\ ~OwnFile(t)
  /\ LET f == files[scan.i]
     IN  \E b \in Copies(f) :
           /\ disk' = [disk EXCEPT ![f] = @ \ Batch(b)]
           /\ blockInfo' = [blockInfo EXCEPT ![f] = WithoutBlocks(b, Batch(b) \cap disk[f])]
           /\ cache_used' \in Discounted(f, Batch(b))
           /\ \E seen \in Discounted(f, Batch(b)) :
                IF Percent(seen) < 85 THEN EvictionDone(t) ELSE NextVisit(t)
  /\ UNCHANGED <<locals, rwlock, files, downloading, peers, resets, process>>

-----------------------------------------------------------------------------
(* getBlock's downloads.                                                   *)

AtPeer(t) == <<req[t].name, req[t].block>> \in peers

\* peerWithBlock finds a peer.
AskPeer(t) ==
  /\ pc[t] = "choose" /\ AtPeer(t)
  /\ Unlock(t)
  /\ Goto(t, "peer")
  /\ UNCHANGED <<locals, fetch, cache, rest>>

\* connectToHost exits when the peer is gone.
PeerIsGone(t) ==
  /\ pc[t] = "peer"
  /\ Die("exited")

\* The peer sends the whole block.
PeerSends(t) ==
  /\ pc[t] = "peer"
  /\ disk' = [disk EXCEPT ![req[t].name] = @ \cup {req[t].block}]
  /\ resp_size' = [resp_size EXCEPT ![t] = BlockBytes(req[t].name, req[t].block)]
  /\ Goto(t, "store")
  /\ UNCHANGED <<req, idx, prefetched, retries, rwlock, fetch, files, blockInfo,
                 downloading, cache_used, rest>>

\* The code falls through to the download from the source, and unlocks what
\* it has unlocked before asking the peer.
PeerBreaks(t) ==
  /\ pc[t] = "peer" /\ resets < MaxResets
  /\ resets' = resets + 1
  /\ Unlock(t)
  /\ retries' = [retries EXCEPT ![t] = Retries]
  /\ Goto(t, "source")
  /\ UNCHANGED <<req, idx, prefetched, resp_size, fetch, cache, peers, scan, process>>

AskSource(t) ==
  /\ pc[t] = "choose" /\ ~AtPeer(t)
  /\ Unlock(t)
  /\ retries' = [retries EXCEPT ![t] = Retries]
  /\ Goto(t, "source")
  /\ UNCHANGED <<req, idx, prefetched, resp_size, fetch, cache, rest>>

\* What fread still finds in a file of so many bytes.
AfterOffset(bytes, offset) == IF offset < bytes THEN bytes - offset ELSE 0

\* The script left the block file; only the part from the offset on is read,
\* which is nothing when the offset is behind the end of the last block.
SourceSends(t) ==
  /\ pc[t] = "source" /\ retries[t] > 0
  /\ disk' = [disk EXCEPT ![req[t].name] = @ \cup {req[t].block}]
  /\ resp_size' = [resp_size EXCEPT ![t] =
                     AfterOffset(BlockBytes(req[t].name, req[t].block), req[t].offset)]
  /\ Goto(t, "store")
  /\ UNCHANGED <<req, idx, prefetched, retries, rwlock, fetch, files, blockInfo,
                 downloading, cache_used, rest>>

SourceFails(t) ==
  /\ pc[t] = "source" /\ retries[t] > 0
  /\ retries' = [retries EXCEPT ![t] = @ - 1]
  /\ UNCHANGED <<pc, req, idx, prefetched, resp_size, rwlock, fetch, cache, rest>>

\* The loop ends with fp = NULL, which fseek dereferences: the test for
\* retries == 0 is inside the loop, where it never holds.
SourceExhausted(t) ==
  /\ pc[t] = "source" /\ retries[t] = 0
  /\ Die("crashed")

\* The offset is behind the end of what a peer sent: the length of the answer,
\* which memcpy is called with, is negative.
Overrun(t) == resp_size[t] > 0 /\ req[t].offset > BlockBytes(req[t].name, req[t].block)

CopyOverrun(t) ==
  /\ pc[t] = "store" /\ WrFree /\ Overrun(t)
  /\ Die("crashed")

\* Under the lock: count the bytes and set the block, if it is not set.
Store(t) ==
  LET k == IdxOf(req[t].name)
  IN  /\ pc[t] = "store" /\ WrFree /\ ~Overrun(t)
      /\ cache_used' \in Counted(cache_used + resp_size[t])
      /\ idx' = [idx EXCEPT ![t] = k]
      /\ \E b \in Copies(files[k]) :
           blockInfo' = [blockInfo EXCEPT ![files[k]] =
             IF HasBlock(b, req[t].block) THEN @ ELSE SetBlock(b, req[t].block)]
      /\ Goto(t, "unqueue")
      /\ UNCHANGED <<req, prefetched, retries, resp_size, rwlock, fetch, files,
                     downloading, disk, rest>>

\* Broken variant: the mark stays.
UnqueueKeepMark(t) ==
  /\ pc[t] = "unqueue" /\ FetchFree
  /\ Return(t)
  /\ UNCHANGED <<rwlock, fetch, cache, rest>>

\* Holding fetch_mutex only: erase the mark.
Unqueue(t) ==
  /\ pc[t] = "unqueue" /\ FetchFree
  /\ downloading' = [downloading EXCEPT ![files[idx[t]]] = @ \ {req[t].block}]
  /\ Return(t)
  /\ UNCHANGED <<rwlock, fetch, files, blockInfo, disk, cache_used, rest>>

\* files[i] is read without client_mutex.  When another thread's push_back
\* is moving the vector, the mark may be erased in the old copy, after it
\* was copied, or the old copy may be gone already.
UnqueueRaces(t) ==
  /\ pc[t] = "unqueue" /\ FetchFree
  /\ \E u \in Thread \ {t} : pc[u] = "grow"
  /\ \/ Return(t) /\ UNCHANGED <<rwlock, fetch, cache, rest>>
     \/ Die("crashed")

-----------------------------------------------------------------------------
(* The tracker threads of client.cpp.                                      *)

\* handleQuery holds the lock exclusively until the tracker has answered.
QueryTracker ==
  /\ pc[Querier] = "idle" /\ WrFree
  /\ writer' = Querier
  /\ Goto(Querier, "waiting")
  /\ UNCHANGED <<locals, readers, fetch, cache, rest>>

TrackerAnswers ==
  /\ pc[Querier] = "waiting"
  /\ peers' \in PeerView
  /\ Unlock(Querier)
  /\ Goto(Querier, "idle")
  /\ UNCHANGED <<locals, fetch, cache, scan, resets, process>>

\* handleUpdate holds it shared until the update is sent.
UpdateOnTracker ==
  /\ pc[Updater] = "idle" /\ RdFree
  /\ readers' = readers + 1
  /\ Goto(Updater, "waiting")
  /\ UNCHANGED <<locals, writer, fetch, cache, rest>>

UpdateSent ==
  /\ pc[Updater] = "waiting"
  /\ readers' = readers - 1
  /\ Goto(Updater, "idle")
  /\ UNCHANGED <<locals, writer, fetch, cache, rest>>

-----------------------------------------------------------------------------
Lookup(t) ==
  LockClient(t) \/ FileFound(t) \/ FileNotFound(t) \/ NewFileFails(t) \/ NewFile(t)

Check(t) ==
  \/ LockFetch(t) \/ WaitForDownload(t) \/ WakeUp(t) \/ OutOfRange(t)
  \/ CacheHit(t) \/ ReadBlock(t) \/ WaitedInVain(t) \/ CacheMiss(t)

handleCache(t) == SkipOwnFile(t) \/ EvictFromFile(t)

Download(t) ==
  \/ AskPeer(t) \/ PeerIsGone(t) \/ PeerSends(t) \/ PeerBreaks(t)
  \/ AskSource(t) \/ SourceSends(t) \/ SourceFails(t) \/ SourceExhausted(t)
  \/ CopyOverrun(t) \/ Store(t) \/ Unqueue(t) \/ UnqueueRaces(t)

getBlock(t) == Lookup(t) \/ Check(t) \/ handleCache(t) \/ Download(t)

Running ==
  \/ StreamCall
  \/ \E t \in Prefetcher : PrefetchCall(t)
  \/ \E t \in Server : ServeCall(t) \/ ServeUnknown(t)
  \/ \E t \in Thread : getBlock(t)
  \/ QueryTracker \/ TrackerAnswers \/ UpdateOnTracker \/ UpdateSent

\* A process that has ended takes no step.
Ended == process # "running" /\ UNCHANGED vars

Next == (process = "running" /\ Running) \/ Ended

Spec == Init /\ [][Next]_vars

\* Fairness: every thread in getBlock goes on.  It is strong fairness since a
\* thread waits for locks that others take in turns, and both kinds of lock
\* let a waiting thread in sooner or later; the threads that come back to them
\* sleep in between (2 s and 3 s).  The script returns, and so do the peers
\* and the tracker; whether anybody calls is left open.
Fairness ==
  /\ \A t \in Thread : SF_vars(process = "running" /\ getBlock(t))
  /\ WF_vars(process = "running" /\ TrackerAnswers)
  /\ WF_vars(process = "running" /\ UpdateSent)

FairSpec == Spec /\ Fairness

-----------------------------------------------------------------------------
(* Properties.                                                             *)

\* Where a thread holds client_mutex exclusively, and where fetch_mutex.
ExclusiveAt == {"lookup", "grow", "lockFetch", "check", "read", "evict", "choose"}
FetchAt     == {"check", "evict"}

\* Between the mark and the block's entry in the map, and until the mark goes.
InFlightAt  == {"evict", "choose", "peer", "source", "store"}
MarkedAt    == InFlightAt \cup {"unqueue"}

Labels == ExclusiveAt \cup MarkedAt \cup {"idle", "lock", "sleep"}

Key(t) == <<req[t].name, req[t].block>>

InFlight == { t \in Thread : pc[t] \in InFlightAt }
Marking  == { t \in Thread : pc[t] \in MarkedAt }

\* Where a thread has been told by the map that its block is one of the file.
InsideAt == MarkedAt \cup {"read"}

\* Type invariant, but for cache_used, of which AccountingExact says more.
\* Every map has the length of its file, and whatever is asked for, a block
\* that is fetched or read is below that length, so that setBlock never
\* aborts.
TypeOK ==
  /\ pc \in [Thread \cup {Querier, Updater} -> Labels \cup {"waiting"}]
  /\ req \in [Thread -> [name : Name, block : Nat, offset : Nat]]
  /\ idx \in [Thread -> Nat]
  /\ prefetched \in [Thread -> BOOLEAN]
  /\ retries \in [Thread -> Nat]
  /\ resp_size \in [Thread -> Int]
  /\ writer \in Thread \cup {Querier, NoThread}
  /\ readers \in Int
  /\ fetch \in Thread \cup {NoThread}
  /\ files \in Seq(Name)
  /\ blockInfo \in [Name -> BlockMaps]
  /\ downloading \in [Name -> SUBSET Nat]
  /\ disk \in [Name -> SUBSET Nat]
  /\ peers \in SUBSET (Name \X Nat)
  /\ scan \in [i : Nat, begin : Nat, tries : Nat]
  /\ resets \in 0..MaxResets
  /\ process \in {"running", "exited", "aborted", "outOfRange", "crashed"}
  /\ \A n \in Name : blockInfo[n].numBlocks = NumBlocks(n)
  /\ \A t \in Thread : pc[t] \in InsideAt => req[t].block \in Blocks(req[t].name)

\* The two locks, which getBlock takes and releases at a dozen places, are
\* held by exactly the threads that are in the code between those places: the
\* mutex always, the read-write lock as long as no peer connection broke.
LockDiscipline ==
  /\ \A t \in Thread : fetch = t <=> pc[t] \in FetchAt
  /\ resets = 0 =>
       /\ \A t \in Thread : writer = t <=> pc[t] \in ExclusiveAt
       /\ writer = Querier <=> pc[Querier] = "waiting"
       /\ readers = IF pc[Updater] = "waiting" THEN 1 ELSE 0
       /\ readers = 0 \/ writer = NoThread

\* The vector downloading makes downloads single-flight: as long as a thread
\* fetches a block it is marked, and no two threads fetch the same block.
SingleFlight ==
  /\ \A t \in Marking : req[t].block \in downloading[req[t].name]
  /\ \A t, u \in Marking : t # u => Key(t) # Key(u)

\* No thread downloads a block the cache has: while a fetch is under way
\* nobody else sets the block, so the second hasBlock of getBlock never hits,
\* as long as no peer connection broke.
FetchOnlyMissing ==
  resets = 0 => \A t \in InFlight : req[t].block \notin blockInfo[req[t].name].blocks

\* Whatever the map of a file has is a block file on disk, so that the fopen
\* of a cache hit succeeds, and its cursor is exact, as long as no peer
\* connection broke.
OnDisk ==
  resets = 0 =>
    \A n \in Name : blockInfo[n].blocks \subseteq disk[n] /\ CursorExact(blockInfo[n])

\* Every mark in downloading belongs to a thread that is fetching the block
\* and will erase it: a waiter in getBlock waits for somebody.
MarkMeansDownload ==
  \A n \in Name : \A b \in downloading[n] :
    \E t \in Marking : Key(t) = <<n, b>>

\* What the block files known to the maps occupy is what cache_used says, if
\* nothing makes them differ: an offset into a block, or a last block as long
\* as the others.
StoredBytes ==
  SumFunction([n \in Known |->
    SumFunction([b \in blockInfo[n].blocks |-> BlockBytes(n, b)])])

AccountingExact == cache_used = StoredBytes

\* A range that begins inside a block makes the account too low, and nothing
\* makes it too high, as long as no file ends with a whole block: the cache
\* may outgrow its limit, but it evicts nothing it has room for.
AccountNeverOver == resets = 0 => cache_used <= StoredBytes

\* A thread that waited for a download finds the block in the cache, and the
\* abort for the opposite is never reached.
WaiterFindsBlock == process # "aborted"

\* handleCache gives up only when usage is below 85 % or nothing is left to
\* take: no other file, if its blocks fit in its passes, keeps any block in
\* front of its cursor.
EvictionThorough ==
  [][\A t \in Thread :
       pc[t] = "evict" /\ pc'[t] = "choose" =>
         \/ Percent(cache_used') < 85
         \/ \A n \in Known \ {req[t].name} :
              NumBlocks(n) <= EvictTries * EvictBatch => blockInfo'[n].currentBlock = 0]_vars

\* What the cache promises: see SharedCache.  A block is in flight from its
\* mark until it is set in the map.
AllBlocks   == UNION { {n} \X Blocks(n) : n \in Name }
BlocksHeld  == UNION { {n} \X blockInfo[n].blocks : n \in Name }
BlocksAsked == { Key(t) : t \in InFlight }

Shared == INSTANCE SharedCache WITH
            Entry <- AllBlocks, held <- BlocksHeld, inflight <- BlocksAsked

ImplementsSharedCache == Shared!Spec

\* handleCache runs with both locks held, as its comment says.
HandleCacheHoldsLocks ==
  \A t \in Thread : pc[t] = "evict" => writer = t /\ fetch = t

\* Every call of getBlock returns, or the process ends, as long as no peer
\* connection breaks.
CallReturns ==
  \A t \in Thread :
    pc[t] = "lock" ~> (pc[t] = "idle" \/ process # "running" \/ resets > 0)

=============================================================================
