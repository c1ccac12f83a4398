# p2pvideo in TLA+

p2pvideo is a peer-to-peer cache for web video. Each *client* keeps blocks of
videos in a cache directory and streams them to a local browser; a block it
does not have comes from a peer that has it, or from the web site by a download
script. A *tracker* keeps the list of clients with what each of them caches.

This directory holds TLA+ models of the client's block cache, of its cache
directory through crashes, of the thread that streams to the browser with its
prefetchers, of the exchange of blocks between clients, of the tracker with its
protocol, and of the bytes they send; TLC configurations that check them on small
instances; and TLAPS proofs of their main safety properties for all values of the
constants.

- [1 Inventory](#1-inventory): the components of the program
- [2 Modules](#2-modules): what models what
- [3 Runs](#3-runs): what TLC checks, with which bounds
- [4 Fairness](#4-fairness)
- [5 Proofs](#5-proofs)
- [6 Findings](#6-findings)
- [7 What is not modelled](#7-what-is-not-modelled)
- [8 Plan](#8-plan)

To check: `tlc -config CacheTight.cfg MCBlockCache.tla` (section 3 names the
module of each configuration) and `tlapm BlockCacheProofs.tla`.

## 1 Inventory

| Component | Code | State | Operations |
|---|---|---|---|
| Block map | `BlockMap` in common.h/.cpp | `blocks` (a bit per block), `numBlocks`, `currentBlock` (the cursor) | three constructors, `hasBlock`, `setBlock`, `unsetBlock`, `nextBlockRange`, (de)serialize |
| Block cache | `Client::getBlock`, `handleCache`, `getPrefetchOffset`, `sendBlock`, `initialize` | `files` (each with a map, the numbers being downloaded, a folder), `cache_used`, `client_mutex` (read-write), `fetch_mutex` | look up, wait, hit, download from peer or source, store, evict |
| Tracker | `Tracker`, `handleClient` in tracker.cpp | `p2pnodes`, `_mutex`; one thread per connection | `client_register`, `update`, `deleteClient`, `serialize` |
| Client side of the tracker protocol | `registerWithTracker`, `updateOnTracker`, `queryTracker`, `disconnect` | one connection; `peers` | register once, query and update every 3 s, quit in the signal handler |
| Start-up | `Client::initialize`, the part of `getBlock` that makes a folder | the cache directory: a numbered folder per video, with `metadata` and a file per block | read folders, metadata and block files into `files`; make a folder; write, unlink block files |
| Download scripts | `youtube_get_video.pl`, run by `getBlock` | the block file it downloads to; a process of its own | run wget, unlink the file when it fails |
| Exchange | `peerWithBlock`, `fileTransfer`, `sendBlock`, `main` | a connection and a thread per request | ask a peer for a block, serve one |
| Streaming and prefetch | `handleStreaming`, `getRangeOffset`, `prefetcher`, `getPrefetchOffset` | HTTP connection of the browser; record shared with the prefetchers | serve a byte range; fetch the blocks that come next |
| Wire format | `serialize`/`deserialize` of `BlockMap`, `File`, `Client`, `Tracker`; the packets | none | encoding |
| Socket helpers | `sendSocketData`, `recvSocketData`, `connectToHost` | none | loops over `send`/`recv` |
| Statistics, configuration, prototypes | | | see section 7 |

**Interaction.** One client process runs, side by side: the streamer, its
prefetchers (created for each request), the two tracker threads, a thread that
prints statistics, and a thread for each request of a peer. Streamer,
prefetchers and peer threads all call `getBlock`. They share `files`,
`cache_used` and `peers` under `client_mutex`, and `File::downloading` under
`fetch_mutex`. A client talks to the tracker on one connection, on which its
threads and its signal handler send; the tracker has a thread for each
connection, and those share `p2pnodes` under `_mutex`.

**What is hard.** `getBlock` takes and releases its two locks at a dozen places
with sleeps and network calls between, and uses what it read before them;
eviction works on a cursor that is kept up to date piecemeal; a waiter polls
until another thread's mark is gone; the streamer hands all its prefetchers the
address of one record on its own stack and writes the next request into it; a
crash leaves folders without metadata, half of it, cut block files, and scripts
that go on writing; clients ask each other for blocks by lists that are seconds
old, and serve a request by fetching the block themselves; the tracker tells
clients apart by IP address only, keeps crashed clients, and does not look at the
result of `recv`; the signal handler sends on a connection in use. PROJECT.json
lists these hazards line by line.

**What makes each component correct.**

- Block map: the cursor is the first missing block after every history, and
  ranges do not depend on the history.
- Block cache: one download per block, only of missing blocks; whatever the map
  has is on disk; the sum of the sizes is right; the locks are paired; waiters
  find their block; eviction frees what it can; every call returns.
- Cache directory: a cache hit serves whole blocks; no video has two folders; the
  number of the next folder is free; a restart finds all that was finished.
- Streaming: a browser that plays on gets every byte to the end; prefetchers ask
  for blocks that there are, of the video that is played.
- Exchange: a request that is waited for has a thread at work on it; clients do
  not wait for each other in a circle; those whose QUIT arrives are noticed.
- Tracker: one entry per address, whatever the interleaving; an answer is the
  list of one moment, and of one after the question; handler and client
  agree on where packets begin; a client that quits is forgotten; clients find
  each other, also after a crash and a restart.
- Wire: what is read is what was written, and the sizes that are computed apart
  from it say where the next packet begins.

## 2 Modules

| Module | Content |
|---|---|
| `BlockMap` | `BlockMap` objects as records, their operations as operators |
| `BlockSet` | abstract: a set of blocks that is searched for ranges |
| `FileBlocks` | the life of one map; implements `BlockSet` |
| `BlockCache` | the block cache of one client with all its threads |
| `SharedCache` | abstract: blocks held, blocks in flight |
| `Recovery` | the cache directory of one client through crashes and restarts |
| `Streaming` | the browser's connection, the streamer, the prefetchers |
| `Exchange` | clients that fetch blocks from each other |
| `Tracker` | the tracker and the clients' side of its protocol; implements `Registry` |
| `Registry` | abstract: a list with one entry for an address, questions and answers |
| `Wire` | the bytes: encoders, decoders, packets |
| `MCFileBlocks`, `MCBlockCache`, `MCRecovery`, `MCStreaming`, `MCExchange`, `MCTracker` | instances for TLC |
| `BlockMapLemmas`, `FileBlocksProofs`, `BlockCacheProofs`, `RecoveryProofs`, `StreamingProofs`, `ExchangeProofs`, `TrackerProofs`, `WireProofs` | theorems |

The modules divide the client between them, each abstracting what another has in
detail. `BlockCache` has the locks of `getBlock` and takes a download for a
success or a failure; `Recovery` has what a download leaves on disk, step by step,
and takes a stretch of `client_mutex` for one step; `Streaming` and `Exchange`
take `getBlock` for a call and a return, before which other blocks may be evicted;
`Tracker` has the conversation that `Exchange` takes for one step, and `Wire` the
bytes that `Tracker` takes for parts of packets.

`BlockCache` extends `BlockMap`: what `FileBlocks` shows of a single map is used
there for each video. A definition whose comment begins with *Broken variant* is
not part of a specification; it is the form a definition would have with a
plausible bug, and replacing the one by the other makes some property fail.

### BlockMap and FileBlocks

`blocks` is the set of the numbers whose bit is set. `setBlock` moves the cursor
only when the block at the cursor is set, to the next hole (`FirstHole`);
`unsetBlock` pulls it back. `RANGE_LEN` is the 5 of common.h. Numbers past the
end abort in `hasBlock` and `setBlock` and are ignored by `unsetBlock`. In
`FileBlocks` `ValidBlock` is a guard; who asks for such a number, and ends in the
abort, is in `BlockCache` (`OutOfRange`) and in `Streaming`.

### BlockCache

`pc` says where each thread is in `getBlock`:

| `pc` | Code (src/common.cpp) | Locks held |
|---|---|---|
| `lock` | 504, waits for `client_mutex` | none |
| `lookup`, `grow` | 505-558; `grow` is inside `files.push_back` | client |
| `lockFetch` | 570 | client |
| `check` | 571, the marks, then `hasBlock` | client, fetch |
| `sleep` | 576 | none |
| `read` | 587-597 | client |
| `evict` | `handleCache`, 437-496 | client, fetch |
| `choose` | 608-615 and 721-725, peer or source | client |
| `peer`, `source` | 616-720, 726-749 | none |
| `store` | 750-769 | takes client |
| `unqueue` | 770-778 | takes fetch |

A step is the code between two points where another thread can notice something; what is
reached only through the locks is read and written in the step. A broken peer connection
makes `getBlock` unlock `client_mutex` twice (`PeerBreaks`, `resets`). An unlock by a
thread that does not hold the lock is undefined in POSIX: it may release the lock of
another thread (`Unlock`), and from then on the lock excludes nobody (`WrFree`,
`RdFree`). What it protects is then raced for: a map that is written back may be any map
of that length (`Copies`), and each update of `cache_used` may take place or be lost
(`Counted`, and block by block in an eviction, `Discounted`). `UnqueueRaces` is the data
race between `files[i].downloading.erase` and `push_back`: it may hit the old copy of
the vector (the mark stays) or freed memory (crash). A file that is not in `files` has
an empty map and no marks, so that `NewFile` need not write them. Nobody looks whether
the browser's range or a peer's request is inside the file (`StreamCall`, `ServeCall`,
with `AnyBlock`: every block and the first number past the end): `OutOfRange` is the
abort of the first `hasBlock`, `AfterOffset` what `fread` gives behind the end of a
short last block, `CopyOverrun` the `memcpy` of a negative length that a peer's answer
to such a range leads to (703-705), and `ServeUnknown` the exit for a video the client
does not have (825). `handleCache` is the loop `scan`: `SkipOwnFile` and `EvictFromFile`
visit a file each, `NextVisit` counts the passes. The first file is any (`time(NULL) %
files.size()`).

The network is seen from one client: a peer sends the whole block
(`PeerSends`), breaks (`PeerBreaks`), is gone (`PeerIsGone`, exit of
`connectToHost`), or stays silent (no step). `process` says how the process
ended; nothing happens afterwards.

The bool-valued functions of common.cpp that lack a `return` are built without
optimisation (Makefile: `-g`), and their callers do not look at the value.

### Recovery

One client, its cache directory and the processes that use it one after the
other. `meta`, `owner`, `disk` and `scripts` are what a crash leaves: a folder's
metadata may be missing (crash between `mkdir` and `fopen`), partial (before
`fclose`) or whole, and a block file missing, cut or whole. The rest is the
memory of a process. `Crash` ends it anywhere - a failed `mkdir`, an `abort` or a
kill - and chooses which of the scripts it had started go on (`ScriptGoesOn`).
`Start` and `ReadFolder` are `initialize`: folders come in any order, the first
folder that gives a name keeps it (`Insert`), every file counts as a block however
long it is (`FilesIn`), and partial metadata gives a name, or part of one
(`Phantom`), with sizes that are whatever was on the stack: blocks may be downloaded for
such an entry, too. `MakeFolder`, `CreateMetadata`
and `CloseMetadata` are the steps by which `getBlock` makes a video; `Miss` to
`Store` those of a download. `Miss` includes the evictions of `handleCache`, any
held blocks of other videos (`Unset`: a block whose file `unlink` does not find
stays in the map).

`tainted` is a history variable: the block files that a crash cut, or that a script
of an earlier process worked on since they were made. The properties of whole
files name it, because for those files the code really does not keep the
promise: a cut file is taken for a block after the restart, and the old script
and the new download write the same file.

### Streaming

The browser is a user who jumps about in one video or several and at some point
plays on (`browser`, `position`); there is one connection, the only one that is
ever accepted. `RecvRequest` to `SendAnswer` are the loop of `handleStreaming`.
A range may begin anywhere (`Jump`), also behind the end of the video. The buffer is not
cleared between requests, so that `RecvWithoutRange` may find the range of any earlier one
(`header`) or none, which crashes. A call of `getBlock` returns, aborts in `hasBlock`
(`HasBlockAt`), or, for a block that is not in the cache, ends the process in one of its
other ways (`GetBlockFails`: the exits at 533, 540 and 619, the abort at 601, the NULL
`fp` at 747). `WriteArgs` writes the record
for the prefetchers field by field, and the name, when it changes, through a state
in which it is `Torn`. A prefetcher (`at`, `local`) reads the offset when it begins,
the name when it holds the lock, the name again for `getBlock`, and in the end
writes `bsize` and `offset` into the record, for the second of its two rounds or
for whoever reads next.

### Exchange

A thread is a triple: at whom it runs, for whom it works, which block. The threads `<<c,
c, b>>` fetch for the browser of c; `<<p, c, b>>` is the thread p runs for a request of
c. `Miss` chooses a peer by `peers`, which is what the tracker's list (`listed`) was
when `handleQuery` last asked; `Connect` creates the thread of the peer, which calls
`getBlock` itself (`Look`), so that one request may lead to the next, or fails to create
one, and the connection stays open with nobody at it (`unserved`, client.cpp:436).
`Return` sends the block to the thread that waits for it. `Refused` is `connectToHost`'s
`exit(1)`, which ends the whole client, and `PeerEnds` what `recv` does when the peer is
gone: spin, or fail and go to the source. A client that quits is gone at once; what
becomes of its QUIT is another step: the tracker handles it (`Unlist`), or it is lost,
torn or misread (`QuitLost`), or there is no tracker any more (`TrackerDies`), all of
which `Tracker` has in detail. `dropped` is a history variable, the blocks a client has
evicted.

### Wire

Operators on sequences of bytes: what is written (`BlockMapBytes`, `FileBytes`,
`ClientBytes`, `TrackerBytes`), how long it is said to be (`SizeOfFile`,
`SizeOfClient`, computed apart in the code, too) and what is read (`ReadBlockMap`
to `ReadClients`). `Receive` is how the thread of a connection cuts the stream.
The tracker's list is a map from the addresses that `malloc` gave to the
serialized clients, so that its order is any. `MCFileBlocks` sends each map that
`FileBlocks` reaches through them.

### Tracker

A client is an address with a port; a *process* is a start of it (`Proc`).
Each process has its own connection: `toTracker` holds the parts of packets on
the way, `reply` the answer. A packet is a header and a body, two sends. `phase` is where the
thread that registers and queries is, `unsent` the update whose header `handleUpdate` has
sent. What keeps these two threads' packets apart is `client_mutex` and nothing else:
its exclusion is the condition `Locked`, which stops to hold when a peer connection has
broken in `getBlock` (`PeerBreaks`, common.cpp:725, the second unlock of `BlockCache`).
The signal handler runs in whatever thread gets the signal and sends a packet of
its own (`Signal`), also between the two parts of another's. Sends block when
the socket is full (`SocketRoom`).

`handler` is what the tracker's thread for a connection does next: wait for a header, or
for the body of the operation it names; or serialize and reply. `_mutex` is held in
single steps (`RecvBody`, `Serialize`), so that it needs no variable. `RecvFails` is
what the unchecked `recv` leads to: a header of zeros is a REGISTER of whatever is on
the stack (`Garbled`), or the tracker dies. `QuitMisread`, `BodyMisread` and
`HeaderMisread` are what happens when the stream is out of step (`OutOfStep`): a QUIT
packet or a query's header inside an update is taken for its body, whose lengths are
then wrong, and the tracker dies; another header inside the QUIT is taken for an
address, nobody's, and what is left of the QUIT for a header (the handler is then
`lost`). An address is at least 7 characters long, so that a length read from letters or
from a header is so large that the array on the stack ends the tracker.

`Registry` is what this amounts to for who asks: `Register`, `Replace` and `Remove`
change a set of entries, `Look` answers a question with the whole set, `Learn` is the
client that reads the answer, without the entries of its own address and port.

## 3 Runs

| Run (`.cfg`) | Module | Shows |
|---|---|---|
| `FileBlocks` | MCFileBlocks | every history of `setBlock`, `unsetBlock`, `nextBlockRange` keeps `CursorAtFirstHole` and implements `BlockSet`; whatever map it leads to, packets arrive as they were sent (`PacketsArriveAsSent`, `PeersAreTheOthers`) |
| `CacheTight` | MCBlockCache | a cache two blocks fill: `OnDisk`, `MarkMeansDownload`, `AccountingExact`, `EvictionThorough`, `ImplementsSharedCache` |
| `CacheRoomy` | MCBlockCache | nothing is evicted; the streamer and a peer ask for any block, also past the end, at offsets inside blocks; a video is opened while another is fetched, the script is run twice: `TypeOK`, `LockDiscipline`, `FetchOnlyMissing`, `WaiterFindsBlock`, `AccountNeverOver` |
| `CacheBrokenPeer` | MCBlockCache | a peer connection breaks and `client_mutex` excludes nobody any more: `SingleFlight` holds even so; as long as none breaks, every call returns under fairness (`CallReturns`) |
| `Recovery` | MCRecovery | three crashes anywhere: `HeldIsWhole`, `OneFolderPerVideo`, `NextFolderIsFree`, `NothingForgotten` |
| `Streaming` | MCStreaming | the browser jumps anywhere, also behind the end; two prefetchers race with the streamer for their record: `PrefetchInsideVideo`, `OneVideoGoesOn`, and under fairness `PlaysToEnd` |
| `Exchange` | MCExchange | two clients ask each other, one may quit or crash, a connection may get no thread, a QUIT and the tracker may be lost: `AnswerIsOwed`, `CircleMeansDropped`, and under fairness `QuitIsNoticed` |
| `TrackerTwoHosts` | MCTracker | two hosts, signals and crashes at any moment, and for one of them a broken `client_mutex`: `TypeOK`, `InStep`, `OneEntryPerAddress`, `QuitForgets`, `ImplementsRegistry` |
| `TrackerDiscovery` | MCTracker | under fairness `Discovery`, with a crash, a restart and a changing cache |
| `WaitedInVain`, `HandleCacheUnlocked`, `TornPacket` | | the findings of section 6: each violates its property |

**Bounds.** `FileBlocks`: maps of 0 to 10 blocks, every content; the longest is
so long that a range is cut by `RANGE_LEN` and shorter ones so that the end cuts
it. The packets carry three clients, at addresses of their own as the tracker lists them,
with two files, one or none, empty texts, numbers of several bytes and a negative one.

Block cache: two videos of 2 and 3 blocks with a short last block each, two or three
threads in `getBlock`, and the tracker threads. Two threads are what a race needs; three
make a waiter wait for one while another takes the lock; a third video would be for
eviction what the second is. `CacheSize` is 200, which two blocks fill (over 90 %), or
100000, which is never full. `EvictBatch` is 1 for the code's 10, so that a file of 3
blocks needs more passes than one, and `EvictTries` is 2 for 5, so that passes run out.
`Retries` is 1 or 2 for 10: the loop counts down and does nothing else. `MaxResets`
bounds the broken connections; after one the lock excludes nobody, and a second changes
nothing. `UsedBound` keeps `cache_used` within two cache sizes once its updates may get
lost. `CacheBrokenPeer` has three threads and one video of one block (`BlockSize` 200,
`CacheSize` 140, which the block of 150 bytes fills): what the threads can do to each
other without a lock grows fast with the number of blocks. `Offset` is where in a block
a range may begin: at its start, and at 60 in `CacheRoomy`, which is inside a whole
block and behind the end of each last one. `ResetsAssumption` follows broken connections
only where all videos are known from the start: what two simultaneous `push_back` do to
the vector is open, and no property could be stated of it.

Recovery: two videos, of a block each, since blocks meet only in their folder;
four folder numbers (`LastFolder`), so that each video may have a folder and
leave a half-made one before it; four starts (`Starts`), three crashes: one that
leaves partial metadata, one in the process that reads it, one for a script that
goes on.

Streaming: blocks of 2 bytes, a video of 3, whose last block is short, and one of
2, which is all one block; `Ahead` is 1 for the code's 10 to 14, so that a jump of
a prefetcher may end inside the video or behind its end. `Seek` is where the browser may
jump to: 1, inside a block of either, and 3, in the last block of the one but behind its
end, and behind all blocks of the other. Two prefetchers are what a race for the record needs
besides the streamer; the second of them (`Spare`) is used only while a single
video has been asked for, since what two videos mix up one prefetcher shows.

Exchange: two clients and two blocks; one wants both and one of them is wanted by
both (`Wanted`), so that there is a request in each direction and one beside
it. One client may quit or crash (`Leaving`), the other stays to notice it. A block stands
for a video of one block, because `handleCache` spares the video that is fetched.

Tracker: two clients, one start each (two of b in `TrackerDiscovery`), a broken
`client_mutex` for one of them at most (`Breaking`, none in `TrackerDiscovery`, whose
property asks for a whole one), room for two parts in a socket, so that a whole packet
fits (one in `TrackerDiscovery`); `Garbled` limits what a failed `recv` may make of the
stack. Two clients at one address are covered by the theorem `AddressesUnique` for any
`AddressOf`; in the run a garbled entry may bear the address of either client.

**Symmetry.** `MCRecovery` permutes the videos: the run checks invariants only and
nothing else names a video. No other run uses any.

**Deadlock.** It is checked in the block cache and in `FileBlocks`; a process
that ended stutters by `Ended`, so that a deadlock would be one of the
locks. The other runs say `CHECK_DEADLOCK FALSE`, because there the system may
really stop: every client and every process has ended, no start is left, the
streamer has crashed, or the browser has seen its video. That threads do not wait for each
other for ever is what `CircleMeansDropped` and `PlaysToEnd` say there.

**Preconditions.** `AccountingExact` is checked for requests at block boundaries and
files whose size is not a multiple of the block size: for the others the code does not
count exactly (748 counts from the offset on, 425 charges a whole last block as
nothing). `AccountNeverOver` allows any offset, but not a whole last block either; an
account that is too low means that eviction begins late, one that is too high that
blocks are thrown away for nothing. `NextFolderIsFree` is for a directory without
half-made folders: after one, the number is taken and `mkdir` fails at each attempt.
`NothingForgotten` leaves out a video whose name partial metadata has taken.
`PrefetchInsideVideo` and `OneVideoGoesOn` are for a connection on which one video is
asked for: with a second, a prefetcher may pair the name of the one with an offset of
the other, and `hasBlock` aborts. `OneVideoGoesOn` and `PlaysToEnd` name the other way
into that abort, too: a byte behind the end of its video was asked for (`beyond`).
`PlaysToEnd` leaves the ends of `getBlock` itself (`failed`) to the user. `InStep` is
for a client that was not signalled and whose `client_mutex` still excludes.
`QuitForgets` and `Discovery` name the premises the code needs: an address nobody else
had, no QUIT of a predecessor at the address, no failed `recv` that was taken for a
packet, a tracker that lives.

## 4 Fairness

`BlockCache!FairSpec`: strong fairness of `getBlock(t)` for every thread. A
waiting thread competes for a lock that others take in turns; both kinds of
lock let it in sooner or later, and those that come back to a lock sleep in
between (2 s in the wait loop, 3 s in the tracker threads). `TrackerAnswers`
and `UpdateSent` are weakly fair: the tracker answers. `getBlock(t)` covers the
network, so that the script and the peers come to an end in some way. Nobody has to
call `getBlock`, and no download has to succeed. With a tracker that is gone or a peer
that is silent the call does not return (`recvSocketData` spins when the other side
has closed): these are hazards in PROJECT.json, not claims. `CallReturns` is checked
where nothing is evicted. In a cache that is too small for all that is asked for it does
not hold: a waiter may find the block evicted and abort, or marked again each
time it wakes up.

`Streaming!FairSpec`: weak fairness of the streamer, of each prefetcher, and of a
browser that plays, which asks for the next part. The streamer and a prefetcher
share no lock in this module, so that weak fairness is enough; that their calls of
`getBlock` return is what `CallReturns` is about. A browser may also jump about for ever;
then it does not play, and nothing is promised.

`Exchange!FairSpec`: weak fairness of `handleQuery`, which comes back every 3 s and is
answered as long as there is a tracker. No QUIT has to arrive: `QuitIsNoticed` begins where
one has been handled (`unlisted`), and ends where the tracker is dead. No request has to
be answered: `AnswerIsOwed` and `CircleMeansDropped` are safety properties.

`Tracker!FairSpec`: the tracker's threads and the client's `main` are weakly fair; the
threads of a client that share its lock and sleep between their rounds are strongly
fair, whether the lock excludes or not. Nobody has to start, end, crash or change its
cache.

## 5 Proofs

All theorems are of `Spec`, for every value of the constants that meets the
named assumptions of the module (`SizesAssumption`; `ThreadsAssumption`,
`FilesAssumption`, `CacheAssumption`, `ResetsAssumption`; `RecoveryAssumption`;
`StreamingAssumption`; `BoundsAssumption`; `ClientsAssumption`, `GarbledAssumption`).
Three theorems assume more of the constants, and say so: `ShortLastBlocks` (no file ends
with a whole block), `WholeBlocks` (nor does a range begin inside one) and `FilesizesFit`
(the file size written for a map of `n` blocks of 1000000 bytes fits an int of the wire,
which is what the code has room for).

| Module | Theorem | States |
|---|---|---|
| `FileBlocksProofs` | `TypeCorrect`, `CursorCorrect` | `TypeOK`, `CursorAtFirstHole` |
| | `RefinesBlockSet` | `FileBlocks` implements `BlockSet` |
| `BlockCacheProofs` | `TypeCorrect`, `LocksCorrect` | `TypeOK`, `LockDiscipline` |
| | `FetchesSingle`, `FetchesNeeded` | `SingleFlight`, `FetchOnlyMissing` |
| | `BlocksOnDisk` | `OnDisk` |
| | `MarksHaveFetchers` | `MarkMeansDownload`, if all videos are known from the start |
| | `RefinesSharedCache` | `BlockCache` implements `SharedCache`, if no peer connection breaks |
| | `OnlyEvictionsDisappoint` | `WaiterFindsBlock`, if none breaks and nobody evicts |
| | `EvictionsAreThorough` | `EvictionThorough`, if none breaks |
| | `AccountsAreExact` | `AccountingExact`, if none breaks, for `WholeBlocks` |
| | `AccountsNeverOverstate` | `AccountNeverOver`, for `ShortLastBlocks` |
| | `OnlyResetsUnlockEviction` | `HandleCacheHoldsLocks` up to the first that breaks |
| `RecoveryProofs` | `TypeCorrect`, `HitsServeWholeBlocks` | `TypeOK`, `HeldIsWhole` |
| | `VideosHaveOneFolder`, `MkdirSucceeds` | `OneFolderPerVideo`, `NextFolderIsFree` |
| | `RestartFindsEverything` | `NothingForgotten` |
| `StreamingProofs` | `TypeCorrect`, `PrefetchersStayInside` | `TypeOK`, `PrefetchInsideVideo` |
| | `TwoVideosEndIt` | `OneVideoGoesOn` |
| `ExchangeProofs` | `TypeCorrect`, `RequestsAnswered` | `TypeOK`, `AnswerIsOwed` |
| | `CirclesNeedEvictions` | `CircleMeansDropped` |
| `TrackerProofs` | `TypeCorrect`, `AddressesUnique` | `TypeOK`, `OneEntryPerAddress` |
| | `ClientsInStep` | `InStep` |
| | `RefinesRegistry` | `Tracker` implements `Registry` |
| | `QuittersAreForgotten` | `QuitForgets` |
| | `HeadersAreHeaders` | `HeaderIsHeader`, if no client is signalled and no `client_mutex` broken |
| `WireProofs` | `EveryClientArrives` | any client with any files, as long as its sizes fit an int |
| | `MessagesArrive`, `OthersArrive` | `PacketsArriveAsSent`, `PeersAreTheOthers`, for `FilesizesFit` |

`BlockMapLemmas` has what the operators of `BlockMap` preserve: `SetBlock` and
`UnsetBlock` keep a map well formed and its cursor exact; it serves the proofs
of `FileBlocks` and of `BlockCache`. Its `LeastNumber`, that a set of numbers has a least
one, also gives `RecoveryProofs` the largest folder number. `SetInduction` is induction
over finite sets, for a set of sets instead of a predicate, since the library's takes an
operator; with it `SumIsAdditive` identifies the library's sum over a set with the function
that adds element by element, and `SumAdd`, `SumRemove`, `SumSame` and `SumDifference` are
what the account of the cache needs.

**FileBlocks.** The invariant is `TypeOK` with `CursorAtFirstHole`, which is
inductive. With it a range from the cursor is the range a search finds.

**BlockCache.** None of the properties is inductive by itself. `IInv` conjoins
`TypeOK`, `LockDiscipline`, `SingleFlight`, `FetchOnlyMissing` and `OnDisk` with
facts about the code's locals: `FilesRight` (the vector names each video at most
once, and a thread inside `push_back` adds one that is not there yet), `IdxRight`
(the local `i` of a thread past the look-up is the index of the file it asked for,
so that `files[i]` after an unlock is still that file), `ScanRight` (the loop of
`handleCache` is at an existing file and has a pass left) and `FileBeforeMap` (a
thread about to set a block has written its file). `SingleFlight` needs the
discipline of `fetch_mutex`, which makes the look at the marks and the new mark
one step, and `IdxRight`, without which a thread would look for the mark in
another file. `FetchOnlyMissing` needs `SingleFlight`: only the thread that marked a
block sets it. `FileBeforeMap` needs `FetchOnlyMissing`: an eviction unlinks
blocks the map has, so never the file another thread has just written. `OnDisk`
needs `FileBeforeMap`. `TypeOK`, the part of `LockDiscipline` about `fetch_mutex`,
`IdxRight`, `ScanRight` and `SingleFlight` hold even when `client_mutex` no longer
excludes; the other parts say `resets = 0`.

`RefinesSharedCache`, whose premise is that no peer connection breaks, maps each step to
one of `SharedCache` or to a stutter: `CacheMiss` is its `Fetch` (nobody has marked the
block and the map lacks it, seen under `fetch_mutex`), `Store` its `Store`
(`StoreEffect`), `EvictFromFile` its `Evict` (`EvictEffect`: the blocks are those of
another video); `DownloadsGoOn` and `FlightsGoOn` say that no other step begins or ends
a flight.

`MarksHaveFetchers` needs two facts besides `IInv`: a thread at a download stays at it
until it erases its mark (`MarkersGoOn`), and where all videos are known nobody is
in `push_back`, so that the erase is not raced for (`NothingRaces`). Without
`StoredName = Name` it does not hold of the code (hazard at common.cpp:710).

`WaiterFindsBlock` does not hold of the code in general: see the findings.
`OnlyEvictionsDisappoint` says what it takes. As long as nobody is in `handleCache`, the
blocks that are held or on their way only grow (`ComingGrows`), and a waiter has seen
its block among them (`WaitersInv`); when the mark is gone the block is held.

`EvictionsAreThorough` counts the visits of `handleCache` to each video (`Visits`): a
visit takes a batch from in front of the cursor (`Reduced`), the loop comes to each video
once in a round (`VisitMoves`, `VisitCounts`), and no other thread touches a map
meanwhile, because `handleCache` has both locks (`OthersWait`). `PassesRight` puts these
together; with the last pass a video that fits has no block left there.

The account is proved as a balance of two sums that are kept apart in the code:
`cache_used`, which goes up by `resp_size` and down by what a batch is charged, and the
blocks of all maps. `AccountStep` says that a step makes them drift apart by the `Surplus`
of a thread that stores a block, what it counts over what the block occupies, and by nothing
else. It uses `IInv` throughout: a block that is stored was missing (`FetchOnlyMissing`), so
that it is not counted twice; a batch is part of the map it is taken from, so that nothing
is taken off twice; and a video that is not in `files` yet has no blocks (`AccountOfKnown`).
With `WholeBlocks` the surplus is zero (`AccountRight`), with `ShortLastBlocks` alone it is
not positive (`AccountLow`).

`OnlyResetsUnlockEviction` and, for the tracker, `HeadersAreHeaders` are the other
half of two findings: what a comment of the code says of `handleCache` does hold up to the
first broken peer connection, and what one says of headers without signals and broken
connections. The second finding has both causes: once `client_mutex` excludes nobody, a
query's header may come between the two parts of an update without any signal.

`TypeCorrect` says of a block number that is past its file's end, which anybody may ask for,
that it goes no further than the first `hasBlock`: a thread that fetches, stores or reads has
been told by a map of the length of its file that the number is inside (`InsideAt`). That
every map has that length needs no lock.

**Recovery.** What a client serves after a crash depends on what it did before
the crash, and the invariant has to say what ties the two. `NamesInv`: entries and
folders match (`FoldersApart`, `EntryHasFolder`, `FolderHasEntry`), and the folder
that is being made is nobody's and its video has no other (`OpeningRight`);
`OneFolderPerVideo` follows, because a running process has an entry for each finished
folder, whatever it was started on. `NextFolderIsFree` follows from them: a taken number
is in `url_to_folder`, and the next is larger. `BlocksInv`: files are in finished
folders with metadata only (`FilesInFolders`), a cut file has a writer or is tainted
(`PartHasWriter`), old scripts work on tainted files only (`ScriptsTaint`), and a
file in the folder of an entry is in its map or worked on (`FilesKnown`).
`HeldIsWhole` is inductive with them: `initialize` runs when there is no writer, so
that a cut file it finds is tainted, and an eviction that unlinks a file takes it
from the map, while a tainted one whose script has unlinked it stays there - its
every cache hit crashes the process at common.cpp:587, which is the case
`HeldIsWhole` leaves to `tainted`.

**Streaming.** The prefetchers overwrite each other's record, and the next request
overwrites it for all of them. That they stay inside the video does not depend on who
wrote last: every value that anybody writes into the record, or keeps of it, is good by
itself (`ArgsRight`, `LocalRight`), `getPrefetchOffset` returns offsets inside the video
or -1, and with one video the name is not torn once there is a prefetcher
(`NamesWhole`). `OneVideoGoesOn` adds that the streamer's own range is right
(`RequestRight`, `HeaderRight`, `ServedRight`), unless the browser itself asked for a
byte behind the end (`Known`), whose answer is empty and makes no prefetcher, also when
it is left over from an earlier request.

**Exchange.** The lists are old, so that the invariant says what was true once:
whoever is listed has the block or has evicted it (`ListsRight`, `ServersRight`).
In a circle each thread waits for a fetch of its block by a client that was
asked for it, so each client had it, and while it fetches it has it no more
(`FetchMissing`): it has evicted it. `RequestsAnswered` needs that a thread serves
one request at a time (`FetchOnce`) and that a peer, once connected, does not
go back to being started (`ConnectedOnce`); that a connection which got no thread has none
from an earlier request either follows from `ServersNeeded`, by which a thread that is at
work for a client has its connection open (`Connected`), and `FetchOnce`.

**Tracker.** `LInv` is `TypeOK` with `OneEntryPerAddress`. `InStep` is proved from
a form of it for one process, `InStepAt`, that also says what the last part of the stream
is in each phase of the client (`LastIs`): a header that waits for its body
exactly when the client is between its two sends.

`RefinesRegistry` maps the list to a set, a client between its query and the answer to
one that asks, and the snapshot of its handler, then `reply`, to the answer it has not
read. `Serialize` is then `Look`; `Reply` and a death of the tracker are stutters, and
what `RecvFails` makes up is a `Register` or a `Remove`. It needs that a client has
one question at a time (`OneQuestion`): its query is on its way, or the handler serves
it, or the answer is on its way, and never two of these; otherwise a client that
asks might have the answer to an earlier question. `OneEntryPerAddress` makes
an update a `Replace` of the one entry there is.

`QuittersAreForgotten` is about streams that are torn by the signal, where `InStep` says
nothing. `QInv` follows the body of the QUIT instead: it leaves the stream only when
the handler deletes the entry (`Forgotten`), and no REGISTER body comes after it
(`Conversation`). An update that comes late finds no entry and adds none.

`HeadersAreHeaders` is read off the invariant of `InStep`: a stream that nobody was
signalled into, of a client whose lock is whole, consists of whole packets, but for the
one a handler or a client is in the middle of, and a handler that expects a header is
not.

**Wire.** Nothing on the wire says where a field begins, so the proofs are about places:
`At(data, o, x)` says that the bytes `x` stand in `data` at offset `o`, and `CatAt` that
of two pieces, one behind the other, the first stands at `o` and the second where the
first ends. `Int4Value` is the round trip of an int (four bytes in two's complement, the
last read with its sign), `ReadCounted` that of a counted text, `MapBytes` that of a
map. The parts of a list are as many as the list is long: that each stands where the
sizes before it add up to (`JoinsAt`, `ReadParts`) is an induction over their number,
and so is that their length is the sum the code computes apart (`FlattenLen`). The
inductions go by the least number for which the claim fails (`CountUp`, from
`LeastNumber`). `FileWire` and `ClientWire` put these together, `Received` and
`PacketWire` cut the stream. `EveryClientArrives` is about every client there is
(`WireClients`), not only about those of the run; that the run's clients are among them
is `ClientsAreWire`, where `SizeStays` bounds the map and `FilesizesFit` the file size.
`ListWire` is the tracker's list, and `PeersWithout` the loop that leaves the asker out.

**Only model-checked.** `CallReturns`, `PlaysToEnd`, `QuitIsNoticed` and `Discovery`:
liveness under fairness and ENABLED are out of the prover's reach. Every other property of
the runs is a theorem, with the premises named above; the one of `WaitedInVain`
is refuted there and proved where nobody evicts (`OnlyEvictionsDisappoint`).

## 6 Findings

| Run | Code | What |
|---|---|---|
| `WaitedInVain` | common.cpp:599 | "Should have been in cache!": the block a thread waited for can be evicted before it wakes up; the process aborts |
| `HandleCacheUnlocked` | common.cpp:725 | `client_mutex` is unlocked twice after a failed exchange with a peer, the second time for another thread, which then runs `handleCache` without the lock its comment demands |
| `TornPacket` | client.cpp:29 | a QUIT sent beside the packets of other threads: the header of a query or update between the two parts of the QUIT is taken for its body, and the tracker goes on in the middle of a part |

A QUIT between the two parts of an update, the other order, is taken for the update's body
(`BodyMisread`) and ends the tracker. In the trace of `HandleCacheUnlocked` the cache is half
full at start; the thread whose connection broke fills it, and the one it unlocked misses
its block after that.

The theorems say what it takes: an eviction, if no peer connection breaks
(`OnlyEvictionsDisappoint`); a broken peer connection (`OnlyResetsUnlockEviction`); a signal
or a broken peer connection (`HeadersAreHeaders`).

Met while modelling, and listed as hazards or stated as premises, since no text of the
repository says otherwise:

- a mark is erased without `client_mutex` while `push_back` moves the vector
  (common.cpp:710, `UnqueueRaces`): whoever wants the block then waits for ever;
- two videos on one connection: a prefetcher pairs the name of one with an offset
  of the other and `hasBlock` aborts (`OneVideoGoesOn`);
- a range that begins behind the end of its video, and a peer's request for a block past
  the end, end the process in `hasBlock` (`OutOfRange`, `beyond`);
- a connection that `main` could make no thread for stays open, and who asked on it waits
  for ever (`AnswerIsOwed`);
- once `client_mutex` excludes nobody, the query and the update of one client get into each
  other's packets (`InStep`);
- a waiter may starve in a cache that is too small (`CallReturns`);
- clients wait for each other in a circle when all of them have evicted a block that
  their lists still show (`CircleMeansDropped`);
- a half-made folder keeps its number from being used, and each new video ends the
  process at `mkdir` (`NextFolderIsFree`).

## 7 What is not modelled

- Statistics: three counters that are only printed; `handleStats` takes
  `client_mutex` shared, as `handleUpdate` does in the model, and changes nothing.
- Configuration (parser.c): read once at start; its values are constants. A
  `cachesize` below 100 (or none, as in the repository's client.xml) divides by
  zero at common.cpp:604; `CacheAssumption` names it.
- The web site and the pages the scripts read: external. Of the scripts,
  `youtube_get_video.pl` is in `Recovery` with what it does to the block file.
- `simple_streaming.cpp`, `helloworld.c`, `test.html`: not built by the Makefile.
- The exhausted retries of the source are a step (`SourceExhausted`) without a property.
- Short sends and receives inside a part: the loops of `sendSocketData` and
  `recvSocketData` hide them from everybody else.
- The second close of `peerfd` (673, 706): which connection it hits depends on the numbers
  the kernel hands out. The overflow of `client_threads` by the eighth request is one of the
  causes of `Exchange!Crash`; what it overwrites is a matter of memory layout.
- In `Streaming`, the other threads that change the cache: a block is there or missing
  as `held` has it, and `Fetched` takes any blocks of other videos away.
- Block numbers below 0, which no client of this program asks for: what `hasBlock` then
  reads is a matter of memory layout.
- A client that opens a new video after its `client_mutex` has stopped to exclude
  (`ResetsAssumption`): two threads may then be in `push_back` at once.
- A restart of the tracker: nothing of it is persisted, and no client reconnects.

## 8 Plan

Done, in this order: `BlockMap`/`FileBlocks`, `BlockCache` with `SharedCache`,
`Tracker` with `Registry`, `Wire`, `Exchange`, `Recovery`, `Streaming`, and the proofs
of section 5.
What is left, by what it would add:

1. **SocketIO** - short sends and receives, orderly close and the double close of
   `peerfd`, with file descriptors; abstract: a stream that is closed or not.
2. **Several browsers' worth of eviction in Streaming** - a refinement of `Streaming`'s
   `held` by `BlockCache`'s maps, with the threads that serve peers beside the streamer.
