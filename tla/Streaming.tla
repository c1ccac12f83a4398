------------------------------ MODULE Streaming ------------------------------
(***************************************************************************)
(* The connection of the browser: the thread of handleStreaming, and the   *)
(* prefetcher threads it creates (client.cpp), with getRangeOffset and     *)
(* getPrefetchOffset (common.cpp).                                         *)
(*                                                                         *)
(* The streamer hands every prefetcher the address of one record, args, on *)
(* its own stack.  It writes the record anew for each request, while older *)
(* prefetchers still read it, write it, and read it again.  The fields are *)
(* written one by one, the name byte by byte.                              *)
(*                                                                         *)
(* getBlock, whose detail is in BlockCache, is a call and a return here,   *)
(* in between which others run, or the end of the process.  All files have *)
(* the same block size.                                                    *)
(***************************************************************************)
EXTENDS BlockMap

CONSTANTS
  Video,         \* the videos
  Torn,          \* what a reader may make of a name that is being written
  FileSize,      \* the size in bytes of each video
  BlockSize,     \* DEFAULT_BLK_SIZE
  Ahead,         \* how many blocks a prefetcher may jump (10 to 14)
  Seek,          \* bound: where in a video the browser jumps to
  Prefetcher,    \* bound: the prefetchers there are at a time ...
  Spare          \* ... and those of them only one video may have

ASSUME StreamingAssumption ==
  /\ Video # {} /\ Torn \notin Video
  /\ FileSize \in [Video -> Nat \ {0}]
  /\ BlockSize \in Nat \ {0}
  /\ Ahead \subseteq Nat \ {0}
  /\ Seek \subseteq Nat
  /\ Spare \subseteq Prefetcher

VARIABLES
  browser,       \* "seeking", "playing" from some request on, or "closed"
  request,       \* the request that is on its way, as a set
  position,      \* the video and the first byte the browser has not got
  pc,            \* where the streamer is
  served,        \* the video and offset it serves, and the bytes it sends
  header,        \* the offsets that earlier requests may have left in its buffer
  args,          \* the record
  at,            \* where each prefetcher is
  local,         \* its i, offset, startoffset and the name it calls getBlock for
  held,          \* the blocks in the cache, as pairs of a video and a number
  process,       \* "running", or how the process ended
  asked,         \* history: the videos that were asked for
  beyond         \* history: a byte was asked for that its video has not

streamer    == <<pc, served, header>>
prefetchers == <<at, local>>
history     == <<asked, beyond>>
vars == <<browser, request, position, streamer, args, prefetchers, held, process, history>>

NumBlocks(v) == (FileSize[v] + BlockSize - 1) \div BlockSize

\* getBlock's resp_size: the rest of the block, or of the file.  Behind the end
\* of a file whose last block is shorter, fread gives nothing.
Rest(v, start) ==
  LET end  == (start \div BlockSize + 1) * BlockSize
      stop == IF end < FileSize[v] THEN end ELSE FileSize[v]
  IN  IF start < stop THEN stop - start ELSE 0

Blocks == UNION { {v} \X (0..(NumBlocks(v) - 1)) : v \in Video }

HeldOf(v) == { b \in 0..(NumBlocks(v) - 1) : <<v, b>> \in held }

OneOf(videos) == \A v, w \in videos : v = w

BlockAt(start) == start \div BlockSize

\* Broken variant: one block too many.
HasBlockInclusive(v, start) == BlockAt(start) <= NumBlocks(v)

\* hasBlock does not abort.
HasBlockAt(v, start) == BlockAt(start) < NumBlocks(v)

NoRange == -1

AnyVideo == CHOOSE v \in Video : TRUE

NoPrefetch == [i |-> 0, offset |-> 0, startoffset |-> 0, name |-> Torn]

\* A process in which nothing has been received yet.
NoServed == [video |-> AnyVideo, start |-> 0, bytes |-> 0]
NoArgs   == [name |-> Torn, offset |-> 0, bsize |-> 0]

Init ==
  /\ browser = "seeking"
  /\ request = {}
  /\ position = [video |-> AnyVideo, start |-> 0]
  /\ pc = "recv"
  /\ served = NoServed
  /\ header = {}
  /\ args = NoArgs
  /\ at = [p \in Prefetcher |-> "idle"]
  /\ local = [p \in Prefetcher |-> NoPrefetch]
  /\ held \in SUBSET Blocks
  /\ process = "running"
  /\ asked = {} /\ beyond = FALSE

\* The process ends, and its memory goes with it.
Die(how) ==
  /\ process' = how
  /\ pc' = "recv" /\ served' = NoServed /\ header' = {} /\ args' = NoArgs
  /\ at' = [p \in Prefetcher |-> "idle"] /\ local' = [p \in Prefetcher |-> NoPrefetch]
  /\ UNCHANGED <<browser, request, position, held, history>>

-----------------------------------------------------------------------------
(* The browser, on the one connection that is ever accepted.               *)

Quiet == request = {} /\ pc = "recv"

\* The bound Spare: a prefetcher in it is used as long as one video is asked for.
Pool(videos) == IF OneOf(videos) THEN Prefetcher ELSE Prefetcher \ Spare

Ask(v, start) ==
  /\ \A p \in Prefetcher \ Pool(asked \cup {v}) : at[p] = "idle"
  /\ request' = {[video |-> v, start |-> start]}
  /\ asked' = asked \cup {v}
  /\ beyond' = (beyond \/ start >= FileSize[v])
  /\ UNCHANGED <<streamer, args, prefetchers, held, process>>

\* A jump, in the same video or to another.  What the Range line says is not
\* compared with the length of the video.
Jump ==
  /\ browser = "seeking" /\ Quiet
  /\ \E v \in Video : \E start \in Seek :
       /\ Ask(v, start)
       /\ position' = [video |-> v, start |-> start]
  /\ UNCHANGED browser

\* A request without a Range line.
AskWithoutRange ==
  /\ browser = "seeking" /\ Quiet
  /\ \E v \in Video : Ask(v, NoRange) /\ position' = [video |-> v, start |-> FileSize[v]]
  /\ UNCHANGED browser

\* From here on the browser plays on.
PlayFromHere ==
  /\ browser = "seeking" /\ asked # {}
  /\ browser' = "playing"
  /\ UNCHANGED <<request, position, streamer, args, prefetchers, held, process, history>>

\* The part after what was sent.
AskForMore ==
  /\ Quiet /\ browser # "closed" /\ asked # {}
  /\ position.start < FileSize[position.video]
  /\ Ask(position.video, position.start)
  /\ UNCHANGED <<browser, position>>

Close ==
  /\ browser = "seeking"
  /\ browser' = "closed"
  /\ UNCHANGED <<request, position, streamer, args, prefetchers, held, process, history>>

-----------------------------------------------------------------------------
(* The streamer.                                                           *)

\* recv returns 0, or -1 once and then 0, and the loop of recvSocketData does
\* not end: no other connection is ever accepted.
Spin ==
  /\ pc = "recv" /\ request = {} /\ browser = "closed"
  /\ pc' = "spin"
  /\ UNCHANGED <<browser, request, position, served, header, args, prefetchers,
                 held, process, history>>

\* The header is complete: getRangeOffset and getFileName.
Serve(r, start) ==
  /\ request' = {}
  /\ served' = [video |-> r.video, start |-> start, bytes |-> 0]
  /\ header' = header \cup {start}
  /\ pc' = "getBlock"
  /\ UNCHANGED <<browser, position, args, prefetchers, held, process, history>>

RecvRequest ==
  /\ pc = "recv"
  /\ \E r \in request : r.start # NoRange /\ Serve(r, r.start)

\* The buffer is not cleared between requests: behind a shorter one strstr may
\* find the Range line of any earlier one, what came later having overwritten
\* the NULs of strtok_r before it.  When it finds none, NULL is dereferenced.
RecvWithoutRange ==
  /\ pc = "recv"
  /\ \E r \in request :
       /\ r.start = NoRange
       /\ \/ \E start \in header : Serve(r, start)
          \/ Die("crashed")

\* The cache when getBlock returns: for a block that was not there, handleCache
\* may have taken blocks of the other videos.
Fetched(v, b) ==
  IF <<v, b>> \in held
  THEN {held}
  ELSE { kept \cup {<<v, b>>} :
           kept \in { h \in SUBSET held : \A c \in HeldOf(v) : <<v, c>> \in h } }

\* The other ends of getBlock, for a block that is not in the cache: no folder
\* or no metadata can be made, the peer cannot be connected to, the block that
\* a waiter was told of is evicted before it looks, the script gave nothing and
\* NULL is read from.
GetBlockFails(v, start) == <<v, BlockAt(start)>> \notin held /\ Die("failed")

\* getBlock returns (see CallReturns of BlockCache for when it does), ends the
\* process, or hasBlock aborts: the offset is that of another video, or is
\* behind the end of its own.
GetBlock ==
  /\ pc = "getBlock"
  /\ \/ ~HasBlockAt(served.video, served.start) /\ Die("aborted")
     \/ GetBlockFails(served.video, served.start)
     \/ /\ HasBlockAt(served.video, served.start)
        /\ held' \in Fetched(served.video, BlockAt(served.start))
        /\ served' = [served EXCEPT !.bytes = Rest(served.video, served.start)]
        /\ pc' = "send"
        /\ UNCHANGED <<browser, request, position, header, args, prefetchers, process, history>>

\* Broken variant: the range is one byte short for those who ask for more.
NextByteShort == served.start + served.bytes - 1

NextByte == served.start + served.bytes

\* The four parts of the answer.  At the end of the video there is nothing to
\* prefetch.
SendAnswer ==
  /\ pc = "send"
  /\ position' = IF position.video = served.video /\ position.start = served.start
                 THEN [position EXCEPT !.start = NextByte]
                 ELSE position
  /\ pc' = IF NextByte < FileSize[served.video] THEN "name" ELSE "recv"
  /\ UNCHANGED <<browser, request, served, header, args, prefetchers, held, process, history>>

Write(field, value, next) ==
  /\ args' = [args EXCEPT ![field] = value]
  /\ pc' = next
  /\ UNCHANGED <<browser, request, position, served, header, prefetchers, held, process, history>>

\* sprintf, whose bytes another thread may see one after the other, and the
\* other fields.  (fsize is written, but what is read of it is not used.)
WriteArgs ==
  \/ /\ pc = "name"
     /\ IF args.name = served.video
        THEN Write("name", served.video, "offset")
        ELSE Write("name", Torn, "nameEnd")
  \/ pc = "nameEnd" /\ Write("name", served.video, "offset")
  \/ pc = "offset" /\ Write("offset", NextByte, "bsize")
  \/ pc = "bsize" /\ Write("bsize", served.bytes, "create")

\* pthread_create.
CreatePrefetcher ==
  /\ pc = "create"
  /\ pc' = "recv"
  /\ \E p \in Pool(asked) :
       /\ at[p] = "idle"
       /\ at' = [at EXCEPT ![p] = "begin"]
       /\ local' = [local EXCEPT ![p] = [NoPrefetch EXCEPT !.i = 1]]
  /\ UNCHANGED <<browser, request, position, served, header, args, held, process, history>>

-----------------------------------------------------------------------------
(* A prefetcher.                                                           *)

Goto(p, label) == at' = [at EXCEPT ![p] = label]

\* The call of getPrefetchOffset passes the offset by value ...
ReadOffset(p) ==
  /\ at[p] = "begin"
  /\ local' = [local EXCEPT ![p].offset = args.offset]
  /\ Goto(p, "look")
  /\ UNCHANGED <<browser, request, position, streamer, args, held, process, history>>

\* Broken variant: the search may end behind the last block.
FirstMissingPastEnd(v, offset) ==
  LET from == BlockAt(offset)
  IN  IF from > NumBlocks(v) THEN -1
      ELSE FirstHole(NumBlocks(v), HeldOf(v), from) * BlockSize

\* The first block from the offset on that is missing, or -1.
FirstMissing(v, offset) ==
  LET from == BlockAt(offset)
  IN  IF from >= NumBlocks(v) \/ from..(NumBlocks(v) - 1) \subseteq HeldOf(v) THEN -1
      ELSE FirstHole(NumBlocks(v), HeldOf(v), from) * BlockSize

\* ... and the name by address: it is read when the lock is held.  "Could not
\* find file!" is -1, too.
getPrefetchOffset(p) ==
  /\ at[p] = "look"
  /\ LET found == IF args.name \in Video THEN FirstMissing(args.name, local[p].offset) ELSE -1
     IN  /\ local' = [local EXCEPT ![p].offset = 0, ![p].startoffset = found]
         /\ Goto(p, IF found = -1 THEN "advance" ELSE "call")
  /\ UNCHANGED <<browser, request, position, streamer, args, held, process, history>>

\* getBlock makes a string of whatever the name is by now.
CallGetBlock(p) ==
  /\ at[p] = "call"
  /\ local' = [local EXCEPT ![p].name = args.name]
  /\ Goto(p, "getBlock")
  /\ UNCHANGED <<browser, request, position, streamer, args, held, process, history>>

\* getVideoLength of a name that nobody gave to a video ends the process, or
\* it gives a length, and a block of some bytes.  An offset behind the end of
\* the video is hasBlock's abort, and getBlock has its other ends here, too.  The
\* number of bytes goes to args.
PrefetchBlock(p) ==
  /\ at[p] = "getBlock"
  /\ LET v     == local[p].name
         start == local[p].startoffset
     IN  \/ v = Torn /\ Die("exited")
         \/ /\ v = Torn
            /\ \E bytes \in 1..BlockSize : args' = [args EXCEPT !.bsize = bytes]
            /\ Goto(p, "advance")
            /\ UNCHANGED <<browser, request, position, streamer, local, held, process, history>>
         \/ v # Torn /\ ~HasBlockAt(v, start) /\ Die("aborted")
         \/ GetBlockFails(v, start)
         \/ /\ v # Torn /\ HasBlockAt(v, start)
            /\ held' \in Fetched(v, BlockAt(start))
            /\ args' = [args EXCEPT !.bsize = Rest(v, start)]
            /\ Goto(p, "advance")
            /\ UNCHANGED <<browser, request, position, streamer, local, process, history>>

\* The next round, some blocks further, or the end of the thread.
Advance(p) ==
  /\ at[p] = "advance"
  /\ \E jump \in Ahead :
       args' = [args EXCEPT !.offset = local[p].startoffset + jump * args.bsize]
  /\ IF local[p].i = 2
     THEN Goto(p, "idle") /\ local' = [local EXCEPT ![p] = NoPrefetch]
     ELSE Goto(p, "begin") /\ local' = [local EXCEPT ![p] = [NoPrefetch EXCEPT !.i = 2]]
  /\ UNCHANGED <<browser, request, position, streamer, held, process, history>>

prefetcher(p) ==
  \/ ReadOffset(p) \/ getPrefetchOffset(p) \/ CallGetBlock(p) \/ PrefetchBlock(p) \/ Advance(p)

-----------------------------------------------------------------------------
Browser == Jump \/ AskWithoutRange \/ PlayFromHere \/ AskForMore \/ Close

handleStreaming ==
  \/ Spin \/ RecvRequest \/ RecvWithoutRange \/ GetBlock \/ SendAnswer
  \/ WriteArgs \/ CreatePrefetcher

Running ==
  \/ Browser \/ handleStreaming
  \/ \E p \in Prefetcher : prefetcher(p)

\* A process that has ended takes no step.
Next == process = "running" /\ Running

Spec == Init /\ [][Next]_vars

\* Fairness: the threads go on, and a browser that plays asks for more.
Fairness ==
  /\ WF_vars(process = "running" /\ handleStreaming)
  /\ \A p \in Prefetcher : WF_vars(process = "running" /\ prefetcher(p))
  /\ WF_vars(process = "running" /\ browser = "playing" /\ AskForMore)

FairSpec == Spec /\ Fairness

-----------------------------------------------------------------------------
(* Properties.                                                             *)

Bytes == 0..BlockSize

\* Type invariant.  The cache holds blocks that the videos have.
TypeOK ==
  /\ browser \in {"seeking", "playing", "closed"}
  /\ request \in SUBSET [video : Video, start : Nat \cup {NoRange}]
  /\ position \in [video : Video, start : Nat]
  /\ pc \in {"recv", "spin", "getBlock", "send", "name", "nameEnd", "offset", "bsize", "create"}
  /\ served \in [video : Video, start : Nat, bytes : Bytes]
  /\ header \subseteq Nat
  /\ args \in [name : Video \cup {Torn}, offset : Int, bsize : Bytes]
  /\ at \in [Prefetcher -> {"idle", "begin", "look", "call", "getBlock", "advance"}]
  /\ local \in [Prefetcher -> [i : 0..2, offset : Int, startoffset : Int, name : Video \cup {Torn}]]
  /\ held \subseteq Blocks
  /\ process \in {"running", "exited", "aborted", "crashed", "failed"}
  /\ asked \subseteq Video /\ beyond \in BOOLEAN

\* As long as one video is asked for, whatever the threads overwrite of each
\* other's args, a prefetcher calls getBlock for that video, and for a byte that
\* it has.
PrefetchInsideVideo ==
  OneOf(asked) =>
    \A p \in Prefetcher :
      at[p] = "getBlock" =>
        /\ local[p].name \in asked
        /\ local[p].startoffset \in 0..(FileSize[local[p].name] - 1)

\* hasBlock aborts on a block behind the last one, and a name of no video ends
\* the process, only on a connection that has asked for two videos, or for a
\* byte behind the end of one.
OneVideoGoesOn == process \in {"aborted", "exited"} => ~OneOf(asked) \/ beyond

\* A browser that plays on gets the rest of the video, each byte asked for at
\* the end of what came before, unless a block cannot be had (the ends of
\* getBlock itself), or two videos were mixed or a byte behind the end asked for
\* on the connection, and that ends the process.
PlaysToEnd ==
  browser = "playing"
    ~> \/ position.start >= FileSize[position.video]
       \/ process = "failed"
       \/ process # "running" /\ (~OneOf(asked) \/ beyond)

=============================================================================
