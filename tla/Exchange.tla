------------------------------ MODULE Exchange ------------------------------
(***************************************************************************)
(* Clients that fetch blocks from each other (getBlock, peerWithBlock and  *)
(* sendBlock in common.cpp, main and fileTransfer in client.cpp), by what  *)
(* the tracker told them of each other some time ago.                      *)
(*                                                                         *)
(* A client is a process that is started once.  What getBlock does in one  *)
(* stretch of client_mutex is one step here: BlockCache has its detail,    *)
(* and Tracker that of the conversation with the tracker, with the entries *)
(* it may make up and the answers it may owe for ever.  A block stands     *)
(* for a video of one block, since handleCache never makes room by taking  *)
(* blocks of the video that is being fetched.                              *)
(*                                                                         *)
(* A thread is known by whom it works for.  <<c, c, b>> fetches block b    *)
(* for the browser of client c (the streamer or a prefetcher); <<p, c, b>> *)
(* is the fileTransfer thread that p runs for the fetch of b by c, of      *)
(* which there is one at a time, since c marks b as being downloaded.      *)
(***************************************************************************)
EXTENDS Naturals, FiniteSets

CONSTANTS
  Client,        \* the clients, each at an address of its own
  Block,         \* the blocks
  Wanted,        \* what the browsers ask for: pairs of a client and a block
  Leaving        \* bound: the clients that may quit or crash

ASSUME BoundsAssumption == Wanted \subseteq Client \X Block /\ Leaving \subseteq Client

VARIABLES
  phase,         \* how far main is; "quit": gone, its QUIT is on its way;
                 \* "unlisted": gone, its QUIT has been handled
  tracker,       \* "up" or "dead"
  held,          \* the blocks each client has in its cache
  listed,        \* the tracker's list, as pairs of a client and a block
  peers,         \* Client::peers: what each client was told of that list
  pc,            \* where each thread is
  asked,         \* whom it asks for the block; its own client when nobody
  dropped        \* history: the blocks each client has evicted so far

vars == <<phase, tracker, held, listed, peers, pc, asked, dropped>>

Thread == Client \X Client \X Block

At(t)  == t[1]
For(t) == t[2]
Blk(t) == t[3]

Init ==
  /\ phase = [c \in Client |-> "off"]
  /\ tracker = "up"
  /\ held \in [Client -> SUBSET Block]
  /\ listed = {}
  /\ peers = [c \in Client |-> {}]
  /\ pc = [t \in Thread |-> "idle"]
  /\ asked = [t \in Thread |-> At(t)]
  /\ dropped = [c \in Client |-> {}]

-----------------------------------------------------------------------------
(* main and the tracker threads.                                           *)

Up(c) == phase[c] \in {"started", "listening"}

Entries(c, S) == {c} \X S

Others(c, list) == { e \in list : e[1] # c }

\* The end of a process, with its threads.  Its cache stays on disk.
End(c, how) ==
  /\ phase' = [phase EXCEPT ![c] = how]
  /\ pc' = [t \in Thread |-> IF At(t) = c THEN "idle" ELSE pc[t]]
  /\ asked' = [t \in Thread |-> IF At(t) = c THEN c ELSE asked[t]]
  /\ peers' = [peers EXCEPT ![c] = {}]
  /\ UNCHANGED <<tracker, held, listed, dropped>>

\* initialize has read the cache; registerWithTracker and the first
\* queryTracker, which leaves out the entry of the client itself.  Then the
\* streaming and tracker threads are created ...  Without a tracker: exit(1).
Start(c) ==
  /\ phase[c] = "off"
  /\ \/ /\ tracker = "up"
        /\ phase' = [phase EXCEPT ![c] = "started"]
        /\ listed' = listed \cup Entries(c, held[c])
        /\ peers' = [peers EXCEPT ![c] = Others(c, listed)]
        /\ UNCHANGED <<tracker, held, pc, asked, dropped>>
     \/ tracker = "dead" /\ End(c, "ended")

\* ... before bindToPort and listen.
Listen(c) ==
  /\ phase[c] = "started"
  /\ phase' = [phase EXCEPT ![c] = "listening"]
  /\ UNCHANGED <<tracker, held, listed, peers, pc, asked, dropped>>

\* Broken variant: the own entry is not left out.
handleQueryAll(c) ==
  /\ Up(c) /\ tracker = "up"
  /\ peers' = [peers EXCEPT ![c] = listed]
  /\ UNCHANGED <<phase, tracker, held, listed, pc, asked, dropped>>

\* Of a dead tracker, handleQuery waits for the answer for ever.
handleQuery(c) ==
  /\ Up(c) /\ tracker = "up"
  /\ peers' = [peers EXCEPT ![c] = Others(c, listed)]
  /\ UNCHANGED <<phase, tracker, held, listed, pc, asked, dropped>>

handleUpdate(c) ==
  /\ Up(c) /\ tracker = "up"
  /\ listed' = Others(c, listed) \cup Entries(c, held[c])
  /\ UNCHANGED <<phase, tracker, held, peers, pc, asked, dropped>>

\* The signal handler sends a QUIT and exits.
Quit(c) == Up(c) /\ c \in Leaving /\ End(c, "quit")

\* Broken variant: the tracker keeps the entry of a client that quit.
UnlistNothing(c) ==
  /\ phase[c] = "quit" /\ tracker = "up"
  /\ phase' = [phase EXCEPT ![c] = "unlisted"]
  /\ UNCHANGED <<tracker, held, listed, peers, pc, asked, dropped>>

\* The QUIT reaches the tracker whole.
Unlist(c) ==
  /\ phase[c] = "quit" /\ tracker = "up"
  /\ phase' = [phase EXCEPT ![c] = "unlisted"]
  /\ listed' = Others(c, listed)
  /\ UNCHANGED <<tracker, held, peers, pc, asked, dropped>>

\* Or it is lost with the connection, or the tracker takes it for something
\* else.  The entry stays.
QuitLost(c) ==
  /\ phase[c] = "quit"
  /\ phase' = [phase EXCEPT ![c] = "ended"]
  /\ UNCHANGED <<tracker, held, listed, peers, pc, asked, dropped>>

\* Killed, or ended by what is left out here: ten failed downloads, an eighth
\* connection, for which client_threads has no room.  The entry stays.
Crash(c) == Up(c) /\ c \in Leaving /\ End(c, "ended")

\* One of the misread packets and broken connections of Tracker.
TrackerDies ==
  /\ tracker = "up"
  /\ tracker' = "dead"
  /\ UNCHANGED <<phase, held, listed, peers, pc, asked, dropped>>

-----------------------------------------------------------------------------
(* getBlock.                                                               *)

Goto(t, label) == pc' = [pc EXCEPT ![t] = label]

FetchAt == {"connect", "recv", "unserved", "spin", "source", "store"}

\* The threads at t's client that download t's block: its mark is theirs.
Fetchers(t) == { u \in Thread : At(u) = At(t) /\ Blk(u) = Blk(t) /\ pc[u] \in FetchAt }

Marked(t) == Fetchers(t) # {}

Held(t) == Blk(t) \in held[At(t)]

\* Another thread downloads the block: sleep, and look again until it is done.
Wait(t) ==
  /\ Marked(t)
  /\ Goto(t, "wait")
  /\ UNCHANGED <<phase, tracker, held, listed, peers, asked, dropped>>

\* Broken variant: whoever is listed will do.
PeersWithAny(t) == { p \in Client : \E b \in Block : <<p, b>> \in peers[At(t)] }

\* peerWithBlock takes one of these.
PeersWithBlock(t) == { p \in Client : <<p, Blk(t)>> \in peers[At(t)] }

\* Mark the block, make room for it, by evicting none or any of the others,
\* and choose a peer that should have it, or else the source.
Miss(t) ==
  /\ ~Marked(t) /\ ~Held(t)
  /\ \E gone \in SUBSET held[At(t)] :
       /\ held' = [held EXCEPT ![At(t)] = @ \ gone]
       /\ dropped' = [dropped EXCEPT ![At(t)] = @ \cup gone]
  /\ \/ \E p \in PeersWithBlock(t) :
          Goto(t, "connect") /\ asked' = [asked EXCEPT ![t] = p]
     \/ PeersWithBlock(t) = {} /\ Goto(t, "source") /\ UNCHANGED asked
  /\ UNCHANGED <<phase, tracker, listed, peers>>

\* The browser, or a prefetcher, wants a block that is not in the cache.
Call(t) ==
  /\ For(t) = At(t) /\ <<At(t), Blk(t)>> \in Wanted /\ Up(At(t)) /\ pc[t] = "idle"
  /\ Wait(t) \/ Miss(t)

\* getBlock in a thread that has been asked by a peer.
Look(t) == pc[t] = "look" /\ (Wait(t) \/ Miss(t))

\* The threads that receive what t sends: none when its client is gone.
Receivers(t) ==
  { u \in Thread : /\ At(u) = For(t) /\ Blk(u) = Blk(t)
                   /\ pc[u] = "recv" /\ asked[u] = At(t) }

\* Broken variant: a block that had to be fetched first is not sent.
ReturnHitsOnly(t) ==
  pc' = [u \in Thread |->
           IF u = t THEN "idle"
           ELSE IF u \in Receivers(t) /\ pc[t] = "look" THEN "store"
           ELSE pc[u]]

\* getBlock returns, to the browser's thread or to sendBlock, which sends the
\* block, with which the thread of the connection ends.
Return(t) ==
  pc' = [u \in Thread |->
           IF u = t THEN "idle"
           ELSE IF u \in Receivers(t) THEN "store"
           ELSE pc[u]]

Hit(t) ==
  /\ pc[t] \in {"look", "wait"} /\ ~Marked(t) /\ Held(t)
  /\ Return(t)
  /\ UNCHANGED <<phase, tracker, held, listed, peers, asked, dropped>>

\* "Should have been in cache!"
WaitedInVain(t) ==
  /\ pc[t] = "wait" /\ ~Marked(t) /\ ~Held(t)
  /\ End(At(t), "ended")

\* The fileTransfer thread for the connection of t.
Server(t) == <<asked[t], At(t), Blk(t)>>

\* connectToHost.  main of the peer creates a fileTransfer thread for the
\* connection; if it cannot, it leaves the connection as it is.
Connect(t) ==
  /\ pc[t] = "connect" /\ phase[asked[t]] = "listening"
  /\ \/ pc' = [pc EXCEPT ![t] = "recv", ![Server(t)] = "look"]
     \/ Goto(t, "unserved")
  /\ UNCHANGED <<phase, tracker, held, listed, peers, asked, dropped>>

\* "Could not connect to host": exit(1).
Refused(t) ==
  /\ pc[t] = "connect" /\ phase[asked[t]] # "listening"
  /\ End(At(t), "ended")

\* The peer is gone.  An orderly close makes recv return 0 for ever; a reset
\* makes it fail, and the block comes from the source.
PeerEnds(t) ==
  /\ pc[t] \in {"recv", "unserved"} /\ phase[asked[t]] # "listening"
  /\ Goto(t, "spin") \/ Goto(t, "source")
  /\ UNCHANGED <<phase, tracker, held, listed, peers, asked, dropped>>

\* The source, or the peer, has sent the block.
Store(t) ==
  /\ pc[t] \in {"source", "store"}
  /\ held' = [held EXCEPT ![At(t)] = @ \cup {Blk(t)}]
  /\ Return(t)
  /\ asked' = [asked EXCEPT ![t] = At(t)]
  /\ UNCHANGED <<phase, tracker, listed, peers, dropped>>

-----------------------------------------------------------------------------
getBlock(t) ==
  \/ Look(t) \/ Hit(t) \/ WaitedInVain(t) \/ Connect(t) \/ Refused(t)
  \/ PeerEnds(t) \/ Store(t)

Next ==
  \/ \E c \in Client :
       \/ Start(c) \/ Listen(c) \/ handleQuery(c) \/ handleUpdate(c)
       \/ Quit(c) \/ Unlist(c) \/ QuitLost(c) \/ Crash(c)
  \/ \E t \in Thread : Call(t) \/ getBlock(t)
  \/ TrackerDies

Spec == Init /\ [][Next]_vars

\* Fairness: as long as there is a tracker, it answers handleQuery, which asks
\* every 3 s.  No QUIT has to reach it.
Fairness == \A c \in Client : WF_vars(handleQuery(c))

FairSpec == Spec /\ Fairness

-----------------------------------------------------------------------------
(* Properties.                                                             *)

\* Type invariant.  No client is a peer of itself.
TypeOK ==
  /\ phase \in [Client -> {"off", "started", "listening", "quit", "unlisted", "ended"}]
  /\ tracker \in {"up", "dead"}
  /\ held \in [Client -> SUBSET Block]
  /\ listed \in SUBSET (Client \X Block)
  /\ peers \in [Client -> SUBSET (Client \X Block)]
  /\ \A c \in Client : peers[c] = Others(c, peers[c])
  /\ pc \in [Thread -> {"idle", "look", "wait"} \cup FetchAt]
  /\ asked \in [Thread -> Client]
  /\ dropped \in [Client -> SUBSET Block]

\* The threads t cannot go on without: the fileTransfer thread it receives
\* from, or the download it waits for.
WaitsFor(t) ==
  IF pc[t] = "recv" THEN { u \in Thread : u = Server(t) }
  ELSE IF pc[t] = "wait" THEN Fetchers(t)
  ELSE {}

\* Threads each of which waits for one of them and is waited for by one of
\* them: nobody times out, so they wait for ever.
Circle(S) ==
  /\ S # {}
  /\ \A t \in S : WaitsFor(t) \cap S # {} /\ \E u \in S : t \in WaitsFor(u)

\* Clients wait for each other in a circle, across their connections, only
\* for a block that every one of them had, announced and then evicted: as long
\* as one keeps it, none of the requests of the others leads back to its start.
CircleMeansDropped ==
  \A S \in SUBSET { t \in Thread : WaitsFor(t) # {} } :
    Circle(S) => \A t \in S : Blk(t) \in dropped[At(t)]

\* No request is forgotten but by a main that could make no thread: as long as
\* the peer runs, a thread of it is at work on the block for which the client
\* waits on the connection, whether that thread found it, fetches it in turn
\* or waits for somebody else's fetch; and where main made none, no thread that
\* was made for an earlier connection is at work on it either.
AnswerIsOwed ==
  \A t \in Thread :
    pc[t] \in {"recv", "unserved"} /\ phase[asked[t]] = "listening" =>
      (pc[t] = "unserved" <=> pc[Server(t)] = "idle")

\* A client whose QUIT the tracker has handled is out of everybody's list some
\* day, and stays out, so that nobody is refused by it any more, as long as
\* there is a tracker to ask.
QuitIsNoticed ==
  \A c \in Client :
    phase[c] = "unlisted" ~>
      \/ tracker = "dead"
      \/ [](\A d \in Client : Up(d) => \A b \in Block : <<c, b>> \notin peers[d])

=============================================================================
