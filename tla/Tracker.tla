------------------------------- MODULE Tracker -------------------------------
(***************************************************************************)
(* The tracker (tracker.cpp) and the clients' conversation with it         *)
(* (registerWithTracker, updateOnTracker, queryTracker and disconnect in   *)
(* common.cpp, and their callers in client.cpp).                           *)
(*                                                                         *)
(* A client is an IP address with a port.  Every start of it is a process  *)
(* with a connection of its own, and the tracker has a thread for each     *)
(* connection, which goes on after the process is gone.                    *)
(*                                                                         *)
(* A packet is a header, which has the operation and the length of what    *)
(* follows, and a body: two sends, between which a signal may come.  The   *)
(* packet of TRACKER_OP_QUIT is shorter than the body of any other, and a  *)
(* query has no body.                                                      *)
(***************************************************************************)
EXTENDS Naturals, SequencesExt

CONSTANTS
  Client,        \* the clients: an address and a port each
  Garbage,       \* an address and port that are nobody's
  AddressOf,     \* the IP address of each
  Starts,        \* bound: how often each client is started
  Signalled,     \* bound: the clients that may get SIGINT or SIGTERM
  Crashing,      \* bound: the clients that may crash
  Breaking,      \* bound: the clients that may lose a peer in mid-block
  Holding,       \* what each client may have in its cache: a set
  Garbled,       \* bound: the entries RecvFails may make of no packet at all
  SocketRoom     \* bound: how many parts of packets a connection buffers

ASSUME ClientsAssumption ==
  /\ Garbage \notin Client
  /\ DOMAIN AddressOf = Client \cup {Garbage}
  /\ Starts \in [Client -> Nat]
  /\ Signalled \subseteq Client /\ Crashing \subseteq Client
  /\ Breaking \subseteq Client
  /\ DOMAIN Holding = Client
  /\ \A c \in Client : Holding[c] # {}

Proc == UNION { {c} \X (1..Starts[c]) : c \in Client }

Op == {"REGISTER", "QUERY", "UPDATE", "QUIT"}

\* What the tracker keeps of a client.
Files == UNION { Holding[c] : c \in Client }

Entry == [client : Client \cup {Garbage}, files : Files]

ASSUME GarbledAssumption == Garbled \subseteq Entry /\ Garbled # {}

IP(e) == AddressOf[e.client]

\* Stands for the cache contents of a process that does not run.
NoFiles(c) == CHOOSE h \in Holding[c] : TRUE

Header(op) == [part |-> "header", op |-> op]

Body(op, e) == [part |-> "body", op |-> op, entry |-> e]

Parts == { Header(op) : op \in Op } \cup { Body(op, e) : op \in Op, e \in Entry }

VARIABLES
  p2pnodes,      \* the tracker's clients, in the order they registered
  tracker,       \* "up" or "dead"
  handler,       \* what the thread of each connection waits for, or "reply";
                 \* "lost" when the next header begins in the middle of a part
  snapshot,      \* what that thread has serialized for its client
  toTracker,     \* parts sent and not yet received
  reply,         \* the answer that is sent and not yet received: none or one
  broken,        \* "reset" when the next recv of the handler fails for it
  phase,         \* where each client process is
  unsent,        \* the update it has sent the header of: none or one
  lock,          \* "whole", or "broken" when client_mutex excludes nobody
  quit,          \* how far its signal handler is
  files,         \* what it has in its cache
  peers          \* what it knows of the others

conns == <<handler, snapshot, toTracker, reply, broken>>
procs == <<phase, unsent, lock, quit, files, peers>>
vars  == <<p2pnodes, tracker, conns, procs>>

Init ==
  /\ p2pnodes = <<>>
  /\ tracker = "up"
  /\ handler = [p \in Proc |-> "header"]
  /\ snapshot = [p \in Proc |-> {}]
  /\ toTracker = [p \in Proc |-> <<>>]
  /\ reply = [p \in Proc |-> {}]
  /\ broken = [p \in Proc |-> "no"]
  /\ phase = [p \in Proc |-> "new"]
  /\ unsent = [p \in Proc |-> {}]
  /\ lock = [p \in Proc |-> "whole"]
  /\ quit = [p \in Proc |-> "none"]
  /\ files = [p \in Proc |-> NoFiles(p[1])]
  /\ peers = [p \in Proc |-> {}]

-----------------------------------------------------------------------------
(* The client.                                                             *)

Running(p) == phase[p] \notin {"new", "ended"}

Announced(p) == [client |-> p[1], files |-> files[p]]

\* Broken variant: what the socket has no room for is not sent.
SendOnce(p, part) ==
  toTracker' = [toTracker EXCEPT ![p] =
                  IF tracker = "up" /\ Len(@) < SocketRoom THEN Append(@, part) ELSE @]

\* Sends block on a full socket.  Nobody looks at the result: what is sent to
\* a dead tracker is lost (SIGPIPE is ignored).
Send(p, part) ==
  IF tracker = "up"
  THEN /\ Len(toTracker[p]) < SocketRoom
       /\ toTracker' = [toTracker EXCEPT ![p] = Append(@, part)]
  ELSE UNCHANGED toTracker

\* main: read the cache directory and connect, or exit without a tracker.
Start(p) ==
  /\ phase[p] = "new"
  /\ p[2] > 1 => phase[<<p[1], p[2] - 1>>] = "ended"
  /\ IF tracker = "up"
     THEN /\ phase' = [phase EXCEPT ![p] = "register"]
          /\ \E h \in Holding[p[1]] : files' = [files EXCEPT ![p] = h]
     ELSE /\ phase' = [phase EXCEPT ![p] = "ended"]
          /\ UNCHANGED files
  /\ UNCHANGED <<p2pnodes, tracker, conns, unsent, lock, quit, peers>>

\* A thread of p sends a part and goes on from one phase to the other.  Until
\* its first query is answered a client has one thread, which does nothing
\* else while it runs the signal handler.
SendFrom(p, from, part, to) ==
  /\ phase[p] = from
  /\ from \in {"register", "registerBody", "firstQuery"} => quit[p] = "none"
  /\ Send(p, part)
  /\ phase' = [phase EXCEPT ![p] = to]
  /\ UNCHANGED <<p2pnodes, tracker, handler, snapshot, reply, broken,
                 unsent, lock, quit, files, peers>>

registerWithTracker(p) ==
  \/ SendFrom(p, "register", Header("REGISTER"), "registerBody")
  \/ SendFrom(p, "registerBody", Body("REGISTER", Announced(p)), "firstQuery")

\* queryTracker skips the entry that has its own address and port.
WithoutSelf(p, nodes) == { e \in nodes : e.client # p[1] }

\* What comes after a thread has got client_mutex.
Locked(p, A) == lock[p] = "whole" => A

\* Once in main and then every 3 s in handleQuery, which holds the lock from
\* the header of the question to the end of the answer.
queryTracker(p) ==
  \/ SendFrom(p, "firstQuery", Header("QUERY"), "firstAnswer")
  \/ /\ Locked(p, unsent[p] = {})
     /\ SendFrom(p, "idle", Header("QUERY"), "answer")
  \/ /\ phase[p] \in {"firstAnswer", "answer"}
     /\ phase[p] = "firstAnswer" => quit[p] = "none"
     /\ reply[p] # {}
     /\ peers' = [peers EXCEPT ![p] = WithoutSelf(p, UNION reply[p])]
     /\ reply' = [reply EXCEPT ![p] = {}]
     /\ phase' = [phase EXCEPT ![p] = "idle"]
     /\ UNCHANGED <<p2pnodes, tracker, handler, snapshot, toTracker, broken,
                    unsent, lock, quit, files>>

\* The threads of a client run from its first answer to its end.
Threaded(p) == phase[p] \in {"idle", "answer"}

\* What serialize reads: the files, or some mixture of old and new ones when
\* they are written meanwhile.
Serializes(p) ==
  { [client |-> p[1], files |-> h] :
      h \in IF lock[p] = "whole" THEN {files[p]} ELSE Holding[p[1]] }

\* Every 3 s in handleUpdate, which holds the lock for both parts.
updateOnTracker(p) ==
  \/ /\ Threaded(p) /\ unsent[p] = {} /\ Locked(p, phase[p] = "idle")
     /\ Send(p, Header("UPDATE"))
     /\ \E e \in Serializes(p) : unsent' = [unsent EXCEPT ![p] = {e}]
     /\ UNCHANGED <<p2pnodes, tracker, handler, snapshot, reply, broken,
                    phase, lock, quit, files, peers>>
  \/ /\ \E e \in unsent[p] : Send(p, Body("UPDATE", e))
     /\ unsent' = [unsent EXCEPT ![p] = {}]
     /\ UNCHANGED <<p2pnodes, tracker, handler, snapshot, reply, broken,
                    phase, lock, quit, files, peers>>

\* getBlock and handleCache change what there is in the cache.
CacheChanges(p) ==
  /\ Threaded(p) /\ Locked(p, phase[p] = "idle" /\ unsent[p] = {})
  /\ \E h \in Holding[p[1]] \ {files[p]} : files' = [files EXCEPT ![p] = h]
  /\ UNCHANGED <<p2pnodes, tracker, conns, phase, unsent, lock, quit, peers>>

\* A peer, of this list or an earlier one, leaves in the middle of a block:
\* getBlock goes on to download it and unlocks client_mutex a second time,
\* whoever holds it then.
PeerBreaks(p) ==
  /\ Threaded(p) /\ p[1] \in Breaking /\ lock[p] = "whole"
  /\ lock' = [lock EXCEPT ![p] = "broken"]
  /\ UNCHANGED <<p2pnodes, tracker, conns, phase, unsent, quit, files, peers>>

\* A reset connection: the tracker's next recv fails, and what is on its way
\* to the tracker may be lost from some part on.
Reset(p) ==
  /\ broken' = [broken EXCEPT ![p] = "reset"]
  /\ \E k \in 0..Len(toTracker[p]) :
       toTracker' = [toTracker EXCEPT ![p] = SubSeq(@, 1, k)]

\* The end of a process closes its connection, which is reset when there is
\* an answer unread.
End(p) ==
  /\ phase' = [phase EXCEPT ![p] = "ended"]
  /\ IF reply[p] # {} THEN Reset(p) ELSE UNCHANGED <<broken, toTracker>>
  /\ reply' = [reply EXCEPT ![p] = {}]
  /\ files' = [files EXCEPT ![p] = NoFiles(p[1])]
  /\ peers' = [peers EXCEPT ![p] = {}]
  /\ unsent' = [unsent EXCEPT ![p] = {}]
  /\ UNCHANGED <<p2pnodes, tracker, handler, snapshot, lock, quit>>

\* SIGINT or SIGTERM: disconnect sends a packet of two parts, whatever the
\* threads are sending; then exit(0).
Signal(p) ==
  \/ /\ Running(p) /\ quit[p] = "none" /\ p[1] \in Signalled
     /\ Send(p, Header("QUIT"))
     /\ quit' = [quit EXCEPT ![p] = "body"]
     /\ UNCHANGED <<p2pnodes, tracker, handler, snapshot, reply, broken,
                    phase, unsent, lock, files, peers>>
  \/ /\ Running(p) /\ quit[p] = "body"
     /\ Send(p, Body("QUIT", Announced(p)))
     /\ quit' = [quit EXCEPT ![p] = "sent"]
     /\ UNCHANGED <<p2pnodes, tracker, handler, snapshot, reply, broken,
                    phase, unsent, lock, files, peers>>
  \/ Running(p) /\ quit[p] = "sent" /\ End(p)

\* exit(1) or abort in some other thread, or a kill.
Crash(p) == Running(p) /\ p[1] \in Crashing /\ End(p)

-----------------------------------------------------------------------------
(* The tracker: the list of clients, which _mutex protects.                *)

HasEntry(a) == \E i \in DOMAIN p2pnodes : IP(p2pnodes[i]) = a

getClientIdxByIP(a) ==
  CHOOSE i \in DOMAIN p2pnodes :
    IP(p2pnodes[i]) = a /\ \A j \in 1..(i - 1) : IP(p2pnodes[j]) # a

\* Broken variant: no look for an entry with the address.
RegisterTwice(e) == p2pnodes' = Append(p2pnodes, e)

\* "Duplicate entry!": an address is registered once, whatever the port.
client_register(e) ==
  p2pnodes' = IF HasEntry(IP(e)) THEN p2pnodes ELSE Append(p2pnodes, e)

\* Broken variant: an entry is not replaced.
UpdateNothing(e) == UNCHANGED p2pnodes

\* "Invalid client!": an address that has no entry gets none.
update(e) ==
  p2pnodes' = IF HasEntry(IP(e))
              THEN [p2pnodes EXCEPT ![getClientIdxByIP(IP(e))] = e]
              ELSE p2pnodes

\* Broken variant: the entry stays.
DeleteNothing(a) == UNCHANGED p2pnodes

deleteClient(a) ==
  p2pnodes' = IF HasEntry(a) THEN RemoveAt(p2pnodes, getClientIdxByIP(a)) ELSE p2pnodes

\* Broken variant: the loop over the clients ends one too early.
SerializedButLast == { p2pnodes[i] : i \in 1..(Len(p2pnodes) - 1) }

\* What a client finds in an answer.  Tracker::serialize collects the clients
\* in a map from heap addresses, so that they come in any order.
Serialized == { p2pnodes[i] : i \in DOMAIN p2pnodes }

-----------------------------------------------------------------------------
(* handleClient, the thread of the connection of p.                        *)

Dies ==
  /\ tracker' = "dead"
  /\ UNCHANGED <<p2pnodes, conns, procs>>

\* The parts that are there, when the tracker lives.
Arrived(p) == IF tracker = "up" THEN toTracker[p] ELSE <<>>

Expects(p, part) ==
  IF handler[p] = "header"
  THEN part.part = "header"
  ELSE part.part = "body" /\ part.op = handler[p]

\* Broken variant: a query is followed by a body as its header says.
AfterHeaderAlways(op) == op

AfterHeader(op) == IF op = "QUERY" THEN "serialize" ELSE op

RecvHeader(p) ==
  /\ Arrived(p) # <<>> /\ handler[p] = "header" /\ Expects(p, Head(toTracker[p]))
  /\ handler' = [handler EXCEPT ![p] = AfterHeader(Head(toTracker[p]).op)]
  /\ toTracker' = [toTracker EXCEPT ![p] = Tail(@)]
  /\ UNCHANGED <<p2pnodes, tracker, snapshot, reply, broken, procs>>

\* An operation on the list, under _mutex.
Operation(op, e) ==
  \/ op = "REGISTER" /\ client_register(e)
  \/ op = "UPDATE"   /\ update(e)
  \/ op = "QUIT"     /\ deleteClient(IP(e))

\* The body has come.
RecvBody(p) ==
  /\ Arrived(p) # <<>> /\ handler[p] \in Op /\ Expects(p, Head(toTracker[p]))
  /\ Operation(handler[p], Head(toTracker[p]).entry)
  /\ handler' = [handler EXCEPT ![p] = "header"]
  /\ toTracker' = [toTracker EXCEPT ![p] = Tail(@)]
  /\ UNCHANGED <<tracker, snapshot, reply, broken, procs>>

\* The answer is made under _mutex and sent after it is released.
Serialize(p) ==
  /\ tracker = "up" /\ handler[p] = "serialize"
  /\ snapshot' = [snapshot EXCEPT ![p] = Serialized]
  /\ handler' = [handler EXCEPT ![p] = "reply"]
  /\ UNCHANGED <<p2pnodes, tracker, toTracker, reply, broken, procs>>

\* A client that is gone resets the connection; the second send may then
\* raise SIGPIPE, which the tracker does not handle.
Reply(p) ==
  /\ tracker = "up" /\ handler[p] = "reply"
  /\ \/ /\ handler' = [handler EXCEPT ![p] = "header"]
        /\ snapshot' = [snapshot EXCEPT ![p] = {}]
        /\ IF phase[p] = "ended"
           THEN Reset(p) /\ UNCHANGED reply
           ELSE reply' = [reply EXCEPT ![p] = {snapshot[p]}] /\ UNCHANGED <<broken, toTracker>>
        /\ UNCHANGED <<p2pnodes, tracker, procs>>
     \/ phase[p] = "ended" /\ Dies

\* What has come is out of step, and is as long as the body that is expected:
\* another header and some more are, for a QUIT.
OutOfStep(p) ==
  /\ handler[p] \in Op /\ Len(Arrived(p)) > 1
  /\ ~Expects(p, Head(toTracker[p]))
  /\ \/ handler[p] = "QUIT"
     \/ \E i \in 2..Len(toTracker[p]) :
          toTracker[p][i].part = "body" /\ toTracker[p][i].op = handler[p]

\* The rest of a part is taken for a header; of another header too little is
\* left, and what comes next belongs to it.
Rest(s) == IF s[2].part = "header" THEN Tail(Tail(s)) ELSE Tail(s)

\* For the body of a QUIT the handler takes a header and some of the next
\* part: an address nobody has.
QuitMisread(p) ==
  /\ OutOfStep(p) /\ handler[p] = "QUIT"
  /\ handler' = [handler EXCEPT ![p] = "lost"]
  /\ toTracker' = [toTracker EXCEPT ![p] = Rest(@)]
  /\ UNCHANGED <<p2pnodes, tracker, snapshot, reply, broken, procs>>

\* A REGISTER or UPDATE body begins with a QUIT packet or the header of a
\* query: the length of the address and what follows are wrong.
BodyMisread(p) ==
  /\ OutOfStep(p) /\ handler[p] # "QUIT"
  /\ Dies

\* A length made of letters: the array data is larger than the stack.
HeaderMisread(p) ==
  /\ Arrived(p) # <<>> /\ handler[p] \in {"header", "lost"}
  /\ ~Expects(p, Head(toTracker[p]))
  /\ Dies

\* What has come is all there will be: too little for the body.
TooShort(p) ==
  handler[p] \in Op /\ ~OutOfStep(p) /\ ~Expects(p, Head(toTracker[p]))

\* The result of recv is not looked at.  After a failed one the header is all
\* zeros, TRACKER_OP_REGISTER without a body, or of no operation at all after
\* the end of some part; c, or the address of a QUIT, is made from whatever
\* is on the stack.
RecvFails(p) ==
  /\ tracker = "up" /\ broken[p] = "reset"
  /\ handler[p] \in {"header", "lost"} \cup Op
  /\ toTracker[p] # <<>> => TooShort(p)
  /\ \/ Dies
     \/ /\ \/ \E e \in Garbled :
                Operation(IF handler[p] \in Op THEN handler[p] ELSE "REGISTER", e)
           \/ handler[p] = "lost" /\ UNCHANGED p2pnodes
        /\ handler' = [handler EXCEPT ![p] = "header"]
        /\ toTracker' = [toTracker EXCEPT ![p] = <<>>]
        /\ broken' = [broken EXCEPT ![p] = "reported"]
        /\ UNCHANGED <<tracker, snapshot, reply, procs>>

-----------------------------------------------------------------------------
ClientStep(p) ==
  \/ registerWithTracker(p) \/ queryTracker(p) \/ updateOnTracker(p)

handleClient(p) ==
  \/ RecvHeader(p) \/ RecvBody(p) \/ Serialize(p) \/ Reply(p) \/ RecvFails(p)
  \/ QuitMisread(p) \/ BodyMisread(p) \/ HeaderMisread(p)

Next ==
  \E p \in Proc :
    \/ Start(p) \/ ClientStep(p) \/ CacheChanges(p) \/ PeerBreaks(p)
    \/ Signal(p) \/ Crash(p) \/ handleClient(p)

Spec == Init /\ [][Next]_vars

\* Fairness: the tracker's threads go on, and so do main and the threads of a
\* client, which take turns at its lock, as long as it is one, and sleep in
\* between.  No process has
\* to be started, to end or to change its files.
Fairness ==
  \A p \in Proc :
    /\ WF_vars(handleClient(p))
    /\ WF_vars(registerWithTracker(p))
    /\ SF_vars(queryTracker(p))
    /\ SF_vars(updateOnTracker(p))

FairSpec == Spec /\ Fairness

-----------------------------------------------------------------------------
(* Properties.                                                             *)

\* Type invariant.  No thread of the tracker waits for the body of a query.
TypeOK ==
  /\ p2pnodes \in Seq(Entry)
  /\ tracker \in {"up", "dead"}
  /\ handler \in [Proc -> {"header", "lost", "serialize", "reply"} \cup (Op \ {"QUERY"})]
  /\ snapshot \in [Proc -> SUBSET Entry]
  /\ toTracker \in [Proc -> Seq(Parts)]
  /\ reply \in [Proc -> SUBSET SUBSET Entry]
  /\ broken \in [Proc -> {"no", "reset", "reported"}]
  /\ phase \in [Proc -> {"new", "register", "registerBody", "firstQuery",
                         "firstAnswer", "idle", "answer", "ended"}]
  /\ unsent \in [Proc -> SUBSET Entry]
  /\ lock \in [Proc -> {"whole", "broken"}]
  /\ quit \in [Proc -> {"none", "body", "sent"}]
  /\ files \in [Proc -> Files]
  /\ peers \in [Proc -> SUBSET Entry]

\* The tracker has one entry for an IP address, however many clients there
\* register, update and quit, in whatever order their threads get the mutex:
\* getClientIdxByIP finds the entry.
OneEntryPerAddress ==
  \A i, j \in DOMAIN p2pnodes : IP(p2pnodes[i]) = IP(p2pnodes[j]) => i = j

\* The part a handler waits for the rest of, and what is on its way to it.
Stream(p) ==
  (IF handler[p] \in Op THEN <<Header(handler[p])>> ELSE <<>>) \o toTracker[p]

\* A sequence of whole packets, but that the body of the last may be missing:
\* a body comes right after the header of the same packet, and a header,
\* unless it is that of a query, is followed by a body.
WholePackets(s, cut) ==
  \A i \in DOMAIN s :
    IF s[i].part = "body"
    THEN i > 1 /\ s[i - 1] = Header(s[i].op) /\ s[i].op # "QUERY"
    ELSE \/ s[i].op = "QUERY"
         \/ i < Len(s) /\ s[i + 1].part = "body"
         \/ i = Len(s) /\ cut

\* Until a client is signalled or loses a peer in mid-block, or the tracker
\* dies, handler and client are in step: what the handler waits for is what
\* comes next, and the client sends a whole packet before the next, whichever
\* thread sends it.
InStep ==
  \A p \in Proc : tracker = "up" /\ quit[p] = "none" /\ lock[p] = "whole" =>
    /\ handler[p] # "lost"
    /\ WholePackets(Stream(p), \/ phase[p] \in {"registerBody", "ended"}
                               \/ unsent[p] # {})

\* What a handler takes for a header is one, as its comment says.
HeaderIsHeader ==
  \A p \in Proc :
    Arrived(p) # <<>> =>
      /\ handler[p] # "lost"
      /\ handler[p] = "header" => Head(toTracker[p]).part = "header"

SameAddress(p) == { r \in Proc \ {p} : AddressOf[r[1]] = AddressOf[p[1]] }

\* A client that was told to quit is not listed any more when the handler has
\* received all it sent, if it is the only one its address ever had, its
\* connection was not reset and RecvFails made up nothing: no update that it
\* sent before lists it again.
QuitForgets ==
  \A p \in Proc :
    /\ quit[p] = "sent" /\ phase[p] = "ended"
    /\ tracker = "up" /\ handler[p] = "header" /\ toTracker[p] = <<>>
    /\ \A r \in SameAddress(p) : phase[r] = "new"
    /\ broken[p] = "no" /\ \A r \in Proc : broken[r] # "reported"
    => ~HasEntry(AddressOf[p[1]])

\* What the tracker promises: see Registry.  A client asks from its query until
\* the answer is made; the answer is with the handler, and then on its way.
Listed == { p2pnodes[i] : i \in DOMAIN p2pnodes }

Asking ==
  { p \in Proc : /\ phase[p] \in {"firstAnswer", "answer"}
                 /\ handler[p] # "reply" /\ reply[p] = {} }

Answered ==
  [p \in Proc |-> IF phase[p] = "ended" THEN {}
                  ELSE IF handler[p] = "reply" THEN {snapshot[p]} ELSE reply[p]]

Reg == INSTANCE Registry WITH
         Reader <- Proc,
         Address <- [e \in Entry |-> IP(e)],
         Own <- [p \in Proc |-> { e \in Entry : e.client = p[1] }],
         list <- Listed, asking <- Asking, answer <- Answered, known <- peers

\* However the threads of the tracker interleave, a client learns the whole
\* list as it was at one moment after it asked, and an entry changes only as
\* one of an address: the tracker and its clients implement Registry.
ImplementsRegistry == Reg!Spec

Steady(p) ==
  Running(p) /\ quit[p] = "none" /\ lock[p] = "whole" /\ tracker = "up"

\* Nobody else has the address of p, and nobody who had it was told to quit.
Alone(p) ==
  \A r \in SameAddress(p) : phase[r] \in {"new", "ended"} /\ quit[r] = "none"

\* Clients find each other: if p and q, at different addresses, run on, p learns
\* what q has in its cache, also after crashes and restarts at q's address,
\* whose old entry is replaced.
Learns(p, q, h) ==
  <>[](Steady(p) /\ Steady(q) /\ Alone(q) /\ files[q] = h)
    => <>[]([client |-> q[1], files |-> h] \in peers[p])

=============================================================================
