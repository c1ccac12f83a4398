--------------------------- MODULE ExchangeProofs ---------------------------
(***************************************************************************)
(* Theorems about Exchange, for any number of clients and blocks.          *)
(***************************************************************************)
EXTENDS Exchange, TLAPS

\* b is, or was, in the cache of c.  Once true it stays true.
Had(c, b) == b \in held[c] \cup dropped[c]

\* What the tracker, and with it a client, is told was so at some time.
ListsRight ==
  /\ \A e \in listed : Had(e[1], e[2])
  /\ \A c \in Client : \A e \in peers[c] : Had(e[1], e[2])

\* A client asks another one, which has or had the block.
AskedRight ==
  \A t \in Thread :
    pc[t] \in {"connect", "recv", "unserved"} => asked[t] # At(t) /\ Had(asked[t], Blk(t))

\* What a thread does for another client is about a block its own has or had.
ServersRight ==
  \A t \in Thread : pc[t] # "idle" /\ For(t) # At(t) => Had(At(t), Blk(t))

\* A block is fetched while the cache does not have it, by one thread.
FetchMissing == \A t \in Thread : pc[t] \in FetchAt => ~Held(t)

FetchOnce ==
  \A t, u \in Thread :
    /\ pc[t] \in FetchAt /\ pc[u] \in FetchAt
    /\ At(t) = At(u) /\ Blk(t) = Blk(u)
    => t = u

\* The peer a thread is connected to was listening.
ConnectedOnce ==
  \A t \in Thread :
    pc[t] = "recv" => phase[asked[t]] \in {"listening", "quit", "unlisted", "ended"}

\* While the peer runs, it has a thread for the connection.
ThreadMade ==
  \A t \in Thread :
    pc[t] = "recv" /\ phase[asked[t]] = "listening" => pc[Server(t)] # "idle"

\* Threads belong to a process.
Alive == \A t \in Thread : pc[t] # "idle" => Up(At(t))

Gone(c) == phase[c] \in {"quit", "unlisted", "ended"}

\* t has a connection for which s was created.
Connected(t, s) ==
  At(t) = For(s) /\ Blk(t) = Blk(s) /\ asked[t] = At(s) /\ pc[t] = "recv"

\* A thread that works for another client is still needed by it, unless that
\* client is gone.
ServersNeeded ==
  \A s \in Thread :
    pc[s] # "idle" /\ For(s) # At(s) =>
      /\ phase[At(s)] = "listening"
      /\ Gone(For(s)) \/ \E t \in Thread : Connected(t, s)

IInv ==
  /\ TypeOK /\ ListsRight /\ AskedRight /\ ServersRight
  /\ FetchMissing /\ FetchOnce /\ ConnectedOnce /\ ThreadMade
  /\ Alive /\ ServersNeeded

-----------------------------------------------------------------------------
LEMMA Threads ==
  ASSUME NEW t \in Thread
  PROVE  /\ At(t) \in Client /\ For(t) \in Client /\ Blk(t) \in Block
         /\ t = <<At(t), For(t), Blk(t)>>
BY DEF Thread, At, For, Blk

LEMMA Servers ==
  ASSUME TypeOK, NEW t \in Thread
  PROVE  /\ Server(t) \in Thread
         /\ At(Server(t)) = asked[t] /\ For(Server(t)) = At(t) /\ Blk(Server(t)) = Blk(t)
BY Threads DEF TypeOK, Server, Thread, At, For, Blk

(* A thread that connects, or for which main made no thread, has none.     *)
LEMMA NoServer ==
  ASSUME IInv, NEW t \in Thread, pc[t] \in {"connect", "unserved"}
  PROVE  pc[Server(t)] = "idle"
<1> USE DEF IInv
<1> DEFINE s == Server(t)
<1>1. /\ s \in Thread /\ At(s) = asked[t] /\ For(s) = At(t) /\ Blk(s) = Blk(t)
      /\ asked[t] # At(t)
  BY Servers DEF AskedRight
<1> HIDE DEF s
<1>2. SUFFICES ASSUME pc[s] # "idle" PROVE FALSE
  BY DEF s
<1>3. ~Gone(At(t))
  BY DEF Alive, Up, Gone
<1>4. PICK u \in Thread : Connected(u, s)
  BY <1>1, <1>2, <1>3 DEF ServersNeeded
<1>5. u = t
  BY <1>1, <1>4 DEF Connected, FetchOnce, FetchAt
<1>6. QED
  BY <1>4, <1>5 DEF Connected

LEMMA InitIInv == Init => IInv
<1> SUFFICES ASSUME Init PROVE IInv
  OBVIOUS
<1>1. TypeOK
  BY Threads DEF Init, TypeOK, Others
<1>2. ListsRight
  BY DEF Init, ListsRight
<1>3. AskedRight /\ ServersRight /\ FetchMissing /\ FetchOnce /\ ConnectedOnce
  BY DEF Init, AskedRight, ServersRight, FetchMissing, FetchOnce, ConnectedOnce, FetchAt
<1>4. ThreadMade /\ Alive /\ ServersNeeded
  BY DEF Init, ThreadMade, Alive, ServersNeeded
<1> QED
  BY <1>1, <1>2, <1>3, <1>4 DEF IInv

\* The steps of main, of the tracker threads and of the tracker leave pc, asked
\* and the caches alone.
MainStep(c) ==
  \/ (Start(c) /\ tracker = "up") \/ Listen(c) \/ handleQuery(c) \/ handleUpdate(c)
  \/ Unlist(c) \/ QuitLost(c)

LEMMA MainSteps ==
  ASSUME IInv, NEW c \in Client, MainStep(c)
  PROVE  IInv'
<1> USE DEF IInv
<1>1. UNCHANGED <<tracker, held, pc, asked, dropped>>
  BY DEF MainStep, Start, Listen, handleQuery, handleUpdate, Unlist, QuitLost
<1>2. /\ phase' \in [Client -> {"off", "started", "listening", "quit", "unlisted", "ended"}]
      /\ \A d \in Client : Gone(d)' <=> Gone(d)
      /\ \A d \in Client : phase[d] = "listening" => phase'[d] = "listening"
      /\ \A d \in Client : Up(d) => Up(d)'
      /\ \A d \in Client : phase'[d] = "listening" => phase[d] \in {"listening", "started"}
  <2>1. \/ UNCHANGED phase
        \/ phase[c] = "off" /\ phase' = [phase EXCEPT ![c] = "started"]
        \/ phase[c] = "started" /\ phase' = [phase EXCEPT ![c] = "listening"]
        \/ phase[c] = "quit" /\ phase' = [phase EXCEPT ![c] = "unlisted"]
        \/ phase[c] = "quit" /\ phase' = [phase EXCEPT ![c] = "ended"]
    BY DEF MainStep, Start, Listen, handleQuery, handleUpdate, Unlist, QuitLost
  <2>2. QED
    BY <2>1 DEF TypeOK, Gone, Up
<1>3. listed' \in SUBSET (Client \X Block) /\ \A e \in listed' : Had(e[1], e[2])
  BY DEF MainStep, Start, Listen, handleQuery, handleUpdate, Unlist, QuitLost,
         TypeOK, ListsRight, Others, Entries, Had
<1>4. /\ peers' \in [Client -> SUBSET (Client \X Block)]
      /\ \A d \in Client : peers'[d] = Others(d, peers'[d])
      /\ \A d \in Client : \A e \in peers'[d] : Had(e[1], e[2])
  BY DEF MainStep, Start, Listen, handleQuery, handleUpdate, Unlist, QuitLost,
         TypeOK, ListsRight, Others
<1>5. TypeOK'
  BY <1>1, <1>2, <1>3, <1>4 DEF TypeOK, Others
<1>6. ListsRight' /\ AskedRight' /\ ServersRight' /\ FetchMissing' /\ FetchOnce'
  BY <1>1, <1>3, <1>4
     DEF ListsRight, AskedRight, ServersRight, FetchMissing, FetchOnce, Had, Held
<1>7. ConnectedOnce'
  BY <1>1, <1>2 DEF ConnectedOnce, Gone, TypeOK
<1>8. ThreadMade'
  BY <1>1, <1>2 DEF ThreadMade, Server, ConnectedOnce, TypeOK
<1>9. Alive'
  BY <1>1, <1>2, Threads DEF Alive
<1>10. ServersNeeded'
  BY <1>1, <1>2, Threads DEF ServersNeeded, Connected
<1> QED
  BY <1>5, <1>6, <1>7, <1>8, <1>9, <1>10

\* The end of a process, for whatever reason.
LEMMA EndStep ==
  ASSUME IInv, NEW c \in Client, NEW how \in {"quit", "ended"}, End(c, how)
  PROVE  IInv'
<1> USE DEF IInv
<1>1. /\ UNCHANGED <<tracker, held, listed, dropped>>
      /\ phase' = [phase EXCEPT ![c] = how]
      /\ peers' = [peers EXCEPT ![c] = {}]
      /\ \A t \in Thread : pc'[t] = (IF At(t) = c THEN "idle" ELSE pc[t])
                        /\ asked'[t] = (IF At(t) = c THEN c ELSE asked[t])
      /\ pc' \in [Thread -> {"idle", "look", "wait"} \cup FetchAt]
      /\ asked' \in [Thread -> Client]
  BY DEF End, TypeOK
<1>2. TypeOK'
  BY <1>1 DEF TypeOK, Others
<1>3. ListsRight'
  BY <1>1 DEF ListsRight, Had, TypeOK
<1>4. AskedRight' /\ ServersRight' /\ FetchMissing' /\ FetchOnce'
  BY <1>1 DEF AskedRight, ServersRight, FetchMissing, FetchOnce, Had, Held, FetchAt
<1>5. ConnectedOnce'
  BY <1>1 DEF ConnectedOnce, TypeOK
<1>6. ThreadMade'
  <2> SUFFICES ASSUME NEW t \in Thread, pc'[t] = "recv", phase'[asked'[t]] = "listening"
               PROVE  pc'[Server(t)'] # "idle"
    BY DEF ThreadMade
  <2>1. pc[t] = "recv" /\ asked'[t] = asked[t] /\ asked[t] \in Client
    BY <1>1 DEF TypeOK
  <2>2. asked[t] # c /\ phase[asked[t]] = "listening"
    BY <1>1, <2>1 DEF TypeOK
  <2>3. Server(t) \in Thread /\ At(Server(t)) = asked[t] /\ Server(t)' = Server(t)
    BY <2>1, Servers DEF Server
  <2> QED
    BY <1>1, <2>1, <2>2, <2>3 DEF ThreadMade
<1>7. Alive'
  BY <1>1, Threads DEF Alive, Up, TypeOK
<1>8. ServersNeeded'
  <2> SUFFICES ASSUME NEW s \in Thread, pc'[s] # "idle", For(s) # At(s)
               PROVE  /\ phase'[At(s)] = "listening"
                      /\ Gone(For(s))' \/ \E t \in Thread : Connected(t, s)'
    BY DEF ServersNeeded
  <2>1. At(s) # c /\ pc[s] # "idle"
    BY <1>1
  <2>2. phase'[At(s)] = "listening"
    BY <1>1, <2>1, Threads DEF ServersNeeded, TypeOK
  <2>3. CASE For(s) = c
    BY <1>1, <2>2, <2>3 DEF Gone, TypeOK
  <2>4. CASE For(s) # c
    <3>1. CASE Gone(For(s))
      BY <1>1, <2>2, <2>4, <3>1, Threads DEF Gone, TypeOK
    <3>2. CASE ~Gone(For(s))
      <4>1. PICK t \in Thread : Connected(t, s)
        BY <2>1, <3>2 DEF ServersNeeded
      <4>2. Connected(t, s)'
        BY <1>1, <2>4, <4>1 DEF Connected
      <4>3. QED
        BY <2>2, <4>2
    <3>3. QED
      BY <2>2, <3>1, <3>2
  <2>5. QED
    BY <2>2, <2>3, <2>4
<1> QED
  BY <1>2, <1>3, <1>4, <1>5, <1>6, <1>7, <1>8

-----------------------------------------------------------------------------
(* The steps of getBlock.                                                  *)

(* Who is served stays needed, where no process ends.                      *)
LEMMA NeededStays ==
  ASSUME ServersNeeded, UNCHANGED phase,
         \A s \in Thread : pc'[s] # "idle" /\ For(s) # At(s) => pc[s] # "idle",
         \A t, s \in Thread :
           pc'[s] # "idle" /\ Connected(t, s) /\ phase[At(s)] = "listening" => Connected(t, s)'
  PROVE  ServersNeeded'
<1> SUFFICES ASSUME NEW s \in Thread, pc'[s] # "idle", For(s) # At(s)
             PROVE  /\ phase[At(s)] = "listening"
                    /\ Gone(For(s)) \/ \E t \in Thread : Connected(t, s)'
  BY DEF ServersNeeded, Gone
<1>1. /\ phase[At(s)] = "listening"
      /\ Gone(For(s)) \/ \E t \in Thread : Connected(t, s)
  BY DEF ServersNeeded
<1>2. QED
  BY <1>1

\* What a block once had is to a client does not change, whatever is evicted.
LEMMA HadStays ==
  ASSUME TypeOK, NEW c \in Client, NEW b \in Block, Had(c, b),
         \A d \in Client : held[d] \cup dropped[d] \subseteq held'[d] \cup dropped'[d]
  PROVE  Had(c, b)'
BY DEF Had

LEMMA WaitStep ==
  ASSUME IInv, NEW t \in Thread, Wait(t), pc[t] # "idle" \/ For(t) = At(t),
         pc[t] \notin FetchAt, Up(At(t))
  PROVE  IInv'
<1> USE DEF IInv
<1>1. /\ UNCHANGED <<phase, tracker, held, listed, peers, asked, dropped>>
      /\ pc' = [pc EXCEPT ![t] = "wait"]
  BY DEF Wait, Goto
<1>2. TypeOK'
  BY <1>1 DEF TypeOK, Others
<1>3. ListsRight' /\ AskedRight' /\ ServersRight' /\ FetchMissing' /\ FetchOnce'
  BY <1>1 DEF TypeOK, ListsRight, AskedRight, ServersRight, FetchMissing, FetchOnce,
              Had, Held, FetchAt
<1>4. ConnectedOnce' /\ ThreadMade'
  BY <1>1 DEF TypeOK, ConnectedOnce, ThreadMade, Server
<1>5. Alive'
  BY <1>1 DEF TypeOK, Alive, Up
<1>6. ServersNeeded'
  <2>1. \A u \in Thread : pc'[u] = IF u = t THEN "wait" ELSE pc[u]
    BY <1>1 DEF TypeOK
  <2>2. \A u, s \in Thread : Connected(u, s) => Connected(u, s)'
    BY <1>1, <2>1 DEF Connected, FetchAt
  <2>3. QED
    BY <1>1, <2>1, <2>2, NeededStays
<1> QED
  BY <1>2, <1>3, <1>4, <1>5, <1>6

LEMMA MissStep ==
  ASSUME IInv, NEW t \in Thread, Miss(t), pc[t] # "idle" \/ For(t) = At(t),
         pc[t] \notin FetchAt, Up(At(t))
  PROVE  IInv'
<1> USE DEF IInv
<1>1. UNCHANGED <<phase, tracker, listed, peers>>
  BY DEF Miss
<1>2. PICK gone \in SUBSET held[At(t)] :
        /\ held' = [held EXCEPT ![At(t)] = @ \ gone]
        /\ dropped' = [dropped EXCEPT ![At(t)] = @ \cup gone]
  BY DEF Miss
<1>3. /\ held' \in [Client -> SUBSET Block]
      /\ dropped' \in [Client -> SUBSET Block]
      /\ \A c \in Client : held'[c] \subseteq held[c]
      /\ \A c \in Client : held[c] \cup dropped[c] \subseteq held'[c] \cup dropped'[c]
  BY <1>2, Threads DEF TypeOK
<1>4. /\ \/ /\ pc' = [pc EXCEPT ![t] = "connect"]
            /\ asked' = [asked EXCEPT ![t] = asked'[t]]
            /\ asked'[t] \in Client /\ <<asked'[t], Blk(t)>> \in peers[At(t)]
         \/ pc' = [pc EXCEPT ![t] = "source"] /\ UNCHANGED asked
  <2>1. CASE \E p \in PeersWithBlock(t) :
               Goto(t, "connect") /\ asked' = [asked EXCEPT ![t] = p]
    BY <2>1 DEF Goto, PeersWithBlock, TypeOK
  <2>2. CASE PeersWithBlock(t) = {} /\ Goto(t, "source") /\ UNCHANGED asked
    BY <2>2 DEF Goto
  <2> QED
    BY <2>1, <2>2 DEF Miss
<1>5. /\ \A u \in Thread : u # t => pc'[u] = pc[u] /\ asked'[u] = asked[u]
      /\ pc'[t] \in {"connect", "source"}
  BY <1>4 DEF TypeOK
<1>6. TypeOK'
  BY <1>1, <1>3, <1>4 DEF TypeOK, Others, FetchAt
<1>7. ListsRight'
  BY <1>1, <1>3 DEF ListsRight, Had, TypeOK
<1>8. AskedRight'
  <2>1. ASSUME pc'[t] = "connect"
        PROVE  asked'[t] # At(t) /\ Had(asked'[t], Blk(t)) /\ asked'[t] \in Client
    BY <2>1, <1>4, Threads DEF ListsRight, Others, TypeOK
  <2> QED
    BY <2>1, <1>3, <1>5, Threads DEF AskedRight, Had, TypeOK
<1>9. ServersRight'
  BY <1>3, <1>5, Threads DEF ServersRight, Had
<1>10. FetchMissing'
  <2>1. ~Held(t)
    BY DEF Miss
  <2> QED
    BY <2>1, <1>3, <1>5, Threads DEF FetchMissing, Held
<1>11. FetchOnce'
  <2>1. Fetchers(t) = {}
    BY DEF Miss, Marked
  <2>2. \A u \in Thread : At(u) = At(t) /\ Blk(u) = Blk(t) => pc[u] \notin FetchAt
    BY <2>1 DEF Fetchers
  <2> QED
    BY <2>2, <1>5 DEF FetchOnce
<1>12. ConnectedOnce'
  BY <1>1, <1>5 DEF ConnectedOnce
<1>13. ThreadMade'
  <2> SUFFICES ASSUME NEW u \in Thread, pc'[u] = "recv", phase'[asked'[u]] = "listening"
               PROVE  pc'[Server(u)'] # "idle"
    BY DEF ThreadMade
  <2>1. u # t /\ pc[u] = "recv" /\ asked'[u] = asked[u] /\ phase[asked[u]] = "listening"
    BY <1>1, <1>5
  <2>2. Server(u)' = Server(u) /\ Server(u) \in Thread /\ pc[Server(u)] # "idle"
    BY <2>1, Servers DEF Server, ThreadMade
  <2>3. QED
    BY <1>5, <2>2
<1>14. Alive'
  BY <1>1, <1>5 DEF Alive, Up
<1>15. ServersNeeded'
  <2>1. \A u, s \in Thread : Connected(u, s) => Connected(u, s)'
    BY <1>5 DEF Connected, FetchAt
  <2>2. QED
    BY <1>1, <1>5, <2>1, NeededStays
<1> QED
  BY <1>6, <1>7, <1>8, <1>9, <1>10, <1>11, <1>12, <1>13, <1>14, <1>15

(* Where nothing is stored or evicted, fetches only end.                   *)
LEMMA FetchesGoOn ==
  ASSUME FetchMissing, FetchOnce, UNCHANGED held,
         \A u \in Thread : pc'[u] \in FetchAt => pc[u] \in FetchAt
  PROVE  FetchMissing' /\ FetchOnce'
<1>1. FetchMissing'
  BY DEF FetchMissing, Held
<1>2. FetchOnce'
  BY DEF FetchOnce
<1>3. QED
  BY <1>1, <1>2

LEMMA ConnectStep ==
  ASSUME IInv, NEW t \in Thread, Connect(t)
  PROVE  IInv'
<1> DEFINE s == Server(t)
<1> USE DEF IInv
<1>1. /\ UNCHANGED <<phase, tracker, held, listed, peers, asked, dropped>>
      /\ \/ pc' = [pc EXCEPT ![t] = "recv", ![s] = "look"]
         \/ pc' = [pc EXCEPT ![t] = "unserved"]
      /\ pc[t] = "connect" /\ phase[asked[t]] = "listening"
  BY DEF Connect, Goto
<1>2. /\ s \in Thread /\ At(s) = asked[t] /\ For(s) = At(t) /\ Blk(s) = Blk(t)
      /\ asked[t] # At(t) /\ Had(asked[t], Blk(t)) /\ pc[s] = "idle"
  BY <1>1, Servers, NoServer DEF AskedRight
<1>3. s # t
  BY <1>2
<1>4. \A u \in Thread : Server(u)' = Server(u) /\ Server(u) \in Thread
  BY <1>1, Servers DEF Server
<1>5. /\ \/ pc'[t] = "recv" /\ pc'[s] = "look"
         \/ pc'[t] = "unserved" /\ pc'[s] = pc[s]
      /\ \A u \in Thread : u # t /\ u # s => pc'[u] = pc[u]
      /\ pc' \in [Thread -> {"idle", "look", "wait"} \cup FetchAt]
  BY <1>1, <1>2, <1>3 DEF TypeOK, FetchAt
<1> HIDE DEF s
<1>6. TypeOK'
  BY <1>1, <1>5 DEF TypeOK, Others
<1>7. ListsRight' /\ AskedRight' /\ ServersRight'
  BY <1>1, <1>2, <1>5 DEF ListsRight, AskedRight, ServersRight, Had
<1>8. FetchMissing' /\ FetchOnce'
  <2>1. UNCHANGED held /\ \A u \in Thread : pc'[u] \in FetchAt => pc[u] \in FetchAt
    BY <1>1, <1>2, <1>5 DEF FetchAt
  <2> QED
    BY <2>1, FetchesGoOn
<1>9. ConnectedOnce'
  BY <1>1, <1>2, <1>5 DEF ConnectedOnce
<1>10. ThreadMade'
  <2> SUFFICES ASSUME NEW u \in Thread, pc'[u] = "recv", phase'[asked'[u]] = "listening"
               PROVE  pc'[Server(u)] # "idle"
    BY <1>4 DEF ThreadMade
  <2>1. CASE u = t
    BY <1>5, <2>1 DEF s
  <2>2. CASE u # t
    <3>1. pc[u] = "recv" /\ phase[asked[u]] = "listening"
      BY <1>1, <1>2, <1>5, <2>2
    <3>2. pc[Server(u)] # "idle"
      BY <3>1 DEF ThreadMade
    <3>3. QED
      BY <1>1, <1>2, <1>4, <1>5, <3>2
  <2>3. QED
    BY <2>1, <2>2
<1>11. Alive'
  BY <1>1, <1>2, <1>5 DEF Alive, Up
<1>12. ServersNeeded'
  <2>1. \A u, v \in Thread : Connected(u, v) => Connected(u, v)'
    BY <1>1, <1>2, <1>5 DEF Connected
  <2>2. ASSUME NEW v \in Thread, v # s, pc'[v] # "idle", For(v) # At(v)
        PROVE  /\ phase[At(v)] = "listening"
               /\ Gone(For(v)) \/ \E u \in Thread : Connected(u, v)'
    <3>1. pc[v] # "idle"
      BY <1>1, <1>5, <2>2
    <3>2. /\ phase[At(v)] = "listening"
          /\ Gone(For(v)) \/ \E u \in Thread : Connected(u, v)
      BY <2>2, <3>1 DEF ServersNeeded
    <3>3. QED
      BY <2>1, <2>2, <3>2
  <2>3. ASSUME NEW v \in Thread, v = s, pc'[v] # "idle"
        PROVE  phase[At(v)] = "listening" /\ Connected(t, v)'
    BY <2>3, <1>1, <1>2, <1>5 DEF Connected
  <2>4. \A v \in Thread : pc'[v] # "idle" /\ For(v) # At(v) =>
          /\ phase[At(v)] = "listening"
          /\ Gone(For(v)) \/ \E u \in Thread : Connected(u, v)'
    BY <2>2, <2>3
  <2>5. \A v \in Thread : pc'[v] # "idle" /\ For(v) # At(v) =>
          /\ phase'[At(v)] = "listening"
          /\ Gone(For(v))' \/ \E u \in Thread : Connected(u, v)'
    BY <1>1, <2>4 DEF Gone
  <2>6. QED
    BY <2>5 DEF ServersNeeded
<1> QED
  BY <1>6, <1>7, <1>8, <1>9, <1>10, <1>11, <1>12

LEMMA PeerEndsStep ==
  ASSUME IInv, NEW t \in Thread, PeerEnds(t)
  PROVE  IInv'
<1> USE DEF IInv
<1>1. /\ UNCHANGED <<phase, tracker, held, listed, peers, asked, dropped>>
      /\ pc' = [pc EXCEPT ![t] = pc'[t]]
      /\ pc[t] \in {"recv", "unserved"} /\ pc'[t] \in {"spin", "source"}
      /\ phase[asked[t]] # "listening"
  BY DEF PeerEnds, Goto, TypeOK
<1>2. TypeOK'
  BY <1>1 DEF TypeOK, Others, FetchAt
<1>3. ListsRight' /\ AskedRight' /\ ServersRight' /\ FetchMissing' /\ FetchOnce'
  BY <1>1 DEF TypeOK, ListsRight, AskedRight, ServersRight, FetchMissing, FetchOnce,
              Had, Held, FetchAt
<1>4. \A u \in Thread : /\ pc'[u] = "recv" => pc[u] = "recv"
                        /\ pc[u] # "idle" => pc'[u] # "idle"
  BY <1>1 DEF TypeOK
<1>5. phase' = phase /\ asked' = asked
  BY <1>1
<1>6. ConnectedOnce'
  BY <1>4, <1>5 DEF ConnectedOnce
<1>7. ThreadMade'
  <2> SUFFICES ASSUME NEW u \in Thread, pc'[u] = "recv", phase'[asked'[u]] = "listening"
               PROVE  pc'[Server(u)'] # "idle"
    BY DEF ThreadMade
  <2>1. asked'[u] = asked[u] /\ pc[u] = "recv" /\ phase[asked[u]] = "listening"
    BY <1>4, <1>5
  <2>2. Server(u)' = Server(u) /\ Server(u) \in Thread
    BY <1>5, Servers DEF Server
  <2>3. pc[Server(u)] # "idle"
    BY <2>1 DEF ThreadMade
  <2> QED
    BY <1>4, <2>2, <2>3
<1>8. \A u \in Thread : /\ u # t => pc'[u] = pc[u]
                        /\ pc'[u] # "idle" => pc[u] # "idle"
  BY <1>1 DEF TypeOK
<1>9. Alive'
  BY <1>5, <1>8 DEF Alive, Up
<1>10. ServersNeeded'
  <2>1. \A u, s \in Thread :
          Connected(u, s) /\ phase[At(s)] = "listening" => Connected(u, s)'
    BY <1>1, <1>8 DEF Connected
  <2>2. QED
    BY <1>5, <1>8, <2>1, NeededStays
<1> QED
  BY <1>2, <1>3, <1>6, <1>7, <1>9, <1>10

LEMMA Stored ==
  ASSUME NEW old \in [Client -> SUBSET Block], NEW new,
         NEW c \in Client, NEW b \in Block,
         new = old \/ new = [old EXCEPT ![c] = @ \cup {b}]
  PROVE  /\ new \in [Client -> SUBSET Block]
         /\ \A d \in Client : old[d] \subseteq new[d]
         /\ \A d \in Client : d # c => new[d] = old[d]
         /\ \A x \in Block : x # b => \A d \in Client : x \in new[d] => x \in old[d]
OBVIOUS

\* getBlock returns in t, which held the block or has just stored it.
LEMMA ReturnStep ==
  ASSUME IInv, NEW t \in Thread, Hit(t) \/ Store(t)
  PROVE  IInv'
<1> USE DEF IInv
<1>1. UNCHANGED <<phase, tracker, listed, peers, dropped>> /\ Return(t)
  BY DEF Hit, Store
<1>2. /\ pc'[t] = "idle"
      /\ \A u \in Thread : u # t => pc'[u] = (IF u \in Receivers(t) THEN "store" ELSE pc[u])
      /\ pc' \in [Thread -> {"idle", "look", "wait"} \cup FetchAt]
  BY <1>1 DEF Return, TypeOK, FetchAt
<1>3. /\ held' \in [Client -> SUBSET Block]
      /\ \A c \in Client : held[c] \subseteq held'[c]
      /\ \A c \in Client : c # At(t) => held'[c] = held[c]
      /\ \A b \in Block : b # Blk(t) => \A c \in Client : b \in held'[c] => b \in held[c]
      /\ held' # held => pc[t] \in FetchAt
  <2>1. /\ held' = held \/ held' = [held EXCEPT ![At(t)] = @ \cup {Blk(t)}]
        /\ held' # held => pc[t] \in FetchAt
    BY DEF Hit, Store, FetchAt
  <2>2. held \in [Client -> SUBSET Block] /\ At(t) \in Client /\ Blk(t) \in Block
    BY Threads DEF TypeOK
  <2>3. QED
    BY <2>1, <2>2, Stored
<1>4. asked' \in [Thread -> Client] /\ \A u \in Thread : u # t => asked'[u] = asked[u]
  BY Threads DEF Hit, Store, TypeOK
<1>5. TypeOK'
  BY <1>1, <1>2, <1>3, <1>4 DEF TypeOK, Others
<1>6. ListsRight'
  BY <1>1, <1>3 DEF ListsRight, Had, TypeOK
<1>7. \A u \in Receivers(t) : pc[u] = "recv"
  BY DEF Receivers
<1>8. AskedRight' /\ ServersRight'
  BY <1>1, <1>2, <1>3, <1>4, <1>7, Threads DEF AskedRight, ServersRight, Had, TypeOK
<1>9. FetchMissing'
  <2> SUFFICES ASSUME NEW u \in Thread, pc'[u] \in FetchAt, Held(u)' PROVE FALSE
    BY DEF FetchMissing
  <2>1. u # t /\ pc[u] \in FetchAt
    BY <1>2, <1>7 DEF FetchAt
  <2>2. ~Held(u)
    BY <2>1 DEF FetchMissing
  <2>3. At(u) = At(t) /\ Blk(u) = Blk(t) /\ pc[t] \in FetchAt
    BY <2>2, <1>3, Threads DEF Held
  <2> QED
    BY <2>1, <2>3 DEF FetchOnce
<1>10. FetchOnce'
  <2>1. \A u \in Thread : pc'[u] \in FetchAt => pc[u] \in FetchAt
    BY <1>2, <1>7 DEF FetchAt
  <2> QED
    BY <2>1 DEF FetchOnce
<1>11. ConnectedOnce'
  BY <1>1, <1>2, <1>4 DEF ConnectedOnce
<1>12. ThreadMade'
  <2> SUFFICES ASSUME NEW u \in Thread, pc'[u] = "recv", phase'[asked'[u]] = "listening"
               PROVE  pc'[Server(u)'] # "idle"
    BY DEF ThreadMade
  <2> DEFINE s == Server(u)
  <2>1. u # t /\ pc[u] = "recv" /\ asked'[u] = asked[u] /\ u \notin Receivers(t)
    BY <1>2, <1>4
  <2>2. pc[s] # "idle" /\ s' = s
    BY <2>1, <1>1 DEF ThreadMade, Server
  <2>3. s \in Thread /\ At(s) = asked[u] /\ For(s) = At(u) /\ Blk(s) = Blk(u)
    BY Servers
  <2> HIDE DEF s
  <2>4. s # t
    BY <2>1, <2>3 DEF Receivers
  <2>5. pc'[s] # "idle"
    BY <2>2, <2>3, <2>4, <1>2
  <2> QED
    BY <2>2, <2>5 DEF s
<1>13. \A u \in Thread : pc'[u] # "idle" => pc[u] # "idle"
  BY <1>2, <1>7
<1>14. Alive'
  BY <1>1, <1>13 DEF Alive, Up
<1>15. ServersNeeded'
  <2>1. pc[t] # "recv"
    BY DEF Hit, Store
  <2>2. ASSUME NEW u \in Thread, NEW s \in Thread, pc'[s] # "idle", Connected(u, s)
        PROVE  Connected(u, s)'
    <3>1. s # t /\ u # t
      BY <1>2, <2>1, <2>2 DEF Connected
    <3>2. u \notin Receivers(t)
      BY <2>2, <3>1, Threads DEF Connected, Receivers
    <3>3. QED
      BY <1>2, <1>4, <2>2, <3>1, <3>2 DEF Connected
  <2>3. QED
    BY <1>1, <1>13, <2>2, NeededStays
<1> QED
  BY <1>5, <1>6, <1>8, <1>9, <1>10, <1>11, <1>12, <1>14, <1>15

-----------------------------------------------------------------------------
\* The tracker dies, or nothing happens.
LEMMA Quiet ==
  ASSUME IInv, UNCHANGED <<phase, held, listed, peers, pc, asked, dropped>>,
         tracker' = "dead" \/ UNCHANGED tracker
  PROVE  IInv'
<1>1. TypeOK'
  BY DEF IInv, TypeOK, Others
<1>2. ListsRight' /\ AskedRight' /\ ServersRight' /\ FetchMissing' /\ FetchOnce'
  BY DEF IInv, ListsRight, AskedRight, ServersRight, FetchMissing, FetchOnce, Had, Held
<1>3. ConnectedOnce' /\ ThreadMade' /\ Alive'
  BY DEF IInv, ConnectedOnce, ThreadMade, Alive, Server, Up
<1>4. ServersNeeded'
  BY DEF IInv, ServersNeeded, Connected, Gone
<1>5. QED
  BY <1>1, <1>2, <1>3, <1>4 DEF IInv

LEMMA NextIInv == IInv /\ [Next]_vars => IInv'
<1> SUFFICES ASSUME IInv, [Next]_vars PROVE IInv'
  OBVIOUS
<1>1. CASE UNCHANGED vars
  BY <1>1, Quiet DEF vars
<1>0. CASE TrackerDies
  BY <1>0, Quiet DEF TrackerDies
<1>2. ASSUME NEW c \in Client, MainStep(c)
      PROVE  IInv'
  BY <1>2, MainSteps
<1>3. ASSUME NEW c \in Client, Quit(c) \/ Crash(c) \/ End(c, "ended")
      PROVE  IInv'
  BY <1>3, EndStep DEF Quit, Crash
<1>4. ASSUME NEW t \in Thread, Call(t) \/ Look(t)
      PROVE  IInv'
  <2>1. pc[t] \notin FetchAt
    BY <1>4 DEF Call, Look, FetchAt
  <2>2. pc[t] # "idle" \/ For(t) = At(t)
    BY <1>4 DEF Call, Look
  <2>3. Up(At(t))
    BY <1>4 DEF Call, Look, IInv, Alive
  <2> QED
    BY <1>4, <2>1, <2>2, <2>3, WaitStep, MissStep DEF Call, Look
<1>5. ASSUME NEW t \in Thread, WaitedInVain(t) \/ Refused(t)
      PROVE  IInv'
  BY <1>5, EndStep, Threads DEF WaitedInVain, Refused
<1>6. ASSUME NEW t \in Thread, Hit(t) \/ Store(t)
      PROVE  IInv'
  BY <1>6, ReturnStep
<1>7. ASSUME NEW t \in Thread, Connect(t) \/ PeerEnds(t)
      PROVE  IInv'
  BY <1>7, ConnectStep, PeerEndsStep
<1>8. ASSUME NEW c \in Client, Start(c) PROVE MainStep(c) \/ End(c, "ended")
  BY <1>8 DEF Start, MainStep
<1> QED
  BY <1>0, <1>1, <1>2, <1>3, <1>4, <1>5, <1>6, <1>7, <1>8 DEF Next, getBlock, MainStep

LEMMA IInvAlways == Spec => []IInv
BY InitIInv, NextIInv, PTL DEF Spec

\* The type invariant of the exchange, and that no client is a peer of itself.
THEOREM TypeCorrect == Spec => []TypeOK
<1>1. IInv => TypeOK
  BY DEF IInv
<1> QED
  BY <1>1, IInvAlways, PTL

\* As long as a peer runs, it has a thread at work on every block for which it
\* keeps a client waiting, unless its main could make none for the connection,
\* and then it has none for an earlier one.
THEOREM RequestsAnswered == Spec => []AnswerIsOwed
<1>1. IInv => AnswerIsOwed
  BY NoServer DEF IInv, ThreadMade, AnswerIsOwed
<1> QED
  BY <1>1, IInvAlways, PTL

\* Threads of any number of clients wait for each other in a circle only for a
\* block that every one of these clients has evicted.
THEOREM CirclesNeedEvictions == Spec => []CircleMeansDropped
<1>1. IInv => CircleMeansDropped
  <2> SUFFICES ASSUME IInv, NEW S \in SUBSET { t \in Thread : WaitsFor(t) # {} },
                      Circle(S), NEW t \in S
               PROVE  Blk(t) \in dropped[At(t)]
    BY DEF CircleMeansDropped
  <2> USE DEF IInv
  <2>1. \A u \in S : u \in Thread /\ pc[u] \in {"recv", "wait"}
    BY DEF WaitsFor
  \* Somebody fetches the block of t, so that the cache has not got it.
  <2>2. Blk(t) \notin held[At(t)]
    <3>1. CASE pc[t] = "recv"
      BY <3>1, <2>1 DEF FetchMissing, FetchAt, Held
    <3>2. CASE pc[t] = "wait"
      <4>1. PICK u \in Thread : At(u) = At(t) /\ Blk(u) = Blk(t) /\ pc[u] \in FetchAt
        BY <3>2 DEF WaitsFor, Fetchers
      <4> QED
        BY <4>1 DEF FetchMissing, Held
    <3> QED
      BY <2>1, <3>1, <3>2
  \* A thread others wait for across a connection works for another client.
  <2>3. ASSUME NEW v \in S, NEW u \in S, u \in WaitsFor(v), pc[v] = "recv"
        PROVE  Had(At(u), Blk(u))
    <3>1. u = <<asked[v], At(v), Blk(v)>> /\ asked[v] # At(v)
      BY <2>1, <2>3 DEF WaitsFor, Server, AskedRight
    <3> QED
      BY <3>1, <2>1, <2>3 DEF At, Blk, AskedRight
  <2>4. ASSUME NEW v \in S, NEW u \in S, u \in WaitsFor(v), pc[v] = "wait"
        PROVE  At(u) = At(v) /\ Blk(u) = Blk(v) /\ pc[u] = "recv"
    <3>1. u \in Fetchers(v)
      BY <2>4 DEF WaitsFor
    <3> QED
      BY <3>1, <2>1 DEF Fetchers, FetchAt
  <2>5. Had(At(t), Blk(t))
    <3>1. PICK u \in S : t \in WaitsFor(u)
      BY DEF Circle
    <3>2. CASE pc[u] = "recv"
      BY <3>1, <3>2, <2>3
    <3>3. CASE pc[u] = "wait"
      <4>1. At(t) = At(u) /\ Blk(t) = Blk(u)
        BY <3>1, <3>3, <2>4
      <4>2. PICK v \in S : u \in WaitsFor(v)
        BY DEF Circle
      <4>3. pc[v] = "recv"
        BY <4>2, <3>3, <2>1, <2>4
      <4> QED
        BY <4>1, <4>2, <4>3, <2>3
    <3> QED
      BY <3>2, <3>3, <2>1
  <2> QED
    BY <2>2, <2>5 DEF Had
<1> QED
  BY <1>1, IInvAlways, PTL

=============================================================================
