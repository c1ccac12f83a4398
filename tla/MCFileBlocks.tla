---------------------------- MODULE MCFileBlocks ----------------------------
(***************************************************************************)
(* FileBlocks for TLC: files of no block, of one, of few, and of 10, where *)
(* the range of nextBlockRange is cut by RANGE_LEN as well as by the end.  *)
(* Every map that comes about goes over the wire, too.                     *)
(***************************************************************************)
EXTENDS FileBlocks, Wire

MCSizes == {0, 1, 2, 5, 10}

\* Texts are short, one is empty; numbers need several bytes, one is negative.
FileOf(url, b) ==
  [url |-> url, filesize |-> 1000000 * b.numBlocks - 1, blocksize |-> 1000000, blockInfo |-> b]

ClientWith(ip, port, files) ==
  [ip_address |-> ip, port |-> port, socketfd |-> -1, directory |-> <<47>>, files |-> files]

ThisFile  == FileOf(<<120, 121>>, blockInfo)
OtherFile == FileOf(<<>>, MapWithAll(3))

Alice   == ClientWith(<<49, 46>>, 5000, <<ThisFile, OtherFile>>)
Bob     == ClientWith(<<51>>, 5001, <<ThisFile>>)
Charlie == ClientWith(<<50>>, 5000, <<>>)

\* What the tracker's thread makes of the packets of a client that registers,
\* asks, updates and quits, and what is left in the end.
Conversation(c) ==
  LET first  == Receive(registerPacket(c) \o queryPacket \o updatePacket(c) \o quitPacket(c))
      second == Receive(first.rest)
      third  == Receive(second.rest)
      fourth == Receive(third.rest)
  IN  [ops |-> <<first.op, second.op, third.op, fourth.op>>,
       registered |-> ReadClient(first.data), updated |-> ReadClient(third.data),
       quit |-> CountedAt(fourth.data, 0), rest |-> fourth.rest]

\* Whatever a client has, the tracker's thread finds each of its packets where
\* the one before ends, and reads from it what the client wrote.  So does the
\* thread of a client that another asks for a block.
PacketsArriveAsSent ==
  /\ \A c \in {Alice, Charlie} :
       Conversation(c) =
         [ops |-> <<TRACKER_OP_REGISTER, TRACKER_OP_QUERY, TRACKER_OP_UPDATE, TRACKER_OP_QUIT>>,
          registered |-> c, updated |-> c, quit |-> c.ip_address, rest |-> <<>>]
  /\ \A blocknum \in 0..blockInfo.numBlocks :
       LET request == Receive(requestPacket(ThisFile.url, blocknum))
       IN  /\ request.op = CLIENT_REQ_DATA /\ request.rest = <<>>
           /\ IntAt(request.data, 0) = blocknum
           /\ CountedAt(request.data, 4) = ThisFile.url

\* In whatever order the tracker lists its clients, a client that asks gets all
\* of them but itself, with the files they have.
PeersAreTheOthers ==
  \A order \in SetToSeqs({Alice, Bob, Charlie}) :
    LET clients == ReadClients(TrackerBytes(order))
    IN  \A self \in {Alice, Bob, Charlie} :
          /\ Len(Peers(self, clients)) = 2
          /\ ToSet(Peers(self, clients)) = {Alice, Bob, Charlie} \ {self}

=============================================================================
