-------------------------------- MODULE Wire --------------------------------
(***************************************************************************)
(* The bytes that go between the programs: serialize and deserialize of    *)
(* BlockMap, File, Client and Tracker, the packets they travel in, and the *)
(* request for a block.                                                    *)
(*                                                                         *)
(* Bytes are a sequence of numbers below 256.  Offsets count from 0, as in *)
(* the code.  A text is the sequence of its bytes, none of which is 0.  An *)
(* int has 4 bytes, the lowest first, and the sign in the highest.         *)
(*                                                                         *)
(* Nothing in a packet says where a field begins.  Whoever sends it        *)
(* computes its size in one place and writes the fields in another, and    *)
(* whoever receives it finds the next packet behind size bytes.            *)
(***************************************************************************)
EXTENDS BlockMap, SequencesExt

TRACKER_OP_REGISTER == 0
TRACKER_OP_QUERY    == 1
TRACKER_OP_UPDATE   == 2
TRACKER_OP_QUIT     == 3
CLIENT_REQ_DATA     == 5

Int4(n) ==
  << n % 256, (n \div 256) % 256, (n \div 65536) % 256, (n \div 16777216) % 256 >>

IntAt(data, o) ==
  LET sign == IF data[o + 4] < 128 THEN 0 ELSE 256
  IN  data[o + 1] + 256 * (data[o + 2] + 256 * (data[o + 3] + 256 * (data[o + 4] - sign)))

\* The bytes of a size that is written in front of them, with that size.
Counted(bytes) == Int4(Len(bytes)) \o bytes

CountedAt(data, o) == SubSeq(data, o + 5, o + 4 + IntAt(data, o))

-----------------------------------------------------------------------------
(* What is written.                                                        *)

\* Broken variant: the two numbers in the other order.
BlockMapBytesSwapped(b) ==
  Int4(b.currentBlock) \o Int4(b.numBlocks)
    \o [i \in 1..b.numBlocks |-> IF HasBlock(b, i - 1) THEN 1 ELSE 0]

BlockMapBytes(b) ==
  Int4(b.numBlocks) \o Int4(b.currentBlock)
    \o [i \in 1..b.numBlocks |-> IF HasBlock(b, i - 1) THEN 1 ELSE 0]

FileBytes(f) ==
  Counted(f.url) \o Int4(f.filesize) \o Int4(f.blocksize) \o Counted(BlockMapBytes(f.blockInfo))

ClientBytes(c) ==
  Counted(c.ip_address) \o Int4(c.port) \o Int4(c.socketfd) \o Counted(c.directory)
    \o Int4(Len(c.files)) \o FlattenSeq([i \in DOMAIN c.files |-> Counted(FileBytes(c.files[i]))])

\* The clients in the order of the addresses that malloc gave to their bytes.
TrackerBytes(order) ==
  Int4(Len(order)) \o FlattenSeq([i \in DOMAIN order |-> Counted(ClientBytes(order[i]))])

-----------------------------------------------------------------------------
(* How long it is said to be.                                              *)

SizeOfFile(f) == 4 + Len(f.url) + 3 * 4 + (2 * 4 + f.blockInfo.numBlocks)

SizeOfFiles(files) == SumFunction([i \in DOMAIN files |-> 4 + SizeOfFile(files[i])])

SizeOfClient(c) ==
  4 + Len(c.ip_address) + 2 * 4 + 4 + Len(c.directory) + 4 + SizeOfFiles(c.files)

SizeOfRequest(url) == 4 + 4 + Len(url)

Packet(op, size, data) == Int4(op) \o Int4(size) \o SubSeq(data, 1, size)

registerPacket(c) == Packet(TRACKER_OP_REGISTER, SizeOfClient(c), ClientBytes(c))

updatePacket(c) == Packet(TRACKER_OP_UPDATE, SizeOfClient(c), ClientBytes(c))

\* "packet size doesnt matter for query": it says 1, and nothing follows.
queryPacket == Int4(TRACKER_OP_QUERY) \o Int4(1)

quitPacket(c) ==
  Packet(TRACKER_OP_QUIT, 4 + Len(c.ip_address), Counted(c.ip_address))

requestPacket(url, blocknum) ==
  Packet(CLIENT_REQ_DATA, SizeOfRequest(url), Int4(blocknum) \o Counted(url))

-----------------------------------------------------------------------------
(* What is read.                                                           *)

ReadBlockMap(data) ==
  LET n == IntAt(data, 0)
  IN  [numBlocks |-> n, currentBlock |-> IntAt(data, 4),
       blocks |-> { i \in 0..(n - 1) : data[8 + i + 1] # 0 }]

ReadFile(data) ==
  LET url == CountedAt(data, 0)
      o   == 4 + Len(url)
  IN  [url |-> url, filesize |-> IntAt(data, o), blocksize |-> IntAt(data, o + 4),
       blockInfo |-> ReadBlockMap(CountedAt(data, o + 8))]

\* The n parts that stand one behind the other from o on, each with its size
\* in front: at[i] is where the first i of them end.
PartsAt(data, o, n) ==
  LET at[i \in 0..n] ==
        IF i = 0 THEN o ELSE LET last == at[i - 1] IN last + 4 + IntAt(data, last)
  IN  [i \in 1..n |-> CountedAt(data, at[i - 1])]

ReadClient(data) ==
  LET ip    == CountedAt(data, 0)
      o     == 4 + Len(ip)
      dir   == CountedAt(data, o + 8)
      count == o + 12 + Len(dir)
      parts == PartsAt(data, count + 4, IntAt(data, count))
  IN  [ip_address |-> ip, port |-> IntAt(data, o), socketfd |-> IntAt(data, o + 4),
       directory |-> dir, files |-> [i \in DOMAIN parts |-> ReadFile(parts[i])]]

\* Broken variant: by port only.
NotSelfByPort(self, c) == c.port # self.port

NotSelf(self, c) == ~(c.ip_address = self.ip_address /\ c.port = self.port)

\* queryTracker: the list the tracker sent, and what is kept of it.
ReadClients(data) ==
  LET parts == PartsAt(data, 4, IntAt(data, 0))
  IN  [i \in DOMAIN parts |-> ReadClient(parts[i])]

Peers(self, clients) ==
  FlattenSeq([i \in DOMAIN clients |->
                IF NotSelf(self, clients[i]) THEN <<clients[i]>> ELSE <<>>])

\* What the thread of a connection, of the tracker or of a client, takes from
\* the bytes that have come, and what it leaves.
Receive(stream) ==
  LET op   == IntAt(stream, 0)
      size == IF op = TRACKER_OP_QUERY THEN 0 ELSE IntAt(stream, 4)
  IN  [op |-> op, data |-> SubSeq(stream, 9, 8 + size),
       rest |-> SubSeq(stream, 9 + size, Len(stream))]

=============================================================================
