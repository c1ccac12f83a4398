\* "Should have been in cache!": the eviction of the block a waiter waits for.
SPECIFICATION Spec
CONSTANTS
  vidA = vidA
  vidB = vidB
  Streamer = s
  Prefetcher = {}
  Server = {v}
  Querier = q
  Updater = u
  NoThread = none
  Name = {vidA, vidB}
  StoredName = {vidA, vidB}
  FileSize <- MCFileSize
  BlockSize = 100
  CacheSize = 200
  Offset <- NoOffset
  Retries = 1
  EvictBatch = 1
  EvictTries = 2
  PeerView <- NoPeers
  MaxResets = 0
INVARIANTS
  WaiterFindsBlock
