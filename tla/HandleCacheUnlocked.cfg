\* handleCache without client_mutex, after a peer connection broke.
SPECIFICATION Spec
CONSTANTS
  vidA = vidA
  vidB = vidB
  Streamer = s
  Prefetcher = {}
  Server = {v}
  Querier = q
  Updater = u
  NoThread = none
  Name = {vidA, vidB}
  StoredName = {vidA, vidB}
  FileSize <- MCFileSize
  BlockSize = 100
  CacheSize = 200
  Offset <- NoOffset
  Retries = 1
  EvictBatch = 1
  EvictTries = 2
  PeerView <- SomePeers
  MaxResets = 1
INVARIANTS
  HandleCacheHoldsLocks
