\* A cache that two blocks fill, nothing else going wrong: evictions in every
\* order with the rest.
SPECIFICATION Spec
CONSTANTS
  vidA = vidA
  vidB = vidB
  Streamer = s
  Prefetcher = {}
  Server = {v}
  Querier = q
  Updater = u
  NoThread = none
  Name = {vidA, vidB}
  StoredName = {vidA, vidB}
  FileSize <- MCFileSize
  BlockSize = 100
  CacheSize = 200
  Offset <- NoOffset
  Retries = 1
  EvictBatch = 1
  EvictTries = 2
  PeerView <- NoPeers
  MaxResets = 0
INVARIANTS
  OnDisk
  MarkMeansDownload
  AccountingExact
PROPERTIES
  EvictionThorough
  ImplementsSharedCache
