\* A peer connection breaks, and client_mutex is released once too often, while
\* three threads want the one block of a video; under fair scheduling.
SPECIFICATION FairSpec
CONSTANTS
  vidA = vidA
  vidB = vidB
  Streamer = s
  Prefetcher = {p}
  Server = {v}
  Querier = q
  Updater = u
  NoThread = none
  Name = {vidA}
  StoredName = {vidA}
  FileSize <- MCFileSize
  BlockSize = 200
  CacheSize = 140
  Offset <- NoOffset
  Retries = 1
  EvictBatch = 1
  EvictTries = 2
  PeerView <- PeerHasAll
  MaxResets = 1
INVARIANT
  SingleFlight
PROPERTIES CallReturns
