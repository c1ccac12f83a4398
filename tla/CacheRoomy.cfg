\* A cache that never fills: a video is opened while another is fetched from a
\* peer, ranges begin anywhere, and a peer is served beside the streamer.
SPECIFICATION Spec
CONSTANTS
  vidA = vidA
  vidB = vidB
  Streamer = s
  Prefetcher = {}
  Server = {v}
  Querier = q
  Updater = u
  NoThread = none
  Name = {vidA, vidB}
  StoredName = {vidA}
  FileSize <- MCFileSize
  BlockSize = 100
  CacheSize = 100000
  Offset <- AnyOffset
  Retries = 2
  EvictBatch = 1
  EvictTries = 2
  PeerView <- PeerHasAll
  MaxResets = 0
INVARIANTS
  TypeOK
  LockDiscipline
  FetchOnlyMissing
  WaiterFindsBlock
  AccountNeverOver
