\* Two prefetchers on one record, the second only while one video is asked for.
SPECIFICATION FairSpec
CONSTANTS
  vidA = vidA
  vidB = vidB
  Video = {vidA, vidB}
  Torn = torn
  FileSize <- MCFileSize
  BlockSize = 2
  Ahead = {1}
  Seek = {1, 3}
  Prefetcher = {p, q}
  Spare = {q}
INVARIANTS
  TypeOK
  PrefetchInsideVideo
  OneVideoGoesOn
PROPERTY PlaysToEnd
CHECK_DEADLOCK FALSE
