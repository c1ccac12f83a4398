\* Two videos of a block each, and three crashes.
SPECIFICATION Spec
CONSTANTS
  Name = {n, m}
  Phantom = phantom
  Block = {0}
  LastFolder = 4
  Starts = 4
SYMMETRY Symmetric
INVARIANTS
  TypeOK
  NextFolderIsFree
  OneFolderPerVideo
  NothingForgotten
  HeldIsWhole
CHECK_DEADLOCK FALSE
