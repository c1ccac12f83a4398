\* Two clients that ask each other; one of them quits or crashes.
SPECIFICATION FairSpec
CONSTANTS
  a = a
  b = b
  x = x
  y = y
  Client = {a, b}
  Block = {x, y}
  Wanted <- MCWanted
  Leaving = {a}
INVARIANTS
  TypeOK
  CircleMeansDropped
  AnswerIsOwed
PROPERTY QuitIsNoticed
CHECK_DEADLOCK FALSE
