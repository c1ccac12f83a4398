SPECIFICATION FairSpec
CONSTANTS
  a = a
  b = b
  ghost = ghost
  ipA = ipA
  ipB = ipB
  ipGhost = ipGhost
  Client = {a, b}
  Garbage = ghost
  AddressOf <- TwoHosts
  Starts <- BTwice
  Signalled = {}
  Crashing = {b}
  Breaking = {}
  h1 = h1
  h2 = h2
  Holding <- BChanges
  Garbled <- GarbledGhost
  SocketRoom = 1
PROPERTY Discovery
CHECK_DEADLOCK FALSE
