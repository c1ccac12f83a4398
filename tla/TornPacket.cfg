SPECIFICATION Spec
CONSTANTS
  a = a
  b = b
  ghost = ghost
  ipA = ipA
  ipB = ipB
  ipGhost = ipGhost
  Client = {a, b}
  Garbage = ghost
  AddressOf <- TwoHosts
  Starts <- Once
  Signalled = {a, b}
  Crashing = {a, b}
  Breaking = {}
  h1 = h1
  h2 = h2
  Holding <- OneHolding
  Garbled <- GarbledGhost
  SocketRoom = 2
INVARIANT HeaderIsHeader
CHECK_DEADLOCK FALSE
