SPECIFICATION Spec
CONSTANTS
  a = a
  b = b
  ghost = ghost
  ipA = ipA
  ipB = ipB
  ipGhost = ipGhost
  Client = {a, b}
  Garbage = ghost
  AddressOf <- TwoHosts
  Starts <- Once
  Signalled = {a, b}
  Crashing = {a, b}
  Breaking = {a}
  h1 = h1
  h2 = h2
  Holding <- OneHolding
  Garbled <- GarbledAny
  SocketRoom = 2
INVARIANT TypeOK
INVARIANT InStep
INVARIANT OneEntryPerAddress
INVARIANT QuitForgets
PROPERTY ImplementsRegistry
CHECK_DEADLOCK FALSE
