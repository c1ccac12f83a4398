SPECIFICATION Spec
CONSTANT Sizes <- MCSizes
INVARIANTS TypeOK CursorAtFirstHole PacketsArriveAsSent PeersAreTheOthers
PROPERTY ImplementsBlockSet
