SPECIFICATION FairSpec
CONSTANTS
  Rooms = {r0, r1, r2, r3}
  MinOutbound = 2
  MaxOutbound = 3
INVARIANTS
  TypeOK CountsNeighbours BothWays AnAcceptableDrawExists
PROPERTIES
  ImplementsRoomGraph Terminates
