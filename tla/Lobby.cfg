SPECIFICATION Spec
CONSTANTS
  nullptr = nullptr
  NoName = NoName
  Objects = {o1, o2, o3}
  GameIds = {g1, g2}
  Names = {n1, n2}
  Sockets <- MCSockets
  BEST_OF = 1
  MAX_ERRORS = 1
  MaxReady = 2
  MaxPoints = 1
  Liberties = {"malformed", "unordered"}
SYMMETRY Symmetry
INVARIANTS
  SeatsAgree
  StateTellsSeat
  
  SeatInv
PROPERTY ImplementsMatch
