SPECIFICATION Spec
CONSTANTS
  nullptr = nullptr
  NoName = NoName
  Objects = {o1, o2, o3}
  GameIds = {g1}
  Names = {n1}
  Sockets <- TwoSockets
  BEST_OF = 1
  MAX_ERRORS = 1
  MaxReady = 2
  MaxPoints = 1
  Liberties = {"malformed", "takeover"}
SYMMETRY Symmetry
INVARIANTS
  
  UniqueNames
