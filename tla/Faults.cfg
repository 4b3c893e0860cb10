SPECIFICATION MatchSpec
CONSTANTS
  nullptr = nullptr
  NoName = NoName
  Objects = {o1, o2, o3}
  GameIds = {g1}
  Names = {n1, n2}
  Sockets <- TwoSockets
  BEST_OF = 1
  MAX_ERRORS = 2
  MaxReady = 3
  MaxPoints = 1
  Liberties = {"malformed"}
  Merging = {"to_server"}
  Free = {}
  Rare = {"start", "CREATE_GAME", "LIST_GAMES", "JOIN_GAME", "BACK_TO_MAIN_MENU", "REROLL", "ACCEPT_END_OF_ROUND", "LEAVE_GAME", "LOGOUT", "quit", "cut"}
  MaxRare = 3
VIEW View
SYMMETRY Symmetry
INVARIANTS
  SessionTypeOK
  ReplyIsUnderWay
  
CHECK_DEADLOCK FALSE
