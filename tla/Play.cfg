SPECIFICATION FairSession
CONSTANTS
  nullptr = nullptr
  NoName = NoName
  Objects = {o1, o2}
  GameIds = {g1}
  Names = {n1, n2}
  Sockets <- TwoSockets
  BEST_OF = 2
  MAX_ERRORS = 2
  MaxReady = 3
  MaxPoints = 2
  Liberties = {"malformed"}
  Merging = {}
  Free = {"start", "CREATE_GAME", "LIST_GAMES", "JOIN_GAME", "BACK_TO_MAIN_MENU", "REROLL", "ACCEPT_END_OF_ROUND"}
  Rare = {}
  MaxRare = 0
INVARIANTS
  TurnIsShown
  RoundGoesOn
PROPERTY EveryCommandIsAnswered
CHECK_DEADLOCK FALSE
