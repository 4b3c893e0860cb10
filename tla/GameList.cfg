SPECIFICATION Spec
CONSTANTS
  GamesPerPage = 2
  MaxGameId = 6
INVARIANT TypeOK
PROPERTY NoGameIsSkipped
