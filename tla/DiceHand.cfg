SPECIFICATION Spec
INVARIANTS
  TypeOK
  ScoreRanksCombination
  
