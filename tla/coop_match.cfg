SPECIFICATION FairSpec
CONSTANTS
  Players = {p1, p2}
  Nobody = Nobody
  InitialLives = 2
  Enemies = 2
  BossLife = 2
  EntranceSteps = 2
  MaxBullets = 2
  SpreadShots = 1
  MaxSuccessiveShots = 3
CHECK_DEADLOCK FALSE
INVARIANTS
  TypeOK
  EveryHitIsScored
  BossComesAfterTheLastEnemy
PROPERTIES
  WonBySurvivors
  VerdictIsFinal
  KeepsSimContract
  DeadEnd
