SPECIFICATION FairSpec
CONSTANTS
  a1 = a1
  a2 = a2
  b1 = b1
  NoBullet = NoBullet
  Players <- Trio
  Team <- TwoOnOne
  InitialLives = 2
  MaxBullets = 3
CHECK_DEADLOCK FALSE
INVARIANTS
  TypeOK
  EveryLifeLostIsScored
PROPERTIES
  VerdictMatchesSurvivors
  KeepsSimContract
  UncontestedMatchEnds
