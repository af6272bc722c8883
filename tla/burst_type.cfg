SPECIFICATION Spec
CONSTANTS
  Players = {p1}
  Nobody = Nobody
  InitialLives = 2
  Enemies = 1
  BossLife = 3
  EntranceSteps = 2
  MaxBullets = 2
  SpreadShots = 1
  MaxSuccessiveShots = 3
CHECK_DEADLOCK FALSE
INVARIANTS
  BulletsGoingDownAreHostile
