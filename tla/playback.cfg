SPECIFICATION FairSpec
CONSTANTS
  Views = {"desktop_coop", "web_coop", "web_pvp"}
  Ids = {1, 2}
  Enemies = {e1}
  Bullets = {b1}
  Seats = 2
  Nobody = Nobody
  MaxTick = 4
  MaxInFlight = 2
INVARIANTS
  TypeOK
  DeathsExplodeOnce
  OnlyLostStatesBlendBullets
PROPERTIES
  NoShipJumps
  ViewCatchesUp
CHECK_DEADLOCK FALSE
