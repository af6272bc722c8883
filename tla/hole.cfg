SPECIFICATION Spec
CONSTANTS
  Views = {"desktop_pvp"}
  Ids = {1, 2}
  Enemies = {}
  Bullets = {}
  Seats = 2
  Nobody = Nobody
  MaxTick = 4
  MaxInFlight = 2
INVARIANT ShipsFollowTheStates
CHECK_DEADLOCK FALSE
