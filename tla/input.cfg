SPECIFICATION FairSpec
CONSTANTS
  Players = {p1}
  Moves = {LEFT}
  SHOOT = SHOOT
  ShotModulus = 3
  MaxInFlight = 4
  MaxOwed = 4
INVARIANTS
  EveryPressIsCounted
PROPERTIES
  ShipFollowsTheKeys
  HeldFireFallsSilent
