SPECIFICATION FairSystem
CONSTANTS
  Sockets = {c1, c2}
  NoPlayer = NoPlayer
  NotConnected = NotConnected
  NoGame = NoGame
  NoLobby = NoLobby
  MaxTeams = 2
  MaxPlayersPerTeam = 2
  MaxPlayersCoop = 4
  Kinds <- SmallKinds
  MaxPlayerId = 3
  MaxGameId = 2
  MaxUp = 1
  MaxDown = 2
INVARIANTS
  TheLastFrameIsTheTruth
PROPERTIES
  AbandonedMatchEnds
  ViewsCatchUp
CHECK_DEADLOCK FALSE
