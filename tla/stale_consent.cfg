SPECIFICATION System
CONSTANTS
  Sockets = {c1, c2}
  NoPlayer = NoPlayer
  NotConnected = NotConnected
  NoGame = NoGame
  NoLobby = NoLobby
  MaxTeams = 2
  MaxPlayersPerTeam = 2
  MaxPlayersCoop = 4
  Kinds <- TeamKinds
  MaxPlayerId = 3
  MaxGameId = 1
  MaxUp = 1
  MaxDown = 2
PROPERTIES
  ReadyAgreesToTheTeams
CHECK_DEADLOCK FALSE
