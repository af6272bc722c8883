SPECIFICATION Spec
CONSTANTS
  Sockets = {c1, c2, c3}
  NoPlayer = NoPlayer
  NotConnected = NotConnected
  NoGame = NoGame
  NoLobby = NoLobby
  MaxTeams = 2
  MaxPlayersPerTeam = 2
  MaxPlayersCoop = 4
  Kinds <- TeamKinds
  MaxPlayerId = 5
  MaxGameId = 1
SYMMETRY SocketSymmetry
INVARIANTS
  TeamsInTheirSlots
  PlayersHaveTheirSeats
PROPERTIES
  StartsComplete
  OnlyDeparturesLeaveAStartableLobby
