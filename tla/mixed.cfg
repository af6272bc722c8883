SPECIFICATION Spec
CONSTANTS
  Sockets = {c1, c2, c3}
  NoPlayer = NoPlayer
  NotConnected = NotConnected
  NoGame = NoGame
  NoLobby = NoLobby
  MaxTeams = 2
  MaxPlayersPerTeam = 2
  MaxPlayersCoop = 4
  Kinds <- MixedKinds
  MaxPlayerId = 5
  MaxGameId = 2
SYMMETRY SocketSymmetry
INVARIANTS
  PoolsHoldLiveGames
  SimHoldsTheSeats
  NoClientIsStranded
PROPERTIES
  KeepsPromise
