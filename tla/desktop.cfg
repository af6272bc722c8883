SPECIFICATION FairSpec
CONSTANTS
  MaxPlayersPerClient = 2
  MaxPlayersOnThisMachine = 2
  MaxTeams = 2
  MaxPlayersPerTeam = 2
  MaxMatchUps = 4
  KeysAtOnce = 2
  NoConfig = NoConfig
  NoSession = NoSession
INVARIANTS
  TypeOK
  PointersAreThere
  SessionPlaysTheSelection
  EndShowsThisMatch
PROPERTIES
  StartIsSeen
CHECK_DEADLOCK FALSE
