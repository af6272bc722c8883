SPECIFICATION Spec
CONSTANTS
  MaxSessions = 2
  Local = Local
  Nothing = Nothing
INVARIANTS
  SomethingToPress
  LobbyHasItsSocket
  PausePageIsOfTheMatch
  ToastsAreOwed
