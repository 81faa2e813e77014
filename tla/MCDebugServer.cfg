SPECIFICATION FairSpec
CONSTANTS
  Conns <- MCConns
  Server <- MCServer
  Script <- MCScript
  Scenarios <- MCScenarios
  MaxCommand = 2
  noReconnect = FALSE
INVARIANTS
  Watched
  OwnReplies
PROPERTIES
  CommandsAnswered
  Stops
CHECK_DEADLOCK FALSE
