CONSTANTS
  NumPlugins = 2
  MaxPackets = 2
  MaxSessions = 2
SPECIFICATION FairSpec
INVARIANTS TypeOK OneWorker NeverRejected
PROPERTIES DeliversInOrder FanOutCompletes TasksEnd
CHECK_DEADLOCK FALSE
