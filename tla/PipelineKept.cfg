CONSTANTS
  NumPlugins = 1
  MaxPackets = 3
  MaxSessions = 1
SPECIFICATION Spec
INVARIANT PacketsKept
CHECK_DEADLOCK FALSE
