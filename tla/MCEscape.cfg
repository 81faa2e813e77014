SPECIFICATION FairSpec
CONSTANTS
  ByteMax = 7
  BufferSize = 4
  PacketMax = 3
  AppBytes = {}
  Commands = {}
  MaxApp = 0
  MaxCommands = 0
  UserBytes = {0, 6}
  Replies <- MCReplies
  MaxUser = 1
  MaxReplies = 1
INVARIANT StreamsRecovered
CHECK_DEADLOCK FALSE
