SPECIFICATION FairSpec
CONSTANTS
  ByteMax = 7
  BufferSize = 4
  PacketMax = 3
  AppBytes = {0, 5}
  Commands <- MCCommands
  MaxApp = 2
  MaxCommands = 3
  UserBytes = {0, 2}
  Replies <- MCReplies
  MaxUser = 2
  MaxReplies = 2
INVARIANTS
  StreamsDelivered
  DelayKept
  NothingLeftBehind
  StreamsRecovered
PROPERTIES
  FlushEnds
  RepliesArrive
CHECK_DEADLOCK FALSE
