SPECIFICATION LinksSpec
CONSTANTS
  BufferMax = 2
  Streams <- MCStreams
  Size <- MCSize
  SkipCount <- MCSkipCount
  FifoMax = 5
  WriteMax = 2
  PortMax = 4
  NumWaypoints = 2
  ChunkMax = 2
  MaxClients = 2
  MaxBytes = 3
  Sessions = {1}
  Lines <- MCLines
  MaxLines = 3
  InMax = 3
  CommandMax = 2
  OutMax = 4
  AnswerSize = 2
  Quit <- MCQuit
  BadPath <- MCBadPath
  Newline = "nl"
INVARIANTS
  StreamIsWholePackets
  OneConnection
  BytesAreKept
  SessionsAreServed
PROPERTIES
  EveryLineExecuted
  EveryWaypointReported
CHECK_DEADLOCK FALSE
